----------------------------- MODULE Operations -----------------------------
(* What an operator works with: the daemon behind its control socket, and    *)
(* the vulnerability panel with the scanner that fills it.  The two share no *)
(* variable, so a behaviour exercises one of them while the other rests.     *)
EXTENDS ControlPlane, VulnWatch

VARIABLE scanning    \* this behaviour is about the scanner and its panel

opsvars == <<scanning, vars, vulnvars>>

ControlOff == Init /\ panel = CHOOSE p \in Panels : TRUE

OpsInit ==
  /\ scanning \in BOOLEAN
  /\ IF scanning THEN ControlOff /\ VulnInit ELSE Init /\ VulnOff

OpsNext ==
  /\ UNCHANGED scanning
  /\ \/ scanning /\ VulnNext /\ UNCHANGED vars
     \/ ~scanning /\ Next /\ UNCHANGED vulnvars

OpsSpec == OpsInit /\ [][OpsNext]_opsvars
=============================================================================
