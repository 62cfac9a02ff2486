----------------------------- MODULE Detection -----------------------------
(* How stored and passing events are asked about: the scheduled hunts, the    *)
(* language that hunts and rules are written in, and the history that rules   *)
(* correlate over.  They share no variable, so a behaviour exercises one of   *)
(* them while the others rest.                                                *)
EXTENDS HuntSchedule, HuntConsole, RuleHistory

VARIABLE subject    \* the part this behaviour is about

detvars == <<subject, vars, huntvars, rulevars>>

DetInit ==
  /\ subject \in {"schedule", "language", "rules"}
  /\ Init /\ HuntInit
  /\ IF subject = "rules" THEN RuleInit ELSE RuleOff

DetNext ==
  /\ UNCHANGED subject
  /\ \/ subject = "schedule" /\ Next /\ UNCHANGED <<huntvars, rulevars>>
     \/ subject = "language" /\ HuntNext /\ UNCHANGED <<vars, rulevars>>
     \/ subject = "rules" /\ RuleNext /\ UNCHANGED <<vars, huntvars>>

\* The scheduler's thread keeps running, an interval is finite, and a backoff ends.
DetSpec ==
  /\ DetInit /\ [][DetNext]_detvars
  /\ WF_vars(subject = "schedule" /\ Run)
  /\ \A q \in Queries :
       /\ SF_vars(subject = "schedule" /\ \E D \in SUBSET Queries : q \in D /\ Tick(D))
       /\ SF_vars(subject = "schedule" /\ RunStart(q))
=============================================================================
