---------------------------- MODULE ScanService ----------------------------
(***************************************************************************)
(* What the scanner worker promises the rest of the system, without its    *)
(* threads, its subprocess and its clock: scans run one at a time, every   *)
(* scan that was announced is reported, an accepted trigger is resolved,   *)
(* and the process leaves nothing announced and unreported behind.         *)
(***************************************************************************)
CONSTANTS Scanners, None

VARIABLES running,  \* the scanner whose scan_started is not yet answered by a scan_completed
          owed,     \* scanners whose accepted trigger is not yet resolved
          up        \* the worker process exists

svars == <<running, owed, up>>

Init == running = None /\ owed = {} /\ up = TRUE

\* run_scanner accepted
Accept(s) ==
  /\ up /\ owed' = owed \cup {s}
  /\ UNCHANGED <<running, up>>

\* scan_started
Start(s) ==
  /\ up /\ running = None
  /\ running' = s /\ owed' = owed \ {s}
  /\ UNCHANGED up

\* scan_skipped, resolving the trigger
Skip(s) ==
  /\ up /\ s \in owed
  /\ owed' = owed \ {s}
  /\ UNCHANGED <<running, up>>

\* scan_completed
Complete ==
  /\ up /\ running # None
  /\ running' = None
  /\ UNCHANGED <<owed, up>>

Exit ==
  /\ up /\ running = None
  /\ up' = FALSE
  /\ UNCHANGED <<running, owed>>

Next == Complete \/ Exit \/ \E s \in Scanners : Accept(s) \/ Start(s) \/ Skip(s)

\* An announced scan is reported, an accepted trigger is resolved or the
\* process is gone.
Live == /\ \A s \in Scanners : s \in owed ~> (s \notin owed \/ ~up)
        /\ running # None ~> running = None

Spec == Init /\ [][Next]_svars /\ Live
=============================================================================
