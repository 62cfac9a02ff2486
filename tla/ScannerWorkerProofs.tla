------------------------ MODULE ScannerWorkerProofs ------------------------
(***************************************************************************)
(* The scanner worker keeps its promises for any scanners, any schedule    *)
(* and any commands: it implements the safety of ScanService, leaves no    *)
(* scanner behind, stays within the stop budget, sleeps on no trigger,     *)
(* grants one retry and reports what the scan found.                       *)
(***************************************************************************)
EXTENDS ScannerWorker, FiniteSetTheorems, TLAPS

Joining == {"join", "join_again", "report"}       \* teardown holds the run
Joined  == {"join_again", "report", "leave", "exited"}
Runs    == [scanner : Enabled, scheduled : BOOLEAN]
Running == {"await", "term_cancelled", "term_timeout", "kill_cancelled", "kill_timeout"}

(* A scan is announced and not yet reported while step() or teardown() has *)
(* its run in hand, and no two runs are ever in hand.                      *)
FlightInv ==
  /\ active # None => main \notin Joining \cup {"leave", "exited"} /\ open = active.scanner
  /\ main \in Joining => tearing # None /\ open = tearing.scanner
  /\ active = None /\ main \notin Joining => open = None

(* The subprocess is only there while the job thread works on it, and a    *)
(* teardown past its first join has killed what is there.                  *)
JobInv ==
  /\ job \in {"none", "spawning", "spawned", "done"} \cup Running
  /\ child = [st |-> child.st, end |-> child.end]
  /\ active = None /\ main \notin Joining \cup {"leave", "exited"} => job = "none"
  /\ job \in {"none", "spawning", "done"} => child.st # "alive"
  /\ job \in Running => registered
  /\ main \in Joined => job \notin {"spawning", "spawned"} /\ child.st # "alive"

(* A stop is followed by a wake until the loop looks at _stop again, so    *)
(* only the joins spend the budget.                                        *)
StopInv ==
  /\ stop /\ main \in {"top", "clear", "poll", "scan", "wait"} => wake
  /\ main \notin Joined => spent = 0
  /\ main = "join_again" => spent <= ShutdownGrace
  /\ spent <= 2 * ShutdownGrace

(* A trigger behind the loop's position was added during this step.        *)
TriggerInv ==
  main = "scan" /\ active = None /\ ~wake /\ reader # "accepted" =>
    \A i \in 1..(idx - 1) : Order[i] \notin runNext

(* A retry was granted exactly to the scanners whose flag is set.          *)
RetryInv == streak = [s \in Scanners |-> IF retried[s] THEN 1 ELSE 0]

IInv == /\ TypeOK /\ FlightInv /\ JobInv /\ StopInv /\ TriggerInv /\ TriggerWakes /\ RetryInv

-----------------------------------------------------------------------------
(* What the operations that several actions share do.                      *)

Slots == 0..(IntervalT + StartupT)

(* The two delays a slot can be given are slots.                           *)
LEMMA Delays == BackoffT \in Slots /\ IntervalT \in Slots
BY ScannerConstants DEF Slots

(* _finish_run closes the announced scan, keeps the schedule's types and   *)
(* grants a retry together with its flag; of the slots it moves only the   *)
(* one of a scheduled run.                                                 *)
LEMMA FinishRun ==
  ASSUME TypeOK, RetryInv, NEW run \in Runs, NEW res, finish_run(run, res)
  PROVE  /\ open' = None
         /\ due' \in [Scanners -> Slots]
         /\ retried' \in [Scanners -> BOOLEAN] /\ notified' \subseteq Enabled
         /\ RetryInv'
         /\ \A s \in Scanners : due'[s] # due[s] => run.scheduled /\ s = run.scanner
<1>1. PICK raises \in {"none", "interpret", "parse"} :
        /\ emit_completed(run, Classify(res, raises), res)
        /\ IF run.scheduled
             THEN reschedule(run.scanner, Classify(res, raises)[1], Classify(res, raises)[2])
             ELSE UNCHANGED <<due, retried, notified, streak>>
  BY Zenon DEF finish_run
<1>2. open' = None
  BY <1>1, Zenon DEF emit_completed
<1>3. run.scanner \in Scanners /\ run.scheduled \in BOOLEAN
  BY ScannerConstants, Zenon DEF Runs
<1>4. CASE ~run.scheduled
  BY <1>1, <1>2, <1>4, Zenon DEF TypeOK, RetryInv, Slots
<1>5. CASE run.scheduled
  <2>1. \/ /\ ~retried[run.scanner]
           /\ retried' = [retried EXCEPT ![run.scanner] = TRUE]
           /\ due' = [due EXCEPT ![run.scanner] = BackoffT]
           /\ notified' = notified \ {run.scanner}
           /\ streak' = [streak EXCEPT ![run.scanner] = @ + 1]
        \/ /\ retried' = [retried EXCEPT ![run.scanner] = FALSE]
           /\ due' = [due EXCEPT ![run.scanner] = IntervalT]
           /\ notified' = notified \ {run.scanner}
           /\ streak' = [streak EXCEPT ![run.scanner] = 0]
    BY <1>1, <1>5, Zenon DEF reschedule, consume_slot
  <2>2. /\ due' \in [Scanners -> Slots] /\ retried' \in [Scanners -> BOOLEAN]
        /\ notified' \subseteq Enabled
    <3>1. due \in [Scanners -> Slots] /\ retried \in [Scanners -> BOOLEAN]
          /\ notified \subseteq Enabled
      BY Zenon DEF TypeOK, Slots
    <3>2. due' \in [Scanners -> Slots]
      BY <2>1, <3>1, Delays, Zenon
    <3>. QED BY <2>1, <3>1, <3>2, Zenon
  <2>3. RetryInv'
    <3>1. CASE ~retried[run.scanner] /\ retried' = [retried EXCEPT ![run.scanner] = TRUE]
               /\ streak' = [streak EXCEPT ![run.scanner] = @ + 1]
      BY <3>1, <1>3 DEF TypeOK, RetryInv
    <3>2. CASE retried' = [retried EXCEPT ![run.scanner] = FALSE]
               /\ streak' = [streak EXCEPT ![run.scanner] = 0]
      BY <3>2, Zenon DEF TypeOK, RetryInv
    <3>. QED BY <2>1, <3>1, <3>2, Zenon
  <2>4. \A s \in Scanners : due'[s] # due[s] => s = run.scanner
    BY <2>1, Zenon DEF TypeOK
  <2>. QED BY <1>2, <1>5, <2>2, <2>3, <2>4, Zenon
<1>. QED BY <1>3, <1>4, <1>5, Zenon

(* A run is not None.                                                      *)
LEMMA NewRun ==
  ASSUME NEW s \in Enabled, NEW scheduled \in BOOLEAN
  PROVE  [scanner |-> s, scheduled |-> scheduled] \in Runs \ {None}
BY ScannerConstants DEF Runs

(* _start_run settles the trigger; it launches the scan or skips it, and   *)
(* moves the slot only if that was due.                                    *)
LEMMA StartRun ==
  ASSUME TypeOK, RetryInv, NEW s \in Enabled, NEW scheduled \in BOOLEAN, start_run(s, scheduled)
  PROVE  /\ runNext' = runNext \ {s}
         /\ due' \in [Scanners -> Slots]
         /\ retried' \in [Scanners -> BOOLEAN] /\ notified' \subseteq Enabled
         /\ RetryInv'
         /\ \A t \in Scanners : due'[t] # due[t] => scheduled /\ t = s
         /\ \/ /\ active' \in Runs /\ active' # None /\ active'.scanner = s /\ open' = s
               /\ job' = "spawning" /\ UNCHANGED <<registered, child>>
            \/ UNCHANGED <<active, open, job, registered, child>>
<1>1. s \in Scanners
  BY ScannerConstants, Zenon
<1>2. PICK reason \in SkipReasons[s] :
        IF reason = Ready THEN launch(s, scheduled) ELSE skip_slot(s, scheduled)
  BY Zenon DEF start_run
<1>3. runNext' = runNext \ {s}
  BY Zenon DEF start_run
<1>4. CASE reason = Ready
  <2>1. launch(s, scheduled)
    BY <1>2, <1>4, Zenon
  <2>2. RetryInv' /\ retried' \in [Scanners -> BOOLEAN]
    BY <2>1, Zenon DEF launch, RetryInv, TypeOK
  <2>3. /\ due' \in [Scanners -> Slots] /\ notified' \subseteq Enabled
        /\ \A t \in Scanners : due'[t] # due[t] => scheduled /\ t = s
    BY <2>1, Delays DEF launch, consume_slot, TypeOK, Slots
  <2>4. /\ active' \in Runs /\ active' # None /\ active'.scanner = s /\ open' = s
        /\ job' = "spawning" /\ UNCHANGED <<registered, child>>
    BY <2>1, NewRun, Zenon DEF launch, emit_started
  <2>. QED BY <1>3, <2>2, <2>3, <2>4, Zenon
<1>5. CASE reason # Ready
  <2>1. skip_slot(s, scheduled)
    BY <1>2, <1>5, Zenon
  <2>2. RetryInv' /\ retried' \in [Scanners -> BOOLEAN]
    BY <2>1, <1>1, Zenon DEF skip_slot, RetryInv, TypeOK
  <2>3. /\ due' \in [Scanners -> Slots] /\ notified' \subseteq Enabled
        /\ \A t \in Scanners : due'[t] # due[t] => scheduled /\ t = s
    BY <2>1, Delays DEF skip_slot, consume_slot, TypeOK, Slots
  <2>. QED BY <1>3, <2>1, <2>2, <2>3, Zenon DEF skip_slot, emit_skipped, jobVars
<1>. QED BY <1>4, <1>5, Zenon

(* SIGKILL leaves no live process.                                         *)
LEMMA Killed ==
  ASSUME NEW c, c = [st |-> c.st, end |-> c.end]
  PROVE  /\ Kill(c) = [st |-> Kill(c).st, end |-> Kill(c).end]
         /\ Kill(c).st \in {c.st, "dead"} /\ Kill(c).st # "alive"
BY Zenon DEF Kill

(* SIGTERM leaves the process as it was, or dead.                          *)
LEMMA Terminated ==
  ASSUME NEW c, c = [st |-> c.st, end |-> c.end], NEW d \in Terminate(c)
  PROVE  d = [st |-> d.st, end |-> d.end] /\ d.st \in {c.st, "dead"}
BY Killed, Zenon DEF Terminate

-----------------------------------------------------------------------------
(* Every action keeps the invariant.                                       *)

(* SIGTERM sets _stop and _wake in one handler.                            *)
LEMMA request_stopKeeps ==
  ASSUME IInv, request_stop
  PROVE  IInv'
<1>0. /\ TypeOK /\ FlightInv /\ JobInv /\ StopInv /\ TriggerInv /\ TriggerWakes /\ RetryInv
  BY Zenon DEF IInv
<1>1. TypeOK'
  BY <1>0 DEF request_stop, schedVars, jobVars, cmdVars, outVars, TypeOK
<1>2. StopInv'
  BY <1>0, Zenon DEF request_stop, StopInv
<1>3. TriggerInv' /\ TriggerWakes'
  BY Zenon DEF request_stop, TriggerInv, TriggerWakes
<1>4. FlightInv' /\ JobInv' /\ RetryInv'
  BY <1>0, Zenon DEF request_stop, schedVars, jobVars, outVars, FlightInv, JobInv, RetryInv
<1>. QED BY <1>1, <1>2, <1>3, <1>4, Zenon DEF IInv

(* The loop condition changes the position only.                           *)
LEMMA LoopTopKeeps ==
  ASSUME IInv, LoopTop
  PROVE  IInv'
<1>0. /\ TypeOK /\ FlightInv /\ JobInv /\ StopInv /\ TriggerInv /\ TriggerWakes /\ RetryInv
  BY Zenon DEF IInv
<1>1. TypeOK'
  BY <1>0, Zenon DEF LoopTop, Goto, schedVars, jobVars, cmdVars, outVars, TypeOK
<1>2. FlightInv' /\ JobInv'
  BY <1>0, Zenon DEF LoopTop, Goto, schedVars, jobVars, outVars, FlightInv, JobInv, Joining, Joined
<1>3. StopInv'
  BY <1>0, ScannerConstants DEF LoopTop, StopInv, Joined
<1>4. TriggerInv' /\ TriggerWakes'
  BY Zenon DEF LoopTop, Goto, TriggerInv, TriggerWakes
<1>5. RetryInv'
  BY <1>0, Zenon DEF LoopTop, schedVars, RetryInv
<1>. QED BY <1>1, <1>2, <1>3, <1>4, <1>5, Zenon DEF IInv

(* Clearing _wake leaves the wait for the second look at _stop.            *)
LEMMA LoopClearKeeps ==
  ASSUME IInv, LoopClear
  PROVE  IInv'
<1>0. /\ TypeOK /\ FlightInv /\ JobInv /\ StopInv /\ TriggerInv /\ TriggerWakes /\ RetryInv
  BY Zenon DEF IInv
<1>1. TypeOK'
  BY <1>0, ScannerConstants, Zenon DEF LoopClear, Goto, loopVars, schedVars, jobVars, cmdVars,
     outVars, TypeOK
<1>2. FlightInv' /\ JobInv'
  BY <1>0, Zenon DEF LoopClear, Goto, schedVars, jobVars, outVars, FlightInv, JobInv, Joining,
     Joined
<1>3. StopInv'
  BY <1>0, Zenon DEF LoopClear, Goto, StopInv, Joined
<1>4. TriggerInv' /\ TriggerWakes'
  BY Zenon DEF LoopClear, Goto, TriggerInv, TriggerWakes
<1>5. RetryInv'
  BY <1>0, Zenon DEF LoopClear, schedVars, RetryInv
<1>. QED BY <1>1, <1>2, <1>3, <1>4, <1>5, Zenon DEF IInv

(* Past the second look at _stop no stop is pending.                       *)
LEMMA LoopCheckKeeps ==
  ASSUME IInv, LoopCheck
  PROVE  IInv'
<1>0. /\ TypeOK /\ FlightInv /\ JobInv /\ StopInv /\ TriggerInv /\ TriggerWakes /\ RetryInv
  BY Zenon DEF IInv
<1>1. TypeOK'
  BY <1>0, Zenon DEF LoopCheck, Goto, schedVars, jobVars, cmdVars, outVars, TypeOK
<1>2. FlightInv' /\ JobInv'
  BY <1>0, Zenon DEF LoopCheck, Goto, schedVars, jobVars, outVars, FlightInv, JobInv, Joining,
     Joined
<1>3. StopInv'
  BY <1>0, Zenon DEF LoopCheck, Goto, StopInv, Joined
<1>4. TriggerInv' /\ TriggerWakes'
  BY Zenon DEF LoopCheck, Goto, TriggerInv, TriggerWakes
<1>5. RetryInv'
  BY <1>0, Zenon DEF LoopCheck, schedVars, RetryInv
<1>. QED BY <1>1, <1>2, <1>3, <1>4, <1>5, Zenon DEF IInv

(* step() reports the run whose thread is done.                            *)
LEMMA StepPollKeeps ==
  ASSUME IInv, StepPoll
  PROVE  IInv'
<1>0. TypeOK /\ FlightInv /\ JobInv /\ StopInv /\ RetryInv
  BY Zenon DEF IInv
<1>1. StopInv' /\ TriggerInv' /\ TriggerWakes'
  BY <1>0 DEF StepPoll, Goto, StopInv, Joined, TriggerInv, TriggerWakes
<1>2. CASE ~(active # None /\ job = "done")
  <2>1. TypeOK'
    BY <1>0, <1>2 DEF StepPoll, Goto, schedVars, jobVars, outVars, cmdVars, TypeOK
  <2>2. FlightInv' /\ JobInv' /\ RetryInv'
    BY <1>0, <1>2, Zenon DEF StepPoll, Goto, schedVars, jobVars, outVars, FlightInv, JobInv,
       Joining, Joined, RetryInv
  <2>. QED BY <1>1, <2>1, <2>2, Zenon DEF IInv
<1>3. CASE active # None /\ job = "done"
  <2>1. active \in Runs /\ finish_run(active, result)
    BY <1>0, <1>3, Zenon DEF StepPoll, TypeOK, Runs
  <2>2. /\ open' = None /\ due' \in [Scanners -> Slots] /\ retried' \in [Scanners -> BOOLEAN]
        /\ notified' \subseteq Enabled /\ RetryInv'
    BY <1>0, <2>1, FinishRun, Zenon
  <2>3. /\ main = "poll" /\ main' = "scan" /\ idx' = 1 /\ active' = None /\ job' = "none"
        /\ UNCHANGED <<child, registered, runNext, stop, wake, spent, tearing, lines>>
    BY <1>3, Zenon DEF StepPoll, Goto, cmdVars
  <2>4. TypeOK'
    BY <1>0, <2>2, <2>3 DEF TypeOK, Slots
  <2>5. FlightInv' /\ JobInv'
    BY <1>0, <1>3, <2>2, <2>3, Zenon DEF FlightInv, JobInv, Joining, Running
  <2>. QED BY <1>1, <2>2, <2>4, <2>5, Zenon DEF IInv
<1>. QED BY <1>2, <1>3, Zenon

(* One scanner of the loop: started or skipped, refused, or passed by.     *)
LEMMA StepScanKeeps ==
  ASSUME IInv, StepScan
  PROVE  IInv'
<1> DEFINE s == Order[idx]
<1>0. TypeOK /\ FlightInv /\ JobInv /\ StopInv /\ TriggerInv /\ RetryInv
  BY Zenon DEF IInv
<1>1. /\ main = "scan" /\ idx \in 1..Len(Order) /\ idx' = idx + 1 /\ s \in Scanners
      /\ idx' \in 1..(Len(Order) + 1)
      /\ UNCHANGED <<main, stop, wake, spent, tearing, reader, lines>>
  BY <1>0, ScannerConstants DEF StepScan, TypeOK, cmdVars
<1>2. StopInv' /\ TriggerWakes'
  BY <1>0, <1>1, Zenon DEF StopInv, TriggerWakes
<1>3. CASE s \in Enabled /\ active = None /\ start_run(s, due[s] = 0)
  <2>1. /\ runNext' = runNext \ {s}
        /\ due' \in [Scanners -> Slots] /\ retried' \in [Scanners -> BOOLEAN]
        /\ notified' \subseteq Enabled /\ RetryInv'
        /\ \/ /\ active' \in Runs /\ active' # None /\ active'.scanner = s /\ open' = s
              /\ job' = "spawning" /\ UNCHANGED <<registered, child>>
           \/ UNCHANGED <<active, open, job, registered, child>>
    <3>1. (due[s] = 0) \in BOOLEAN
      BY Zenon
    <3>. QED BY <1>0, <1>3, <3>1, StartRun, Zenon
  <2>2. TypeOK'
    <3>1. active' \in {None} \cup Runs /\ open' \in {None} \cup Enabled /\ child' = child
      BY <1>0, <1>3, <2>1, Zenon DEF TypeOK
    <3>. QED BY <1>0, <1>1, <2>1, Zenon DEF TypeOK, Slots, Runs
  <2>3. FlightInv' /\ JobInv'
    BY <1>0, <1>1, <1>3, <2>1, Zenon DEF FlightInv, JobInv, Joining, Joined, Running
  <2>4. TriggerInv'
    BY <1>0, <1>1, <2>1 DEF TriggerInv
  <2>. QED BY <1>2, <2>1, <2>2, <2>3, <2>4, Zenon DEF IInv
<1>4. CASE s \in Enabled /\ active # None /\ notify_in_flight(s)
  <2>1. /\ notified' = notified \cup {s}
        /\ UNCHANGED <<open, active, due, retried, runNext, streak, jobVars>>
    BY <1>4, Zenon DEF notify_in_flight, emit_skipped
  <2>2. TypeOK'
    BY <1>0, <1>1, <1>4, <2>1, Zenon DEF TypeOK, jobVars
  <2>3. FlightInv' /\ JobInv' /\ RetryInv' /\ TriggerInv'
    BY <1>0, <1>1, <1>4, <2>1, Zenon DEF FlightInv, JobInv, RetryInv, TriggerInv, jobVars
  <2>. QED BY <1>2, <2>2, <2>3, Zenon DEF IInv
<1>5. CASE /\ ~(s \in Enabled /\ (due[s] = 0 \/ (s \in runNext /\ active = None)))
           /\ UNCHANGED <<schedVars, jobVars, open>>
  <2>1. TypeOK'
    BY <1>0, <1>1, <1>5, Zenon DEF TypeOK, schedVars, jobVars
  <2>2. FlightInv' /\ JobInv' /\ RetryInv'
    BY <1>0, <1>1, <1>5, Zenon DEF FlightInv, JobInv, RetryInv, schedVars, jobVars
  <2>3. TriggerInv'
    BY <1>0, <1>1, <1>5 DEF TypeOK, TriggerInv, schedVars
  <2>. QED BY <1>2, <2>1, <2>2, <2>3, Zenon DEF IInv
<1>. QED BY <1>3, <1>4, <1>5, Zenon DEF StepScan

(* The whole loop over the scanners leaves no trigger it could serve.      *)
LEMMA StepEndKeeps ==
  ASSUME IInv, StepEnd
  PROVE  IInv'
<1>0. /\ TypeOK /\ FlightInv /\ JobInv /\ StopInv /\ TriggerInv /\ TriggerWakes /\ RetryInv
  BY Zenon DEF IInv
<1>1. TypeOK'
  BY <1>0 DEF StepEnd, Goto, schedVars, jobVars, cmdVars, outVars, TypeOK
<1>2. FlightInv' /\ JobInv'
  BY <1>0, ScannerConstants, Zenon DEF StepEnd, Goto, loopVars, schedVars, jobVars, cmdVars,
     outVars, TypeOK, FlightInv, JobInv, Joining, Joined, Running
<1>3. StopInv'
  BY <1>0, ScannerConstants DEF StepEnd, StopInv, Joined
<1>4. TriggerInv' /\ TriggerWakes'
  BY <1>0, ScannerConstants DEF StepEnd, schedVars, cmdVars, TypeOK, TriggerInv,
     TriggerWakes
<1>5. RetryInv'
  BY <1>0, Zenon DEF StepEnd, schedVars, RetryInv
<1>. QED BY <1>1, <1>2, <1>3, <1>4, <1>5, Zenon DEF IInv

(* A wait that finds _wake set spends nothing.                             *)
LEMMA WaitWokenKeeps ==
  ASSUME IInv, WaitWoken
  PROVE  IInv'
<1>0. /\ TypeOK /\ FlightInv /\ JobInv /\ StopInv /\ TriggerInv /\ TriggerWakes /\ RetryInv
  BY Zenon DEF IInv
<1>1. TypeOK'
  BY <1>0, Zenon DEF WaitWoken, Goto, schedVars, jobVars, cmdVars, outVars, TypeOK
<1>2. FlightInv' /\ JobInv'
  BY <1>0, Zenon DEF WaitWoken, Goto, schedVars, jobVars, outVars, FlightInv, JobInv, Joining,
     Joined
<1>3. StopInv'
  BY <1>0, ScannerConstants DEF WaitWoken, StopInv, Joined
<1>4. TriggerInv' /\ TriggerWakes'
  BY Zenon DEF WaitWoken, TriggerInv, TriggerWakes
<1>5. RetryInv'
  BY <1>0, Zenon DEF WaitWoken, schedVars, RetryInv
<1>. QED BY <1>1, <1>2, <1>3, <1>4, <1>5, Zenon DEF IInv

(* A wait that lasts a tick is one nobody asked to stop.                   *)
LEMMA WaitTickKeeps ==
  ASSUME IInv, WaitTick
  PROVE  IInv'
<1>0. /\ TypeOK /\ FlightInv /\ JobInv /\ StopInv /\ TriggerInv /\ TriggerWakes /\ RetryInv
  BY Zenon DEF IInv
<1>1. TypeOK'
  BY <1>0, ScannerConstants DEF WaitTick, Goto, Spend, jobVars, outVars, TypeOK
<1>2. FlightInv' /\ JobInv'
  BY <1>0, Zenon DEF WaitTick, Goto, jobVars, outVars, FlightInv, JobInv, Joining, Joined
<1>3. StopInv'
  BY <1>0, ScannerConstants DEF WaitTick, Spend, cmdVars, StopInv, Joined
<1>4. TriggerInv' /\ TriggerWakes'
  BY <1>0, Zenon DEF WaitTick, schedVars, TriggerInv, TriggerWakes
<1>5. RetryInv'
  BY <1>0, Zenon DEF WaitTick, RetryInv
<1>. QED BY <1>1, <1>2, <1>3, <1>4, <1>5, Zenon DEF IInv

(* The job thread spawns the scanner or reports that it could not.         *)
LEMMA JobSpawnKeeps ==
  ASSUME IInv, JobSpawn
  PROVE  IInv'
<1>0. TypeOK /\ FlightInv /\ JobInv /\ StopInv /\ TriggerInv /\ TriggerWakes /\ RetryInv
  BY Zenon DEF IInv
<1>1. /\ \/ child' = [st |-> "alive", end |-> NoEnd] /\ job' = "spawned"
         \/ child' = [st |-> "none", end |-> NoEnd] /\ job' = "done"
      /\ job = "spawning" /\ main # "exited"
      /\ UNCHANGED <<loopVars, tearing, schedVars, cmdVars, outVars>>
  BY Zenon DEF JobSpawn, finish, NoChild, Alive
<1>2. TypeOK'
  BY <1>0, <1>1 DEF TypeOK, loopVars, schedVars, cmdVars, outVars
<1>3. JobInv'
  BY <1>0, <1>1 DEF JobInv, Running, loopVars, schedVars
<1>4. FlightInv' /\ StopInv' /\ TriggerInv' /\ TriggerWakes' /\ RetryInv'
  BY <1>0, <1>1, Zenon DEF FlightInv, StopInv, TriggerInv, TriggerWakes, RetryInv, loopVars,
     schedVars, cmdVars, outVars
<1>. QED BY <1>2, <1>3, <1>4, Zenon DEF IInv

(* The job thread publishes its process before it waits for it.            *)
LEMMA JobRegisterKeeps ==
  ASSUME IInv, JobRegister
  PROVE  IInv'
<1>0. /\ TypeOK /\ FlightInv /\ JobInv /\ StopInv /\ TriggerInv /\ TriggerWakes /\ RetryInv
  BY Zenon DEF IInv
<1>1. FlightInv' /\ JobInv'
  BY <1>0, Zenon DEF JobRegister, TermAt, loopVars, schedVars, outVars, TypeOK, FlightInv, JobInv,
     Running
<1>2. TypeOK' /\ StopInv' /\ TriggerInv' /\ TriggerWakes' /\ RetryInv'
  BY <1>0 DEF JobRegister, loopVars, schedVars, cmdVars, outVars, TypeOK, StopInv,
     TriggerInv, TriggerWakes, RetryInv
<1>. QED BY <1>1, <1>2, Zenon DEF IInv

(* A scanner ends by itself.                                               *)
LEMMA ChildExitKeeps ==
  ASSUME IInv, ChildExit
  PROVE  IInv'
<1>0. /\ TypeOK /\ FlightInv /\ JobInv /\ StopInv /\ TriggerInv /\ TriggerWakes /\ RetryInv
  BY Zenon DEF IInv
<1>1. TypeOK'
  BY <1>0 DEF ChildExit, loopVars, schedVars, cmdVars, outVars, TypeOK
<1>2. FlightInv' /\ JobInv'
  BY <1>0, Zenon DEF ChildExit, loopVars, schedVars, outVars, FlightInv, JobInv
<1>3. StopInv' /\ TriggerInv' /\ TriggerWakes' /\ RetryInv'
  BY <1>0, Zenon DEF ChildExit, loopVars, schedVars, cmdVars, StopInv, TriggerInv, TriggerWakes,
     RetryInv
<1>. QED BY <1>1, <1>2, <1>3, Zenon DEF IInv

(* The job thread reaps the scanner that ended.                            *)
LEMMA JobAwaitKeeps ==
  ASSUME IInv, JobAwait
  PROVE  IInv'
<1>0. /\ TypeOK /\ FlightInv /\ JobInv /\ StopInv /\ TriggerInv /\ TriggerWakes /\ RetryInv
  BY Zenon DEF IInv
<1>1. TypeOK'
  BY <1>0 DEF JobAwait, finish, Alive, NoChild, loopVars, schedVars, cmdVars, outVars,
     TypeOK
<1>2. FlightInv' /\ JobInv'
  BY <1>0, Zenon DEF JobAwait, finish, NoChild, loopVars, schedVars, outVars, FlightInv, JobInv,
     Running
<1>3. StopInv' /\ TriggerInv' /\ TriggerWakes' /\ RetryInv'
  BY <1>0, Zenon DEF JobAwait, loopVars, schedVars, cmdVars, StopInv, TriggerInv, TriggerWakes,
     RetryInv
<1>. QED BY <1>1, <1>2, <1>3, Zenon DEF IInv

(* The scan's timeout passes.                                              *)
LEMMA JobDeadlineKeeps ==
  ASSUME IInv, JobDeadline
  PROVE  IInv'
<1>0. /\ TypeOK /\ FlightInv /\ JobInv /\ StopInv /\ TriggerInv /\ TriggerWakes /\ RetryInv
  BY Zenon DEF IInv
<1>1. FlightInv' /\ JobInv'
  BY <1>0, Zenon DEF JobDeadline, TermAt, loopVars, schedVars, outVars, FlightInv, JobInv, Running
<1>2. TypeOK' /\ StopInv' /\ TriggerInv' /\ TriggerWakes' /\ RetryInv'
  BY <1>0 DEF JobDeadline, loopVars, schedVars, cmdVars, outVars, TypeOK, StopInv,
     TriggerInv, TriggerWakes, RetryInv
<1>. QED BY <1>1, <1>2, Zenon DEF IInv

(* SIGTERM to the group leaves the scanner or not.                         *)
LEMMA JobTermKeeps ==
  ASSUME IInv, NEW kind \in {"cancelled", "timeout"}, JobTerm(kind)
  PROVE  IInv'
<1>0. TypeOK /\ FlightInv /\ JobInv /\ StopInv /\ TriggerInv /\ TriggerWakes /\ RetryInv
  BY Zenon DEF IInv
<1>1. /\ job \in {"term_cancelled", "term_timeout"} /\ job' \in {"kill_cancelled", "kill_timeout"}
      /\ child' \in Terminate(child)
      /\ UNCHANGED <<loopVars, tearing, schedVars, registered, cmdVars, outVars>>
  BY DEF JobTerm, TermAt, KillAt
<1>2. /\ child'.st \in {child.st, "dead"} /\ child' = [st |-> child'.st, end |-> child'.end]
  BY <1>0, <1>1, Terminated, Zenon DEF JobInv
<1>3. TypeOK'
  BY <1>0, <1>1, <1>2 DEF TypeOK, loopVars, schedVars, cmdVars, outVars
<1>4. JobInv'
  BY <1>0, <1>1, <1>2, Zenon DEF JobInv, Running, loopVars, schedVars
<1>5. FlightInv' /\ StopInv' /\ TriggerInv' /\ TriggerWakes' /\ RetryInv'
  BY <1>0, <1>1, Zenon DEF FlightInv, StopInv, TriggerInv, TriggerWakes, RetryInv, loopVars,
     schedVars, cmdVars, outVars
<1>. QED BY <1>3, <1>4, <1>5, Zenon DEF IInv

(* kill_process_group ends by reaping the group.                           *)
LEMMA JobKillKeeps ==
  ASSUME IInv, NEW kind \in {"cancelled", "timeout"}, JobKill(kind)
  PROVE  IInv'
<1>0. /\ TypeOK /\ FlightInv /\ JobInv /\ StopInv /\ TriggerInv /\ TriggerWakes /\ RetryInv
  BY Zenon DEF IInv
<1>1. TypeOK'
  BY <1>0 DEF JobKill, finish, NoChild, loopVars, schedVars, cmdVars, outVars, TypeOK
<1>2. /\ job \in {"kill_cancelled", "kill_timeout"} /\ job' = "done"
      /\ child' = [st |-> "none", end |-> NoEnd]
      /\ UNCHANGED <<main, active, tearing, open>>
  BY DEF JobKill, finish, NoChild, KillAt, loopVars, schedVars, outVars
<1>3. FlightInv'
  BY <1>0, <1>2, Zenon DEF FlightInv
<1>4. JobInv'
  BY <1>0, <1>2, Zenon DEF JobInv, Running
<1>5. StopInv' /\ TriggerInv' /\ TriggerWakes' /\ RetryInv'
  BY <1>0, Zenon DEF JobKill, loopVars, schedVars, cmdVars, StopInv, TriggerInv, TriggerWakes,
     RetryInv
<1>. QED BY <1>1, <1>3, <1>4, <1>5, Zenon DEF IInv

(* teardown() takes the active run over and cancels it.                    *)
LEMMA TeardownKeeps ==
  ASSUME IInv, Teardown
  PROVE  IInv'
<1>0. TypeOK /\ FlightInv /\ JobInv /\ StopInv /\ RetryInv
  BY Zenon DEF IInv
<1>1. /\ main = "teardown" /\ main' \in {"leave", "join"}
      /\ UNCHANGED <<idx, stop, wake, spent, due, retried, notified, runNext, streak, job,
                     registered, lines, open>>
  BY Zenon DEF Teardown, Goto, cmdVars, outVars
<1>2. StopInv' /\ TriggerInv' /\ TriggerWakes' /\ RetryInv'
  BY <1>0, <1>1, Zenon DEF StopInv, TriggerInv, TriggerWakes, RetryInv, Joined
<1>3. CASE active = None
  <2>1. main' = "leave" /\ UNCHANGED <<tearing, active, child>>
    BY <1>3, Zenon DEF Teardown, Goto
  <2>2. TypeOK'
    BY <1>0, <1>1, <2>1 DEF TypeOK
  <2>3. FlightInv' /\ JobInv'
    BY <1>0, <1>1, <1>3, <2>1, Zenon DEF FlightInv, JobInv, Joining
  <2>. QED BY <1>2, <2>2, <2>3, Zenon DEF IInv
<1>4. CASE active # None
  <2>1. /\ main' = "join" /\ tearing' = active /\ active' = None
        /\ child' \in Terminate(child) \cup {child}
    BY <1>4, Zenon DEF Teardown, Goto
  <2>2. /\ child'.st \in {child.st, "dead"} /\ child' = [st |-> child'.st, end |-> child'.end]
    BY <1>0, <2>1, Terminated, Zenon DEF JobInv
  <2>3. TypeOK'
    BY <1>0, <1>1, <2>1, <2>2, Zenon DEF TypeOK
  <2>4. FlightInv' /\ JobInv'
    BY <1>0, <1>1, <1>4, <2>1, <2>2, Zenon DEF FlightInv, JobInv, Joining, Joined
  <2>. QED BY <1>2, <2>3, <2>4, Zenon DEF IInv
<1>. QED BY <1>3, <1>4, Zenon

(* After the first join the group is dead or the thread is done.           *)
LEMMA TeardownJoinKeeps ==
  ASSUME IInv, TeardownJoin
  PROVE  IInv'
<1>0. TypeOK /\ FlightInv /\ JobInv /\ StopInv /\ RetryInv
  BY Zenon DEF IInv
<1>1. /\ main = "join" /\ main' \in {"report", "join_again"} /\ Spend(ShutdownGrace)
      /\ \/ job = "done" /\ child' = child
         \/ /\ job \notin {"done", "spawning", "spawned"}
            /\ child' = IF registered THEN Kill(child) ELSE child
      /\ UNCHANGED <<idx, stop, wake, tearing, schedVars, job, registered, lines, open>>
  BY Zenon DEF TeardownJoin, Goto, Spawning, cmdVars, outVars
<1>2. spent' \in 0..(StopBudget + 1) /\ spent' <= ShutdownGrace
  BY <1>0, <1>1, ScannerConstants DEF Spend, StopInv, Joined
<1>3. StopInv' /\ TriggerInv' /\ TriggerWakes' /\ RetryInv'
  BY <1>0, <1>1, <1>2, ScannerConstants DEF StopInv, TriggerInv, TriggerWakes, RetryInv,
     Joined, schedVars
<1>4. /\ child' = [st |-> child'.st, end |-> child'.end]
      /\ child'.st \in {child.st, "dead"} /\ child'.st # "alive"
  <2>1. CASE job = "done"
    BY <1>0, <1>1, <2>1, Zenon DEF JobInv
  <2>2. CASE job # "done" /\ registered
    BY <1>0, <1>1, Killed, Zenon DEF JobInv
  <2>3. CASE job # "done" /\ ~registered
    BY <1>0, <1>1, <2>3, Zenon DEF JobInv
  <2>. QED BY <2>1, <2>2, <2>3, Zenon DEF JobInv
<1>5. TypeOK'
  BY <1>0, <1>1, <1>2, <1>4, Zenon DEF TypeOK, schedVars
<1>6. FlightInv' /\ JobInv'
  BY <1>0, <1>1, <1>4, Zenon DEF FlightInv, JobInv, Joining, schedVars
<1>. QED BY <1>3, <1>5, <1>6, Zenon DEF IInv

(* The second join spends the second grace.                                *)
LEMMA TeardownJoinAgainKeeps ==
  ASSUME IInv, TeardownJoinAgain
  PROVE  IInv'
<1>0. /\ TypeOK /\ FlightInv /\ JobInv /\ StopInv /\ TriggerInv /\ TriggerWakes /\ RetryInv
  BY Zenon DEF IInv
<1>1. TypeOK'
  <2>1. spent' \in 0..(StopBudget + 1)
    BY <1>0, ScannerConstants DEF TeardownJoinAgain, Spend, TypeOK
  <2>. QED BY <1>0, <2>1, Zenon DEF TeardownJoinAgain, Goto, schedVars, jobVars, cmdVars, outVars,
  TypeOK
<1>2. FlightInv' /\ JobInv'
  BY <1>0, Zenon DEF TeardownJoinAgain, Goto, schedVars, jobVars, outVars, FlightInv, JobInv,
     Joining, Joined
<1>3. StopInv'
  BY <1>0, ScannerConstants DEF TeardownJoinAgain, Goto, Spend, TypeOK, StopInv, Joined
<1>4. TriggerInv' /\ TriggerWakes'
  BY Zenon DEF TeardownJoinAgain, Goto, TriggerInv, TriggerWakes
<1>5. RetryInv'
  BY <1>0, Zenon DEF TeardownJoinAgain, schedVars, RetryInv
<1>. QED BY <1>1, <1>2, <1>3, <1>4, <1>5, Zenon DEF IInv

(* teardown() reports the run it took over.                                *)
LEMMA TeardownReportKeeps ==
  ASSUME IInv, TeardownReport
  PROVE  IInv'
<1>0. TypeOK /\ FlightInv /\ JobInv /\ StopInv /\ RetryInv
  BY Zenon DEF IInv
<1>1. /\ main = "report" /\ main' = "leave"
      /\ UNCHANGED <<idx, stop, wake, spent, tearing, active, runNext, job, registered, child,
                     lines>>
  BY Zenon DEF TeardownReport, Goto, cmdVars, jobVars
<1>2. tearing \in Runs /\ finish_run(tearing, IF job = "done" THEN result ELSE NoResult)
  BY <1>0, Zenon DEF TeardownReport, TypeOK, FlightInv, Joining, Runs
<1>3. /\ open' = None /\ due' \in [Scanners -> Slots] /\ retried' \in [Scanners -> BOOLEAN]
      /\ notified' \subseteq Enabled /\ RetryInv'
  BY <1>0, <1>2, FinishRun, Zenon
<1>4. TypeOK'
  BY <1>0, <1>1, <1>3, Zenon DEF TypeOK, Slots
<1>5. FlightInv' /\ JobInv'
  BY <1>0, <1>1, <1>3, Zenon DEF FlightInv, JobInv, Joining, Joined
<1>6. StopInv' /\ TriggerInv' /\ TriggerWakes'
  BY <1>0, <1>1, Zenon DEF StopInv, TriggerInv, TriggerWakes, Joined
<1>. QED BY <1>3, <1>4, <1>5, <1>6, Zenon DEF IInv

(* run() returns with nothing announced and no scanner alive.              *)
LEMMA LeaveKeeps ==
  ASSUME IInv, Leave
  PROVE  IInv'
<1>0. /\ TypeOK /\ FlightInv /\ JobInv /\ StopInv /\ TriggerInv /\ TriggerWakes /\ RetryInv
  BY Zenon DEF IInv
<1>1. TypeOK'
  BY <1>0, Zenon DEF Leave, Goto, schedVars, cmdVars, TypeOK
<1>2. FlightInv' /\ JobInv'
  BY <1>0, Zenon DEF Leave, Goto, schedVars, FlightInv, JobInv, Joining, Joined
<1>3. StopInv'
  BY <1>0, Zenon DEF Leave, Goto, StopInv, Joined
<1>4. TriggerInv' /\ TriggerWakes'
  BY Zenon DEF Leave, Goto, TriggerInv, TriggerWakes
<1>5. RetryInv'
  BY <1>0, Zenon DEF Leave, schedVars, RetryInv
<1>. QED BY <1>1, <1>2, <1>3, <1>4, <1>5, Zenon DEF IInv

(* A command line adds a trigger before the reader sets _wake.             *)
LEMMA ReadLineKeeps ==
  ASSUME IInv, ReadLine
  PROVE  IInv'
<1>0. /\ TypeOK /\ FlightInv /\ JobInv /\ StopInv /\ TriggerInv /\ TriggerWakes /\ RetryInv
  BY Zenon DEF IInv
<1>1. TypeOK'
  BY <1>0, ScannerConstants DEF ReadLine, loopVars, jobVars, outVars, TypeOK
<1>2. TriggerInv' /\ TriggerWakes'
  BY <1>0, Zenon DEF ReadLine, loopVars, TriggerInv, TriggerWakes
<1>3. FlightInv' /\ JobInv' /\ StopInv' /\ RetryInv'
  BY <1>0 DEF ReadLine, loopVars, jobVars, outVars, FlightInv, JobInv, StopInv, RetryInv
<1>. QED BY <1>1, <1>2, <1>3, Zenon DEF IInv

(* The reader wakes the loop.                                              *)
LEMMA ReaderWakeKeeps ==
  ASSUME IInv, ReaderWake
  PROVE  IInv'
<1>0. /\ TypeOK /\ FlightInv /\ JobInv /\ StopInv /\ TriggerInv /\ TriggerWakes /\ RetryInv
  BY Zenon DEF IInv
<1>1. TypeOK'
  BY <1>0 DEF ReaderWake, schedVars, jobVars, outVars, TypeOK
<1>2. StopInv'
  BY <1>0, Zenon DEF ReaderWake, StopInv
<1>3. TriggerInv' /\ TriggerWakes'
  BY Zenon DEF ReaderWake, TriggerInv, TriggerWakes
<1>4. FlightInv' /\ JobInv' /\ RetryInv'
  BY <1>0, Zenon DEF ReaderWake, schedVars, jobVars, outVars, FlightInv, JobInv, RetryInv
<1>. QED BY <1>1, <1>2, <1>3, <1>4, Zenon DEF IInv

-----------------------------------------------------------------------------
(* The inductive invariant.                                                *)

(* The worker starts with nothing running, nothing owed and no retries.    *)
LEMMA InitInv == Init => IInv
<1>. SUFFICES ASSUME Init PROVE IInv
  BY Zenon
<1>1. TypeOK
  <2>1. /\ idx \in 1..(Len(Order) + 1) /\ spent \in 0..(StopBudget + 1) /\ lines \in 0..MaxLines
        /\ StartupT \in 0..(IntervalT + StartupT)
    BY ScannerConstants DEF Init
  <2>. QED BY <2>1, Zenon DEF Init, TypeOK, NoChild
<1>2. FlightInv /\ JobInv /\ StopInv
  BY ScannerConstants DEF Init, FlightInv, JobInv, StopInv, NoChild, Joining, Running
<1>3. TriggerInv /\ TriggerWakes /\ RetryInv
  BY Zenon DEF Init, TriggerInv, TriggerWakes, RetryInv
<1>. QED BY <1>1, <1>2, <1>3, Zenon DEF IInv

(* A step that changes nothing keeps the invariant.                        *)
LEMMA Stutter ==
  ASSUME IInv, UNCHANGED vars
  PROVE  IInv'
BY DEF IInv, TypeOK, FlightInv, JobInv, StopInv, TriggerInv, TriggerWakes, RetryInv, vars,
   loopVars, schedVars, jobVars, cmdVars, outVars

(* Every step of every thread keeps the invariant.                         *)
LEMMA NextInv ==
  ASSUME IInv, [Next]_vars
  PROVE  IInv'
<1>1. CASE Main
  BY <1>1, LoopTopKeeps, LoopClearKeeps, LoopCheckKeeps, StepPollKeeps, StepScanKeeps,
     StepEndKeeps, WaitWokenKeeps, WaitTickKeeps, TeardownKeeps, TeardownJoinKeeps,
     TeardownJoinAgainKeeps, TeardownReportKeeps, LeaveKeeps, Zenon DEF Main
<1>2. CASE JobThread
  BY <1>2, JobSpawnKeeps, JobRegisterKeeps, JobAwaitKeeps, JobDeadlineKeeps, JobTermKeeps,
     JobKillKeeps DEF JobThread
<1>3. CASE Reader
  BY <1>3, ReadLineKeeps, ReaderWakeKeeps, Zenon DEF Reader
<1>4. CASE request_stop \/ ChildExit
  BY <1>4, request_stopKeeps, ChildExitKeeps, Zenon
<1>5. CASE Gone \/ UNCHANGED vars
  BY <1>5, Stutter, Zenon DEF Gone
<1>. QED BY <1>1, <1>2, <1>3, <1>4, <1>5, Zenon DEF Next

(* The invariant holds in every reachable state.                           *)
THEOREM Invariance == Spec => []IInv
BY InitInv, NextInv, PTL DEF Spec

-----------------------------------------------------------------------------
(* What follows.                                                           *)

(* The threads, the scan and its subprocess, the schedule and the clock    *)
(* keep their types.                                                       *)
THEOREM TypeCorrect == Spec => []TypeOK
<1>1. IInv => TypeOK
  BY Zenon DEF IInv
<1>. QED BY <1>1, Invariance, PTL

(* Supervisor.stop() never outwaits the worker: a stop finds the loop      *)
(* woken, so only the two joins of teardown() spend the budget.            *)
THEOREM StopsInBudget == Spec => []InBudget
<1>1. IInv => InBudget
  BY ScannerConstants DEF IInv, TypeOK, StopInv, InBudget
<1>. QED BY <1>1, Invariance, PTL

(* No scanner process outlives the worker, whatever the scanner does with  *)
(* SIGTERM and wherever its job thread was when the stop came.             *)
THEOREM NoneLeft == Spec => []NoOrphan
<1>1. IInv => NoOrphan
  BY Zenon DEF IInv, JobInv, Joined, NoOrphan, Alive
<1>. QED BY <1>1, Invariance, PTL

(* A worker told to stop ends in time and leaves no scan behind.           *)
THEOREM StopsClean == Spec => []CleanStop
<1>. QED BY StopsInBudget, NoneLeft, PTL DEF CleanStop

(* The loop never sleeps on an accepted trigger it could serve.            *)
THEOREM TriggersWake == Spec => []TriggerWakes
<1>1. IInv => TriggerWakes
  BY Zenon DEF IInv
<1>. QED BY <1>1, Invariance, PTL

(* _reschedule grants one retry per failed slot.                           *)
THEOREM OneRetry == Spec => []RetryOnce
<1>1. IInv => RetryOnce
  BY DEF IInv, RetryInv, RetryOnce
<1>. QED BY <1>1, Invariance, PTL

(* Only a due slot or the end of a scheduled run moves a slot away: the    *)
(* countdown lowers it, a triggered run leaves it alone.                   *)
THEOREM SlotsKept == Spec => SlotKept
<1>1. ASSUME IInv, [Next]_vars
      PROVE  \A s \in Scanners :
               due'[s] > due[s] =>
                 \/ due[s] = 0
                 \/ \E r \in {active, tearing} : /\ r # None /\ r.scanner = s /\ r.scheduled
                                                 /\ open = s /\ open' = None
  <2>0. TypeOK /\ FlightInv /\ RetryInv
    BY <1>1, Zenon DEF IInv
  <2>1. CASE due' = due
    BY <2>0, <2>1 DEF TypeOK
  <2>2. CASE WaitTick
    BY <2>0, <2>2 DEF WaitTick, TypeOK
  <2>3. CASE StepPoll /\ active # None /\ job = "done"
    <3>1. /\ active \in Runs /\ finish_run(active, result) /\ open = active.scanner
      BY <2>0, <2>3, Zenon DEF StepPoll, TypeOK, Runs, FlightInv
    <3>2. /\ open' = None
          /\ \A s \in Scanners : due'[s] # due[s] => active.scheduled /\ s = active.scanner
      BY <2>0, <3>1, FinishRun, Zenon
    <3>. QED BY <2>0, <2>3, <3>1, <3>2 DEF TypeOK
  <2>4. CASE TeardownReport
    <3>1. /\ tearing \in Runs /\ tearing # None /\ open = tearing.scanner
          /\ finish_run(tearing, IF job = "done" THEN result ELSE NoResult)
      BY <2>0, <2>4, Zenon DEF TeardownReport, TypeOK, Runs, FlightInv, Joining
    <3>2. /\ open' = None
          /\ \A s \in Scanners : due'[s] # due[s] => tearing.scheduled /\ s = tearing.scanner
      BY <2>0, <3>1, FinishRun, Zenon
    <3>. QED BY <2>0, <3>1, <3>2 DEF TypeOK
  <2>5. CASE StepScan /\ due' # due
    <3>1. Order[idx] \in Enabled /\ start_run(Order[idx], due[Order[idx]] = 0)
      BY <2>5, Zenon DEF StepScan, notify_in_flight, schedVars
    <3>2. (due[Order[idx]] = 0) \in BOOLEAN
      BY Zenon
    <3>3. \A t \in Scanners : due'[t] # due[t] => due[Order[idx]] = 0 /\ t = Order[idx]
      BY <2>0, <3>1, <3>2, StartRun, Zenon
    <3>. QED BY <2>0, <3>3 DEF TypeOK
  <2>. QED
    BY <1>1, <2>1, <2>2, <2>3, <2>4, <2>5, Zenon DEF Next, Main, JobThread, Reader, Gone,
       request_stop, LoopTop, LoopClear, LoopCheck, StepPoll, StepEnd, WaitWoken, Teardown,
       TeardownJoin, TeardownJoinAgain, Leave, JobSpawn, JobRegister, JobAwait, JobDeadline,
       JobTerm, JobKill, ChildExit, ReadLine, ReaderWake, vars, schedVars
<1>. QED BY <1>1, Invariance, PTL DEF Spec, SlotKept

(* The schedule of next_due holds: a slot moves only when it was due or    *)
(* used, and a failed one earns one retry.                                 *)
THEOREM ScheduleHolds == Spec => ScheduleKept
<1>. QED BY OneRetry, SlotsKept, Zenon DEF ScheduleKept

(* Refinement, its safety part: under the mapping of ImplementsService the *)
(* worker starts as the service does and each of its steps is one of the   *)
(* service's or changes nothing of it.                                     *)
THEOREM ServiceSteps == Spec => Service!Init /\ [][Service!Next]_(Service!svars)
<1>1. Init => Service!Init
  BY DEF Init, Service!Init, Alive
<1>2. ASSUME IInv, [Next]_vars PROVE [Service!Next]_(Service!svars)
  <2>0. TypeOK /\ FlightInv /\ RetryInv
    BY <1>2, Zenon DEF IInv
  <2>1. CASE UNCHANGED <<open, runNext, main>>
    BY <2>1, Zenon DEF Service!svars, Alive
  <2>2. CASE /\ UNCHANGED <<open, runNext>> /\ main # "exited" /\ main' # "exited"
    BY <2>2, Zenon DEF Service!svars, Alive
  <2>3. CASE StepPoll /\ active # None /\ job = "done"
    <3>1. active \in Runs /\ finish_run(active, result) /\ open = active.scanner
      BY <2>0, <2>3, Zenon DEF StepPoll, TypeOK, Runs, FlightInv
    <3>2. open' = None /\ open # None
      BY <2>0, <3>1, FinishRun, ScannerConstants DEF Runs
    <3>. QED BY <2>3, <3>2, Zenon DEF StepPoll, Goto, Alive, Service!Next, Service!Complete
  <2>4. CASE TeardownReport
    <3>1. /\ tearing \in Runs /\ open = tearing.scanner
          /\ finish_run(tearing, IF job = "done" THEN result ELSE NoResult)
      BY <2>0, <2>4, Zenon DEF TeardownReport, TypeOK, Runs, FlightInv, Joining
    <3>2. open' = None /\ open # None
      BY <2>0, <3>1, FinishRun, ScannerConstants DEF Runs
    <3>. QED BY <2>4, <3>2, Zenon DEF TeardownReport, Goto, Alive, Service!Next, Service!Complete
  <2>5. CASE StepScan /\ ~UNCHANGED <<open, runNext>>
    <3> DEFINE s == Order[idx]
    <3>1. /\ s \in Enabled /\ active = None /\ start_run(s, due[s] = 0)
          /\ main = "scan" /\ main' = main
      BY <2>5, Zenon DEF StepScan, notify_in_flight, emit_skipped, schedVars
    <3>2. (due[s] = 0) \in BOOLEAN
      BY Zenon
    <3>3. runNext' = runNext \ {s} /\ (open' = s \/ open' = open)
      BY <2>0, <3>1, <3>2, StartRun, Zenon
    <3>4. open = None /\ s \in Scanners
      BY <2>0, <3>1, ScannerConstants, Zenon DEF FlightInv, Joining
    <3>. QED
      BY <2>5, <3>1, <3>3, <3>4, Zenon DEF Alive, Service!Next, Service!Start, Service!Skip
  <2>6. CASE Leave
    <3>1. open = None
      BY <2>0, <2>6, Zenon DEF Leave, FlightInv, Joining
    <3>. QED BY <2>6, <3>1, Zenon DEF Leave, Goto, Alive, schedVars, Service!Next, Service!Exit
  <2>7. CASE ReadLine /\ runNext' # runNext
    <3>1. PICK name \in Enabled : runNext' = runNext \cup {name}
      BY <2>7, Zenon DEF ReadLine
    <3>. QED BY <2>7, ScannerConstants, Zenon DEF ReadLine, Alive, loopVars, outVars, Service!Next,
       Service!Accept
  <2>. QED
    BY <1>2, <2>1, <2>2, <2>3, <2>4, <2>5, <2>6, <2>7, Zenon DEF Next, Main, JobThread, Reader,
       Gone, request_stop, LoopTop, LoopClear, LoopCheck, StepPoll, StepScan, StepEnd, WaitWoken,
       WaitTick, Teardown, TeardownJoin, TeardownJoinAgain, JobSpawn, JobRegister, JobAwait,
       JobDeadline, JobTerm, JobKill, ChildExit, ReadLine, ReaderWake, Goto, vars, loopVars,
       schedVars, outVars
<1>. QED BY <1>1, <1>2, Invariance, PTL DEF Spec

-----------------------------------------------------------------------------
(* What a finished scan reports.                                           *)

(* What the sinks keep of a report.                                        *)
Captured(report) ==
  SubSeq(report, 1, IF Len(report) < OutputMax THEN Len(report) ELSE OutputMax)

(* The captured report is a prefix of the report.                          *)
LEMMA CapturedPrefix ==
  ASSUME NEW name, NEW report \in Reports(name)
  PROVE  /\ DOMAIN Captured(report) \subseteq DOMAIN report
         /\ \E n \in Nat : DOMAIN Captured(report) = 1..n
         /\ \E n \in Nat : DOMAIN report = 1..n
         /\ \A i \in DOMAIN Captured(report) : Captured(report)[i] = report[i]
<1>1. PICK n \in 0..MaxReportLines : report \in [1..n -> LineClasses(name)]
  BY Zenon DEF Reports
<1>2. n \in Nat /\ report \in Seq(LineClasses(name)) /\ Len(report) = n
  BY <1>1 DEF MaxReportLines
<1> DEFINE m == IF n < OutputMax THEN n ELSE OutputMax
<1>3. m \in 0..n /\ Captured(report) = SubSeq(report, 1, m)
  BY <1>2, ScannerConstants DEF Captured
<1> HIDE DEF m
<1>4. /\ Len(SubSeq(report, 1, m)) = m /\ DOMAIN SubSeq(report, 1, m) = 1..m
      /\ \A i \in 1..m : SubSeq(report, 1, m)[i] = report[i]
  BY <1>2, <1>3
<1>. QED BY <1>1, <1>2, <1>3, <1>4

(* The lines AideAdapter.parse counts.                                     *)
aideFinds(report) ==
  {i \in DOMAIN report :
     \/ report[i] = "legacy"
     \/ /\ report[i] = "entry"
        /\ \E h \in 1..(i - 1) :
             report[h] = "header" /\ \A j \in (h + 1)..(i - 1) : report[j] # "heading"}

(* Cutting a report never makes AideAdapter.parse see a finding: what it   *)
(* counts in a prefix it counts in the whole.                              *)
LEMMA AideFinds ==
  ASSUME NEW report \in Reports("aide")
  PROVE  /\ parse("aide", report) \in Nat /\ parse("aide", Captured(report)) \in Nat
         /\ parse("aide", report) = 0 => parse("aide", Captured(report)) = 0
<1> DEFINE kept == Captured(report)
<1>1. /\ parse("aide", report) = Cardinality(aideFinds(report))
      /\ parse("aide", kept) = Cardinality(aideFinds(kept))
  BY Zenon DEF parse, aide_parse, aideFinds
<1>2. /\ DOMAIN kept \subseteq DOMAIN report
      /\ \E n \in Nat : DOMAIN kept = 1..n
      /\ \E n \in Nat : DOMAIN report = 1..n
      /\ \A i \in DOMAIN kept : kept[i] = report[i]
  BY CapturedPrefix, Zenon
<1> HIDE DEF kept
<1>3. IsFiniteSet(aideFinds(kept)) /\ IsFiniteSet(aideFinds(report))
  <2>1. IsFiniteSet(DOMAIN kept) /\ IsFiniteSet(DOMAIN report)
    BY <1>2, FS_Interval
  <2>. QED BY <2>1, FS_Subset, Zenon DEF aideFinds
<1>4. aideFinds(kept) \subseteq aideFinds(report)
  BY <1>2 DEF aideFinds
<1>5. Cardinality(aideFinds(report)) = 0 => Cardinality(aideFinds(kept)) = 0
  BY <1>3, <1>4, FS_EmptySet, Zenon
<1>6. Cardinality(aideFinds(kept)) \in Nat /\ Cardinality(aideFinds(report)) \in Nat
  BY <1>3, FS_CardinalityType, Zenon
<1>. QED BY <1>1, <1>5, <1>6, Zenon DEF kept

(* What interpret_outcome makes of an exit is true to what was captured.   *)
TruthfulEnd(name, e) ==
  /\ e.outcome = "clean" => e.code = 0 /\ ~e.found
  /\ e.outcome = "findings" => e.found \/ e.hidden
  /\ name # "aide" /\ e.found => e.outcome = "findings"

(* Every end a scanner can have is told truly: aide by the bitmask that    *)
(* agrees with its report, the others by what they printed.                *)
LEMMA Ends ==
  ASSUME NEW name \in Scanners, NEW e \in EndsOf[name]
  PROVE  TruthfulEnd(name, e)
<1>1. PICK x \in Exits(name) : e = SinkView(name, x)
  BY Zenon DEF EndsOf
<1> DEFINE kept == Captured(x[2])
<1>2. e = [outcome |-> interpret_outcome(name, x[1], kept), code |-> x[1],
           found |-> parse(name, kept) > 0,
           hidden |-> parse(name, kept) = 0 /\ parse(name, x[2]) > 0]
  BY <1>1, Zenon DEF SinkView, Captured
<1>3. e.outcome = interpret_outcome(name, x[1], kept) /\ e.code = x[1]
  BY <1>2, Zenon
<1>4. /\ e.found <=> parse(name, kept) > 0
      /\ e.hidden <=> parse(name, kept) = 0 /\ parse(name, x[2]) > 0
  BY <1>2, Zenon
<1>5. CASE name = "aide"
  <2>1. CASE x = <<18, <<>>>>
    <3>1. e.outcome = "failure"
      BY <1>3, <1>5, <2>1 DEF interpret_outcome, aide_outcome
    <3>. QED BY <1>5, <3>1, Zenon DEF TruthfulEnd
  <2>2. CASE x \in {0, 1} \X Reports(name) /\ (x[1] = 1 <=> parse(name, x[2]) > 0)
    <3>1. /\ parse(name, x[2]) \in Nat /\ parse(name, kept) \in Nat
          /\ parse(name, x[2]) = 0 => parse(name, kept) = 0
      BY <1>5, <2>2, AideFinds, Zenon
    <3>2. e.outcome = "clean" => e.code = 0 /\ ~(parse(name, kept) > 0)
      BY <1>3, <1>5, <2>2, <3>1 DEF interpret_outcome, aide_outcome
    <3>3. e.outcome = "findings" =>
            parse(name, kept) > 0 \/ (parse(name, kept) = 0 /\ parse(name, x[2]) > 0)
      BY <1>3, <1>5, <2>2, <3>1 DEF interpret_outcome, aide_outcome
    <3>. QED BY <1>4, <1>5, <3>2, <3>3, Zenon DEF TruthfulEnd
  <2>. QED BY <1>5, <2>1, <2>2, Zenon DEF Exits
<1>6. CASE name # "aide"
  <2>1. /\ e.outcome = "clean" => e.code = 0 /\ ~(parse(name, kept) > 0)
        /\ e.outcome = "findings" <=> parse(name, kept) > 0
    BY <1>3, <1>6, Zenon DEF interpret_outcome, output_outcome
  <2>. QED BY <1>4, <2>1, Zenon DEF TruthfulEnd
<1>. QED BY <1>5, <1>6, Zenon

(* The scanner's end reaches its thread only while that waits for it, is   *)
(* one of the ends the scanner of the run can have, and a scanner killed   *)
(* under the waiting thread was cancelled.                                 *)
ChildInv ==
  /\ child.st = "exited" => job = "await"
  /\ child.st # "exited" => child.end = NoEnd
  /\ child.st = "dead" /\ job \in {"spawned", "await"} => cancelled
  /\ main \in Joining => cancelled
  /\ Alive /\ child.st = "exited" => child.end \in EndsOf[Subject]

(* A result is there once the thread is done; it has an end only if the    *)
(* scanner ended, and of a run nobody cancelled that end is the scanner's. *)
ResultInv ==
  /\ job # "done" => result = NoResult
  /\ result.kind \in {"unreported", "error", "timeout"} => result.end = NoEnd
  /\ result.kind \in {"unreported", "error", "timeout", "cancelled", "exit"}
  /\ Alive /\ result.kind = "exit" => result.end \in EndsOf[Subject]

(* With what was last reported, the invariant of the reports.              *)
ReportInv == ChildInv /\ ResultInv /\ TruthfulReport

(* _finish_run reports what the scan's end says, or a failure.             *)
LEMMA FinishTruthful ==
  ASSUME NEW run \in Runs, NEW res, finish_run(run, res),
         res.kind \in {"unreported", "error", "timeout", "cancelled", "exit"},
         res.kind \in {"unreported", "error", "timeout"} => res.end = NoEnd,
         res.kind = "exit" => res.end \in EndsOf[run.scanner]
  PROVE  TruthfulReport'
<1>1. PICK raises \in {"none", "interpret", "parse"} :
        emit_completed(run, Classify(res, raises), res)
  BY Zenon DEF finish_run
<1> DEFINE c == Classify(res, raises)
<1>2. out' = [scanner |-> run.scanner, outcome |-> c[1], reason |-> c[2], end |-> res.end]
  BY <1>1, Zenon DEF emit_completed
<1>3. run.scanner \in Scanners
  BY ScannerConstants, Zenon DEF Runs
<1>4. CASE res.kind # "exit"
  <2>1. c = <<"failure", PreExitReason(res.kind)>>
    BY <1>4, Zenon DEF Classify
  <2>2. res.end.found => c[2] = "shutdown"
    BY <1>4, <2>1 DEF PreExitReason, NoEnd
  <2>. QED BY <1>2, <2>1, <2>2 DEF TruthfulReport
<1>5. CASE res.kind = "exit"
  <2>1. TruthfulEnd(run.scanner, res.end)
    BY <1>3, <1>5, Ends, Zenon
  <2>2. \/ c \in {<<"failure", "exit_interpretation_error">>, <<"failure", "parse_error">>}
        \/ c = <<"failure", "scanner_error">> /\ res.end.outcome = "failure"
        \/ c = <<res.end.outcome, "none">>
    BY <1>5, Zenon DEF Classify
  <2>3. res.end.outcome = "clean" => res.end # NoEnd
    BY DEF NoEnd
  <2> HIDE DEF c
  <2>. QED BY <1>2, <2>1, <2>2, <2>3 DEF TruthfulReport, TruthfulEnd
<1>. QED BY <1>4, <1>5, Zenon

(* A step that leaves the scan, its thread and its report alone, and ends  *)
(* no run, keeps what is known of them.                                    *)
LEMMA ReportQuiet ==
  ASSUME ReportInv, UNCHANGED <<active, tearing, jobVars, out>>,
         main' \in Joining => main \in Joining, Alive' => Alive
  PROVE  ReportInv'
BY DEF ReportInv, ChildInv, ResultInv, TruthfulReport, Subject, jobVars

(* step() reports the end of the run its thread is done with.              *)
LEMMA ReportPoll ==
  ASSUME IInv, ReportInv, StepPoll
  PROVE  ReportInv'
<1>1. CASE ~(active # None /\ job = "done")
  BY <1>1, ReportQuiet, Zenon DEF StepPoll, Goto, Alive, Joining, schedVars, outVars
<1>2. CASE active # None /\ job = "done"
  <2>1. active \in Runs /\ finish_run(active, result) /\ Alive
    BY <1>2, Zenon DEF IInv, TypeOK, Runs, StepPoll, Alive
  <2>2. TruthfulReport'
    BY <1>2, <2>1, FinishTruthful, Zenon DEF ReportInv, ResultInv, Subject
  <2>3. /\ main = "poll" /\ main' = "scan" /\ job' = "none" /\ result' = NoResult
        /\ UNCHANGED <<cancelled, child>>
    BY <1>2, Zenon DEF StepPoll, Goto
  <2>4. ChildInv'
    BY <1>2, <2>3, Zenon DEF ReportInv, ChildInv, Joining
  <2>5. ResultInv'
    BY <2>3, Zenon DEF ResultInv, NoResult
  <2>. QED BY <2>2, <2>4, <2>5, Zenon DEF ReportInv
<1>. QED BY <1>1, <1>2, Zenon

(* A scan that starts has neither a process nor a result yet.              *)
LEMMA ReportScan ==
  ASSUME IInv, ReportInv, StepScan
  PROVE  ReportInv'
<1>1. /\ main = "scan" /\ main' = main /\ out' = NoReport /\ tearing' = tearing
      /\ UNCHANGED <<registered, cancelled, result, child>>
      /\ \/ UNCHANGED <<active, job>>
         \/ active = None /\ job' = "spawning"
  BY Zenon DEF StepScan, start_run, launch, skip_slot, notify_in_flight, schedVars, jobVars
<1>2. TruthfulReport'
  BY <1>1, Zenon DEF TruthfulReport, NoReport, NoEnd
<1>3. CASE UNCHANGED <<active, job>>
  BY <1>1, <1>2, <1>3, Zenon DEF ReportInv, ChildInv, ResultInv, Subject, Alive
<1>4. CASE active = None /\ job' = "spawning"
  <2>1. job = "none"
    BY <1>1, <1>4, Zenon DEF IInv, JobInv, Joining
  <2>2. child.st # "exited" /\ result = NoResult
    BY <2>1, Zenon DEF ReportInv, ChildInv, ResultInv
  <2>. QED BY <1>1, <1>2, <1>4, <2>2, Zenon DEF ReportInv, ChildInv, ResultInv, Joining, NoResult
<1>. QED BY <1>1, <1>3, <1>4, Zenon

(* A fresh process has not ended; one that cannot be spawned has no end.   *)
LEMMA ReportSpawn ==
  ASSUME IInv, ReportInv, JobSpawn
  PROVE  ReportInv'
<1>1. /\ job = "spawning" /\ UNCHANGED <<main, cancelled, out>>
      /\ \/ child' = [st |-> "alive", end |-> NoEnd] /\ job' = "spawned" /\ result' = result
         \/ /\ child' = [st |-> "none", end |-> NoEnd] /\ job' = "done"
            /\ result' = [kind |-> "error", end |-> NoEnd]
  BY Zenon DEF JobSpawn, finish, NoChild, loopVars, outVars
<1>. QED BY <1>1 DEF ReportInv, ChildInv, ResultInv, TruthfulReport, NoResult

(* A registered process is as it was; a cancelled one is on its way out.   *)
LEMMA ReportRegister ==
  ASSUME IInv, ReportInv, JobRegister
  PROVE  ReportInv'
BY Zenon DEF JobRegister, TermAt, ReportInv, ChildInv, ResultInv, TruthfulReport, Subject, Alive,
   loopVars, schedVars, outVars

(* The scanner ends with one of its ends.                                  *)
LEMMA ReportExit ==
  ASSUME IInv, ReportInv, ChildExit
  PROVE  ReportInv'
BY DEF ChildExit, ReportInv, ChildInv, ResultInv, TruthfulReport, Subject, Alive, loopVars,
   schedVars, outVars

(* The thread takes the end of its scanner over.                           *)
LEMMA ReportAwait ==
  ASSUME IInv, ReportInv, JobAwait
  PROVE  ReportInv'
BY Zenon DEF JobAwait, finish, NoChild, ReportInv, ChildInv, ResultInv, TruthfulReport, Subject,
   Alive, loopVars, schedVars, outVars

(* The deadline finds the scanner running.                                 *)
LEMMA ReportDeadline ==
  ASSUME IInv, ReportInv, JobDeadline
  PROVE  ReportInv'
BY Zenon DEF JobDeadline, TermAt, ReportInv, ChildInv, ResultInv, TruthfulReport, Subject, Alive,
   loopVars, schedVars, outVars

(* A signal ends a process without an end of its own.                      *)
LEMMA SignalEnd ==
  ASSUME NEW c, c = [st |-> c.st, end |-> c.end], c.st # "exited" => c.end = NoEnd,
         NEW d \in Terminate(c)
  PROVE  /\ d.end = c.end
         /\ d.st # "exited" => d.end = NoEnd
         /\ d.st = "exited" <=> c.st = "exited"
BY Zenon DEF Terminate, Kill

(* kill_process_group sends SIGTERM.                                       *)
LEMMA ReportTerm ==
  ASSUME IInv, ReportInv, NEW kind \in {"cancelled", "timeout"}, JobTerm(kind)
  PROVE  ReportInv'
<1>1. /\ job \in {"term_cancelled", "term_timeout"} /\ job' \in {"kill_cancelled", "kill_timeout"}
      /\ child' \in Terminate(child)
      /\ UNCHANGED <<main, active, tearing, cancelled, result, out>>
  BY DEF JobTerm, TermAt, KillAt, loopVars, schedVars, outVars
<1>2. child.st # "exited" /\ child.end = NoEnd
  BY <1>1, Zenon DEF ReportInv, ChildInv
<1>3. child'.st # "exited" /\ child'.end = NoEnd
  BY <1>1, <1>2, SignalEnd, Zenon DEF IInv, JobInv
<1>. QED BY <1>1, <1>3 DEF ReportInv, ChildInv, ResultInv, TruthfulReport, Subject, Alive

(* A killed scan has no end.                                               *)
LEMMA ReportKill ==
  ASSUME IInv, ReportInv, NEW kind \in {"cancelled", "timeout"}, JobKill(kind)
  PROVE  ReportInv'
<1>1. /\ job' = "done" /\ child' = [st |-> "none", end |-> NoEnd]
      /\ result' = [kind |-> kind, end |-> NoEnd] /\ UNCHANGED <<main, cancelled, out>>
  BY Zenon DEF JobKill, finish, NoChild, loopVars, outVars
<1>. QED BY <1>1, Zenon DEF ReportInv, ChildInv, ResultInv, TruthfulReport

(* teardown() takes the run over with its scanner.                         *)
LEMMA ReportTeardown ==
  ASSUME IInv, ReportInv, Teardown
  PROVE  ReportInv'
<1>1. main = "teardown" /\ UNCHANGED <<job, result, out>>
  BY Zenon DEF Teardown, outVars
<1>2. CASE active = None
  BY <1>1, <1>2, ReportQuiet, Zenon DEF Teardown, Goto, jobVars, Joining, Alive
<1>3. CASE active # None
  <2>1. /\ main' = "join" /\ tearing' = active /\ active' = None /\ cancelled' = TRUE
        /\ child' \in Terminate(child)
    BY <1>3, Zenon DEF Teardown, Goto, Terminate
  <2>2. /\ child'.end = child.end /\ (child'.st # "exited" => child'.end = NoEnd)
        /\ child'.st = "exited" <=> child.st = "exited"
    BY <2>1, SignalEnd, Zenon DEF IInv, JobInv, ReportInv, ChildInv
  <2>3. Subject' = Subject /\ Alive
    BY <1>1, <1>3, <2>1, Zenon DEF Subject, Alive
  <2>. QED BY <1>1, <2>1, <2>2, <2>3, Zenon DEF ReportInv, ChildInv, ResultInv, TruthfulReport
<1>. QED BY <1>2, <1>3, Zenon

(* teardown() kills what its first join left.                              *)
LEMMA ReportJoin ==
  ASSUME IInv, ReportInv, TeardownJoin
  PROVE  ReportInv'
<1>1. /\ main = "join" /\ main' \in {"report", "join_again"}
      /\ child' \in Terminate(child)
      /\ UNCHANGED <<active, tearing, job, cancelled, result, out>>
  BY Zenon DEF TeardownJoin, Goto, Terminate, schedVars, outVars
<1>2. /\ child'.end = child.end /\ (child'.st # "exited" => child'.end = NoEnd)
      /\ child'.st = "exited" <=> child.st = "exited"
  BY <1>1, SignalEnd, Zenon DEF IInv, JobInv, ReportInv, ChildInv
<1>3. Subject' = Subject /\ Alive /\ cancelled'
  BY <1>1, Zenon DEF Subject, Alive, ReportInv, ChildInv, Joining
<1>. QED BY <1>1, <1>2, <1>3 DEF ReportInv, ChildInv, ResultInv, TruthfulReport

(* teardown() reports the result of the thread that got back, or none.     *)
LEMMA ReportTorn ==
  ASSUME IInv, ReportInv, TeardownReport
  PROVE  ReportInv'
<1> DEFINE res == IF job = "done" THEN result ELSE NoResult
<1>1. /\ main = "report" /\ main' = "leave" /\ finish_run(tearing, res)
      /\ UNCHANGED <<active, tearing, jobVars>>
  BY Zenon DEF TeardownReport, Goto
<1>2. tearing \in Runs /\ active = None /\ Alive
  BY <1>1, Zenon DEF IInv, TypeOK, FlightInv, Joining, Runs, Alive
<1>3. /\ res.kind \in {"unreported", "error", "timeout", "cancelled", "exit"}
      /\ (res.kind \in {"unreported", "error", "timeout"} => res.end = NoEnd)
      /\ (res.kind = "exit" => res.end \in EndsOf[tearing.scanner])
  BY <1>2, Zenon DEF ReportInv, ResultInv, NoResult, Subject
<1> HIDE DEF res
<1>4. TruthfulReport'
  BY <1>1, <1>2, <1>3, FinishTruthful, Zenon
<1>. QED
  BY <1>1, <1>2, <1>4, Zenon DEF ReportInv, ChildInv, ResultInv, Subject, Alive, Joining, jobVars

(* A process that is gone has reported.                                    *)
LEMMA ReportLeave ==
  ASSUME IInv, ReportInv, Leave
  PROVE  ReportInv'
BY Zenon DEF Leave, Goto, Alive, NoReport, NoResult, NoEnd, ReportInv, ChildInv, ResultInv, Joining,
   TruthfulReport

(* Every step keeps what is known of the scan in hand and its report.      *)
LEMMA ReportNext ==
  ASSUME IInv, ReportInv, [Next]_vars
  PROVE  ReportInv'
<1>1. CASE \/ LoopTop \/ LoopClear \/ LoopCheck \/ StepEnd \/ WaitWoken \/ WaitTick
           \/ TeardownJoinAgain
  BY <1>1, ReportQuiet, Zenon DEF LoopTop, LoopClear, LoopCheck, StepEnd, WaitWoken, WaitTick,
     TeardownJoinAgain, Goto, Alive, Joining, schedVars, outVars
<1>2. CASE request_stop \/ Reader \/ Gone \/ UNCHANGED vars
  BY <1>2, ReportQuiet DEF request_stop, Reader, ReadLine, ReaderWake, Gone, vars, Alive,
     loopVars, schedVars, outVars
<1>3. CASE \/ StepPoll \/ StepScan \/ Teardown \/ TeardownJoin \/ TeardownReport \/ Leave
  BY <1>3, ReportPoll, ReportScan, ReportTeardown, ReportJoin, ReportTorn, ReportLeave, Zenon
<1>4. CASE JobThread \/ ChildExit
  BY <1>4, ReportSpawn, ReportRegister, ReportExit, ReportAwait, ReportDeadline, ReportTerm,
     ReportKill, Zenon DEF JobThread
<1>. QED BY <1>1, <1>2, <1>3, <1>4, Zenon DEF Next, Main

(* Nothing has run and nothing is reported at first.                       *)
LEMMA ReportInit == Init => ReportInv
BY DEF Init, ReportInv, ChildInv, ResultInv, TruthfulReport, NoChild, NoResult, NoReport, NoEnd,
   Joining

(* scan_completed is true to the scan: a clean report is of a scanner that *)
(* ended by itself with status 0 and nothing found, findings were there,   *)
(* and no exit status hides what an output-driven scanner found.           *)
THEOREM ReportsTruthful == Spec => []TruthfulReport
<1>1. ReportInv => TruthfulReport
  BY Zenon DEF ReportInv
<1>. QED BY <1>1, ReportInit, ReportNext, Invariance, PTL DEF Spec
=============================================================================
