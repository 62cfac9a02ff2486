--------------------------- MODULE ScannerWorker ---------------------------
(***************************************************************************)
(* The scanner worker process: the run loop and the command reader thread  *)
(* of workers/contract.py, the scheduler of ScannerRunnerWorker, the scan  *)
(* job thread and the scanner subprocess it owns, against the supervisor's *)
(* SIGTERM, its stop budget and the SIGKILL that follows it.               *)
(*                                                                         *)
(* Time passes in worker ticks (step_interval_s), and only while the main  *)
(* thread waits; durations of the shutdown path are in half seconds.       *)
(***************************************************************************)
EXTENDS ScannerAdapters, Integers

CONSTANTS None,
          Scanners,         \* the configured adapters
          Enabled,          \* those whose config says enabled
          Order,            \* sorted(self._adapters)
          IntervalT,        \* interval_s of a scanner, in ticks
          BackoffT,         \* retry_backoff_s, in ticks
          StartupT,         \* startup_delay_s, in ticks
          TickCost,         \* step_interval_s, in half seconds
          ShutdownGrace,    \* SHUTDOWN_GRACE_S, in half seconds
          StopBudget,       \* Supervisor.stop()'s budget, in half seconds
          OutputMax,        \* max_output_bytes, in report lines
          MaxLines          \* bound: command lines the supervisor writes

ASSUME ScannerConstants ==
  /\ Enabled \subseteq Scanners
  /\ None \notin Scanners /\ None \notin [scanner : Enabled, scheduled : BOOLEAN]
  /\ Order \in Seq(Scanners) /\ \A s \in Scanners : \E i \in DOMAIN Order : Order[i] = s
  /\ BackoffT \in Nat /\ IntervalT \in Nat /\ BackoffT < IntervalT /\ StartupT \in Nat
  /\ TickCost \in Nat /\ ShutdownGrace \in Nat /\ StopBudget \in Nat /\ MaxLines \in Nat
  /\ OutputMax \in Nat
  /\ 2 * ShutdownGrace <= StopBudget

VARIABLES
  main,       \* where the main thread is
  idx,        \* position in the scanner loop of step()
  stop, wake, \* Worker._stop, Worker._wake
  spent,      \* half seconds since SIGTERM, saturating past the budget
  active,     \* _active: None or [scanner, scheduled]
  tearing,    \* the run teardown() took over
  due,        \* _next_due, as ticks from now
  retried, notified, runNext,  \* _retried, _skip_notified, _run_next
  job,        \* where the job thread is
  registered, cancelled,       \* _ScanJob._proc is set, _cancelled
  result,     \* _ScanJob._result
  child,      \* the scanner's process group
  reader,     \* the command reader thread: "read", or "accepted" with the wake to set
  lines,      \* command lines written so far
  open,       \* scanner of the last scan_started without a scan_completed
  out,        \* the scan_completed just written to stdout
  streak      \* retries granted to a scanner since its last regular slot or skip

loopVars  == <<main, idx, stop, wake, spent>>
schedVars == <<active, due, retried, notified, runNext, streak>>
jobVars   == <<job, registered, cancelled, result, child>>
cmdVars   == <<reader, lines>>
outVars   == <<open, out>>
vars == <<loopVars, tearing, schedVars, jobVars, cmdVars, outVars>>

NoEnd     == [outcome |-> "failure", code |-> 0, found |-> FALSE, hidden |-> FALSE]
NoChild   == [st |-> "none", end |-> NoEnd]
NoResult  == [kind |-> "unreported", end |-> NoEnd]
NoReport  == [scanner |-> None, outcome |-> "failure", reason |-> "none", end |-> NoEnd]

Alive == main # "exited"

Init ==
  /\ main = "top" /\ idx = 1 /\ stop = FALSE /\ wake = FALSE /\ spent = 0
  /\ active = None /\ tearing = None
  /\ due = [s \in Scanners |-> StartupT]
  /\ retried = [s \in Scanners |-> FALSE] /\ notified = {} /\ runNext = {}
  /\ job = "none" /\ registered = FALSE /\ cancelled = FALSE
  /\ result = NoResult /\ child = NoChild
  /\ reader = "read" /\ lines = 0
  /\ open = None /\ out = NoReport
  /\ streak = [s \in Scanners |-> 0]

Spend(d) == spent' = IF stop THEN IF spent + d > StopBudget THEN StopBudget + 1
                                  ELSE spent + d
                     ELSE spent

-----------------------------------------------------------------------------
(* The supervisor (external).                                              *)

\* SIGTERM, delivered to request_stop on the main thread.
request_stop ==
  /\ Alive /\ ~stop
  /\ stop' = TRUE /\ wake' = TRUE
  /\ UNCHANGED <<main, idx, spent, tearing, schedVars, jobVars, cmdVars, outVars>>

-----------------------------------------------------------------------------
(* The run loop.                                                           *)

Goto(pc) == main' = pc

\* while not self._stop.is_set()
LoopTop ==
  /\ main = "top"
  /\ Goto(IF stop THEN "teardown" ELSE "clear")
  /\ UNCHANGED <<idx, stop, wake, spent, tearing, schedVars, jobVars, cmdVars, outVars>>

\* self._wake.clear()
LoopClear ==
  /\ main = "clear" /\ Goto("check")
  /\ wake' = FALSE
  /\ UNCHANGED <<idx, stop, spent, tearing, schedVars, jobVars, cmdVars, outVars>>

\* A stop whose wake the clear erased is still seen here.
LoopCheck ==
  /\ main = "check"
  /\ Goto(IF stop THEN "teardown" ELSE "poll")
  /\ UNCHANGED <<idx, stop, wake, spent, tearing, schedVars, jobVars, cmdVars, outVars>>

\* wake.wait(step_interval_s()) returns at once ...
WaitWoken ==
  /\ main = "wait" /\ wake
  /\ Goto(IF stop THEN "teardown" ELSE "top")
  /\ UNCHANGED <<idx, stop, wake, spent, tearing, schedVars, jobVars, cmdVars, outVars>>

\* ... or after a full tick.
WaitTick ==
  /\ main = "wait" /\ ~wake
  /\ Goto(IF stop THEN "teardown" ELSE "top")
  /\ due' = [s \in Scanners |-> IF due[s] > 0 THEN due[s] - 1 ELSE 0]
  /\ Spend(TickCost)
  /\ UNCHANGED <<idx, stop, wake, tearing, active, retried, notified, runNext, streak,
                 jobVars, reader, lines, outVars>>

-----------------------------------------------------------------------------
(* Completing a run.                                                       *)

\* _pre_exit_failure_reason
PreExitReason(kind) ==
  CASE kind = "unreported" -> "teardown_timeout"
    [] kind = "error"      -> "spawn_error"
    [] kind = "timeout"    -> "timeout"
    [] kind = "cancelled"  -> "shutdown"
    [] kind = "exit"       -> "none"

\* _classify and the parse guard of _finish_run; an adapter that raises makes
\* the run a failure.
Classify(res, raises) ==
  IF res.kind # "exit" THEN <<"failure", PreExitReason(res.kind)>>
  ELSE IF raises = "interpret" THEN <<"failure", "exit_interpretation_error">>
  ELSE IF res.end.outcome = "failure" THEN <<"failure", "scanner_error">>
  ELSE IF raises = "parse" THEN <<"failure", "parse_error">>
  ELSE <<res.end.outcome, "none">>

ShutdownReasons == {"shutdown", "teardown_timeout"}

\* _consume_slot
consume_slot(s) ==
  /\ due' = [due EXCEPT ![s] = IntervalT]
  /\ notified' = notified \ {s}

\* _reschedule: one retry after the backoff, then the next slot.
reschedule(s, outcome, reason) ==
  IF outcome = "failure" /\ reason \notin ShutdownReasons /\ ~retried[s]
    THEN /\ retried' = [retried EXCEPT ![s] = TRUE]
         /\ due' = [due EXCEPT ![s] = BackoffT]
         /\ notified' = notified \ {s}
         /\ streak' = [streak EXCEPT ![s] = @ + 1]
    ELSE /\ retried' = [retried EXCEPT ![s] = FALSE]
         /\ consume_slot(s)
         /\ streak' = [streak EXCEPT ![s] = 0]

\* _emit_completed: the outcome, its reason and the counts of the run.
emit_completed(run, c, res) ==
  /\ out' = [scanner |-> run.scanner, outcome |-> c[1], reason |-> c[2], end |-> res.end]
  /\ open' = None

\* scan_completed inside the guard of the findings.
finish_run_OneGuard(run, res) ==
  \E raises \in {"none", "interpret", "parse"} :
    LET c == Classify(res, raises)
    IN  /\ IF raises = "none"
             THEN emit_completed(run, c, res)
             ELSE UNCHANGED outVars
        /\ IF run.scheduled
             THEN reschedule(run.scanner, c[1], c[2])
             ELSE UNCHANGED <<due, retried, notified, streak>>

\* _finish_run: the findings, then scan_completed whatever became of them, then
\* the next slot of a scheduled run.
finish_run(run, res) ==
  \E raises \in {"none", "interpret", "parse"} :
    LET c == Classify(res, raises)
    IN  /\ emit_completed(run, c, res)
        /\ IF run.scheduled
             THEN reschedule(run.scanner, c[1], c[2])
             ELSE UNCHANGED <<due, retried, notified, streak>>

\* step(), first half: finish the run whose job thread is done.
StepPoll ==
  /\ main = "poll" /\ Goto("scan") /\ idx' = 1
  /\ IF active # None /\ job = "done"
       THEN /\ active' = None
            /\ finish_run(active, result)
            /\ job' = "none" /\ result' = NoResult
            /\ UNCHANGED <<registered, cancelled, child, runNext>>
       ELSE UNCHANGED <<schedVars, jobVars, outVars>>
  /\ UNCHANGED <<stop, wake, spent, tearing, cmdVars>>

-----------------------------------------------------------------------------
(* Starting a run.                                                         *)

\* Why _start_run skips: which() first, then the adapter's preflight, then argv.
SkipReason(s, missing, raises) ==
  IF "binary" \in missing THEN "binary_not_found"
  ELSE IF raises = "preflight" THEN "preflight_error"
  ELSE IF preflight(s, missing) # Ready THEN preflight(s, missing)
  ELSE IF raises = "argv" THEN "argv_error"
  ELSE Ready

SkipReasons ==
  [s \in Scanners |-> {SkipReason(s, missing, raises) :
                         missing \in Missing(s), raises \in {"none", "preflight", "argv"}}]

\* _emit_skipped: a scan that never became one is reported and opens nothing.
emit_skipped == UNCHANGED open

\* _skip_slot: clears the retry flag, gives up the slot only when it was due.
skip_slot(s, scheduled) ==
  /\ emit_skipped
  /\ retried' = [retried EXCEPT ![s] = FALSE]
  /\ streak' = [streak EXCEPT ![s] = 0]
  /\ IF scheduled THEN consume_slot(s) ELSE UNCHANGED <<due, notified>>
  /\ UNCHANGED <<active, jobVars>>

\* _emit_started
emit_started(s) == open' = s

\* A triggered run consumes the slot as well.
launch_Consuming(s, scheduled) ==
  /\ scheduled \in BOOLEAN
  /\ consume_slot(s)
  /\ emit_started(s)
  /\ job' = "spawning"
  /\ active' = [scanner |-> s, scheduled |-> scheduled]
  /\ UNCHANGED <<retried, streak, registered, cancelled, result, child>>

\* _start_run once nothing is missing: claim the slot, announce, start the job.
launch(s, scheduled) ==
  /\ IF scheduled THEN consume_slot(s) ELSE UNCHANGED <<due, notified>>
  /\ emit_started(s)
  /\ job' = "spawning"
  /\ active' = [scanner |-> s, scheduled |-> scheduled]
  /\ UNCHANGED <<retried, streak, registered, cancelled, result, child>>

start_run(s, scheduled) ==
  /\ runNext' = runNext \ {s}
  /\ \E reason \in SkipReasons[s] :
       IF reason = Ready THEN launch(s, scheduled) ELSE skip_slot(s, scheduled)

\* _notify_in_flight: the scheduled cadence reports a missed window once.
notify_in_flight(s) ==
  /\ emit_skipped
  /\ notified' = notified \cup {s}
  /\ UNCHANGED <<active, due, retried, runNext, streak, jobVars>>

\* step(), second half, one scanner of the sorted loop.
StepScan ==
  /\ main = "scan" /\ idx <= Len(Order)
  /\ idx' = idx + 1 /\ out' = NoReport
  /\ LET s == Order[idx]
         scheduledDue == due[s] = 0
     IN  \/ /\ s \in Enabled /\ (s \in runNext \/ scheduledDue) /\ active = None
            /\ start_run(s, scheduledDue)
         \/ /\ s \in Enabled /\ scheduledDue /\ active # None
            /\ notify_in_flight(s)
         \/ /\ ~(s \in Enabled /\ (scheduledDue \/ (s \in runNext /\ active = None)))
            /\ UNCHANGED <<schedVars, jobVars, open>>
  /\ UNCHANGED <<main, stop, wake, spent, tearing, cmdVars>>

\* The heartbeat between step and wait; a broken stderr leaves the loop.
StepEnd ==
  /\ main = "scan" /\ idx > Len(Order)
  /\ Goto("wait") \/ Goto("teardown")
  /\ idx' = 1
  /\ UNCHANGED <<stop, wake, spent, tearing, schedVars, jobVars, cmdVars, outVars>>

-----------------------------------------------------------------------------
(* The scan job thread and its subprocess.                                 *)

\* Bound: lines of a scanner's report.
MaxReportLines == 3

Reports(name) == UNION {[1..n -> LineClasses(name)] : n \in 0..MaxReportLines}

\* aide's status agrees with its report, and an aide that fails prints none
\* (external); the others' status says nothing of their report.
Exits(name) ==
  IF name = "aide"
    THEN {e \in {0, 1} \X Reports(name) : e[1] = 1 <=> parse(name, e[2]) > 0}
           \cup {<<18, <<>>>>}
    ELSE {0, 1} \X Reports(name)

\* What the runner can learn of one exit: the sinks keep a prefix of the
\* report and drain the rest.
SinkView(name, e) ==
  LET kept == SubSeq(e[2], 1, IF Len(e[2]) < OutputMax THEN Len(e[2]) ELSE OutputMax)
  IN  [outcome |-> interpret_outcome(name, e[1], kept), code |-> e[1],
       found |-> parse(name, kept) > 0,
       hidden |-> parse(name, kept) = 0 /\ parse(name, e[2]) > 0]

EndsOf == [s \in Scanners |-> {SinkView(s, e) : e \in Exits(s)}]

Kill(c) == IF c.st = "alive" THEN [c EXCEPT !.st = "dead"] ELSE c

\* What SIGTERM may leave: a scanner can ignore it, or take its time.
Terminate(c) == {c, Kill(c)}

\* The scanner of the run the job thread works for.
Subject == IF active # None THEN active.scanner ELSE tearing.scanner

\* _finish; the process is reaped.
finish(kind, end) ==
  /\ result' = [kind |-> kind, end |-> end]
  /\ job' = "done" /\ child' = NoChild /\ registered' = FALSE

\* The thread is in kill_process_group, for a cancel or for its deadline.
TermAt == [cancelled |-> "term_cancelled", timeout |-> "term_timeout"]
KillAt == [cancelled |-> "kill_cancelled", timeout |-> "kill_timeout"]

\* _run: spawn, or report the binary that could not be started.
JobSpawn ==
  /\ Alive /\ job = "spawning"
  /\ \/ /\ child' = [NoChild EXCEPT !.st = "alive"]
        /\ job' = "spawned" /\ UNCHANGED <<result, registered>>
     \/ finish("error", NoEnd)
  /\ UNCHANGED <<loopVars, tearing, schedVars, cancelled, cmdVars, outVars>>

\* Publish the process and read the cancel flag under the lock.
JobRegister ==
  /\ Alive /\ job = "spawned"
  /\ registered' = TRUE
  /\ job' = IF cancelled THEN TermAt.cancelled ELSE "await"
  /\ UNCHANGED <<loopVars, tearing, schedVars, cancelled, result, child, cmdVars, outVars>>

\* The scanner ends by itself (external); before its thread waits for it, or
\* once it is being killed, that makes no difference.
ChildExit ==
  /\ Alive /\ job = "await" /\ child.st = "alive"
  /\ \E e \in EndsOf[Subject] : child' = [st |-> "exited", end |-> e]
  /\ UNCHANGED <<loopVars, tearing, schedVars, job, registered, cancelled, result, cmdVars,
                 outVars>>

\* _await_exit: EOF and exit before the deadline, ...
JobAwait ==
  /\ Alive /\ job = "await" /\ child.st \in {"exited", "dead"}
  /\ finish(IF cancelled THEN "cancelled" ELSE "exit", child.end)
  /\ UNCHANGED <<loopVars, tearing, schedVars, cancelled, cmdVars, outVars>>

\* ... or the deadline passes. (The except branch is dead: neither join nor
\* _wait_quietly raises.)
JobDeadline ==
  /\ Alive /\ job = "await" /\ child.st = "alive"
  /\ job' = TermAt.timeout
  /\ UNCHANGED <<loopVars, tearing, schedVars, registered, cancelled, result, child, cmdVars,
                 outVars>>

\* kill_process_group: terminate the group and wait a grace ...
JobTerm(kind) ==
  /\ Alive /\ job = TermAt[kind]
  /\ child' \in Terminate(child)
  /\ job' = KillAt[kind]
  /\ UNCHANGED <<loopVars, tearing, schedVars, registered, cancelled, result, cmdVars, outVars>>

\* ... then kill what is still there, and finish.
JobKill(kind) ==
  /\ Alive /\ job = KillAt[kind]
  /\ finish(kind, NoEnd)
  /\ UNCHANGED <<loopVars, tearing, schedVars, cancelled, cmdVars, outVars>>

-----------------------------------------------------------------------------
(* teardown().                                                             *)

\* Take the active run over and cancel it: the flag and the process under the
\* job's lock, SIGTERM to the group that is there.
Teardown ==
  /\ main = "teardown"
  /\ IF active = None
       THEN Goto("leave") /\ UNCHANGED <<tearing, active, cancelled, child>>
       ELSE /\ tearing' = active /\ active' = None
            /\ cancelled' = TRUE
            /\ child' \in IF registered THEN Terminate(child) ELSE {child}
            /\ Goto("join")
  /\ UNCHANGED <<idx, stop, wake, spent, due, retried, notified, runNext, streak, job,
                 registered, result, cmdVars, outVars>>

\* Popen returns well within a grace: a join never expires while the job
\* thread is still spawning.
Spawning == job \in {"spawning", "spawned"}

\* The process is not looked up again after the first join.
TeardownJoin_NoKill ==
  /\ main = "join"
  /\ Spend(ShutdownGrace)
  /\ \/ job = "done" /\ Goto("report")
     \/ job # "done" /\ ~Spawning /\ Goto("join_again")
  /\ UNCHANGED <<idx, stop, wake, tearing, schedVars, jobVars, cmdVars, outVars>>

\* thread.join(grace): done, or expired and the group is killed.
TeardownJoin ==
  /\ main = "join"
  /\ Spend(ShutdownGrace)
  /\ \/ job = "done" /\ Goto("report") /\ UNCHANGED child
     \/ /\ job # "done" /\ ~Spawning
        /\ child' = IF registered THEN Kill(child) ELSE child
        /\ Goto("join_again")
  /\ UNCHANGED <<idx, stop, wake, tearing, schedVars, job, registered, cancelled, result,
                 cmdVars, outVars>>

TeardownJoinAgain ==
  /\ main = "join_again"
  /\ Spend(ShutdownGrace)
  /\ Goto("report")
  /\ UNCHANGED <<idx, stop, wake, tearing, schedVars, jobVars, cmdVars, outVars>>

\* The run is reported whether or not its thread got back.
TeardownReport ==
  /\ main = "report"
  /\ finish_run(tearing, IF job = "done" THEN result ELSE NoResult)
  /\ Goto("leave")
  /\ UNCHANGED <<idx, stop, wake, spent, tearing, active, runNext, jobVars, cmdVars>>

\* run() returns and the process exits, taking its daemon threads with it.
Leave ==
  /\ main = "leave"
  /\ Goto("exited")
  /\ tearing' = None /\ result' = NoResult /\ out' = NoReport
  /\ UNCHANGED <<idx, stop, wake, spent, schedVars, job, registered, cancelled, child, cmdVars,
                 open>>

-----------------------------------------------------------------------------
(* The command reader thread.                                              *)

\* Lines that are dropped without an answer, and commands answered with a
\* refusal the flood bound may suppress; neither touches the runner.
Dropped == {"overlong", "not_json", "not_object", "no_request_id"}
Refused == {"bad_name", "bad_args", "unknown_command", "unknown_scanner", "scanner_disabled",
            "handler_error", "invalid_status"}

\* _command_reader, _handle_command_line and handle_command: the trigger is
\* added before anything is answered.
ReadLine ==
  /\ Alive /\ reader = "read" /\ lines < MaxLines
  /\ lines' = lines + 1
  /\ \/ \E form \in Dropped \cup Refused : UNCHANGED <<reader, runNext>>
     \/ \E name \in Enabled : runNext' = runNext \cup {name} /\ reader' = "accepted"
  /\ UNCHANGED <<loopVars, tearing, active, due, retried, notified, streak, jobVars, outVars>>

\* An accepted command that is answered and wakes nobody.
ReaderWake_Silent ==
  /\ Alive /\ reader = "accepted"
  /\ reader' = "read"
  /\ UNCHANGED <<loopVars, tearing, schedVars, jobVars, lines, outVars>>

\* An accepted command wakes the loop, then is answered.
ReaderWake ==
  /\ Alive /\ reader = "accepted"
  /\ wake' = TRUE /\ reader' = "read"
  /\ UNCHANGED <<main, idx, stop, spent, tearing, schedVars, jobVars, lines, outVars>>

-----------------------------------------------------------------------------

Main == \/ LoopTop \/ LoopClear \/ LoopCheck \/ StepPoll \/ StepScan \/ StepEnd
        \/ WaitWoken \/ WaitTick
        \/ Teardown \/ TeardownJoin \/ TeardownJoinAgain \/ TeardownReport
        \/ Leave
JobThread == \/ JobSpawn \/ JobRegister \/ JobAwait \/ JobDeadline
             \/ \E kind \in {"cancelled", "timeout"} : JobTerm(kind) \/ JobKill(kind)
Reader == ReadLine \/ ReaderWake

\* A process that is gone stays gone.
Gone == ~Alive /\ UNCHANGED vars

Next == request_stop \/ Main \/ JobThread \/ ChildExit \/ Reader \/ Gone

Spec == Init /\ [][Next]_vars

\* Threads that can run do run; the scan's timeout fires. Nobody has to send
\* a command or a signal, and a scanner need not end by itself.
FairSpec == Spec /\ WF_vars(Main) /\ WF_vars(JobThread) /\ WF_vars(ReaderWake)

-----------------------------------------------------------------------------
(* Properties.                                                             *)

\* The threads, the scan and its subprocess, the schedule and the clock keep
\* their types.
TypeOK ==
  /\ main \in {"top", "clear", "check", "poll", "scan", "wait", "teardown", "join",
               "join_again", "report", "leave", "exited"}
  /\ idx \in 1..(Len(Order) + 1)
  /\ stop \in BOOLEAN /\ wake \in BOOLEAN /\ spent \in 0..(StopBudget + 1)
  /\ active \in {None} \cup [scanner : Enabled, scheduled : BOOLEAN]
  /\ tearing \in {None} \cup [scanner : Enabled, scheduled : BOOLEAN]
  /\ due \in [Scanners -> 0..(IntervalT + StartupT)]
  /\ retried \in [Scanners -> BOOLEAN]
  /\ notified \subseteq Enabled /\ runNext \subseteq Enabled
  /\ child.st \in {"none", "alive", "exited", "dead"}
  /\ open \in {None} \cup Enabled
  /\ lines \in 0..MaxLines

\* A worker told to stop is through its teardown before the supervisor's
\* budget runs out: the wait it may be in, the wake a step has just cleared and
\* both joins of the cancelled scan fit into it, so it is never killed half way.
InBudget == spent <= StopBudget

\* "must not survive the worker's death": when the process is gone, so is the
\* scan it was running, even one that ignores SIGTERM or was just being spawned.
NoOrphan == ~Alive => child.st # "alive"

\* A scan reads clean only if its scanner ended by itself with status 0 and the
\* captured report holds no finding; it reads findings only if the report has
\* some; and no status hides what an output-driven scanner reported.
TruthfulReport ==
  LET e == out.end
  IN  /\ out.outcome = "clean" => e # NoEnd /\ e.code = 0 /\ ~e.found
      /\ out.outcome = "findings" => e.found \/ e.hidden
      /\ out.scanner \notin {None, "aide"} /\ e.found
           => \/ out.outcome = "findings"
              \/ out.reason \in {"shutdown", "exit_interpretation_error", "parse_error"}

\* The main thread never sleeps a whole tick on an accepted trigger it could
\* serve: the trigger is added before wake is set, and wake is cleared before
\* the step that looks for triggers.
TriggerWakes ==
  main = "wait" /\ runNext # {} /\ active = None /\ reader # "accepted" => wake

\* One retry after a failure, then the next slot: nothing but a skipped window
\* in between earns a scanner a second one.
RetryOnce == \A s \in Scanners : streak[s] <= 1

\* A scanner's next scheduled scan moves away only when its slot was due or a
\* scheduled run of it ends; a triggered run never postpones it.
SlotKept ==
  [][\A s \in Scanners :
       due'[s] > due[s] =>
         \/ due[s] = 0
         \/ \E r \in {active, tearing} : /\ r # None /\ r.scanner = s /\ r.scheduled
                                         /\ open = s /\ open' = None]_vars

\* The refinement mapping: a scan is running while its start is announced and
\* its end is not, and the triggers accepted are owed.
Service == INSTANCE ScanService WITH running <- open, owed <- runNext, up <- Alive

\* The threads, the subprocess and the clock together provide the service:
\* single flight, every announced scan reported once before the process ends,
\* every accepted trigger resolved.
ImplementsService == Service!Spec

\* The schedule holds: a scan moves to its next slot only when this one was due or used,
\* and a failing scanner is retried once between two slots.
ScheduleKept == []RetryOnce /\ SlotKept

\* A worker told to stop ends in time and leaves no scan behind, at whatever
\* point of a tick, a launch or a kill the stop reaches it.
CleanStop == InBudget /\ NoOrphan
=============================================================================
