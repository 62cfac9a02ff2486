----------------------------- MODULE Supervisor -----------------------------
(***************************************************************************)
(* Worker lifecycle and command channel of inspectord/supervisor.py.       *)
(*                                                                         *)
(* Threads: one IPC thread per call of send_worker_command (Senders), one  *)
(* stdout reader per worker incarnation, the monitor thread, and the       *)
(* thread that calls Supervisor.stop().  The worker processes are their    *)
(* peers at the other end of the pipes.  An incarnation <<w, k>> is the    *)
(* k-th process spawned for worker w, i.e. one _WorkerProc object.         *)
(* Time is abstract: a backoff, a join or a wait may expire at any moment. *)
(***************************************************************************)
EXTENDS Naturals, Sequences, FiniteSets

CONSTANTS
  Workers,       \* the configured worker specs
  Senders,       \* the calls of send_worker_command (one request each)
  MaxInflight,   \* MAX_INFLIGHT_COMMANDS_PER_WORKER
  MaxRestarts,   \* restart_max_attempts
  MaxSpawns,     \* model bound: incarnations of one worker
  MaxHeals       \* model bound: resets of the backoff by a healthy worker

ASSUME SupervisorAssumption ==
  /\ IsFiniteSet(Senders)
  /\ MaxInflight \in Nat \ {0}
  /\ MaxRestarts \in Nat
  /\ MaxSpawns \in Nat \ {0}
  /\ MaxHeals \in Nat

VARIABLES
  procs, procsLock,                \* _procs (incarnation installed per worker)
  life,                            \* the process; _WorkerProc.died_reported, .exhausted
  restarts, restartAt, heals,      \* attempts counted, backoff running, resets
  termSent,                        \* a signal was sent to the process
  stdinOpen, inbox, outbox, held,  \* the pipes; the line a reader is working on
  pending,                         \* _WorkerProc.pending
  pc, target, answer,              \* each sender's thread
  fulfilled, result,               \* each sender's _PendingCommand
  verdict, spoken,                 \* history: what the worker decided and wrote
  monPc, monInc, monFailing,       \* the monitor thread
  stopPc, stopTodo, stopFailing    \* the thread in stop()

listVars  == <<procs, procsLock>>
retryVars == <<restarts, restartAt, heals>>
pipeVars  == <<stdinOpen, inbox, outbox, held>>
sendVars  == <<pc, target, answer>>
cmdVars   == <<fulfilled, result>>
histVars  == <<verdict, spoken>>
monVars   == <<monPc, monInc, monFailing>>
stopVars  == <<stopPc, stopTodo, stopFailing>>
vars == <<listVars, life, retryVars, termSent, pipeVars, pending, sendVars,
          cmdVars, histVars, monVars, stopVars>>

Incs       == Workers \X (1..MaxSpawns)
current(w) == <<w, procs[w]>>
Installed  == {current(w) : w \in Workers}
next(i)    == <<i[1], i[2] + 1>>
stopFlag   == stopPc # "run"            \* _stop.is_set()
None       == <<>>
Statuses   == {"accepted", "rejected"}
Results    == Statuses \cup {"timeout", "worker_died", "worker_unavailable"}

-----------------------------------------------------------------------------
(* start(): every configured worker is spawned, then the monitor starts. *)
Init ==
  /\ procs = [w \in Workers |-> 1] /\ procsLock = "free"
  /\ life = [i \in Incs |-> IF i[2] = 1 THEN "alive" ELSE "unborn"]
  /\ restarts = [i \in Incs |-> 0]
  /\ restartAt = [i \in Incs |-> FALSE]
  /\ heals = 0
  /\ termSent = [i \in Incs |-> FALSE]
  /\ stdinOpen = [i \in Incs |-> i[2] = 1]
  /\ inbox = [i \in Incs |-> <<>>]
  /\ outbox = [i \in Incs |-> <<>>]
  /\ held = [i \in Incs |-> None]
  /\ pending = [i \in Incs |-> {}]
  /\ pc = [s \in Senders |-> "idle"]
  /\ target = [s \in Senders |-> None]
  /\ answer = [s \in Senders |-> "none"]
  /\ fulfilled = [s \in Senders |-> FALSE]
  /\ result = [s \in Senders |-> "timeout"]
  /\ verdict = [s \in Senders |-> "none"]
  /\ spoken = {}
  /\ monPc = "idle" /\ monInc = None /\ monFailing = {}
  /\ stopPc = "run" /\ stopTodo = {} /\ stopFailing = {}

\* mutation: the event is not tested before the result is set
fulfill_LastWins(s, r) ==
  /\ fulfilled' = [fulfilled EXCEPT ![s] = TRUE]
  /\ result' = [result EXCEPT ![s] = r]

(* _PendingCommand.fulfill: the first fulfilment of an entry wins. *)
fulfill(s, r) ==
  /\ fulfilled' = [fulfilled EXCEPT ![s] = TRUE]
  /\ result' = [result EXCEPT ![s] = IF fulfilled[s] THEN @ ELSE r]

-----------------------------------------------------------------------------
(* send_worker_command, one step per lock or shared read *)

goto(s, label) == pc' = [pc EXCEPT ![s] = label] /\ UNCHANGED answer

return(s, r) ==
  /\ pc' = [pc EXCEPT ![s] = "done"]
  /\ answer' = [answer EXCEPT ![s] = r]

(* The finally block: pop the entry from the incarnation's map. *)
pop(s) == pending' = [pending EXCEPT ![target[s]] = @ \ {s}]

SendCheckStop(s) ==
  /\ pc[s] = "idle"
  /\ IF stopFlag THEN return(s, "worker_unavailable") ELSE goto(s, "lookup")
  /\ UNCHANGED <<listVars, life, retryVars, termSent, pipeVars, pending,
                 target, cmdVars, histVars, monVars, stopVars>>

(* The lookup by name, under _procs_lock. *)
SendLookup(s, w) ==
  /\ pc[s] = "lookup"
  /\ procsLock = "free"
  /\ target' = [target EXCEPT ![s] = current(w)]
  /\ goto(s, "register")
  /\ UNCHANGED <<listVars, life, retryVars, termSent, pipeVars, pending,
                 cmdVars, histVars, monVars, stopVars>>

(* No worker of that name: turned away. *)
SendUnknown(s) ==
  /\ pc[s] = "lookup"
  /\ procsLock = "free"
  /\ return(s, "worker_unavailable")
  /\ UNCHANGED <<listVars, life, retryVars, termSent, pipeVars, pending,
                 target, cmdVars, histVars, monVars, stopVars>>

inflightFull(i) == Cardinality(pending[i]) >= MaxInflight

(* Registration in the incarnation's pending map, under pending_lock. *)
SendRegister(s) ==
  /\ pc[s] = "register"
  /\ IF inflightFull(target[s])
       THEN return(s, "worker_unavailable") /\ UNCHANGED pending
       ELSE /\ goto(s, "recheck")
            /\ pending' = [pending EXCEPT ![target[s]] = @ \cup {s}]
  /\ UNCHANGED <<listVars, life, retryVars, termSent, pipeVars, target,
                 cmdVars, histVars, monVars, stopVars>>

\* mutation: _stop is not re-checked after the registration
SendRecheck_Dropped(s) ==
  /\ pc[s] = "recheck"
  /\ goto(s, "write")
  /\ UNCHANGED <<listVars, life, retryVars, termSent, pipeVars, pending,
                 target, cmdVars, histVars, monVars, stopVars>>

SendRecheck(s) ==
  /\ pc[s] = "recheck"
  /\ IF stopFlag THEN return(s, "worker_unavailable") /\ pop(s)
                 ELSE goto(s, "write") /\ UNCHANGED pending
  /\ UNCHANGED <<listVars, life, retryVars, termSent, pipeVars, target,
                 cmdVars, histVars, monVars, stopVars>>

(* A write reaches the worker through an open pipe to a live process; a    *)
(* closed file and a broken pipe are worker_unavailable.                   *)
SendWrite(s) ==
  /\ pc[s] = "write"
  /\ IF stdinOpen[target[s]] /\ life[target[s]] = "alive"
       THEN /\ goto(s, "wait")
            /\ inbox' = [inbox EXCEPT ![target[s]] = Append(@, s)]
            /\ UNCHANGED pending
       ELSE return(s, "worker_unavailable") /\ pop(s) /\ UNCHANGED inbox
  /\ UNCHANGED <<listVars, life, retryVars, termSent, stdinOpen, outbox, held,
                 target, cmdVars, histVars, monVars, stopVars>>

(* entry.wait returned, fulfilled or timed out: answer dict(entry.result). *)
SendReturn(s) ==
  /\ pc[s] = "wait"
  /\ return(s, result[s]) /\ pop(s)
  /\ UNCHANGED <<listVars, life, retryVars, termSent, pipeVars, target,
                 cmdVars, histVars, monVars, stopVars>>

-----------------------------------------------------------------------------
(* The worker process (workers/contract.py): the command reader answers a  *)
(* line with one command_result; a flood-bounded rejection and a failed    *)
(* stdout write leave no line.                                             *)
WorkerHandle(i) ==
  /\ life[i] = "alive"
  /\ inbox[i] # <<>>
  /\ inbox' = [inbox EXCEPT ![i] = Tail(@)]
  /\ \E status \in Statuses, emitted \in BOOLEAN :
       LET s == Head(inbox[i])
       IN  /\ verdict' = [verdict EXCEPT ![s] = status]
           /\ spoken' = IF emitted THEN spoken \cup {s} ELSE spoken
           /\ outbox' = IF emitted
                          THEN [outbox EXCEPT ![i] = Append(@, <<s, status>>)]
                          ELSE outbox
  /\ UNCHANGED <<listVars, life, retryVars, termSent, stdinOpen, held, pending,
                 sendVars, cmdVars, monVars, stopVars>>

(* The process exits, on its own or by a signal.  What it had not read is  *)
(* lost, what it had written stays readable.                               *)
WorkerExit(i) ==
  /\ life[i] = "alive"
  /\ life' = [life EXCEPT ![i] = "dead"]
  /\ inbox' = [inbox EXCEPT ![i] = <<>>]
  /\ UNCHANGED <<listVars, retryVars, termSent, stdinOpen, outbox, held,
                 pending, sendVars, cmdVars, histVars, monVars, stopVars>>

-----------------------------------------------------------------------------
(* _read_stdout and _fulfill_command_result: look the request up in this   *)
(* incarnation's own map under the lock, fulfil it outside.  After _stop   *)
(* the reader returns at its next line.                                    *)
ReaderTake(i) ==
  /\ held[i] = None
  /\ outbox[i] # <<>>
  /\ outbox' = [outbox EXCEPT ![i] = IF stopFlag THEN <<>> ELSE Tail(@)]
  /\ held' = [held EXCEPT ![i] =
                IF ~stopFlag /\ Head(outbox[i])[1] \in pending[i]
                  THEN Head(outbox[i]) ELSE None]
  /\ UNCHANGED <<listVars, life, retryVars, termSent, stdinOpen, inbox,
                 pending, sendVars, cmdVars, histVars, monVars, stopVars>>

\* mutation: any command_result counts as accepted
ReaderFulfill_StatusIgnored(i) ==
  /\ held[i] # None
  /\ fulfill(held[i][1], "accepted")
  /\ held' = [held EXCEPT ![i] = None]
  /\ UNCHANGED <<listVars, life, retryVars, termSent, stdinOpen, inbox, outbox,
                 pending, sendVars, histVars, monVars, stopVars>>

ReaderFulfill(i) ==
  /\ held[i] # None
  /\ fulfill(held[i][1], held[i][2])
  /\ held' = [held EXCEPT ![i] = None]
  /\ UNCHANGED <<listVars, life, retryVars, termSent, stdinOpen, inbox, outbox,
                 pending, sendVars, histVars, monVars, stopVars>>

-----------------------------------------------------------------------------
(* _monitor_tick: look at the next entry of _procs; once _stop is set the  *)
(* tick returns and the loop ends.                                         *)

monIdle == monPc' = "idle" /\ monInc' = None /\ UNCHANGED monFailing
monGoto(label) == monPc' = label /\ UNCHANGED <<monInc, monFailing>>

(* A live worker that stayed up restart_healthy_after_s: backoff reset. *)
MonHealthy(w) ==
  /\ monPc = "idle" /\ ~stopFlag
  /\ life[current(w)] = "alive"
  /\ restarts[current(w)] > 0
  /\ heals < MaxHeals
  /\ heals' = heals + 1
  /\ restarts' = [restarts EXCEPT ![current(w)] = 0]
  /\ UNCHANGED <<listVars, life, restartAt, termSent, pipeVars, pending,
                 sendVars, cmdVars, histVars, monVars, stopVars>>

\* mutation: poll() is not consulted
MonVisitDead_Unpolled(w) ==
  /\ monPc = "idle" /\ ~stopFlag
  /\ life[current(w)] # "exhausted"
  /\ monInc' = current(w)
  /\ monPc' = "decide"
  /\ UNCHANGED <<listVars, life, retryVars, termSent, pipeVars, pending,
                 sendVars, cmdVars, histVars, monFailing, stopVars>>

(* A dead worker: _handle_dead_worker, whose first visit reports the death. *)
MonVisitDead(w) ==
  /\ monPc = "idle" /\ ~stopFlag
  /\ life[current(w)] \in {"dead", "reported"}
  /\ monInc' = current(w)
  /\ monPc' = IF life[current(w)] = "reported" THEN "decide" ELSE "reap"
  /\ life' = [life EXCEPT ![current(w)] = "reported"]
  /\ UNCHANGED <<listVars, retryVars, termSent, pipeVars, pending, sendVars,
                 cmdVars, histVars, monFailing, stopVars>>

\* mutation: the readers are not joined
drained_Ignored(i) == TRUE

(* _reap joins the readers.  Joined, everything the worker wrote has been  *)
(* read and dispatched and the pipes are closed; a reader that outlives    *)
(* the join leaves every descriptor open.                                  *)
drained(i) == outbox[i] = <<>> /\ held[i] = None

MonReap(joined) ==
  /\ monPc = "reap"
  /\ joined => drained(monInc)
  /\ stdinOpen' = IF joined THEN [stdinOpen EXCEPT ![monInc] = FALSE]
                            ELSE stdinOpen
  /\ monGoto("fail")
  /\ UNCHANGED <<listVars, life, retryVars, termSent, inbox, outbox, held,
                 pending, sendVars, cmdVars, histVars, stopVars>>

(* _fail_pending(old, "worker_died"): empty the map under the lock, then   *)
(* fulfil each entry taken.                                                *)
MonFailTake ==
  /\ monPc = "fail"
  /\ monPc' = "fulfill" /\ monFailing' = pending[monInc]
  /\ pending' = [pending EXCEPT ![monInc] = {}]
  /\ UNCHANGED <<listVars, life, retryVars, termSent, pipeVars, sendVars,
                 cmdVars, histVars, monInc, stopVars>>

MonFulfill(s) ==
  /\ monPc = "fulfill"
  /\ s \in monFailing
  /\ monFailing' = monFailing \ {s}
  /\ fulfill(s, "worker_died")
  /\ UNCHANGED <<listVars, life, retryVars, termSent, pipeVars, pending,
                 sendVars, histVars, monPc, monInc, stopVars>>

MonFulfilled ==
  /\ monPc = "fulfill"
  /\ monFailing = {}
  /\ monGoto("decide")
  /\ UNCHANGED <<listVars, life, retryVars, termSent, pipeVars, pending,
                 sendVars, cmdVars, histVars, stopVars>>

(* Give up; start the backoff or keep waiting for it; or restart now. *)
MonExhausted ==
  /\ monPc = "decide"
  /\ restarts[monInc] >= MaxRestarts
  /\ life' = [life EXCEPT ![monInc] = "exhausted"]
  /\ monIdle
  /\ UNCHANGED <<listVars, retryVars, termSent, pipeVars, pending, sendVars,
                 cmdVars, histVars, stopVars>>

MonBackoff ==
  /\ monPc = "decide"
  /\ restarts[monInc] < MaxRestarts
  /\ restartAt' = [restartAt EXCEPT ![monInc] = TRUE]
  /\ monIdle
  /\ UNCHANGED <<listVars, life, restarts, heals, termSent, pipeVars, pending,
                 sendVars, cmdVars, histVars, stopVars>>

MonRespawn ==
  /\ monPc = "decide"
  /\ restarts[monInc] < MaxRestarts
  /\ restartAt[monInc]
  /\ restarts' = [restarts EXCEPT ![monInc] = @ + 1]
  /\ restartAt' = [restartAt EXCEPT ![monInc] = FALSE]
  /\ monGoto("lock")
  /\ UNCHANGED <<listVars, life, heals, termSent, pipeVars, pending, sendVars,
                 cmdVars, histVars, stopVars>>

(* _respawn, under _procs_lock: check _stop, start the process, install    *)
(* it, check _stop again.                                                  *)
MonLock ==
  /\ monPc = "lock"
  /\ procsLock = "free"
  /\ IF stopFlag THEN monIdle /\ UNCHANGED procsLock
                 ELSE monGoto("spawn") /\ procsLock' = "monitor"
  /\ UNCHANGED <<procs, life, retryVars, termSent, pipeVars, pending, sendVars,
                 cmdVars, histVars, stopVars>>

\* mutation: the new entry starts counting from zero
inherited_Lost == 0

(* new.restarts = attempt, the count MonRespawn left on the old entry *)
inherited == restarts[monInc]

MonSpawn ==
  /\ monPc = "spawn"
  /\ monInc[2] < MaxSpawns
  /\ life' = [life EXCEPT ![next(monInc)] = "alive"]
  /\ stdinOpen' = [stdinOpen EXCEPT ![next(monInc)] = TRUE]
  /\ restarts' = [restarts EXCEPT ![next(monInc)] = inherited]
  /\ monGoto("install")
  /\ UNCHANGED <<listVars, restartAt, heals, termSent, inbox, outbox, held,
                 pending, sendVars, cmdVars, histVars, stopVars>>

\* mutation: the exception path keeps the lock
MonSpawnFailed_LockKept ==
  /\ monPc = "spawn"
  /\ monIdle
  /\ UNCHANGED <<listVars, life, retryVars, termSent, pipeVars, pending,
                 sendVars, cmdVars, histVars, stopVars>>

(* _start_worker_proc raised: a failed attempt, the old entry stays. *)
MonSpawnFailed ==
  /\ monPc = "spawn"
  /\ procsLock' = "free"
  /\ monIdle
  /\ UNCHANGED <<procs, life, retryVars, termSent, pipeVars, pending, sendVars,
                 cmdVars, histVars, stopVars>>

MonInstall ==
  /\ monPc = "install"
  /\ procs' = [procs EXCEPT ![monInc[1]] = @ + 1]
  /\ monGoto("confirm")
  /\ UNCHANGED <<procsLock, life, retryVars, termSent, pipeVars, pending,
                 sendVars, cmdVars, histVars, stopVars>>

\* mutation: _stop is not checked again after the install
MonConfirm_Unchecked ==
  /\ monPc = "confirm"
  /\ procsLock' = "free"
  /\ monIdle
  /\ UNCHANGED <<procs, life, retryVars, termSent, pipeVars, pending, sendVars,
                 cmdVars, histVars, stopVars>>

MonConfirm ==
  /\ monPc = "confirm"
  /\ termSent' = IF stopFlag THEN [termSent EXCEPT ![next(monInc)] = TRUE]
                             ELSE termSent
  /\ procsLock' = "free"
  /\ monIdle
  /\ UNCHANGED <<procs, life, retryVars, pipeVars, pending, sendVars, cmdVars,
                 histVars, stopVars>>

-----------------------------------------------------------------------------
(* Supervisor.stop() *)

stopGoto(label) == stopPc' = label /\ UNCHANGED <<stopTodo, stopFailing>>

StopSet ==
  /\ stopPc = "run"
  /\ stopGoto("list")
  /\ UNCHANGED <<listVars, life, retryVars, termSent, pipeVars, pending,
                 sendVars, cmdVars, histVars, monVars>>

(* for wp in list(self._procs), without the lock *)
StopList ==
  /\ stopPc = "list"
  /\ stopPc' = "sweep" /\ stopTodo' = Installed
  /\ UNCHANGED <<listVars, life, retryVars, termSent, pipeVars, pending,
                 sendVars, cmdVars, histVars, monVars, stopFailing>>

StopSweep(i) ==
  /\ stopPc = "sweep"
  /\ stopFailing = {}
  /\ i \in stopTodo
  /\ stopTodo' = stopTodo \ {i}
  /\ stopFailing' = pending[i]
  /\ pending' = [pending EXCEPT ![i] = {}]
  /\ UNCHANGED <<listVars, life, retryVars, termSent, pipeVars, sendVars,
                 cmdVars, histVars, monVars, stopPc>>

StopFulfill(s) ==
  /\ stopPc = "sweep"
  /\ s \in stopFailing
  /\ stopFailing' = stopFailing \ {s}
  /\ fulfill(s, "worker_unavailable")
  /\ UNCHANGED <<listVars, life, retryVars, termSent, pipeVars, pending,
                 sendVars, histVars, monVars, stopPc, stopTodo>>

(* The join of the monitor ends with its exit or with the budget. *)
StopJoin ==
  /\ stopPc = "sweep"
  /\ stopTodo = {} /\ stopFailing = {}
  /\ stopGoto("snapshot")
  /\ UNCHANGED <<listVars, life, retryVars, termSent, pipeVars, pending,
                 sendVars, cmdVars, histVars, monVars>>

(* The snapshot is taken with _procs_lock or, when a respawn holds it past *)
(* the budget, without: both read the list as it is.                       *)
StopSnapshot ==
  /\ stopPc = "snapshot"
  /\ stopPc' = "terminate" /\ stopTodo' = Installed
  /\ UNCHANGED <<listVars, life, retryVars, termSent, pipeVars, pending,
                 sendVars, cmdVars, histVars, monVars, stopFailing>>

(* terminate() to every entry, then wait for each and kill the ones that   *)
(* outlast the budget.                                                     *)
StopTerminate ==
  /\ stopPc = "terminate"
  /\ termSent' = [i \in Incs |-> termSent[i] \/ i \in stopTodo]
  /\ stopGoto("wait")
  /\ UNCHANGED <<listVars, life, retryVars, pipeVars, pending, sendVars,
                 cmdVars, histVars, monVars>>

StopWait(i) ==
  /\ stopPc = "wait"
  /\ i \in stopTodo
  /\ stopTodo' = stopTodo \ {i}
  /\ life' = [life EXCEPT ![i] = IF @ = "alive" THEN "dead" ELSE @]
  /\ inbox' = [inbox EXCEPT ![i] = <<>>]
  /\ UNCHANGED <<listVars, retryVars, termSent, stdinOpen, outbox, held,
                 pending, sendVars, cmdVars, histVars, monVars, stopPc,
                 stopFailing>>

StopDone ==
  /\ stopPc = "wait"
  /\ stopTodo = {}
  /\ stopGoto("done")
  /\ UNCHANGED <<listVars, life, retryVars, termSent, pipeVars, pending,
                 sendVars, cmdVars, histVars, monVars>>

-----------------------------------------------------------------------------
Send(s) ==
  \/ SendCheckStop(s)
  \/ \E w \in Workers : SendLookup(s, w)
  \/ SendUnknown(s)
  \/ SendRegister(s) \/ SendRecheck(s) \/ SendWrite(s) \/ SendReturn(s)

Reader(i) == ReaderTake(i) \/ ReaderFulfill(i)

MonitorStep ==
  \/ \E joined \in BOOLEAN : MonReap(joined)
  \/ MonFailTake
  \/ \E s \in Senders : MonFulfill(s)
  \/ MonFulfilled \/ MonExhausted \/ MonBackoff
  \/ MonLock \/ MonSpawn \/ MonSpawnFailed \/ MonInstall \/ MonConfirm

StopStep ==
  \/ StopList
  \/ \E i \in Incs : StopSweep(i) \/ StopWait(i)
  \/ \E s \in Senders : StopFulfill(s)
  \/ StopJoin \/ StopSnapshot \/ StopTerminate \/ StopDone

Next ==
  \/ \E s \in Senders : Send(s)
  \/ \E i \in Incs : WorkerHandle(i) \/ WorkerExit(i) \/ Reader(i)
  \/ \E w \in Workers : MonHealthy(w) \/ MonVisitDead(w)
  \/ MonitorStep \/ MonRespawn
  \/ StopSet \/ StopStep

Spec == Init /\ [][Next]_vars

(* Each thread keeps running once it has started; stop() may never be      *)
(* called, and a worker owes nobody an answer or an exit.  The monitor's   *)
(* tick visits every entry, and a backoff is a fixed finite delay, so a    *)
(* visit and a due restart that keep being possible eventually happen.     *)
Fairness ==
  /\ \A s \in Senders : WF_vars(Send(s))
  /\ \A i \in Incs : WF_vars(Reader(i))
  /\ WF_vars(MonitorStep)
  /\ \A w \in Workers : SF_vars(MonVisitDead(w))
  /\ SF_vars(MonRespawn)
  /\ WF_vars(StopStep)

FairSpec == Spec /\ Fairness

-----------------------------------------------------------------------------
(* Properties *)

Line == Senders \X Statuses

WorkerTypeOK ==
  /\ procs \in [Workers -> 1..MaxSpawns]
  /\ procsLock \in {"free", "monitor"}
  /\ life \in [Incs -> {"unborn", "alive", "dead", "reported", "exhausted"}]
  /\ restarts \in [Incs -> 0..MaxRestarts]
  /\ restartAt \in [Incs -> BOOLEAN]
  /\ heals \in 0..MaxHeals
  /\ termSent \in [Incs -> BOOLEAN]

PipeTypeOK ==
  /\ stdinOpen \in [Incs -> BOOLEAN]
  /\ inbox \in [Incs -> Seq(Senders)]
  /\ outbox \in [Incs -> Seq(Line)]
  /\ held \in [Incs -> Line \cup {None}]
  /\ pending \in [Incs -> SUBSET Senders]

SenderTypeOK ==
  /\ pc \in [Senders -> {"idle", "lookup", "register", "recheck", "write",
                         "wait", "done"}]
  /\ target \in [Senders -> Incs \cup {None}]
  /\ answer \in [Senders -> Results \cup {"none"}]
  /\ fulfilled \in [Senders -> BOOLEAN]
  /\ result \in [Senders -> Results]
  /\ verdict \in [Senders -> Statuses \cup {"none"}]
  /\ spoken \in SUBSET Senders

ThreadTypeOK ==
  /\ monPc \in {"idle", "reap", "fail", "fulfill", "decide", "lock", "spawn",
                "install", "confirm"}
  /\ monInc \in Incs \cup {None}
  /\ monFailing \in SUBSET Senders
  /\ stopPc \in {"run", "list", "sweep", "snapshot", "terminate", "wait",
                 "done"}
  /\ stopTodo \in SUBSET Incs
  /\ stopFailing \in SUBSET Senders

(* Every variable of the supervisor, its workers and its threads has its   *)
(* type; in particular no attempt counter passes restart_max_attempts.     *)
TypeOK == WorkerTypeOK /\ PipeTypeOK /\ SenderTypeOK /\ ThreadTypeOK

(* A sender blocked in entry.wait that nobody has answered yet. *)
waiting(s) == pc[s] = "wait" /\ ~fulfilled[s]

(* died_reported *)
declaredDead(i) == life[i] \in {"reported", "exhausted"}

(* The monitor is still at work on the entries of incarnation i. *)
beingFailed(i) == monInc = i /\ monPc \in {"reap", "fail", "fulfill"}

(* No sender sits out its timeout on a worker that was declared dead or on *)
(* a supervisor that is going down: once the monitor is through with a     *)
(* dead incarnation, and once stop() is through its sweep, every sender    *)
(* still blocked in entry.wait has been answered, or is on the list of     *)
(* entries the other thread is fulfilling right now (supervisor.py _reap,  *)
(* _fail_pending, and the re-check of _stop in send_worker_command).       *)
NoStrandedWaiter ==
  \A s \in Senders : waiting(s) =>
    /\ declaredDead(target[s]) =>
         beingFailed(target[s]) \/ s \in stopFailing
    /\ stopPc \in {"snapshot", "terminate", "wait", "done"} =>
         beingFailed(target[s])

(* A sender is told accepted or rejected only when the worker it addressed *)
(* decided so on this very request; and outside shutdown                   *)
(* worker_unavailable means the command had no effect at all, so that the  *)
(* caller may repeat it.                                                   *)
AnswerFaithful ==
  \A s \in Senders :
    /\ answer[s] \in Statuses => verdict[s] = answer[s]
    /\ answer[s] = "worker_unavailable" /\ ~stopFlag =>
         /\ verdict[s] = "none"
         /\ \A i \in Incs : \A n \in DOMAIN inbox[i] : inbox[i][n] # s

(* _reap runs before _fail_pending: a result the worker wrote before it    *)
(* died reaches its sender, who is told worker_died only if the reader     *)
(* outlived the join (pipes left open) or the supervisor is stopping.      *)
LastWordHeard ==
  \A s \in Senders :
    result[s] = "worker_died" /\ s \in spoken =>
      stdinOpen[target[s]] \/ stopFlag

(* A worker never runs twice at the same time. *)
OneLiveIncarnation ==
  \A w \in Workers, j, k \in 1..MaxSpawns :
    life[<<w, j>>] = "alive" /\ life[<<w, k>>] = "alive" => j = k

(* A crash loop is bounded: without healthy periods a worker is started at *)
(* most restart_max_attempts times after the first, and each healthy       *)
(* period buys at most that many again.                                    *)
CrashLoopBounded ==
  \A w \in Workers : procs[w] <= 1 + MaxRestarts * (1 + heals)

(* When stop() and the monitor are through, no worker was left running     *)
(* without a signal, whatever respawn was in flight (_respawn's two checks *)
(* of _stop against the snapshot taken by stop()).                         *)
NoOrphanWorker ==
  stopPc = "done" /\ monPc = "idle" =>
    \A i \in Incs : life[i] = "alive" => termSent[i]

(* The first fulfilment of a command stands: a late result, the death of   *)
(* the worker and the shutdown sweep never overwrite one another.          *)
FirstFulfilmentStands ==
  [][\A s \in Senders : fulfilled[s] => result'[s] = result[s]]_vars

(* Every call of send_worker_command that passed its first check returns. *)
EveryCallReturns ==
  \A s \in Senders : pc[s] = "lookup" ~> pc[s] = "done"

(* A dead worker is brought back or given up, unless the supervisor stops. *)
DeadWorkerHandled ==
  \A w \in Workers :
    life[current(w)] = "dead" ~>
      life[current(w)] \in {"alive", "exhausted"} \/ stopFlag

(* stop() returns although a respawn or a deaf worker may be in its way. *)
StopReturns == stopPc = "list" ~> stopPc = "done"

(* Nobody waits forever on the supervisor: the senders return, the dead    *)
(* workers are seen to, and stop() comes back.                             *)
NobodyWaitsForever == EveryCallReturns /\ DeadWorkerHandled /\ StopReturns
=============================================================================
