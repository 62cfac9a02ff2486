--------------------------- MODULE SupervisorInv ----------------------------
(* The inductive invariant of the worker lifecycle and command channel, on *)
(* which the proofs about module Supervisor rest.                          *)
EXTENDS Supervisor

-----------------------------------------------------------------------------
(* The inductive invariant, by topic *)

(* The monitor holds _procs_lock exactly inside _respawn's with block, and *)
(* it works on an incarnation exactly while it is not between ticks.       *)
MonitorInv ==
  /\ procsLock = "monitor" <=> monPc \in {"spawn", "install", "confirm"}
  /\ monPc = "idle" <=> monInc = None
  /\ monFailing # {} => monPc = "fulfill"
  /\ monPc \notin {"idle", "confirm"} =>
       /\ monInc = current(monInc[1])
       /\ declaredDead(monInc)
  /\ monPc \in {"install", "confirm"} => monInc[2] < MaxSpawns
  /\ monPc = "confirm" => next(monInc) = current(monInc[1])

(* The incarnations before the installed one are dead and reported; those  *)
(* after it do not exist yet, but for the process being installed.         *)
IncarnationInv ==
  \A w \in Workers, k \in 1..MaxSpawns :
    /\ k < procs[w] => declaredDead(<<w, k>>)
    /\ k > procs[w] =>
         /\ ~declaredDead(<<w, k>>)
         /\ life[<<w, k>>] # "unborn" =>
              monPc = "install" /\ <<w, k>> = next(monInc)

(* stop() keeps a list of entries to fulfil only during its sweep. *)
StopInv == stopFailing # {} => stopPc = "sweep"

(* A sender past its lookup has an incarnation that is or was installed. *)
TargetInv ==
  \A s \in Senders :
    pc[s] \in {"register", "recheck", "write", "wait"} =>
      /\ target[s] \in Incs
      /\ target[s][2] <= procs[target[s][1]]

(* A sender past its registration is in the incarnation's map, or taken    *)
(* from it by a thread that is fulfilling it, or fulfilled.                *)
EntryInv ==
  \A s \in Senders :
    pc[s] \in {"recheck", "write", "wait"} =>
      \/ fulfilled[s]
      \/ s \in pending[target[s]]
      \/ s \in monFailing
      \/ s \in stopFailing

(* The entries in a map, and those the monitor took from one, belong to    *)
(* senders that registered there.                                          *)
MapInv ==
  /\ \A i \in Incs : \A s \in pending[i] :
       target[s] = i /\ pc[s] \in {"recheck", "write", "wait"}
  /\ \A s \in monFailing :
       target[s] = monInc /\ pc[s] \in {"recheck", "write", "wait", "done"}

(* Nobody blocks on an incarnation whose map the monitor has emptied: a    *)
(* later registration finds the process dead when it writes.               *)
DeadInv ==
  \A i \in Incs : \A s \in pending[i] :
    /\ declaredDead(i)
    /\ ~(monInc = i /\ monPc \in {"reap", "fail"})
    => pc[s] \in {"recheck", "write"}

(* The incarnations that stop() will not (or no longer) sweep. *)
swept(i) == /\ stopPc \notin {"run", "list"}
            /\ ~(stopPc = "sweep" /\ i \in stopTodo)

(* A sender found in a swept map past its re-check of _stop addresses a    *)
(* dead incarnation: a live one registered it after the sweep, and the     *)
(* re-check turns it away.                                                 *)
SweepInv ==
  \A i \in Incs : \A s \in pending[i] :
    swept(i) /\ pc[s] \in {"write", "wait"} => declaredDead(i)

(* From stop()'s snapshot on, every live installed process is on the       *)
(* snapshot, has its signal, or is about to get it from _respawn.          *)
OrphanInv ==
  stopPc \in {"terminate", "wait", "done"} =>
    \A w \in Workers : life[current(w)] = "alive" =>
      \/ termSent[current(w)]
      \/ stopPc = "terminate" /\ current(w) \in stopTodo
      \/ monPc = "confirm" /\ current(w) = next(monInc)

IInv ==
  /\ TypeOK /\ MonitorInv /\ IncarnationInv /\ StopInv
  /\ TargetInv /\ EntryInv /\ MapInv /\ DeadInv /\ SweepInv /\ OrphanInv

-----------------------------------------------------------------------------
(* What else is invariant, on top of IInv *)

(* Every process of a worker after the first was paid for by an attempt    *)
(* that its entry still counts, or by the attempts that a reset of the     *)
(* backoff forgot; _respawn counts the attempt before it starts it.        *)
LoopInv ==
  /\ \A w \in Workers :
       procs[w] <= 1 + restarts[current(w)] + MaxRestarts * heals
  /\ monPc \in {"lock", "spawn", "install"} =>
       procs[monInc[1]] <= restarts[monInc] + MaxRestarts * heals
  /\ monPc = "install" => restarts[next(monInc)] = restarts[monInc]

(* The command of s did not reach a worker. *)
unsent(s) ==
  /\ verdict[s] = "none"
  /\ \A i \in Incs : \A n \in DOMAIN inbox[i] : inbox[i][n] # s

(* A command is written once, to the incarnation that its sender looked    *)
(* up, and decided once.                                                   *)
SentInv ==
  /\ \A s \in Senders :
       pc[s] \notin {"wait", "done"} => unsent(s) /\ answer[s] = "none"
  /\ \A i \in Incs : \A n \in DOMAIN inbox[i] :
       verdict[inbox[i][n]] = "none" /\ target[inbox[i][n]] = i
  /\ \A i, j \in Incs : \A n \in DOMAIN inbox[i], m \in DOMAIN inbox[j] :
       inbox[i][n] = inbox[j][m] => i = j /\ n = m

(* On its way from the worker to the entry of its sender a status stays    *)
(* what the worker decided; only stop() calls a worker unavailable that a  *)
(* command was written to.                                                 *)
ResultInv ==
  /\ \A i \in Incs : \A n \in DOMAIN outbox[i] :
       verdict[outbox[i][n][1]] = outbox[i][n][2]
  /\ \A i \in Incs : held[i] # None => verdict[held[i][1]] = held[i][2]
  /\ \A s \in Senders :
       /\ result[s] \in Statuses => verdict[s] = result[s]
       /\ result[s] = "worker_unavailable" => stopFlag

AnswerInv == SentInv /\ ResultInv /\ AnswerFaithful

(* _reap closes the pipes of a dead process whose output has been read. *)
ReapInv == \A i \in Incs : ~stdinOpen[i] => drained(i) /\ life[i] # "alive"

(* A result that was written is in the pipe or with the reader until its   *)
(* entry is fulfilled, as long as the entry is in the map; so the entries  *)
(* that the monitor takes from the map after the pipes were drained are    *)
(* fulfilled already.                                                      *)
SpokenInv ==
  \A s \in spoken :
    /\ verdict[s] # "none" /\ target[s] \in Incs
    /\ ~stopFlag /\ s \in pending[target[s]] =>
         \/ fulfilled[s]
         \/ held[target[s]] # None /\ held[target[s]][1] = s
         \/ \E n \in DOMAIN outbox[target[s]] : outbox[target[s]][n][1] = s
    /\ ~stopFlag /\ s \in monFailing /\ ~stdinOpen[monInc] => fulfilled[s]

(* worker_died is said of a dead incarnation that is reaped already. *)
DiedInv ==
  \A s \in Senders : result[s] = "worker_died" =>
    /\ pc[s] \in {"recheck", "write", "wait", "done"}
    /\ target[s] \in Incs /\ declaredDead(target[s])
    /\ ~(monInc = target[s] /\ monPc = "reap")

HeardInv == ReapInv /\ SpokenInv /\ DiedInv /\ LastWordHeard
=============================================================================
