----------------------------- MODULE EventStore -----------------------------
(***************************************************************************)
(* The drain thread of inspectord/supervisor.py: it takes each routed      *)
(* event from the store subscription, appends it to the journal, inserts   *)
(* it into the database and projects it, and watches its own failures.     *)
(* Around it: the shutdown, crashes and restarts of the daemon, midnight.  *)
(* The queue is the router's "store" queue, whose order Router establishes.*)
(***************************************************************************)
EXTENDS Naturals, Sequences, FiniteSets, Journal

CONSTANTS
  Window,       \* PERSIST_FAILURE_WINDOW
  Threshold,    \* PERSIST_FAILURE_ALERT_THRESHOLD
  MaxEvents,    \* model bound: events routed to the store
  MaxFaults,    \* model bound: failures of the disk or of the database
  MaxStarts     \* model bound: starts of the daemon

ASSUME EventStoreAssumption ==
  /\ Threshold \in Nat \ {0} /\ Window \in Nat /\ Threshold <= Window
  /\ MaxEvents \in Nat /\ MaxFaults \in Nat /\ MaxStarts \in Nat

VARIABLES
  life,         \* the daemon: up, stopping (_stop set), closed, down, crashed
  queue, ids,   \* the store subscription; events routed so far
  pc, ev,       \* the drain thread and the event it holds
  rows,         \* events_enriched
  outcomes,     \* the last Window outcomes, TRUE for a failure
  cooling,      \* last_alert_at is less than PERSIST_ALERT_COOLDOWN_S ago
  failed, reports,   \* of this process: failures, persistence_failing events
  faults, starts     \* counters for the bounds

drainVars  == <<pc, ev>>
healthVars == <<outcomes, cooling, failed, reports>>
vars == <<journalVars, life, queue, ids, drainVars, rows, healthVars,
          faults, starts>>

Init ==
  /\ JournalInit
  /\ life = "up" /\ queue = <<>> /\ ids = 0
  /\ pc = "top" /\ ev = 0
  /\ rows = {}
  /\ outcomes = <<>> /\ cooling = FALSE /\ failed = 0 /\ reports = 0
  /\ faults = 0 /\ starts = 1

running == life \in {"up", "stopping", "closed"}

(* Some thread dispatches an event and the router queues it. *)
Routed ==
  /\ running
  /\ ids < MaxEvents
  /\ ids' = ids + 1
  /\ queue' = Append(queue, ids + 1)
  /\ UNCHANGED <<journalVars, life, drainVars, rows, healthVars, faults, starts>>

-----------------------------------------------------------------------------
(* _drain: the loop tests _stop, then takes an event. *)
DrainTake ==
  /\ pc = "top" /\ life = "up"
  /\ queue # <<>>
  /\ ev' = Head(queue) /\ queue' = Tail(queue)
  /\ pc' = "journal"
  /\ UNCHANGED <<journalVars, life, ids, rows, healthVars, faults, starts>>

(* outcomes.append on a deque of maxlen Window *)
recorded(outcome) ==
  LET all == Append(outcomes, outcome)
  IN  IF Len(all) > Window THEN Tail(all) ELSE all

failures(window) == Cardinality({i \in DOMAIN window : window[i]})

\* mutation: the window is not cleared by a report
persistFailed_Uncleared ==
  /\ pc' = "top"
  /\ failed' = failed + 1
  /\ outcomes' = recorded(TRUE)
  /\ IF failures(recorded(TRUE)) >= Threshold /\ ~cooling
       THEN /\ cooling' = TRUE
            /\ reports' = reports + 1
            /\ ids' = ids + 1 /\ queue' = Append(queue, ids + 1)
       ELSE UNCHANGED <<cooling, reports, ids, queue>>
  /\ UNCHANGED <<life, ev, starts>>

\* mutation: the exception escapes the loop and ends the thread
persistFailed_Escapes ==
  /\ pc' = "gone"
  /\ UNCHANGED <<life, queue, ids, ev, healthVars, starts>>

(* _persist raised: count it and, over the threshold and outside the       *)
(* cooldown, clear the window and dispatch a persistence_failing event,    *)
(* which joins the queue like any other.                                   *)
persistFailed ==
  /\ pc' = "top"
  /\ failed' = failed + 1
  /\ IF failures(recorded(TRUE)) >= Threshold /\ ~cooling
       THEN /\ outcomes' = <<>> /\ cooling' = TRUE
            /\ reports' = reports + 1
            /\ ids' = ids + 1 /\ queue' = Append(queue, ids + 1)
       ELSE /\ outcomes' = recorded(TRUE)
            /\ UNCHANGED <<cooling, reports, ids, queue>>
  /\ UNCHANGED <<life, ev, starts>>

fault == faults < MaxFaults /\ faults' = faults + 1

(* _persist, stage "journal" *)
PersistJournal ==
  /\ pc = "journal"
  /\ append(ev)
  /\ pc' = "database"
  /\ UNCHANGED <<life, queue, ids, ev, rows, healthVars, faults, starts>>

\* mutation: a journal failure is swallowed and the insert goes ahead
PersistJournalFails_Swallowed ==
  /\ pc = "journal"
  /\ appendFails /\ fault
  /\ pc' = "database"
  /\ UNCHANGED <<life, queue, ids, ev, rows, healthVars, starts>>

PersistJournalFails ==
  /\ pc = "journal"
  /\ \/ appendFails /\ fault
     \/ appendRefused /\ UNCHANGED faults
  /\ persistFailed
  /\ UNCHANGED rows

(* _persist, stage "database": insert_event, then project *)
PersistInsert ==
  /\ pc = "database" /\ life # "closed"
  /\ rows' = rows \cup {ev}
  /\ pc' = "project"
  /\ UNCHANGED <<journalVars, life, queue, ids, ev, healthVars, faults, starts>>

PersistProject ==
  /\ pc = "project" /\ life # "closed"
  /\ pc' = "top"
  /\ outcomes' = recorded(FALSE)
  /\ UNCHANGED <<journalVars, life, queue, ids, ev, rows, cooling, failed,
                 reports, faults, starts>>

(* Either statement fails, by a fault or because _db is closed. *)
PersistDatabaseFails ==
  /\ pc \in {"database", "project"}
  /\ IF life = "closed" THEN UNCHANGED faults ELSE fault
  /\ persistFailed
  /\ UNCHANGED <<journalVars, rows>>

CooldownEnds ==
  /\ running /\ cooling
  /\ cooling' = FALSE
  /\ UNCHANGED <<journalVars, life, queue, ids, drainVars, rows, outcomes,
                 failed, reports, faults, starts>>

-----------------------------------------------------------------------------
(* stop() sets _stop, and later closes the journal and the database; the   *)
(* drain thread is a daemon thread that it does not join.                  *)
StopSet ==
  /\ life = "up" /\ life' = "stopping"
  /\ UNCHANGED <<journalVars, queue, ids, drainVars, rows, healthVars, faults,
                 starts>>

StopClose ==
  /\ life = "stopping" /\ life' = "closed"
  /\ close
  /\ UNCHANGED <<queue, ids, drainVars, rows, healthVars, faults, starts>>

Exit ==
  /\ life = "closed" /\ life' = "down"
  /\ pc' = "gone"
  /\ UNCHANGED <<journalVars, queue, ids, ev, rows, healthVars, faults, starts>>

Crash ==
  /\ running /\ life' = "crashed"
  /\ crash
  /\ pc' = "gone"
  /\ UNCHANGED <<queue, ids, ev, rows, healthVars, faults, starts>>

(* start() of a new process: everything in memory is new. *)
Start ==
  /\ ~running /\ starts < MaxStarts
  /\ life' = "up" /\ starts' = starts + 1
  /\ reopen
  /\ queue' = <<>> /\ pc' = "top" /\ ev' = 0
  /\ outcomes' = <<>> /\ cooling' = FALSE /\ failed' = 0 /\ reports' = 0
  /\ UNCHANGED <<ids, rows, faults>>

Midnight ==
  /\ day < MaxDays
  /\ day' = day + 1
  /\ UNCHANGED <<handleVars, fileVars, lost, life, queue, ids, drainVars, rows,
                 healthVars, faults, starts>>

-----------------------------------------------------------------------------
Drain ==
  \/ DrainTake \/ PersistJournal \/ PersistJournalFails
  \/ PersistInsert \/ PersistProject \/ PersistDatabaseFails

Next ==
  \/ Routed \/ Drain \/ CooldownEnds
  \/ StopSet \/ StopClose \/ Exit \/ Crash \/ Start
  \/ Midnight

Spec == Init /\ [][Next]_vars

(* The drain thread runs as long as the process does. *)
FairSpec == Spec /\ WF_vars(Drain)

-----------------------------------------------------------------------------
(* The shapes of the journal, of the drain thread and of its window. *)
JournalTypeOK ==
  /\ day \in Days /\ handle \in {0} \cup Days /\ prevHash \in Nat
  /\ closed \in BOOLEAN
  /\ file \in [Days -> Seq(Nat \X Nat)] /\ tail \in Seq(Nat \X Nat)
  /\ torn \in [Days -> BOOLEAN] /\ exists \in [Days -> BOOLEAN]
  /\ lost \subseteq Nat
DrainTypeOK ==
  /\ life \in {"up", "stopping", "closed", "down", "crashed"}
  /\ queue \in Seq(Nat) /\ ids \in Nat
  /\ pc \in {"top", "journal", "database", "project", "gone"}
  /\ ev \in Nat
  /\ rows \subseteq Nat
  /\ faults \in Nat /\ starts \in Nat
HealthTypeOK ==
  /\ outcomes \in Seq(BOOLEAN) /\ Len(outcomes) <= Window
  /\ cooling \in BOOLEAN /\ failed \in Nat /\ reports \in Nat
TypeOK == JournalTypeOK /\ DrainTypeOK /\ HealthTypeOK

(* Through failed writes, restarts and midnight, verify_chain accepts      *)
(* every journal file: prev_hash of the first line is ZERO_HASH and each   *)
(* further one is the digest of the line before.                           *)
ChainValid == \A d \in Days : verifyChain(linesOf(d))

(* The stages are ordered: a row in events_enriched has a line in the      *)
(* journal, unless a crash took the line.                                  *)
RowsJournaled == rows \subseteq Journaled \cup lost

(* "The journal already holds the event from here on": the same without    *)
(* the exception.                                                          *)
JournalHoldsRows == rows \subseteq Journaled

(* A persistence_failing report costs Threshold failures of its own, so    *)
(* the failure to store the report itself can never sustain the reports.   *)
ReportsPaid == reports * Threshold + failures(outcomes) <= failed

(* A window with Threshold failures has been reported in this process.     *)
OutageReported == failures(outcomes) >= Threshold => reports > 0

(* No failure ends the drain loop: an event in the queue is taken, unless  *)
(* the daemon stops or dies first.                                         *)
EventTaken ==
  \A e \in 1..MaxEvents :
    (\E i \in DOMAIN queue : queue[i] = e) ~>
      (life # "up" \/ ~\E i \in DOMAIN queue : queue[i] = e)

(* The persistence_failing reports match the failures, in both directions: *)
(* none without its own Threshold failures, no outage without one.         *)
ReportsMatchFailures == ReportsPaid /\ OutageReported
=============================================================================
