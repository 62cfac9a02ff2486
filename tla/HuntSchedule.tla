---------------------------- MODULE HuntSchedule ----------------------------
(***************************************************************************)
(* Scheduled saved hunts: the scheduler thread (hunt/scheduler.py), the    *)
(* guarded statements on hunt_query (hunt/store.py) and the IPC handlers   *)
(* that save, delete, schedule and unschedule a query meanwhile.           *)
(* A row of events_enriched is its ingest_seq.  Which query is due, and    *)
(* how long a backoff holds, is left to time.                              *)
(***************************************************************************)
EXTENDS Naturals, FiniteSets

CONSTANTS
  Queries,        \* names of saved queries
  Callers,        \* IPC threads in handle_schedule_hunt_query
  BackoffAfter,   \* _FAILURE_BACKOFF_AFTER
  MaxRows,        \* model bound: rows ingested
  MaxSaves,       \* model bound: times a name is saved afresh
  MaxFailures,    \* model bound: failing runs
  MaxCrashes,     \* model bound: crashes of the daemon
  None

ASSUME HuntScheduleAssumption ==
  /\ BackoffAfter \in Nat \ {0}
  /\ MaxRows \in Nat /\ MaxSaves \in Nat
  /\ MaxFailures \in Nat /\ MaxCrashes \in Nat
  /\ None \notin Queries /\ None \notin Nat

VARIABLES
  top, rows,                     \* the last ingest_seq; the rows not pruned
  saves, stored,                 \* per name: generation, and whether saved
  sched, mark, status,           \* schedule_interval_s, watermark_seq, last_status
  calls,                         \* per caller: the query and MAX it has read
  pc, due, cur, upper, hit,      \* the scheduler thread in tick and _run_one
  snapGen, snapMark, snapStatus, \* the rows as due_queries returned them
  streak,                        \* _failure_streaks
  stop,                          \* _stop
  failures, crashes,             \* counters for the bounds
  base, scanned, told, silenced, reported   \* history, see the properties

rowVars  == <<top, rows>>
keepVars == <<saves, stored, sched, mark, status>>
runVars  == <<pc, due, cur, upper, hit>>
snapVars == <<snapGen, snapMark, snapStatus>>
pastVars == <<base, scanned, told, silenced, reported>>
vars == <<rowVars, keepVars, calls, runVars, snapVars, streak, stop, failures,
          crashes, pastVars>>

Init ==
  /\ top = 0 /\ rows = {}
  /\ saves = [q \in Queries |-> 0] /\ stored = [q \in Queries |-> FALSE]
  /\ sched = [q \in Queries |-> FALSE] /\ mark = [q \in Queries |-> None]
  /\ status = [q \in Queries |-> "none"]
  /\ calls = [c \in Callers |-> None]
  /\ pc = "idle" /\ due = {} /\ cur = None /\ upper = 0 /\ hit = FALSE
  /\ snapGen = [q \in Queries |-> 0] /\ snapMark = [q \in Queries |-> 0]
  /\ snapStatus = [q \in Queries |-> "none"]
  /\ streak = [q \in Queries |-> 0] /\ stop = FALSE
  /\ failures = 0 /\ crashes = 0
  /\ base = [q \in Queries |-> 0] /\ scanned = [q \in Queries |-> {}]
  /\ told = [q \in Queries |-> FALSE] /\ silenced = [q \in Queries |-> FALSE]
  /\ reported = {}

(* SELECT COALESCE(MAX(ingest_seq), 0) *)
maxSeq == CHOOSE m \in rows \cup {0} : \A r \in rows : r <= m

-----------------------------------------------------------------------------
(* The drain thread inserts a row; retention deletes one. *)
Ingest ==
  /\ top < MaxRows
  /\ top' = top + 1 /\ rows' = rows \cup {top + 1}
  /\ UNCHANGED <<keepVars, calls, runVars, snapVars, streak, stop, failures,
                 crashes, pastVars>>

Pruned(r) ==
  /\ r \in rows
  /\ rows' = rows \ {r}
  /\ UNCHANGED <<top, keepVars, calls, runVars, snapVars, streak, stop,
                 failures, crashes, pastVars>>

(* save_query of a new name; replacing an expression keeps the row. *)
SaveQuery(q) ==
  /\ ~stored[q] /\ saves[q] < MaxSaves
  /\ stored' = [stored EXCEPT ![q] = TRUE]
  /\ saves' = [saves EXCEPT ![q] = @ + 1]
  /\ UNCHANGED <<rowVars, sched, mark, status, calls, runVars, snapVars, streak,
                 stop, failures, crashes, pastVars>>

DeleteQuery(q) ==
  /\ stored[q]
  /\ stored' = [stored EXCEPT ![q] = FALSE]
  /\ sched' = [sched EXCEPT ![q] = FALSE]
  /\ mark' = [mark EXCEPT ![q] = None]
  /\ status' = [status EXCEPT ![q] = "none"]
  /\ base' = [base EXCEPT ![q] = 0]
  /\ scanned' = [scanned EXCEPT ![q] = {}]
  /\ told' = [told EXCEPT ![q] = FALSE]
  /\ silenced' = [silenced EXCEPT ![q] = FALSE]
  /\ UNCHANGED <<rowVars, saves, calls, runVars, snapVars, streak, stop,
                 failures, crashes, reported>>

(* handle_schedule_hunt_query: read MAX(ingest_seq), then schedule_query,  *)
(* whose COALESCE keeps a watermark that is already there.                 *)
ScheduleRead(c, q) ==
  /\ calls[c] = None
  /\ calls' = [calls EXCEPT ![c] = <<q, maxSeq>>]
  /\ UNCHANGED <<rowVars, keepVars, runVars, snapVars, streak, stop, failures,
                 crashes, pastVars>>

(* The UPDATE of schedule_query; base remembers a first watermark. *)
scheduled(q, seq) ==
  /\ sched' = [sched EXCEPT ![q] = TRUE]
  /\ mark' = [mark EXCEPT ![q] = IF @ = None THEN seq ELSE @]
  /\ base' = [base EXCEPT ![q] = IF mark[q] = None THEN seq ELSE @]

ScheduleWrite(c) ==
  /\ calls[c] # None
  /\ calls' = [calls EXCEPT ![c] = None]
  /\ IF stored[calls[c][1]] THEN scheduled(calls[c][1], calls[c][2])
                            ELSE UNCHANGED <<sched, mark, base>>
  /\ UNCHANGED <<rowVars, saves, stored, status, runVars, snapVars, streak,
                 stop, failures, crashes, scanned, told, silenced, reported>>

UnscheduleQuery(q) ==
  /\ stored[q] /\ sched[q]
  /\ sched' = [sched EXCEPT ![q] = FALSE]
  /\ UNCHANGED <<rowVars, saves, stored, mark, status, calls, runVars, snapVars,
                 streak, stop, failures, crashes, pastVars>>

-----------------------------------------------------------------------------
(* tick: due_queries takes a snapshot of the rows that are due. *)
standing(q) == stored[q] /\ sched[q]

Tick(D) ==
  /\ pc = "idle" /\ ~stop
  /\ D # {} /\ \A q \in D : standing(q)
  /\ due' = D /\ pc' = "next"
  /\ snapGen' = [q \in Queries |-> IF q \in D THEN saves[q] ELSE snapGen[q]]
  /\ snapMark' = [q \in Queries |-> IF q \in D THEN mark[q] ELSE snapMark[q]]
  /\ snapStatus' = [q \in Queries |-> IF q \in D THEN status[q] ELSE snapStatus[q]]
  /\ UNCHANGED <<rowVars, keepVars, calls, cur, upper, hit, streak, stop,
                 failures, crashes, pastVars>>

TickDone ==
  /\ pc = "next" /\ (due = {} \/ stop)
  /\ pc' = "idle" /\ due' = {} /\ cur' = None
  /\ UNCHANGED <<rowVars, keepVars, calls, upper, hit, snapVars, streak, stop,
                 failures, crashes, pastVars>>

(* _in_backoff *)
RunHeld(q) ==
  /\ pc = "next" /\ ~stop /\ q \in due
  /\ streak[q] >= BackoffAfter
  /\ due' = due \ {q}
  /\ UNCHANGED <<rowVars, keepVars, calls, pc, cur, upper, hit, snapVars,
                 streak, stop, failures, crashes, pastVars>>

(* _run_one up to the SELECT: nothing newly ingested is no run at all. *)
RunStart(q) ==
  /\ pc = "next" /\ ~stop /\ q \in due
  /\ due' = due \ {q} /\ cur' = q /\ upper' = maxSeq
  /\ pc' = IF maxSeq > snapMark[q] THEN "select" ELSE "next"
  /\ UNCHANGED <<rowVars, keepVars, calls, hit, snapVars, streak, stop,
                 failures, crashes, pastVars>>

window == {r \in 1..MaxRows : snapMark[cur] < r /\ r <= upper}

(* run_hunt_query over the window, with or without matches *)
RunSelect(matches) ==
  /\ pc = "select"
  /\ matches => window \cap rows # {}
  /\ hit' = matches
  /\ pc' = "record"
  /\ UNCHANGED <<rowVars, keepVars, calls, due, cur, upper, snapVars, streak,
                 stop, failures, crashes, pastVars>>

(* A HuntError, or any other exception before the stamp. *)
RunFails ==
  /\ pc \in {"select", "record"} /\ failures < MaxFailures
  /\ failures' = failures + 1
  /\ pc' = "failed"
  /\ UNCHANGED <<rowVars, keepVars, calls, due, cur, upper, hit, snapVars,
                 streak, stop, crashes, pastVars>>

(* _stop is checked again before the stamp. *)
RunStopped ==
  /\ pc = "record" /\ stop
  /\ pc' = "next"
  /\ UNCHANGED <<rowVars, keepVars, calls, due, cur, upper, hit, snapVars,
                 streak, stop, failures, crashes, pastVars>>

(* A plausible slip: the stamp of a good run leaves the watermark. *)
RunRecord_Kept ==
  /\ pc = "record" /\ ~stop /\ standing(cur)
  /\ status' = [status EXCEPT ![cur] = "ok"]
  /\ streak' = [streak EXCEPT ![cur] = 0]
  /\ pc' = IF hit THEN "emit" ELSE "next"
  /\ told' = [told EXCEPT ![cur] = FALSE]
  /\ silenced' = [silenced EXCEPT ![cur] = FALSE]
  /\ UNCHANGED <<rowVars, saves, stored, sched, mark, calls, due, cur, upper,
                 hit, snapVars, stop, failures, crashes, base, scanned, reported>>

(* record_run(status="ok") under its guard, then the emission. *)
RunRecord ==
  /\ pc = "record" /\ ~stop /\ standing(cur)
  /\ mark' = [mark EXCEPT ![cur] = upper]
  /\ status' = [status EXCEPT ![cur] = "ok"]
  /\ streak' = [streak EXCEPT ![cur] = 0]
  /\ pc' = IF hit THEN "emit" ELSE "next"
  /\ scanned' = [scanned EXCEPT ![cur] =
                   IF snapGen[cur] = saves[cur] THEN @ \cup window ELSE @]
  /\ told' = [told EXCEPT ![cur] = FALSE]
  /\ silenced' = [silenced EXCEPT ![cur] = FALSE]
  /\ UNCHANGED <<rowVars, saves, stored, sched, calls, due, cur, upper, hit,
                 snapVars, stop, failures, crashes, base, reported>>

RunDiscarded ==
  /\ pc = "record" /\ ~stop /\ ~standing(cur)
  /\ pc' = "next"
  /\ UNCHANGED <<rowVars, keepVars, calls, due, cur, upper, hit, snapVars,
                 streak, stop, failures, crashes, pastVars>>

(* hunt_match *)
RunEmit ==
  /\ pc = "emit"
  /\ pc' = "next"
  /\ reported' = reported \cup {<<cur, snapGen[cur], snapMark[cur], upper>>}
  /\ UNCHANGED <<rowVars, keepVars, calls, due, cur, upper, hit, snapVars,
                 streak, stop, failures, crashes, base, scanned, told, silenced>>

(* A plausible slip: a failed run advances the watermark too. *)
FailRecord_Advances ==
  /\ pc = "failed" /\ standing(cur)
  /\ mark' = [mark EXCEPT ![cur] = upper]
  /\ status' = [status EXCEPT ![cur] = "failed"]
  /\ streak' = [streak EXCEPT ![cur] = @ + 1]
  /\ pc' = IF snapStatus[cur] = "failed" THEN "next" ELSE "announce"
  /\ UNCHANGED <<rowVars, saves, stored, sched, calls, due, cur, upper,
                 hit, snapVars, stop, failures, crashes, pastVars>>

(* _record_failure: the guarded stamp leaves the watermark; only the       *)
(* transition into failure emits hunt_run_failed.                          *)
FailRecord ==
  /\ pc = "failed" /\ standing(cur)
  /\ status' = [status EXCEPT ![cur] = "failed"]
  /\ streak' = [streak EXCEPT ![cur] = @ + 1]
  /\ pc' = IF snapStatus[cur] = "failed" THEN "next" ELSE "announce"
  /\ UNCHANGED <<rowVars, saves, stored, sched, mark, calls, due, cur, upper,
                 hit, snapVars, stop, failures, crashes, pastVars>>

FailDiscarded ==
  /\ pc = "failed" /\ ~standing(cur)
  /\ pc' = "next"
  /\ UNCHANGED <<rowVars, keepVars, calls, due, cur, upper, hit, snapVars,
                 streak, stop, failures, crashes, pastVars>>

(* The stamp itself raises: the guard of _run ends this tick. *)
FailRaises ==
  /\ pc = "failed"
  /\ pc' = "idle" /\ due' = {} /\ cur' = None
  /\ UNCHANGED <<rowVars, keepVars, calls, upper, hit, snapVars, streak, stop,
                 failures, crashes, pastVars>>

FailEmit ==
  /\ pc = "announce"
  /\ pc' = "next"
  /\ told' = [told EXCEPT ![cur] = TRUE]
  /\ UNCHANGED <<rowVars, keepVars, calls, due, cur, upper, hit, snapVars,
                 streak, stop, failures, crashes, base, scanned, silenced,
                 reported>>

-----------------------------------------------------------------------------
StopSet ==
  /\ ~stop /\ stop' = TRUE
  /\ UNCHANGED <<rowVars, keepVars, calls, runVars, snapVars, streak, failures,
                 crashes, pastVars>>

(* The daemon dies, or ends after stop(), and starts again: what it holds  *)
(* in memory is gone, an announcement it was about to make included.       *)
Restart ==
  /\ crashes < MaxCrashes /\ crashes' = crashes + 1
  /\ calls' = [c \in Callers |-> None]
  /\ pc' = "idle" /\ due' = {} /\ cur' = None /\ upper' = 0 /\ hit' = FALSE
  /\ streak' = [q \in Queries |-> 0] /\ stop' = FALSE
  /\ silenced' = [q \in Queries |-> silenced[q] \/ (pc = "announce" /\ q = cur)]
  /\ UNCHANGED <<rowVars, keepVars, snapVars, failures, base, scanned, told,
                 reported>>

Handlers ==
  \/ \E q \in Queries : SaveQuery(q) \/ DeleteQuery(q) \/ UnscheduleQuery(q)
  \/ \E c \in Callers : ScheduleWrite(c) \/ \E q \in Queries : ScheduleRead(c, q)

Run ==
  \/ TickDone
  \/ \E q \in Queries : RunHeld(q) \/ RunStart(q)
  \/ \E matches \in BOOLEAN : RunSelect(matches)
  \/ RunStopped \/ RunRecord \/ RunDiscarded \/ RunEmit
  \/ FailRecord \/ FailDiscarded \/ FailRaises \/ FailEmit

Next ==
  \/ Ingest \/ \E r \in rows : Pruned(r)
  \/ Handlers
  \/ \E D \in SUBSET Queries : Tick(D)
  \/ Run \/ RunFails
  \/ StopSet \/ Restart

Spec == Init /\ [][Next]_vars

-----------------------------------------------------------------------------
(* The shapes of the saved rows, of the snapshot and of the thread. *)
TypeOK ==
  /\ top \in 0..MaxRows /\ rows \subseteq 1..top
  /\ saves \in [Queries -> 0..MaxSaves] /\ stored \in [Queries -> BOOLEAN]
  /\ sched \in [Queries -> BOOLEAN]
  /\ mark \in [Queries -> {None} \cup 0..top]
  /\ status \in [Queries -> {"none", "ok", "failed"}]
  /\ calls \in [Callers -> {None} \cup (Queries \X (0..top))]
  /\ pc \in {"idle", "next", "select", "record", "emit", "failed", "announce"}
  /\ due \subseteq Queries /\ cur \in Queries \cup {None}
  /\ upper \in 0..top /\ hit \in BOOLEAN
  /\ snapGen \in [Queries -> 0..MaxSaves]
  /\ snapMark \in [Queries -> 0..top]
  /\ snapStatus \in [Queries -> {"none", "ok", "failed"}]
  /\ streak \in [Queries -> Nat] /\ stop \in BOOLEAN
  /\ failures \in Nat /\ crashes \in Nat
  /\ base \in [Queries -> 0..top]
  /\ scanned \in [Queries -> SUBSET (1..MaxRows)]
  /\ told \in [Queries -> BOOLEAN] /\ silenced \in [Queries -> BOOLEAN]
  /\ reported \subseteq Queries \X (0..MaxSaves) \X (0..top) \X (0..top)

(* The watermark passes no row by: every ingest_seq between the one the    *)
(* query was first scheduled at and its watermark was in the window of a   *)
(* run of this saved query that succeeded, through failed runs, restarts,  *)
(* and schedules switched off and on while a run is under way.             *)
NoRowSkipped ==
  \A q \in Queries :
    stored[q] /\ mark[q] # None =>
      \A r \in 1..MaxRows : base[q] < r /\ r <= mark[q] => r \in scanned[q]

(* A row is in the window of at most one hunt_match of a saved query. *)
ReportedOnce ==
  \A a, b \in reported :
    a[1] = b[1] /\ a[2] = b[2] /\ a # b => a[4] <= b[3] \/ b[4] <= a[3]

(* last_status "failed" was announced by a hunt_run_failed event, unless a *)
(* restart came between the stamp and the announcement.                    *)
FailureAnnounced ==
  \A q \in Queries :
    stored[q] /\ status[q] = "failed" =>
      told[q] \/ silenced[q] \/ (pc = "announce" /\ cur = q)

(* A row that is not pruned is behind the watermark of a standing hunt     *)
(* eventually, unless the hunt is switched off or the daemon stops.        *)
EventuallyScanned ==
  \A q \in Queries : \A r \in 1..MaxRows :
    (r \in rows /\ standing(q)) ~>
      (r \notin rows \/ ~standing(q) \/ stop \/ mark[q] >= r)

(* Every row is in exactly one successful run's window of a standing hunt, *)
(* and a hunt that fails says so.                                          *)
EachRowOnce == TypeOK /\ NoRowSkipped /\ ReportedOnce /\ FailureAnnounced
=============================================================================
