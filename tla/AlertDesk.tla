------------------------------ MODULE AlertDesk ------------------------------
(* The alerts table, the cases table and the rows that tie them, as values. *)
(* alerts is a function from the identifiers in use to rows; cases likewise. *)
EXTENDS Integers, FiniteSets, Sequences, Functions
CONSTANTS AlertsDays,       \* age at which retention deletes an alert
          JournalDays,      \* age at which it deletes a journal file
          QuotaFiles,       \* journal files the quota admits (a file is one unit)
          FloorDays         \* files younger than this are safe from the quota

Statuses == {"new", "acknowledged", "resolved", "suppressed"}

Terminal == {"resolved", "suppressed"}

\* alerts/lifecycle.py, _ALLOWED
Allowed_Reopening(status) ==
  CASE status = "new" -> {"acknowledged", "resolved", "suppressed"}
    [] status = "acknowledged" -> {"resolved", "suppressed"}
    [] status \in Terminal -> {"acknowledged"}

Allowed(status) ==
  CASE status = "new" -> {"acknowledged", "resolved", "suppressed"}
    [] status = "acknowledged" -> {"resolved", "suppressed"}
    [] status \in Terminal -> {}

validate_transition(current, target) == target \in Allowed(current)

\* The target of each alert method.
TargetOf(m) ==
  CASE m = "ack_alert" -> "acknowledged"
    [] m = "resolve_alert" -> "resolved"
    [] m = "suppress_alert" -> "suppressed"

\* build_alert: the candidate of a match at an event's time.
build_alert(key, severity, ts) ==
  [key |-> key, severity |-> severity, status |-> "new", ts |-> ts, last |-> ts]

\* DedupEngine.persist, its SELECT: the rows a candidate may bump, latest first.
InWindow(alerts, key, ts, window) ==
  {a \in DOMAIN alerts : alerts[a].key = key /\ alerts[a].last >= ts - window}

Latest(alerts, ids) == {a \in ids : \A b \in ids : alerts[a].last >= alerts[b].last}

\* Its UPDATE: the counters move, the status never does (a text is rewritten only
\* for an open alert, and that bump is notified); no row matches one that is gone.
bump(alerts, a, cand) ==
  IF a \notin DOMAIN alerts THEN alerts ELSE [alerts EXCEPT ![a].last = cand.ts]

\* Cases are bundles of alerts with a timeline, kept here as the kinds it holds.
open_case(alert) == [status |-> "open", alerts |-> {alert}, timeline |-> {"opened", "alert_attached"}]

\* _attach: a link that exists is not made again.
attach(case, alert) ==
  IF alert \in case.alerts THEN case
  ELSE [case EXCEPT !.alerts = @ \cup {alert}, !.timeline = @ \cup {"alert_attached"}]

add_note(case) == [case EXCEPT !.timeline = @ \cup {"note"}]

close_case(case) == [case EXCEPT !.status = "closed", !.timeline = @ \cup {"closed"}]

append_timeline(case, kind) == [case EXCEPT !.timeline = @ \cup {kind}]

\* prune_alerts: by the time last seen; critical ones and those of open cases stay.
Attached(cases) ==
  UNION {cases[c].alerts : c \in {k \in DOMAIN cases : cases[k].status = "open"}}

prune_alerts_AnyCase(alerts, cases, now) ==
  Restrict(alerts, {a \in DOMAIN alerts :
    \/ alerts[a].last >= now - AlertsDays
    \/ alerts[a].severity = "critical"})

prune_alerts(alerts, cases, now) ==
  Restrict(alerts, {a \in DOMAIN alerts :
    \/ alerts[a].last >= now - AlertsDays
    \/ alerts[a].severity = "critical"
    \/ a \in Attached(cases)})

\* prune_journal_files: today's file and those of days with a critical alert are
\* protected; the age pass takes the old ones, the quota pass the oldest left
\* until the quota holds or only files the floor protects remain.
critical_alert_days(alerts) ==
  {alerts[a].ts : a \in {b \in DOMAIN alerts : alerts[b].severity = "critical"}}

QuotaPass(files, today, protected) ==
  LET deletable == {f \in files : f < today - FloorDays} \ protected
      over      == Cardinality(files) - QuotaFiles
      rank(f)   == Cardinality({g \in deletable : g < f})
  IN  {f \in files : f \in deletable => rank(f) >= over}

prune_journal_files(files, alerts, today) ==
  LET protected == critical_alert_days(alerts) \cup {today}
      remaining == {f \in files : f >= today - JournalDays \/ f \in protected}
  IN  QuotaPass(remaining, today, protected)
=============================================================================
