---------------------------- MODULE RuleHistory ----------------------------
(* The rule engine's correlation history: a deque that the reader threads of  *)
(* the workers append to and trim without a lock, and the two rules that      *)
(* look back in it.  Events carry their sources' clocks, so they are not in   *)
(* the order of their times.                                                  *)
EXTENDS Integers, Sequences, FiniteSets
CONSTANTS Readers,         \* the threads that run _dispatch
          Kinds,           \* what an event reports, see Event
          FirstKinds,      \* of them, what the first event may report
          Times,           \* the times events carry
          HistoryWindow, HistoryMax,
          BruteWindow, BruteThreshold,   \* ssh_brute_force: _WINDOW_S, _THRESHOLD
          PkgmgrWindow,    \* av_aide_change_outside_pkgmgr: PKGMGR_WINDOW_S
          Allowlist,       \* scopes of the allowlist's entries
          MaxDispatched    \* bound on the events of a behaviour

\* The deque has room; a window and a time are numbers; a catch-up is not remembered.
ASSUME RuleAssumption ==
  /\ HistoryMax \in Nat \ {0} /\ HistoryWindow \in Int /\ BruteThreshold \in Nat
  /\ Times \subseteq Int /\ \A kind \in FirstKinds : ~kind.first_seen

VARIABLES history,         \* _history: numbers of events, oldest first
          dispatched,      \* the events so far, by number
          reader,          \* what each thread does, for which event; saw: the head it looked at
          verdict,         \* the rules that fired for the event evaluated last
          crossed          \* history: a popleft took another event than the one looked at

rulevars == <<history, dispatched, reader, verdict, crossed>>

\* An event reports a failed login from an address, a package change, an AIDE finding
\* on a file, or any of them again as a collector's catch-up (first_seen).
Event(kind, ts) == [kind |-> kind, ts |-> ts]

IdleReader == [pc |-> "idle", ev |-> 0, saw |-> 0]

NoVerdict == [ev |-> 0, upto |-> 0, fired |-> {}]

RuleRest ==
  /\ verdict = NoVerdict /\ crossed = FALSE /\ reader = [r \in Readers |-> IdleReader]

RuleOff == RuleRest /\ history = <<>> /\ dispatched = <<>>

\* A first event is through already.
RuleInit == RuleRest /\ history = <<1>> /\ \E kind \in FirstKinds : dispatched = <<Event(kind, 0)>>

\* process: a catch-up event is neither evaluated nor remembered; the deque has a maxlen.
Remember(h, n) == IF Len(h) = HistoryMax THEN Append(Tail(h), n) ELSE Append(h, n)

process(r) ==
  /\ reader[r].pc = "idle" /\ Len(dispatched) < MaxDispatched
  /\ \E kind \in Kinds, ts \in Times :
       /\ dispatched' = Append(dispatched, Event(kind, ts))
       /\ IF kind.first_seen THEN UNCHANGED <<history, reader>>
          ELSE /\ history' = Remember(history, Len(dispatched) + 1)
               /\ reader' = [reader EXCEPT ![r] = [pc |-> "trim", ev |-> Len(dispatched) + 1, saw |-> 0]]
  /\ verdict' = NoVerdict /\ UNCHANGED crossed

Cutoff(r) == dispatched[reader[r].ev].ts - HistoryWindow

\* _trim_history: the deque is asked whether it is empty, then for its head, then for a
\* popleft; an empty deque at the second or third raises, and the event is only published.
trim_history(r) ==
  /\ reader[r].pc = "trim"
  /\ reader' = [reader EXCEPT ![r].pc = IF history = <<>> THEN "evaluate" ELSE "head"]
  /\ UNCHANGED <<history, dispatched, verdict, crossed>>

TrimHead_Eager(r) ==
  /\ reader[r].pc = "head"
  /\ reader' = [reader EXCEPT ![r] =
       IF history = <<>> THEN IdleReader
       ELSE IF dispatched[Head(history)].ts <= Cutoff(r) THEN [@ EXCEPT !.pc = "pop", !.saw = Head(history)]
       ELSE [@ EXCEPT !.pc = "evaluate"]]
  /\ UNCHANGED <<history, dispatched, verdict, crossed>>

TrimHead(r) ==
  /\ reader[r].pc = "head"
  /\ reader' = [reader EXCEPT ![r] =
       IF history = <<>> THEN IdleReader
       ELSE IF dispatched[Head(history)].ts < Cutoff(r) THEN [@ EXCEPT !.pc = "pop", !.saw = Head(history)]
       ELSE [@ EXCEPT !.pc = "evaluate"]]
  /\ UNCHANGED <<history, dispatched, verdict, crossed>>

TrimPop(r) ==
  /\ reader[r].pc = "pop"
  /\ reader' = [reader EXCEPT ![r] = IF history = <<>> THEN IdleReader ELSE [@ EXCEPT !.pc = "trim", !.saw = 0]]
  /\ history' = IF history = <<>> THEN history ELSE Tail(history)
  /\ crossed' = (crossed \/ (history # <<>> /\ Head(history) # reader[r].saw))
  /\ UNCHANGED <<dispatched, verdict>>

\* EvalContext.recent_events over the snapshot: a lower bound only.
recent_events(past, n, window) == {m \in past : dispatched[m].ts >= dispatched[n].ts - window}

Failed(m, ip) == dispatched[m].kind.action = "ssh_login_failed" /\ dispatched[m].kind.key = ip

ssh_brute_force(past, n) ==
  /\ dispatched[n].kind.action = "ssh_login_failed"
  /\ Cardinality({m \in recent_events(past, n, BruteWindow) : Failed(m, dispatched[n].kind.key)}) >= BruteThreshold

av_aide_change_outside_pkgmgr(past, n) ==
  /\ dispatched[n].kind.action = "scan_finding"
  /\ \A m \in recent_events(past, n, PkgmgrWindow) : dispatched[m].kind.action # "package_upgraded"

\* allowlist/evaluator.py: an entry is the conjunction of the scopes it names, and names
\* at least one.  A user_id is a scope that is named and not compared.
entry_matches(entry, rule, n) ==
  /\ "rule_id" \in DOMAIN entry => entry.rule_id = rule
  /\ "entity" \in DOMAIN entry => entry.entity = dispatched[n].kind.key
  /\ DOMAIN entry # {}

is_suppressed(rule, n) == \E entry \in Allowlist : entry_matches(entry, rule, n)

\* The registry's rules over a copy of the history, and the allowlist.
evaluate(r) ==
  /\ reader[r].pc = "evaluate"
  /\ LET n == reader[r].ev
         past == {history[i] : i \in DOMAIN history}
         matches == {rule \in {"brute", "aide"} : IF rule = "brute" THEN ssh_brute_force(past, n)
                                                  ELSE av_aide_change_outside_pkgmgr(past, n)}
     IN  verdict' = [ev |-> n, upto |-> Len(dispatched), fired |-> {rule \in matches : ~is_suppressed(rule, n)}]
  /\ reader' = [reader EXCEPT ![r] = IdleReader]
  /\ UNCHANGED <<history, dispatched, crossed>>

RuleNext == \E r \in Readers : process(r) \/ trim_history(r) \/ TrimHead(r) \/ TrimPop(r) \/ evaluate(r)

----------------------------------------------------------------------------
\* The history is bounded by its maxlen, and the reader threads keep their types.
RuleTypeOK ==
  /\ Len(history) <= HistoryMax /\ \A i \in DOMAIN history : history[i] \in 1..Len(dispatched)
  /\ \A r \in Readers : reader[r].ev \in 0..Len(dispatched)
  /\ verdict.fired \subseteq {"brute", "aide"} /\ crossed \in BOOLEAN

Live == {m \in 1..verdict.upto : ~dispatched[m].kind.first_seen}

\* The brute-force rule counts what really happened, in whatever order the threads append and
\* trim: it fires for an address only if enough failed logins from it, none of them a collector's
\* catch-up, lie within the window before the event or later.
CountsReal ==
  "brute" \in verdict.fired =>
    LET n == verdict.ev IN
    Cardinality({m \in Live : Failed(m, dispatched[n].kind.key) /\ dispatched[m].ts >= dispatched[n].ts - BruteWindow})
      >= BruteThreshold

\* What the deque owes: the last HistoryMax events, but for those more than the window
\* older than another, whose thread may still be trimming.
Owed ==
  {m \in Live : /\ Cardinality({k \in Live : k > m}) < HistoryMax
                /\ \A k \in Live : dispatched[m].ts >= dispatched[k].ts - HistoryWindow}

\* Trimming takes nothing that a rule still needs: unless two threads' trims crossed, enough failed
\* logins within the window raise the alert, and a package change within its window silences the
\* AIDE rule.  (rule_engine.py takes no lock: a popleft may take the event behind the one looked at.)
NothingForgotten ==
  ~crossed /\ verdict # NoVerdict =>
    LET n == verdict.ev IN
    /\ /\ dispatched[n].kind.action = "ssh_login_failed" /\ ~is_suppressed("brute", n)
       /\ Cardinality({m \in Owed : Failed(m, dispatched[n].kind.key)
                                      /\ dispatched[m].ts >= dispatched[n].ts - BruteWindow}) >= BruteThreshold
       => "brute" \in verdict.fired
    /\ (\E m \in Owed : dispatched[m].kind.action = "package_upgraded"
                          /\ dispatched[m].ts >= dispatched[n].ts - PkgmgrWindow)
       => "aide" \notin verdict.fired

\* An AIDE finding that no package change in the window explains is alerted, however late or early
\* the changes outside it are read, unless the allowlist names it.
UnexplainedTold ==
  verdict # NoVerdict /\ dispatched[verdict.ev].kind.action = "scan_finding" /\ ~is_suppressed("aide", verdict.ev) =>
    \/ "aide" \in verdict.fired
    \/ \E m \in Live : dispatched[m].kind.action = "package_upgraded"
                         /\ dispatched[m].ts >= dispatched[verdict.ev].ts - PkgmgrWindow

\* The rules that count and correlate judge by what happened: they fire for nothing that did not
\* happen, and stay silent for nothing that did, in whatever order the reader threads come.
RulesJudgeTruly == RuleTypeOK /\ CountsReal /\ NothingForgotten /\ UnexplainedTold
=============================================================================
