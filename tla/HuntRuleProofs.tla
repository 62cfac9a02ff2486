-------------------------- MODULE HuntRuleProofs ---------------------------
(* The rules judge by what happened, and scheduled hunts take every row once. *)
EXTENDS HuntSchedule, RuleHistory, FiniteSetTheorems, TLAPS

-----------------------------------------------------------------------------
(* The rules' history: the inductive invariant.                               *)

\* The events that process did not turn away as a catch-up.
LiveNow == {m \in 1..Len(dispatched) : ~dispatched[m].kind.first_seen}

\* The events the deque holds.
Kept == {history[i] : i \in DOMAIN history}

\* Events carry times.
EventInv ==
  /\ dispatched \in Seq([kind : Kinds \cup FirstKinds, ts : Int])
  /\ crossed \in BOOLEAN

\* The deque holds live events in the order they came, and no more than it may.
DequeInv ==
  /\ history \in Seq(Nat) /\ Len(history) <= HistoryMax
  /\ \A i \in 1..Len(history) : history[i] \in LiveNow
  /\ \A i, j \in 1..Len(history) : i < j => history[i] < history[j]

\* Where a thread is in process, for which event, and the head it looked at.
ReaderState == [pc : {"idle", "trim", "head", "pop", "evaluate"}, ev : Nat, saw : Nat]

\* A thread that trims or evaluates does so for a live event; what it is about
\* to pop is older than its cutoff.
ReaderInv ==
  /\ reader \in [Readers -> ReaderState]
  /\ \A r \in Readers : reader[r].pc # "idle" => reader[r].ev \in LiveNow
  /\ \A r \in Readers : reader[r].pc = "idle" => reader[r].ev = 0
  /\ \A r \in Readers : reader[r].pc = "pop" =>
       reader[r].saw \in LiveNow /\ dispatched[reader[r].saw].ts < Cutoff(r)

\* An event has left the deque because HistoryMax came after it, or because it
\* was too old for another.
Crowded(m) == Cardinality({k \in LiveNow : k > m}) >= HistoryMax

Outdated(m) == \E k \in LiveNow : dispatched[m].ts < dispatched[k].ts - HistoryWindow

ForgetInv == ~crossed => \A m \in LiveNow : m \in Kept \/ Crowded(m) \/ Outdated(m)

\* A verdict is about all that was dispatched when it was reached.
VerdictInv ==
  /\ verdict = NoVerdict \/ (verdict.ev \in LiveNow /\ verdict.upto = Len(dispatched))
  /\ verdict.fired \subseteq {"brute", "aide"}
  /\ CountsReal /\ NothingForgotten /\ UnexplainedTold

RuleInv == EventInv /\ DequeInv /\ ReaderInv /\ ForgetInv /\ VerdictInv

-----------------------------------------------------------------------------
(* The rules' history: what its operators do.                                 *)

\* An event appended.
LEMMA AppendGives ==
  ASSUME NEW S, NEW s \in Seq(S), NEW e \in S
  PROVE  /\ Append(s, e) \in Seq(S) /\ Len(Append(s, e)) = Len(s) + 1
         /\ Append(s, e)[Len(s) + 1] = e
         /\ \A m \in 1..Len(s) : Append(s, e)[m] = s[m]
OBVIOUS

\* The rest of a deque.
LEMMA TailGives ==
  ASSUME NEW S, NEW s \in Seq(S), s # << >>
  PROVE  /\ Tail(s) \in Seq(S) /\ Len(Tail(s)) = Len(s) - 1
         /\ \A i \in 1..Len(Tail(s)) : Tail(s)[i] = s[i + 1]
OBVIOUS

\* An element of a sequence.
LEMMA IndexGives == ASSUME NEW S, NEW s \in Seq(S), NEW i \in 1..Len(s) PROVE s[i] \in S
BY SMTT(20)

\* An increasing sequence has as many elements as it is long.
LEMMA IncreasingCounts ==
  ASSUME NEW g \in Seq(Nat), \A i, j \in 1..Len(g) : i < j => g[i] < g[j],
         NEW S, IsFiniteSet(S), \A i \in 1..Len(g) : g[i] \in S
  PROVE  Cardinality(S) >= Len(g)
<1> DEFINE R == {g[i] : i \in 1..Len(g)}
           f == [i \in 1..Len(g) |-> g[i]]
<1>1. Len(g) \in Nat /\ \A i, j \in 1..Len(g) : g[i] = g[j] => i = j
  <2>1. Len(g) \in Nat /\ \A i \in 1..Len(g) : g[i] \in Nat
    OBVIOUS
  <2> QED BY <2>1
<1>2. f \in Bijection(1..Len(g), R)
  BY <1>1, Zenon DEF Bijection, Injection, Surjection, IsInjective
<1>3. ExistsBijection(1..Len(g), R)
  BY <1>2, Zenon DEF ExistsBijection
<1>4. IsFiniteSet(1..Len(g)) /\ Cardinality(1..Len(g)) = Len(g)
  <2>1. 1 \in Int /\ Len(g) \in Int
    BY <1>1
  <2>2. /\ IsFiniteSet(1..Len(g))
        /\ Cardinality(1..Len(g)) = IF 1 > Len(g) THEN 0 ELSE Len(g) - 1 + 1
    BY <2>1, FS_Interval, Zenon
  <2>3. \A c : c = (IF 1 > Len(g) THEN 0 ELSE Len(g) - 1 + 1) => c = Len(g)
    BY <1>1
  <2> QED BY <2>2, <2>3, Zenon
<1>5. Cardinality(R) = Len(g)
  <2> HIDE DEF R
  <2> QED BY <1>3, <1>4, FS_Bijection, Zenon
<1>6. R \in SUBSET S
  BY Zenon
<1>7. Cardinality(R) <= Cardinality(S) /\ Cardinality(S) \in Nat
  <2> HIDE DEF R
  <2> QED BY <1>6, FS_Subset, FS_CardinalityType, Zenon
<1> QED BY <1>1, <1>5, <1>7, Zenon

\* g is h with n behind it, in order and within the bound; what it lacks of h
\* is followed by HistoryMax others.
RememberedAs(h, n, g) ==
  /\ g \in Seq(Nat) /\ Len(g) <= HistoryMax
  /\ \A i, j \in 1..Len(g) : i < j => g[i] < g[j]
  /\ \A i \in 1..Len(g) : g[i] = n \/ \E j \in 1..Len(h) : g[i] = h[j]
  /\ \E i \in 1..Len(g) : g[i] = n
  /\ \A j \in 1..Len(h) : \/ \E i \in 1..Len(g) : g[i] = h[j]
                          \/ Len(g) = HistoryMax /\ \A i \in 1..Len(g) : g[i] > h[j]

\* Appending to the deque keeps the order, and costs at most its head, when
\* HistoryMax younger ones remain.
LEMMA RememberKeeps ==
  ASSUME NEW h \in Seq(Nat), Len(h) <= HistoryMax, NEW n \in Nat,
         \A i \in 1..Len(h) : h[i] < n,
         \A i, j \in 1..Len(h) : i < j => h[i] < h[j]
  PROVE  RememberedAs(h, n, Remember(h, n))
<1> SUFFICES ASSUME NEW g, g = Remember(h, n)
    PROVE  RememberedAs(h, n, g)
  BY Zenon
<1>1. HistoryMax \in Nat /\ HistoryMax > 0 /\ Len(h) \in Nat /\ \A i \in 1..Len(h) : h[i] \in Nat
  BY RuleAssumption
<1>2. CASE Len(h) # HistoryMax
  <2>1. g = Append(h, n)
    BY <1>2, Zenon DEF Remember
  <2>2. /\ g \in Seq(Nat) /\ Len(g) = Len(h) + 1
        /\ \A i \in 1..Len(h) : g[i] = h[i]
        /\ g[Len(h) + 1] = n
    BY <2>1
  <2>3. Len(g) <= HistoryMax /\ \A i \in 1..Len(g) : i \in 1..Len(h) \/ i = Len(h) + 1
    BY <1>1, <1>2, <2>2
  <2>4. \A i, j \in 1..Len(g) : i < j => g[i] < g[j]
    <3> SUFFICES ASSUME NEW i \in 1..Len(g), NEW j \in 1..Len(g), i < j PROVE g[i] < g[j]
      BY Zenon
    <3>1. i \in 1..Len(h)
      BY <1>1, <2>2
    <3> QED BY <2>2, <2>3, <3>1, Zenon
  <2>5. Len(h) + 1 \in 1..Len(g) /\ \A j \in 1..Len(h) : j \in 1..Len(g)
    BY <1>1, <2>2
  <2> QED BY <2>2, <2>3, <2>4, <2>5, Zenon DEF RememberedAs
<1>3. CASE Len(h) = HistoryMax
  <2>1. g = Append(Tail(h), n)
    BY <1>3, Zenon DEF Remember
  <2>2. h # << >>
    BY <1>1, <1>3
  <2>3. /\ Tail(h) \in Seq(Nat) /\ Len(Tail(h)) = Len(h) - 1
        /\ \A i \in 1..Len(Tail(h)) : Tail(h)[i] = h[i + 1]
    BY <2>2, TailGives, Zenon
  <2>4. /\ g \in Seq(Nat) /\ Len(g) = Len(Tail(h)) + 1
        /\ \A i \in 1..Len(Tail(h)) : g[i] = Tail(h)[i]
        /\ g[Len(Tail(h)) + 1] = n
    BY <2>1, <2>3
  <2>5. /\ Len(g) = HistoryMax /\ Len(g) = Len(h) /\ g[Len(h)] = n
        /\ \A i \in 1..(Len(h) - 1) : g[i] = h[i + 1]
    <3>1. Len(Tail(h)) + 1 = Len(h)
      BY <1>1, <2>3
    <3> QED BY <1>3, <2>3, <2>4, <3>1, Zenon
  <2>6. \A i \in 1..Len(g) : i = Len(h) \/ (i \in 1..(Len(h) - 1) /\ i + 1 \in 1..Len(h))
    BY <1>1, <2>5
  <2>7. \A i, j \in 1..Len(g) : i < j => g[i] < g[j]
    <3> SUFFICES ASSUME NEW i \in 1..Len(g), NEW j \in 1..Len(g), i < j PROVE g[i] < g[j]
      BY Zenon
    <3>1. g[i] = h[i + 1] /\ i + 1 \in 1..Len(h)
      BY <1>1, <2>5
    <3>2. CASE j = Len(h)
      BY <2>5, <3>1, <3>2, Zenon
    <3>3. CASE j # Len(h)
      <4>1. g[j] = h[j + 1] /\ j + 1 \in 1..Len(h) /\ i + 1 < j + 1
        BY <1>1, <2>5, <3>3
      <4> QED BY <3>1, <4>1, Zenon
    <3> QED BY <3>2, <3>3, Zenon
  <2>8. \A i \in 1..Len(g) : g[i] = n \/ \E j \in 1..Len(h) : g[i] = h[j]
    BY <2>5, <2>6, Zenon
  <2>9. Len(h) \in 1..Len(g)
    BY <1>1, <1>3, <2>5
  <2>10. \A j \in 1..Len(h) : \/ \E i \in 1..Len(g) : g[i] = h[j]
                              \/ \A i \in 1..Len(g) : g[i] > h[j]
    <3> SUFFICES ASSUME NEW j \in 1..Len(h)
        PROVE  \/ \E i \in 1..Len(g) : g[i] = h[j]
               \/ \A i \in 1..Len(g) : g[i] > h[j]
      BY Zenon
    <3>1. CASE j # 1
      <4>1. j - 1 \in 1..Len(g) /\ j - 1 \in 1..(Len(h) - 1) /\ (j - 1) + 1 = j
        BY <1>1, <2>5, <3>1
      <4> QED BY <2>5, <4>1, Zenon
    <3>2. CASE j = 1
      <4>1. \A i \in 1..Len(g) : h[1] < g[i]
        BY <1>1, <2>5, <2>6, <2>9
      <4>2. \A i \in 1..Len(g) : g[i] \in Nat
        BY <2>4
      <4> QED BY <1>1, <3>2, <4>1, <4>2
    <3> QED BY <3>1, <3>2, Zenon
  <2>11. HistoryMax <= HistoryMax
    BY <1>1
  <2> QED BY <2>4, <2>5, <2>7, <2>8, <2>9, <2>10, <2>11, Zenon DEF RememberedAs
<1> QED BY <1>2, <1>3, Zenon

\* Live events are events.
LEMMA LiveType ==
  ASSUME EventInv
  PROVE  /\ Len(dispatched) \in Nat /\ LiveNow \subseteq 1..Len(dispatched) /\ LiveNow \subseteq Nat
         /\ IsFiniteSet(LiveNow)
         /\ \A m \in LiveNow : dispatched[m].ts \in Int
<1>1. Len(dispatched) \in Nat /\ LiveNow \subseteq 1..Len(dispatched)
  BY DEF EventInv, LiveNow
<1>2. LiveNow \subseteq Nat /\ 1..Len(dispatched) \subseteq Int
  BY <1>1
<1>3. IsFiniteSet(1..Len(dispatched))
  BY <1>1, FS_Interval
<1>4. IsFiniteSet(LiveNow)
  BY <1>1, <1>3, FS_Subset, Zenon
<1>5. \A m \in LiveNow : dispatched[m].ts \in Int
  <2>1. \A m \in LiveNow : dispatched[m] \in [kind : Kinds \cup FirstKinds, ts : Int]
    BY <1>1, IndexGives, Zenon DEF EventInv
  <2> QED BY <2>1, Zenon
<1> QED BY <1>1, <1>2, <1>4, <1>5, Zenon

\* As events come, what was a reason to have left the deque stays one.
LEMMA ReasonsStay ==
  ASSUME EventInv, EventInv', LiveNow \subseteq LiveNow',
         \A m \in LiveNow : dispatched'[m] = dispatched[m],
         NEW m \in LiveNow
  PROVE  (Crowded(m) => Crowded(m)') /\ (Outdated(m) => Outdated(m)')
<1>1. Outdated(m) => Outdated(m)'
  BY Zenon DEF Outdated
<1> DEFINE A == {k \in LiveNow : k > m}
           B == {k \in LiveNow' : k > m}
<1>2. A \in SUBSET B
  BY Zenon
<1>3. IsFiniteSet(B)
  <2>1. Len(dispatched') \in Nat /\ B \in SUBSET (1..Len(dispatched'))
    BY DEF EventInv, LiveNow
  <2>2. IsFiniteSet(1..Len(dispatched'))
    BY <2>1, FS_Interval
  <2> HIDE DEF B
  <2> QED BY <2>1, <2>2, FS_Subset, Zenon
<1>4. Cardinality(A) <= Cardinality(B) /\ Cardinality(A) \in Nat /\ Cardinality(B) \in Nat
  <2> HIDE DEF A, B
  <2> QED BY <1>2, <1>3, FS_Subset, FS_CardinalityType, Zenon
<1>5. Cardinality(A) >= HistoryMax => Cardinality(B) >= HistoryMax
  <2> HIDE DEF A, B
  <2> QED BY <1>4, RuleAssumption
<1> QED BY <1>1, <1>5, Zenon DEF Crowded

-----------------------------------------------------------------------------
(* The rules' history: the steps.                                             *)

\* A verdict stands while no event comes; that trims crossed excuses more.
LEMMA VerdictStays ==
  ASSUME VerdictInv, UNCHANGED <<dispatched, verdict>>, crossed => crossed'
  PROVE  VerdictInv'
<1>1. LiveNow' = LiveNow /\ Live' = Live /\ Owed' = Owed
  BY Zenon DEF LiveNow, Live, Owed
<1>2. CountsReal'
  BY <1>1, Zenon DEF VerdictInv, CountsReal, Failed
<1>3. NothingForgotten'
  BY <1>1, Zenon DEF VerdictInv, NothingForgotten, Failed, is_suppressed, entry_matches
<1>4. UnexplainedTold'
  BY <1>1, Zenon DEF VerdictInv, UnexplainedTold, is_suppressed, entry_matches
<1> QED BY <1>1, <1>2, <1>3, <1>4, Zenon DEF VerdictInv

\* process of an event.
LEMMA ProcessKeeps == ASSUME RuleInv, NEW r \in Readers, process(r) PROVE RuleInv'
<1> DEFINE n == Len(dispatched) + 1
<1>1. PICK kind \in Kinds, ts \in Times :
        /\ dispatched' = Append(dispatched, Event(kind, ts))
        /\ IF kind.first_seen THEN UNCHANGED <<history, reader>>
           ELSE /\ history' = Remember(history, n)
                /\ reader' = [reader EXCEPT ![r] = [pc |-> "trim", ev |-> n, saw |-> 0]]
  BY Zenon DEF process
<1>2. crossed' = crossed /\ verdict' = NoVerdict
  BY Zenon DEF process
<1>3. /\ dispatched \in Seq([kind : Kinds \cup FirstKinds, ts : Int])
      /\ Event(kind, ts) \in [kind : Kinds \cup FirstKinds, ts : Int]
      /\ Event(kind, ts).kind = kind
  BY RuleAssumption DEF RuleInv, EventInv, Event
<1>4. /\ dispatched' \in Seq([kind : Kinds \cup FirstKinds, ts : Int])
      /\ Len(dispatched') = n /\ dispatched'[n] = Event(kind, ts)
      /\ \A m \in 1..Len(dispatched) : dispatched'[m] = dispatched[m]
  <2> HIDE DEF n
  <2>1. PICK S, e : /\ S = [kind : Kinds \cup FirstKinds, ts : Int] /\ e = Event(kind, ts)
                    /\ dispatched \in Seq(S) /\ e \in S
    BY <1>3, Zenon
  <2>2. /\ Append(dispatched, e) \in Seq(S) /\ Len(Append(dispatched, e)) = Len(dispatched) + 1
        /\ Append(dispatched, e)[Len(dispatched) + 1] = e
        /\ \A m \in 1..Len(dispatched) : Append(dispatched, e)[m] = dispatched[m]
    BY <2>1, AppendGives
  <2> QED BY <1>1, <2>1, <2>2, Zenon DEF n
<1>5. EventInv'
  BY <1>2, <1>4, Zenon DEF RuleInv, EventInv
<1>6. /\ Len(dispatched) \in Nat /\ LiveNow \subseteq 1..Len(dispatched) /\ LiveNow \subseteq Nat
  BY LiveType, Zenon DEF RuleInv
<1>7. n \in Nat /\ (\A m \in LiveNow : m < n) /\ 1..n = 1..Len(dispatched) \cup {n}
  BY <1>6
<1>8. LiveNow \subseteq LiveNow' /\ \A m \in LiveNow : dispatched'[m] = dispatched[m]
  BY <1>4, <1>6, <1>7, Zenon DEF LiveNow
<1>9. \A m \in LiveNow' : m \in LiveNow \/ (m = n /\ ~kind.first_seen)
  BY <1>3, <1>4, <1>7, Zenon DEF LiveNow
<1>10. ~kind.first_seen => n \in LiveNow'
  BY <1>3, <1>4, <1>7, Zenon DEF LiveNow
<1>11. VerdictInv'
  BY <1>2, Zenon DEF VerdictInv, NoVerdict, CountsReal, NothingForgotten, UnexplainedTold
<1>12. \A m \in LiveNow : (Crowded(m) => Crowded(m)') /\ (Outdated(m) => Outdated(m)')
  BY <1>5, <1>8, ReasonsStay, Zenon DEF RuleInv
<1>13. \A p \in Readers : reader'[p] = reader[p] => Cutoff(p)' = Cutoff(p) \/ reader[p].pc = "idle"
  BY <1>8, Zenon DEF RuleInv, ReaderInv, Cutoff
<1> HIDE DEF n
<1>14. CASE kind.first_seen
  <2>1. history' = history /\ reader' = reader
    BY <1>1, <1>14, Zenon
  <2>2. DequeInv'
    BY <1>8, <2>1, Zenon DEF RuleInv, DequeInv
  <2>3. ReaderInv'
    <3>1. \A p \in Readers : reader[p].pc = "pop" => Cutoff(p)' = Cutoff(p)
      BY <1>13, <2>1, Zenon
    <3> QED BY <1>8, <2>1, <3>1, Zenon DEF RuleInv, ReaderInv
  <2>4. ForgetInv'
    BY <1>2, <1>9, <1>12, <1>14, <2>1, Zenon DEF RuleInv, ForgetInv, Kept
  <2> QED BY <1>5, <1>11, <2>2, <2>3, <2>4, Zenon DEF RuleInv
<1>15. CASE ~kind.first_seen
  <2>1. /\ history' = Remember(history, n)
        /\ reader' = [reader EXCEPT ![r] = [pc |-> "trim", ev |-> n, saw |-> 0]]
    BY <1>1, <1>15, Zenon DEF n
  <2>2. /\ history' \in Seq(Nat) /\ Len(history') <= HistoryMax
        /\ \A i, j \in 1..Len(history') : i < j => history'[i] < history'[j]
        /\ \A i \in 1..Len(history') :
             history'[i] = n \/ \E j \in 1..Len(history) : history'[i] = history[j]
        /\ \E i \in 1..Len(history') : history'[i] = n
        /\ \A j \in 1..Len(history) :
             \/ \E i \in 1..Len(history') : history'[i] = history[j]
             \/ /\ Len(history') = HistoryMax
                /\ \A i \in 1..Len(history') : history'[i] > history[j]
    <3>1. /\ history \in Seq(Nat) /\ Len(history) <= HistoryMax
          /\ \A i \in 1..Len(history) : history[i] < n
          /\ \A i, j \in 1..Len(history) : i < j => history[i] < history[j]
      BY <1>7, Zenon DEF RuleInv, DequeInv
    <3>2. RememberedAs(history, n, history')
      BY <1>7, <2>1, <3>1, RememberKeeps, Zenon
    <3> QED BY <3>2, Zenon DEF RememberedAs
  <2>3. DequeInv'
    <3>1. \A i \in 1..Len(history') : history'[i] \in LiveNow'
      BY <1>8, <1>10, <1>15, <2>2, Zenon DEF RuleInv, DequeInv
    <3> QED BY <2>2, <3>1, Zenon DEF DequeInv
  <2>4. ReaderInv'
    <3>1. reader \in [Readers -> ReaderState]
      BY Zenon DEF RuleInv, ReaderInv
    <3>2. [pc |-> "trim", ev |-> n, saw |-> 0] \in ReaderState
      BY <1>7 DEF ReaderState
    <3>3. reader' \in [Readers -> ReaderState]
      BY <2>1, <3>1, <3>2, Zenon
    <3>4. /\ reader'[r].pc = "trim" /\ reader'[r].ev = n
          /\ \A p \in Readers \ {r} : reader'[p] = reader[p]
      BY <2>1, <3>1, Zenon
    <3>5. \A p \in Readers : reader'[p].pc = "pop" =>
            /\ reader'[p] = reader[p] /\ reader[p].pc = "pop" /\ Cutoff(p)' = Cutoff(p)
      BY <1>13, <3>4, Zenon
    <3>6. \A p \in Readers : reader'[p].pc = "pop" =>
            reader'[p].saw \in LiveNow' /\ dispatched'[reader'[p].saw].ts < Cutoff(p)'
      BY <1>8, <3>5, Zenon DEF RuleInv, ReaderInv
    <3>7. \A p \in Readers : /\ reader'[p].pc # "idle" => reader'[p].ev \in LiveNow'
                             /\ reader'[p].pc = "idle" => reader'[p].ev = 0
      BY <1>8, <1>10, <1>15, <3>4, Zenon DEF RuleInv, ReaderInv
    <3> QED BY <3>3, <3>6, <3>7, Zenon DEF ReaderInv
  <2>5. ForgetInv'
    <3> SUFFICES ASSUME ~crossed, NEW m \in LiveNow'
        PROVE  m \in Kept' \/ Crowded(m)' \/ Outdated(m)'
      BY <1>2, Zenon DEF ForgetInv
    <3>1. DOMAIN history' = 1..Len(history') /\ DOMAIN history = 1..Len(history)
      BY <2>2 DEF RuleInv, DequeInv
    <3>2. CASE m = n
      BY <2>2, <3>1, <3>2, Zenon DEF Kept
    <3>3. CASE m \in LiveNow /\ m \notin Kept
      BY <1>12, <3>3, Zenon DEF RuleInv, ForgetInv
    <3>4. CASE m \in Kept
      <4>1. PICK j \in 1..Len(history) : m = history[j]
        BY <3>1, <3>4, Zenon DEF Kept
      <4>2. CASE \E i \in 1..Len(history') : history'[i] = m
        BY <3>1, <4>2, Zenon DEF Kept
      <4>3. CASE Len(history') = HistoryMax /\ \A i \in 1..Len(history') : history'[i] > m
        <5> DEFINE Y == {k \in LiveNow' : k > m}
        <5>1. Y \in SUBSET (1..Len(dispatched')) /\ Len(dispatched') \in Nat
          BY <1>4, <1>7, Zenon DEF LiveNow
        <5>2. IsFiniteSet(1..Len(dispatched'))
          BY <5>1, FS_Interval
        <5>3. \A i \in 1..Len(history') : history'[i] \in Y
          BY <2>3, <4>3, Zenon DEF DequeInv
        <5>4. IsFiniteSet(Y)
          <6> HIDE DEF Y
          <6> QED BY <5>1, <5>2, FS_Subset, Zenon
        <5>5. Cardinality(Y) >= Len(history')
          <6> HIDE DEF Y
          <6> QED BY <2>2, <5>3, <5>4, IncreasingCounts, Zenon
        <5> QED BY <4>3, <5>5, Zenon DEF Crowded
      <4> QED BY <2>2, <4>1, <4>2, <4>3, Zenon
    <3> QED BY <1>9, <3>2, <3>3, <3>4, Zenon
  <2> QED BY <1>5, <1>11, <2>3, <2>4, <2>5, Zenon DEF RuleInv
<1> QED BY <1>14, <1>15, Zenon

\* A step of a thread that appends and pops nothing.
LEMMA ReaderMoves ==
  ASSUME RuleInv, UNCHANGED <<history, dispatched, crossed>>, ReaderInv', VerdictInv'
  PROVE  RuleInv'
<1>1. LiveNow' = LiveNow /\ Kept' = Kept
  BY Zenon DEF LiveNow, Kept
<1>2. EventInv' /\ DequeInv'
  BY <1>1, Zenon DEF RuleInv, EventInv, DequeInv
<1>3. ForgetInv'
  BY <1>1, Zenon DEF RuleInv, ForgetInv, Crowded, Outdated
<1> QED BY <1>2, <1>3, Zenon DEF RuleInv

\* What the threads are at, when one of them goes on and no event comes.
LEMMA ReaderGoesOn ==
  ASSUME RuleInv, UNCHANGED dispatched, NEW r \in Readers, NEW d,
         d \in ReaderState,
         reader' = [reader EXCEPT ![r] = d],
         d.pc # "idle" => d.ev \in LiveNow, d.pc = "idle" => d.ev = 0,
         d.pc = "pop" => /\ d.saw \in LiveNow
                         /\ dispatched[d.saw].ts < dispatched[d.ev].ts - HistoryWindow
  PROVE  ReaderInv'
<1>1. LiveNow' = LiveNow
  BY Zenon DEF LiveNow
<1>2. reader \in [Readers -> ReaderState]
  BY Zenon DEF RuleInv, ReaderInv
<1>3. reader'[r] = d /\ \A p \in Readers \ {r} : reader'[p] = reader[p]
  BY <1>2, Zenon
<1>4. reader' \in [Readers -> ReaderState]
  BY <1>2, Zenon
<1> SUFFICES ASSUME NEW p \in Readers
    PROVE  /\ reader'[p].pc # "idle" => reader'[p].ev \in LiveNow
           /\ reader'[p].pc = "idle" => reader'[p].ev = 0
           /\ reader'[p].pc = "pop" =>
                /\ reader'[p].saw \in LiveNow
                /\ dispatched[reader'[p].saw].ts < dispatched[reader'[p].ev].ts - HistoryWindow
  BY <1>1, <1>4, Zenon DEF ReaderInv, Cutoff
<1>5. CASE p = r
  BY <1>3, <1>5, Zenon
<1>6. CASE p # r
  BY <1>3, <1>6, Zenon DEF RuleInv, ReaderInv, Cutoff
<1> QED BY <1>5, <1>6, Zenon

\* _trim_history asks the deque whether it is empty, and for its head.
LEMMA TrimKeeps ==
  ASSUME RuleInv, NEW r \in Readers, trim_history(r) \/ TrimHead(r)
  PROVE  RuleInv'
<1>1. UNCHANGED <<history, dispatched, verdict, crossed>> /\ reader[r].pc \in {"trim", "head"}
  BY Zenon DEF trim_history, TrimHead
<1>2. VerdictInv'
  BY <1>1, VerdictStays, Zenon DEF RuleInv
<1>3. /\ reader \in [Readers -> ReaderState]
      /\ reader[r].ev \in LiveNow
  BY <1>1, Zenon DEF RuleInv, ReaderInv
<1>4. PICK d : /\ reader' = [reader EXCEPT ![r] = d]
               /\ \/ d = IdleReader
                  \/ \E w \in {"head", "evaluate"} : d = [reader[r] EXCEPT !.pc = w]
                  \/ /\ history # << >> /\ dispatched[Head(history)].ts < Cutoff(r)
                     /\ d = [reader[r] EXCEPT !.pc = "pop", !.saw = Head(history)]
  BY Zenon DEF trim_history, TrimHead
<1>5. history # << >> => Head(history) \in LiveNow /\ Head(history) \in Nat
  BY DEF RuleInv, DequeInv
<1>6. /\ d \in ReaderState
      /\ d.pc # "idle" => d.ev \in LiveNow
      /\ d.pc = "idle" => d.ev = 0
      /\ d.pc = "pop" => /\ d.saw \in LiveNow
                         /\ dispatched[d.saw].ts < dispatched[d.ev].ts - HistoryWindow
  <2>1. reader[r] \in ReaderState
    BY <1>3, Zenon
  <2>2. CASE d = IdleReader
    BY <2>2 DEF IdleReader, ReaderState
  <2>3. ASSUME NEW w \in {"head", "evaluate"}, d = [reader[r] EXCEPT !.pc = w]
        PROVE  /\ d \in ReaderState
               /\ d.pc = w /\ d.ev = reader[r].ev
    BY <2>1, <2>3, Zenon DEF ReaderState
  <2>4. ASSUME history # << >>, d = [reader[r] EXCEPT !.pc = "pop", !.saw = Head(history)]
        PROVE  /\ d \in ReaderState
               /\ d.pc = "pop" /\ d.ev = reader[r].ev /\ d.saw = Head(history)
    BY <1>5, <2>1, <2>4, Zenon DEF ReaderState
  <2> QED BY <1>3, <1>4, <1>5, <2>2, <2>3, <2>4, Zenon DEF Cutoff
<1>7. ReaderInv'
  BY <1>1, <1>4, <1>6, ReaderGoesOn, Zenon
<1> QED BY <1>1, <1>2, <1>7, ReaderMoves, Zenon

\* The popleft of _trim_history.
LEMMA TrimPopKeeps == ASSUME RuleInv, NEW r \in Readers, TrimPop(r) PROVE RuleInv'
<1>1. /\ UNCHANGED <<dispatched, verdict>> /\ reader[r].pc = "pop" /\ (crossed => crossed')
      /\ crossed' = (crossed \/ (history # << >> /\ Head(history) # reader[r].saw))
  BY Zenon DEF TrimPop
<1>2. VerdictInv'
  BY <1>1, VerdictStays, Zenon DEF RuleInv
<1>3. /\ reader \in [Readers -> ReaderState]
      /\ reader[r].ev \in LiveNow /\ reader[r].saw \in LiveNow
      /\ dispatched[reader[r].saw].ts < Cutoff(r)
  BY <1>1, Zenon DEF RuleInv, ReaderInv
<1>4. ReaderInv'
  <2>1. PICK d : /\ reader' = [reader EXCEPT ![r] = d]
                 /\ d = IdleReader \/ d = [reader[r] EXCEPT !.pc = "trim", !.saw = 0]
    BY Zenon DEF TrimPop
  <2>2. /\ d \in ReaderState
        /\ d.pc # "idle" => d.ev \in LiveNow
        /\ d.pc = "idle" => d.ev = 0
        /\ d.pc # "pop"
    <3>1. reader[r] \in ReaderState
      BY <1>3, Zenon
    <3>2. CASE d = IdleReader
      BY <3>2 DEF IdleReader, ReaderState
    <3>3. ASSUME d = [reader[r] EXCEPT !.pc = "trim", !.saw = 0]
          PROVE  /\ d \in ReaderState
                 /\ d.pc = "trim" /\ d.ev = reader[r].ev
      BY <3>1, <3>3, Zenon DEF ReaderState
    <3> QED BY <1>3, <2>1, <3>2, <3>3, Zenon
  <2> QED BY <1>1, <2>1, <2>2, ReaderGoesOn, Zenon
<1>5. LiveNow' = LiveNow
  BY <1>1, Zenon DEF LiveNow
<1>6. EventInv'
  BY <1>1, Zenon DEF RuleInv, EventInv
<1>7. CASE history = << >>
  <2>1. history' = history /\ crossed' = crossed
    BY <1>1, <1>7, Zenon DEF TrimPop, RuleInv, EventInv
  <2> QED BY <1>1, <1>2, <1>4, <2>1, ReaderMoves, Zenon
<1>8. CASE history # << >>
  <2>1. history' = Tail(history) /\ history \in Seq(Nat)
    BY <1>8, Zenon DEF TrimPop, RuleInv, DequeInv
  <2>2. /\ history' \in Seq(Nat) /\ Len(history') = Len(history) - 1
        /\ \A i \in 1..Len(history') : history'[i] = history[i + 1]
    BY <1>8, <2>1, TailGives, Zenon
  <2>3. /\ Len(history) \in Nat /\ Len(history) >= 1 /\ Head(history) = history[1]
        /\ DOMAIN history = 1..Len(history) /\ DOMAIN history' = 1..Len(history')
    BY <1>8, <2>1, <2>2
  <2>4. \A i \in 1..Len(history') : i \in Nat /\ i + 1 \in 1..Len(history)
    BY <2>2, <2>3
  <2>5. DequeInv'
    <3>1. Len(history') <= HistoryMax
      BY <2>2, <2>3, RuleAssumption DEF RuleInv, DequeInv
    <3>2. \A i, j \in 1..Len(history') : i < j => i + 1 < j + 1
      BY <2>4
    <3> QED BY <1>5, <2>2, <2>4, <3>1, <3>2, Zenon DEF RuleInv, DequeInv
  <2>6. \A m \in Kept : m \in Kept' \/ m = Head(history)
    <3>1. \A i \in 1..Len(history) : i = 1 \/ (i - 1 \in 1..Len(history') /\ (i - 1) + 1 = i)
      BY <2>2, <2>3
    <3> SUFFICES ASSUME NEW i \in 1..Len(history), i # 1 PROVE history[i] \in Kept'
      BY <2>3, Zenon DEF Kept
    <3>2. history'[i - 1] = history[i] /\ i - 1 \in DOMAIN history'
      BY <2>2, <2>3, <3>1, Zenon
    <3> QED BY <3>2, Zenon DEF Kept
  <2>7. ForgetInv'
    <3> SUFFICES ASSUME ~crossed', NEW m \in LiveNow
        PROVE  m \in Kept' \/ Crowded(m)' \/ Outdated(m)'
      BY <1>5, Zenon DEF ForgetInv
    <3>1. (Crowded(m) => Crowded(m)') /\ (Outdated(m) => Outdated(m)')
      BY <1>1, <1>5, Zenon DEF Crowded, Outdated
    <3>2. ~crossed /\ Head(history) = reader[r].saw
      BY <1>1, <1>8, Zenon
    <3>3. m = Head(history) => Outdated(m)
      BY <1>3, <3>2, Zenon DEF Outdated, Cutoff
    <3> QED BY <2>6, <3>1, <3>2, <3>3, Zenon DEF RuleInv, ForgetInv
  <2> QED BY <1>2, <1>4, <1>6, <2>5, <2>7, Zenon DEF RuleInv
<1> QED BY <1>7, <1>8, Zenon

\* The rules are evaluated over a copy of the deque.
LEMMA EvaluateKeeps == ASSUME RuleInv, NEW r \in Readers, evaluate(r) PROVE RuleInv'
<1> DEFINE n == reader[r].ev
           key == dispatched[n].kind.key
           recent(S) == {m \in S : /\ Failed(m, key)
                                   /\ dispatched[m].ts >= dispatched[n].ts - BruteWindow}
<1>1. /\ UNCHANGED <<history, dispatched, crossed>> /\ reader[r].pc = "evaluate"
      /\ reader' = [reader EXCEPT ![r] = IdleReader]
  BY Zenon DEF evaluate
<1>2. ReaderInv'
  <2>1. /\ IdleReader \in ReaderState
        /\ IdleReader.pc = "idle" /\ IdleReader.ev = 0
    BY DEF IdleReader, ReaderState
  <2> QED BY <1>1, <2>1, ReaderGoesOn, Zenon
<1>3. /\ n \in LiveNow /\ Kept \subseteq LiveNow /\ Len(dispatched) \in Nat /\ IsFiniteSet(LiveNow)
      /\ \A m \in LiveNow : m \in Nat /\ dispatched[m].ts \in Int
  <2>1. DOMAIN history = 1..Len(history)
    BY DEF RuleInv, DequeInv
  <2>2. n \in LiveNow /\ Kept \subseteq LiveNow
    BY <1>1, <2>1, Zenon DEF RuleInv, ReaderInv, DequeInv, Kept
  <2> QED BY <2>2, LiveType, Zenon DEF RuleInv
<1>4. /\ verdict'.ev = n /\ verdict'.upto = Len(dispatched)
      /\ verdict'.fired \subseteq {"brute", "aide"}
      /\ "brute" \in verdict'.fired <=> ssh_brute_force(Kept, n) /\ ~is_suppressed("brute", n)
      /\ "aide" \in verdict'.fired <=>
           av_aide_change_outside_pkgmgr(Kept, n) /\ ~is_suppressed("aide", n)
  <2>1. verdict' = [ev |-> n, upto |-> Len(dispatched),
                    fired |-> {rule \in {rule \in {"brute", "aide"} :
                                           IF rule = "brute" THEN ssh_brute_force(Kept, n)
                                           ELSE av_aide_change_outside_pkgmgr(Kept, n)} :
                                 ~is_suppressed(rule, n)}]
    BY Zenon DEF evaluate, Kept
  <2>2. "aide" # "brute"
    OBVIOUS
  <2> HIDE DEF n
  <2> QED BY <2>1, <2>2, Zenon
<1>5. Live' = LiveNow /\ LiveNow' = LiveNow
  BY <1>1, <1>4, Zenon DEF Live, LiveNow
<1>6. ssh_brute_force(Kept, n) <=>
        /\ dispatched[n].kind.action = "ssh_login_failed"
        /\ Cardinality(recent(Kept)) >= BruteThreshold
  <2>1. {m \in recent_events(Kept, n, BruteWindow) : Failed(m, key)} = recent(Kept)
    BY Zenon DEF recent_events
  <2> QED BY <2>1, Zenon DEF ssh_brute_force
<1>7. \A S, T : S \subseteq T /\ T \subseteq LiveNow /\ Cardinality(recent(S)) >= BruteThreshold
                  => Cardinality(recent(T)) >= BruteThreshold
  <2> SUFFICES ASSUME NEW S, NEW T, S \subseteq T, T \subseteq LiveNow,
                      Cardinality(recent(S)) >= BruteThreshold
      PROVE  Cardinality(recent(T)) >= BruteThreshold
    BY Zenon
  <2>1. recent(T) \in SUBSET LiveNow /\ recent(S) \in SUBSET recent(T)
    BY Zenon
  <2> HIDE DEF recent
  <2>2. IsFiniteSet(recent(T)) /\ IsFiniteSet(recent(S))
        /\ Cardinality(recent(S)) <= Cardinality(recent(T))
    BY <1>3, <2>1, FS_Subset, Zenon
  <2>3. Cardinality(recent(S)) \in Nat /\ Cardinality(recent(T)) \in Nat
    BY <2>2, FS_CardinalityType, Zenon
  <2> QED BY <2>2, <2>3, RuleAssumption
<1>8. CountsReal'
  <2>1. CountsReal' <=> ("brute" \in verdict'.fired =>
                            Cardinality(recent(LiveNow)) >= BruteThreshold)
    BY <1>1, <1>4, <1>5, Zenon DEF CountsReal, Failed
  <2> HIDE DEF recent
  <2> QED BY <1>3, <1>4, <1>6, <1>7, <2>1, Zenon
<1>9. Owed' \subseteq LiveNow /\ (~crossed => Owed' \subseteq Kept)
  <2>1. Owed' = {m \in LiveNow : /\ Cardinality({k \in LiveNow : k > m}) < HistoryMax
                                 /\ \A k \in LiveNow :
                                      dispatched[m].ts >= dispatched[k].ts - HistoryWindow}
    BY <1>1, <1>5, Zenon DEF Owed
  <2>2. ASSUME NEW m \in LiveNow PROVE Cardinality({k \in LiveNow : k > m}) \in Nat
    <3>1. {k \in LiveNow : k > m} \in SUBSET LiveNow
      BY Zenon
    <3> QED BY <1>3, <3>1, FS_Subset, FS_CardinalityType, Zenon
  <2>3. \A m \in LiveNow : Cardinality({k \in LiveNow : k > m}) < HistoryMax => ~Crowded(m)
    <3> SUFFICES ASSUME NEW m \in LiveNow, NEW c \in Nat,
                        c = Cardinality({k \in LiveNow : k > m})
        PROVE  c < HistoryMax => ~(c >= HistoryMax)
      BY <2>2, Zenon DEF Crowded
    <3> QED BY RuleAssumption
  <2>4. \A m, k \in LiveNow : dispatched[m].ts >= dispatched[k].ts - HistoryWindow =>
                                ~(dispatched[m].ts < dispatched[k].ts - HistoryWindow)
    <3>1. \A m \in LiveNow : dispatched[m].ts \in Int
      BY <1>3, Zenon
    <3> QED BY <3>1, RuleAssumption
  <2> QED BY <2>1, <2>3, <2>4, Zenon DEF RuleInv, ForgetInv, Outdated
<1>10. NothingForgotten'
  <2> SUFFICES ASSUME ~crossed
      PROVE  /\ /\ dispatched[n].kind.action = "ssh_login_failed" /\ ~is_suppressed("brute", n)
                /\ Cardinality(recent(Owed')) >= BruteThreshold
                => "brute" \in verdict'.fired
             /\ (\E m \in Owed' : dispatched[m].kind.action = "package_upgraded"
                                    /\ dispatched[m].ts >= dispatched[n].ts - PkgmgrWindow)
                => "aide" \notin verdict'.fired
    BY <1>1, <1>4, Zenon DEF NothingForgotten, Failed, is_suppressed, entry_matches
  <2>1. Owed' \subseteq Kept
    BY <1>9, Zenon
  <2>2. (\E m \in Owed' : dispatched[m].kind.action = "package_upgraded"
                            /\ dispatched[m].ts >= dispatched[n].ts - PkgmgrWindow)
          => "aide" \notin verdict'.fired
    BY <1>4, <2>1, Zenon DEF av_aide_change_outside_pkgmgr, recent_events
  <2> HIDE DEF recent
  <2> QED BY <1>3, <1>4, <1>6, <1>7, <2>1, <2>2, Zenon
<1>11. UnexplainedTold'
  <2> SUFFICES ASSUME dispatched[n].kind.action = "scan_finding", ~is_suppressed("aide", n),
                      "aide" \notin verdict'.fired
      PROVE  \E m \in LiveNow : dispatched[m].kind.action = "package_upgraded"
                                  /\ dispatched[m].ts >= dispatched[n].ts - PkgmgrWindow
    BY <1>1, <1>4, <1>5, Zenon DEF UnexplainedTold, is_suppressed, entry_matches
  <2> QED BY <1>3, <1>4, Zenon DEF av_aide_change_outside_pkgmgr, recent_events
<1>12. VerdictInv'
  BY <1>1, <1>3, <1>4, <1>5, <1>8, <1>10, <1>11, Zenon DEF VerdictInv
<1> QED BY <1>1, <1>2, <1>12, ReaderMoves, Zenon

-----------------------------------------------------------------------------
(* The rules' history: the theorems.                                          *)

\* One event is in the deque at the start.
LEMMA RuleStart == RuleInit => RuleInv
<1> SUFFICES ASSUME RuleInit PROVE RuleInv
  BY Zenon
<1>1. PICK kind \in FirstKinds : dispatched = <<Event(kind, 0)>>
  BY Zenon DEF RuleInit
<1>2. /\ history = <<1>> /\ verdict = NoVerdict /\ crossed = FALSE
      /\ reader = [r \in Readers |-> IdleReader]
  BY Zenon DEF RuleInit, RuleRest
<1>3. EventInv /\ Len(dispatched) = 1 /\ dispatched[1].kind = kind
  <2>1. Event(kind, 0) \in [kind : Kinds \cup FirstKinds, ts : Int] /\ Event(kind, 0).kind = kind
    BY DEF Event
  <2>2. /\ dispatched \in Seq([kind : Kinds \cup FirstKinds, ts : Int])
        /\ Len(dispatched) = 1 /\ dispatched[1] = Event(kind, 0)
    BY <1>1, <2>1
  <2> QED BY <1>2, <2>1, <2>2, Zenon DEF EventInv
<1>4. LiveNow = {1}
  <2>1. 1..1 = {1}
    OBVIOUS
  <2> QED BY <1>3, <2>1, RuleAssumption, Zenon DEF LiveNow
<1>5. DequeInv
  <2>1. /\ history \in Seq(Nat) /\ Len(history) = 1 /\ history[1] = 1
        /\ \A i \in 1..1 : i = 1 /\ \A j \in 1..1 : ~(i < j)
    BY <1>2
  <2>2. 1 <= HistoryMax
    BY RuleAssumption
  <2> QED BY <1>4, <2>1, <2>2, Zenon DEF DequeInv
<1>6. ReaderInv
  BY <1>2 DEF ReaderInv, IdleReader, ReaderState
<1>7. ForgetInv
  <2>1. 1 \in DOMAIN history /\ history[1] = 1
    BY <1>2
  <2> QED BY <1>4, <2>1, Zenon DEF ForgetInv, Kept
<1>8. VerdictInv
  BY <1>2, Zenon DEF VerdictInv, NoVerdict, CountsReal, NothingForgotten, UnexplainedTold
<1> QED BY <1>3, <1>5, <1>6, <1>7, <1>8, Zenon DEF RuleInv

\* Every step of every reader thread keeps the invariant.
LEMMA RuleStep == RuleInv /\ [RuleNext]_rulevars => RuleInv'
<1> SUFFICES ASSUME RuleInv, [RuleNext]_rulevars PROVE RuleInv'
  BY Zenon
<1>1. ASSUME UNCHANGED rulevars PROVE RuleInv'
  <2>1. ReaderInv'
    BY <1>1, Zenon DEF rulevars, RuleInv, ReaderInv, LiveNow, Cutoff
  <2>2. VerdictInv'
    BY <1>1, VerdictStays, Zenon DEF rulevars, RuleInv
  <2> QED BY <1>1, <2>1, <2>2, ReaderMoves, Zenon DEF rulevars
<1> QED
  BY <1>1, ProcessKeeps, TrimKeeps, TrimPopKeeps, EvaluateKeeps, Zenon DEF RuleNext

\* The invariant is what the rules are to be judged by.
LEMMA RuleJudges == RuleInv => RulesJudgeTruly
<1> SUFFICES ASSUME RuleInv PROVE RulesJudgeTruly
  BY Zenon
<1>1. Len(dispatched) \in Nat /\ LiveNow \subseteq 1..Len(dispatched)
  BY LiveType, Zenon DEF RuleInv
<1>2. DOMAIN history = 1..Len(history) /\ 0 \in 0..Len(dispatched)
      /\ \A m \in LiveNow : m \in 0..Len(dispatched)
  BY <1>1 DEF RuleInv, DequeInv
<1>3. RuleTypeOK
  BY <1>1, <1>2, Zenon DEF RuleInv, EventInv, DequeInv, ReaderInv, VerdictInv, RuleTypeOK
<1> QED BY <1>3, Zenon DEF RuleInv, VerdictInv, RulesJudgeTruly

\* The rules that count and correlate judge by what happened, however many
\* reader threads append to the deque and trim it without a lock.
THEOREM RulesTrue == RuleInit /\ [][RuleNext]_rulevars => []RulesJudgeTruly
BY RuleStart, RuleStep, RuleJudges, PTL

-----------------------------------------------------------------------------
(* Scheduled hunts: the inductive invariant.                                  *)

\* The row of q is on the snapshot of this tick and not yet stamped.
ahead(q) == q \in due \/ (q = cur /\ pc \in {"select", "record", "failed"})

\* A row that is scheduled is saved and has a watermark; a name that is not
\* saved has left nothing behind.
SavedInv ==
  \A q \in Queries :
    /\ stored[q] => saves[q] >= 1
    /\ sched[q] => stored[q] /\ mark[q] # None
    /\ ~stored[q] => mark[q] = None /\ status[q] = "none"

\* A run has a query that is no longer due, and something to scan.
ThreadInv ==
  /\ pc \notin {"idle", "next"} => cur \in Queries
  /\ pc = "idle" => cur = None
  /\ cur \notin due
  /\ pc \in {"select", "record", "emit"} => snapMark[cur] < upper

\* Only the run of a query moves its watermark and its status: while the row is
\* the one on the snapshot, both are as they were read.
SnapInv ==
  \A q \in Queries : ahead(q) =>
    /\ 1 <= snapGen[q] /\ snapGen[q] <= saves[q]
    /\ stored[q] /\ snapGen[q] = saves[q] => mark[q] = snapMark[q] /\ status[q] = snapStatus[q]

\* The stamp comes before the emission.
EmitInv ==
  pc = "emit" =>
    /\ snapGen[cur] <= saves[cur]
    /\ stored[cur] /\ snapGen[cur] = saves[cur] => mark[cur] = upper

\* What was reported of a saved query is behind its watermark, and behind the
\* window of the run under way.
ReportInv ==
  \A a \in reported :
    /\ a[2] <= saves[a[1]]
    /\ stored[a[1]] /\ a[2] = saves[a[1]] => mark[a[1]] # None /\ a[4] <= mark[a[1]]
    /\ ahead(a[1]) \/ (pc = "emit" /\ cur = a[1]) =>
         a[2] <= snapGen[a[1]] /\ (a[2] = snapGen[a[1]] => a[4] <= snapMark[a[1]])

\* Of a name that was saved once no row is skipped and no failure is concealed.
FirstInv ==
  \A q \in Queries : stored[q] /\ saves[q] <= 1 =>
    /\ mark[q] # None => \A r \in 1..MaxRows : base[q] < r /\ r <= mark[q] => r \in scanned[q]
    /\ status[q] = "failed" => told[q] \/ silenced[q] \/ (pc = "announce" /\ cur = q)

ScheduleInv ==
  /\ TypeOK /\ SavedInv /\ ThreadInv /\ SnapInv /\ EmitInv /\ ReportInv /\ ReportedOnce /\ FirstInv


\* A set of numbers that is bounded and has one has a greatest one.
LEMMA Greatest ==
  ASSUME NEW S, S \subseteq Nat, NEW b \in Nat, \A x \in S : x <= b, NEW z \in S
  PROVE  \E m \in S : \A x \in S : x <= m
<1> DEFINE B == {m \in Nat : \A x \in S : x <= m}
<1>1. B \subseteq Nat /\ b \in B
  BY Zenon
<1>2. PICK m \in B : \A y \in B : ~(<<y, m>> \in OpToRel(<, Nat))
  <2> HIDE DEF OpToRel, B
  <2> QED BY <1>1, NatLessThanWellFounded, WFMin, Zenon
<1>3. m \in Nat /\ (\A x \in S : x <= m) /\ \A y \in B : ~(y < m)
  BY <1>1, <1>2, Zenon DEF OpToRel
<1>4. m \in S
  <2> SUFFICES ASSUME m \notin S PROVE FALSE
    BY Zenon
  <2>1. m - 1 \in Nat /\ \A x \in S : x <= m - 1
    BY <1>3
  <2> QED BY <1>3, <2>1
<1> QED BY <1>3, <1>4, Zenon

\* MAX(ingest_seq) is the sequence number of a row, or 0.
LEMMA MaxSeqType == TypeOK => maxSeq \in 0..top
<1> SUFFICES ASSUME TypeOK PROVE maxSeq \in 0..top
  BY Zenon
<1>1. top \in Nat /\ rows \cup {0} \subseteq 0..top
  BY HuntScheduleAssumption DEF TypeOK
<1>2. rows \cup {0} \subseteq Nat /\ 0 \in rows \cup {0} /\ \A x \in rows \cup {0} : x <= top
  BY <1>1
<1>3. \E m \in rows \cup {0} : \A x \in rows \cup {0} : x <= m
  BY <1>1, <1>2, Greatest, Zenon
<1>4. \E m \in rows \cup {0} : \A x \in rows : x <= m
  BY <1>3, Zenon
<1> HIDE <1>3
<1>5. maxSeq \in rows \cup {0}
  BY <1>4, Zenon DEF maxSeq
<1> QED BY <1>1, <1>5, Zenon

\* The fields of a report.
LEMMA ReportType ==
  ASSUME TypeOK, NEW a \in reported
  PROVE  a[1] \in Queries /\ a[2] \in Nat /\ a[3] \in Nat /\ a[4] \in Nat
<1>1. a \in Queries \X (0..MaxSaves) \X (0..top) \X (0..top)
  BY Zenon DEF TypeOK
<1> QED BY <1>1

-----------------------------------------------------------------------------
(* Scheduled hunts: steps that leave the saved rows alone.                    *)

\* The thread goes on, or gives up, without a stamp or an emission.
LEMMA Unstamped ==
  ASSUME TypeOK, SavedInv, SnapInv, EmitInv, ReportInv, ReportedOnce,
         UNCHANGED <<keepVars, snapVars, reported>>,
         \A q \in Queries : ahead(q)' => ahead(q),
         pc' = "emit" => pc = "emit" /\ cur' = cur /\ upper' = upper
  PROVE  SavedInv' /\ SnapInv' /\ EmitInv' /\ ReportInv' /\ ReportedOnce'
<1>1. SavedInv' /\ ReportedOnce'
  BY Zenon DEF SavedInv, ReportedOnce, keepVars
<1>2. SnapInv'
  BY Zenon DEF SnapInv, keepVars, snapVars
<1>3. EmitInv'
  BY Zenon DEF EmitInv, keepVars, snapVars
<1>4. \A a \in reported : a[1] \in Queries
  BY ReportType, Zenon
<1>5. ReportInv'
  <2> SUFFICES ASSUME NEW a \in reported
      PROVE  /\ a[2] <= saves[a[1]]
             /\ stored[a[1]] /\ a[2] = saves[a[1]] => mark[a[1]] # None /\ a[4] <= mark[a[1]]
             /\ ahead(a[1])' \/ (pc' = "emit" /\ cur' = a[1]) =>
                  a[2] <= snapGen[a[1]] /\ (a[2] = snapGen[a[1]] => a[4] <= snapMark[a[1]])
    BY Zenon DEF ReportInv, keepVars, snapVars, ahead
  <2> QED BY <1>4, Zenon DEF ReportInv
<1> QED BY <1>1, <1>2, <1>3, <1>5, Zenon

\* What a first saved query owes depends on its row and its history.
LEMMA FirstFrame ==
  ASSUME FirstInv, UNCHANGED <<keepVars, base, scanned>>,
         \A q \in Queries : told[q] => told'[q],
         \A q \in Queries : silenced[q] => silenced'[q],
         pc = "announce" => \/ pc' = "announce" /\ cur' = cur
                            \/ told'[cur] \/ silenced'[cur]
  PROVE  FirstInv'
BY Zenon DEF FirstInv, keepVars

\* Rows arrive and go, handlers read, stop() is called.
LEMMA QuietKeeps ==
  ASSUME ScheduleInv, TypeOK', UNCHANGED <<keepVars, runVars, snapVars, pastVars>>
  PROVE  ScheduleInv'
<1>1. ThreadInv'
  BY Zenon DEF ScheduleInv, ThreadInv, runVars, snapVars
<1>2. SavedInv' /\ SnapInv' /\ EmitInv' /\ ReportInv' /\ ReportedOnce'
  BY Unstamped, Zenon DEF ScheduleInv, ahead, runVars, pastVars
<1>3. FirstInv'
  BY FirstFrame, Zenon DEF ScheduleInv, runVars, pastVars
<1> QED BY <1>1, <1>2, <1>3, Zenon DEF ScheduleInv

\* The drain thread inserts a row.
LEMMA IngestKeeps == ASSUME ScheduleInv, Ingest PROVE ScheduleInv'
<1>1. top \in Nat /\ top + 1 \in 0..MaxRows /\ 0..top \subseteq 0..(top + 1)
      /\ 1..top \cup {top + 1} \subseteq 1..(top + 1)
  BY HuntScheduleAssumption DEF Ingest, ScheduleInv, TypeOK
<1>2. /\ UNCHANGED <<saves, stored, sched, mark, status, calls, pc, due, cur, upper, hit, snapGen,
                     snapMark, snapStatus, streak, stop, failures, crashes, base, scanned, told,
                     silenced, reported>>
      /\ top' = top + 1 /\ rows' = rows \cup {top + 1}
  BY Zenon DEF Ingest, keepVars, runVars, snapVars, pastVars
<1>3. TypeOK'
  <2>1. mark \in [Queries -> {None} \cup 0..(top + 1)]
    BY <1>1, Zenon DEF ScheduleInv, TypeOK
  <2>2. calls \in [Callers -> {None} \cup (Queries \X (0..(top + 1)))]
    BY <1>1 DEF ScheduleInv, TypeOK
  <2>3. /\ snapMark \in [Queries -> 0..(top + 1)] /\ base \in [Queries -> 0..(top + 1)]
        /\ upper \in 0..(top + 1) /\ rows \cup {top + 1} \subseteq 1..(top + 1)
    BY <1>1, Zenon DEF ScheduleInv, TypeOK
  <2>4. reported \subseteq Queries \X (0..MaxSaves) \X (0..(top + 1)) \X (0..(top + 1))
    BY <1>1 DEF ScheduleInv, TypeOK
  <2> QED BY <1>1, <1>2, <2>1, <2>2, <2>3, <2>4, Zenon DEF ScheduleInv, TypeOK
<1> QED BY <1>2, <1>3, QuietKeeps, Zenon DEF keepVars, runVars, snapVars, pastVars

\* Retention deletes a row.
LEMMA PrunedKeeps == ASSUME ScheduleInv, NEW r \in rows, Pruned(r) PROVE ScheduleInv'
<1>1. TypeOK'
  BY Zenon DEF Pruned, ScheduleInv, TypeOK, keepVars, runVars, snapVars, pastVars
<1> QED BY <1>1, QuietKeeps, Zenon DEF Pruned

\* handle_schedule_hunt_query reads the watermark to start at.
LEMMA ScheduleReadKeeps ==
  ASSUME ScheduleInv, NEW c \in Callers, NEW q \in Queries, ScheduleRead(c, q)
  PROVE  ScheduleInv'
<1>1. <<q, maxSeq>> \in Queries \X (0..top)
  BY MaxSeqType, Zenon DEF ScheduleInv
<1>2. TypeOK'
  BY <1>1, Zenon DEF ScheduleRead, ScheduleInv, TypeOK, rowVars, keepVars, runVars, snapVars,
     pastVars
<1> QED BY <1>2, QuietKeeps, Zenon DEF ScheduleRead

\* stop() sets its flag.
LEMMA StopSetKeeps == ASSUME ScheduleInv, StopSet PROVE ScheduleInv'
<1>1. TypeOK'
  BY Zenon DEF StopSet, ScheduleInv, TypeOK, rowVars, keepVars, runVars, snapVars, pastVars
<1> QED BY <1>1, QuietKeeps, Zenon DEF StopSet

\* The thread goes on to another place, with nothing written on the way.
LEMMA GoesOn ==
  ASSUME ScheduleInv, TypeOK', ThreadInv', UNCHANGED <<keepVars, snapVars, pastVars>>,
         \A q \in Queries : ahead(q)' => ahead(q), pc # "announce", pc' # "emit"
  PROVE  ScheduleInv'
<1>1. SavedInv' /\ SnapInv' /\ EmitInv' /\ ReportInv' /\ ReportedOnce'
  BY Unstamped, Zenon DEF ScheduleInv, pastVars
<1>2. FirstInv'
  BY FirstFrame, Zenon DEF ScheduleInv, pastVars
<1> QED BY <1>1, <1>2, Zenon DEF ScheduleInv

\* tick is through, or told to stop.
LEMMA TickDoneKeeps == ASSUME ScheduleInv, TickDone PROVE ScheduleInv'
<1>1. TypeOK'
  BY Zenon DEF TickDone, ScheduleInv, TypeOK, rowVars, keepVars, snapVars, pastVars
<1>2. ThreadInv'
  BY Zenon DEF TickDone, ThreadInv
<1> QED BY <1>1, <1>2, GoesOn, Zenon DEF TickDone, ahead

\* A query in backoff is left out of this tick.
LEMMA RunHeldKeeps == ASSUME ScheduleInv, NEW q \in Queries, RunHeld(q) PROVE ScheduleInv'
<1>1. TypeOK'
  BY Zenon DEF RunHeld, ScheduleInv, TypeOK, rowVars, keepVars, snapVars, pastVars
<1>2. ThreadInv'
  BY Zenon DEF RunHeld, ScheduleInv, ThreadInv, snapVars
<1> QED BY <1>1, <1>2, GoesOn, Zenon DEF RunHeld, ahead

\* _run_one takes up a query that is due.
LEMMA RunStartKeeps == ASSUME ScheduleInv, NEW q \in Queries, RunStart(q) PROVE ScheduleInv'
<1>1. maxSeq \in 0..top
  BY MaxSeqType, Zenon DEF ScheduleInv
<1>2. TypeOK'
  BY <1>1, Zenon DEF RunStart, ScheduleInv, TypeOK, rowVars, keepVars, snapVars, pastVars
<1>3. maxSeq \in Nat /\ snapMark[q] \in Nat
  BY <1>1, HuntScheduleAssumption DEF ScheduleInv, TypeOK
<1>4. maxSeq > snapMark[q] => snapMark[q] < maxSeq
  BY <1>3
<1>5. ThreadInv'
  BY <1>4, Zenon DEF RunStart, ThreadInv, snapVars
<1> QED BY <1>2, <1>5, GoesOn, Zenon DEF RunStart, ahead

\* run_hunt_query returns.
LEMMA RunSelectKeeps ==
  ASSUME ScheduleInv, NEW matches \in BOOLEAN, RunSelect(matches)
  PROVE  ScheduleInv'
<1>1. TypeOK'
  BY Zenon DEF RunSelect, ScheduleInv, TypeOK, rowVars, keepVars, snapVars, pastVars
<1>2. ThreadInv'
  BY Zenon DEF RunSelect, ScheduleInv, ThreadInv, snapVars
<1> QED BY <1>1, <1>2, GoesOn, Zenon DEF RunSelect, ahead

\* The run raises before its stamp.
LEMMA RunFailsKeeps == ASSUME ScheduleInv, RunFails PROVE ScheduleInv'
<1>1. failures + 1 \in Nat
  BY DEF ScheduleInv, TypeOK
<1>2. TypeOK'
  BY <1>1, Zenon DEF RunFails, ScheduleInv, TypeOK, rowVars, keepVars, snapVars, pastVars
<1>3. ThreadInv'
  BY Zenon DEF RunFails, ScheduleInv, ThreadInv, snapVars
<1> QED BY <1>2, <1>3, GoesOn, Zenon DEF RunFails, ahead

\* The run ends without a stamp: stopped, or its row is gone.
LEMMA RunDroppedKeeps ==
  ASSUME ScheduleInv, RunStopped \/ RunDiscarded \/ FailDiscarded
  PROVE  ScheduleInv'
<1>1. /\ pc \in {"record", "failed"} /\ pc' = "next"
      /\ UNCHANGED <<rowVars, keepVars, calls, due, cur, upper, hit, snapVars,
                     streak, stop, failures, crashes, pastVars>>
  BY Zenon DEF RunStopped, RunDiscarded, FailDiscarded
<1>2. TypeOK'
  BY <1>1, Zenon DEF ScheduleInv, TypeOK, rowVars, keepVars, snapVars, pastVars
<1>3. ThreadInv'
  BY <1>1, Zenon DEF ScheduleInv, ThreadInv, snapVars
<1> QED BY <1>1, <1>2, <1>3, GoesOn, Zenon DEF ahead

\* The stamp of a failure raises.
LEMMA FailRaisesKeeps == ASSUME ScheduleInv, FailRaises PROVE ScheduleInv'
<1>1. TypeOK'
  BY Zenon DEF FailRaises, ScheduleInv, TypeOK, rowVars, keepVars, snapVars, pastVars
<1>2. ThreadInv'
  BY Zenon DEF FailRaises, ThreadInv
<1> QED BY <1>1, <1>2, GoesOn, Zenon DEF FailRaises, ahead

\* hunt_run_failed is emitted.
LEMMA FailEmitKeeps == ASSUME ScheduleInv, FailEmit PROVE ScheduleInv'
<1>1. /\ pc = "announce" /\ pc' = "next" /\ told' = [told EXCEPT ![cur] = TRUE]
      /\ UNCHANGED <<keepVars, due, cur, upper, snapVars, base, scanned, silenced, reported>>
  BY Zenon DEF FailEmit
<1>2. TypeOK'
  BY Zenon DEF FailEmit, ScheduleInv, TypeOK, rowVars, keepVars, snapVars
<1>3. ThreadInv'
  BY <1>1, Zenon DEF ScheduleInv, ThreadInv, snapVars
<1>4. SavedInv' /\ SnapInv' /\ EmitInv' /\ ReportInv' /\ ReportedOnce'
  BY <1>1, Unstamped, Zenon DEF ScheduleInv, ahead
<1>5. cur \in Queries /\ told \in [Queries -> BOOLEAN]
  BY <1>1, Zenon DEF ScheduleInv, ThreadInv, TypeOK
<1>6. told'[cur] /\ \A q \in Queries : told[q] => told'[q]
  BY <1>1, <1>5, Zenon
<1>7. FirstInv'
  BY <1>1, <1>6, FirstFrame, Zenon DEF ScheduleInv
<1> QED BY <1>2, <1>3, <1>4, <1>7, Zenon DEF ScheduleInv

\* The daemon dies or ends, and starts again.
LEMMA RestartKeeps == ASSUME ScheduleInv, Restart PROVE ScheduleInv'
<1>1. /\ pc' = "idle" /\ due' = {} /\ cur' = None
      /\ UNCHANGED <<keepVars, snapVars, base, scanned, told, reported>>
  BY Zenon DEF Restart
<1>2. TypeOK'
  <2>1. crashes + 1 \in Nat /\ 0 \in 0..top /\ 0 \in Nat
    BY HuntScheduleAssumption DEF ScheduleInv, TypeOK
  <2> QED BY <2>1, Zenon DEF Restart, ScheduleInv, TypeOK, rowVars, keepVars, snapVars
<1>3. ThreadInv'
  BY <1>1, Zenon DEF ThreadInv
<1>4. SavedInv' /\ SnapInv' /\ EmitInv' /\ ReportInv' /\ ReportedOnce'
  BY <1>1, Unstamped, Zenon DEF ScheduleInv, ahead
<1>5. pc = "announce" => cur \in Queries
  BY Zenon DEF ScheduleInv, ThreadInv
<1>6. /\ \A q \in Queries : silenced[q] => silenced'[q]
      /\ pc = "announce" => silenced'[cur]
  BY <1>5, Zenon DEF Restart
<1>7. FirstInv'
  BY <1>1, <1>6, FirstFrame, Zenon DEF ScheduleInv
<1> QED BY <1>2, <1>3, <1>4, <1>7, Zenon DEF ScheduleInv

-----------------------------------------------------------------------------
(* Scheduled hunts: steps that write a saved row.                             *)

\* save_query of a new name.
LEMMA SaveQueryKeeps == ASSUME ScheduleInv, NEW q \in Queries, SaveQuery(q) PROVE ScheduleInv'
<1>1. /\ ~stored[q] /\ saves[q] < MaxSaves
      /\ UNCHANGED <<sched, mark, status, runVars, snapVars, pastVars>>
  BY Zenon DEF SaveQuery
<1>2. /\ saves \in [Queries -> 0..MaxSaves] /\ stored \in [Queries -> BOOLEAN]
      /\ snapGen \in [Queries -> 0..MaxSaves]
  BY Zenon DEF ScheduleInv, TypeOK
<1>3. /\ \A p \in Queries : stored'[p] = IF p = q THEN TRUE ELSE stored[p]
      /\ \A p \in Queries : saves'[p] = IF p = q THEN saves[q] + 1 ELSE saves[p]
  BY <1>2, Zenon DEF SaveQuery
<1>4. /\ saves[q] + 1 \in 0..MaxSaves /\ saves[q] + 1 >= 1
      /\ \A n \in Nat : n <= saves[q] => n <= saves[q] + 1 /\ n # saves[q] + 1
  BY <1>1, <1>2, HuntScheduleAssumption
<1>5. \A p \in Queries : snapGen[p] \in Nat
  BY <1>2, HuntScheduleAssumption
<1>6. TypeOK'
  BY <1>4, Zenon DEF SaveQuery, ScheduleInv, TypeOK, rowVars, runVars, snapVars, pastVars
<1>7. mark[q] = None /\ status[q] = "none" /\ "none" # "failed" /\ ~sched[q]
  BY <1>1, Zenon DEF ScheduleInv, SavedInv
<1>8. SavedInv'
  BY <1>1, <1>3, <1>4, <1>7, Zenon DEF ScheduleInv, SavedInv
<1>9. ThreadInv'
  BY <1>1, Zenon DEF ScheduleInv, ThreadInv, runVars, snapVars
<1>10. SnapInv'
  <2> SUFFICES ASSUME NEW p \in Queries, ahead(p)
      PROVE  /\ 1 <= snapGen[p] /\ snapGen[p] <= saves'[p]
             /\ stored'[p] /\ snapGen[p] = saves'[p] =>
                  mark[p] = snapMark[p] /\ status[p] = snapStatus[p]
    BY <1>1, Zenon DEF SnapInv, ahead, runVars, snapVars
  <2> QED BY <1>3, <1>4, <1>5, Zenon DEF ScheduleInv, SnapInv
<1>11. EmitInv'
  <2> SUFFICES ASSUME pc = "emit"
      PROVE  /\ snapGen[cur] <= saves'[cur]
             /\ stored'[cur] /\ snapGen[cur] = saves'[cur] => mark[cur] = upper
    BY <1>1, Zenon DEF EmitInv, runVars, snapVars
  <2>1. cur \in Queries
    BY Zenon DEF ScheduleInv, ThreadInv
  <2> QED BY <1>3, <1>4, <1>5, <2>1, Zenon DEF ScheduleInv, EmitInv
<1>12. ReportInv'
  <2> SUFFICES ASSUME NEW a \in reported
      PROVE  /\ a[2] <= saves'[a[1]]
             /\ stored'[a[1]] /\ a[2] = saves'[a[1]] => mark[a[1]] # None /\ a[4] <= mark[a[1]]
             /\ ahead(a[1]) \/ (pc = "emit" /\ cur = a[1]) =>
                  a[2] <= snapGen[a[1]] /\ (a[2] = snapGen[a[1]] => a[4] <= snapMark[a[1]])
    BY <1>1, Zenon DEF ReportInv, ahead, runVars, snapVars, pastVars
  <2>1. a[1] \in Queries /\ a[2] \in Nat
    BY ReportType, Zenon DEF ScheduleInv
  <2> QED BY <1>3, <1>4, <2>1, Zenon DEF ScheduleInv, ReportInv
<1>13. ReportedOnce'
  BY <1>1, Zenon DEF ScheduleInv, ReportedOnce, pastVars
<1>14. FirstInv'
  <2> SUFFICES ASSUME NEW p \in Queries, stored'[p], saves'[p] <= 1
      PROVE  /\ mark[p] # None =>
                  \A r \in 1..MaxRows : base[p] < r /\ r <= mark[p] => r \in scanned[p]
             /\ status[p] = "failed" => told[p] \/ silenced[p] \/ (pc = "announce" /\ cur = p)
    BY <1>1, Zenon DEF FirstInv, runVars, pastVars
  <2> QED BY <1>3, <1>7, Zenon DEF ScheduleInv, FirstInv
<1> QED BY <1>6, <1>8, <1>9, <1>10, <1>11, <1>12, <1>13, <1>14, Zenon DEF ScheduleInv

\* delete_query takes the row with all that was known of it.
LEMMA DeleteQueryKeeps == ASSUME ScheduleInv, NEW q \in Queries, DeleteQuery(q) PROVE ScheduleInv'
<1>1. UNCHANGED <<saves, runVars, snapVars, reported>>
  BY Zenon DEF DeleteQuery
<1>2. 0 \in 0..top
  BY HuntScheduleAssumption DEF ScheduleInv, TypeOK
<1>3. TypeOK'
  BY <1>2, Zenon DEF DeleteQuery, ScheduleInv, TypeOK, rowVars, runVars, snapVars
<1>4. /\ ~stored'[q] /\ ~sched'[q] /\ mark'[q] = None /\ status'[q] = "none"
      /\ \A p \in Queries \ {q} :
           /\ stored'[p] = stored[p] /\ sched'[p] = sched[p] /\ mark'[p] = mark[p]
           /\ status'[p] = status[p] /\ base'[p] = base[p] /\ scanned'[p] = scanned[p]
           /\ told'[p] = told[p] /\ silenced'[p] = silenced[p]
  BY Zenon DEF DeleteQuery, ScheduleInv, TypeOK
<1>5. SavedInv'
  BY <1>1, <1>4, Zenon DEF ScheduleInv, SavedInv
<1>6. ThreadInv'
  BY <1>1, Zenon DEF ScheduleInv, ThreadInv, runVars, snapVars
<1>7. SnapInv'
  <2> SUFFICES ASSUME NEW p \in Queries, ahead(p)
      PROVE  /\ 1 <= snapGen[p] /\ snapGen[p] <= saves[p]
             /\ stored'[p] /\ snapGen[p] = saves[p] =>
                  mark'[p] = snapMark[p] /\ status'[p] = snapStatus[p]
    BY <1>1, Zenon DEF SnapInv, ahead, runVars, snapVars
  <2> QED BY <1>4, Zenon DEF ScheduleInv, SnapInv
<1>8. EmitInv'
  <2> SUFFICES ASSUME pc = "emit"
      PROVE  /\ snapGen[cur] <= saves[cur]
             /\ stored'[cur] /\ snapGen[cur] = saves[cur] => mark'[cur] = upper
    BY <1>1, Zenon DEF EmitInv, runVars, snapVars
  <2>1. cur \in Queries
    BY Zenon DEF ScheduleInv, ThreadInv
  <2> QED BY <1>4, <2>1, Zenon DEF ScheduleInv, EmitInv
<1>9. ReportInv'
  <2> SUFFICES ASSUME NEW a \in reported
      PROVE  /\ a[2] <= saves[a[1]]
             /\ stored'[a[1]] /\ a[2] = saves[a[1]] => mark'[a[1]] # None /\ a[4] <= mark'[a[1]]
             /\ ahead(a[1]) \/ (pc = "emit" /\ cur = a[1]) =>
                  a[2] <= snapGen[a[1]] /\ (a[2] = snapGen[a[1]] => a[4] <= snapMark[a[1]])
    BY <1>1, Zenon DEF ReportInv, ahead, runVars, snapVars
  <2>1. a[1] \in Queries
    BY ReportType, Zenon DEF ScheduleInv
  <2> QED BY <1>4, <2>1, Zenon DEF ScheduleInv, ReportInv
<1>10. ReportedOnce'
  BY <1>1, Zenon DEF ScheduleInv, ReportedOnce
<1>11. FirstInv'
  <2> SUFFICES ASSUME NEW p \in Queries, stored'[p], saves[p] <= 1
      PROVE  /\ mark'[p] # None =>
                  \A r \in 1..MaxRows : base'[p] < r /\ r <= mark'[p] => r \in scanned'[p]
             /\ status'[p] = "failed" => told'[p] \/ silenced'[p] \/ (pc = "announce" /\ cur = p)
    BY <1>1, Zenon DEF FirstInv, runVars
  <2> QED BY <1>4, Zenon DEF ScheduleInv, FirstInv
<1> QED BY <1>3, <1>5, <1>6, <1>7, <1>8, <1>9, <1>10, <1>11, Zenon DEF ScheduleInv

\* A schedule switched on keeps the watermark that is there, and otherwise
\* starts at the one that was read.
LEMMA ScheduleWriteKeeps ==
  ASSUME ScheduleInv, NEW c \in Callers, ScheduleWrite(c)
  PROVE  ScheduleInv'
<1>1. PICK q, seq : calls[c] = <<q, seq>> /\ q \in Queries /\ seq \in 0..top
  <2>1. calls[c] \in Queries \X (0..top)
    BY Zenon DEF ScheduleWrite, ScheduleInv, TypeOK
  <2> QED BY <2>1
<1>2. calls[c][1] = q /\ calls[c][2] = seq
  BY <1>1
<1>3. /\ UNCHANGED <<rowVars, saves, stored, status, runVars, snapVars, streak, stop, failures,
                     crashes, scanned, told, silenced, reported>>
      /\ IF stored[q] THEN scheduled(q, seq) ELSE UNCHANGED <<sched, mark, base>>
      /\ calls' = [calls EXCEPT ![c] = None]
  BY <1>2, Zenon DEF ScheduleWrite
<1>4. /\ mark \in [Queries -> {None} \cup 0..top] /\ base \in [Queries -> 0..top]
      /\ sched \in [Queries -> BOOLEAN]
  BY Zenon DEF ScheduleInv, TypeOK
<1>5. /\ mark' \in [Queries -> {None} \cup 0..top] /\ base' \in [Queries -> 0..top]
      /\ sched' \in [Queries -> BOOLEAN]
  BY <1>1, <1>3, <1>4, Zenon DEF scheduled
<1>6. TypeOK'
  BY <1>3, <1>5, Zenon DEF ScheduleInv, TypeOK, rowVars, runVars, snapVars
<1>7. \A p \in Queries :
        /\ mark[p] # None => mark'[p] = mark[p] /\ base'[p] = base[p]
        /\ mark[p] = None => \/ mark'[p] = None /\ sched'[p] = sched[p]
                             \/ stored[p] /\ mark'[p] = seq /\ base'[p] = seq
        /\ sched'[p] => stored[p] \/ sched[p]
  BY <1>1, <1>3, <1>4, Zenon DEF scheduled
<1>8. seq # None
  BY <1>1, HuntScheduleAssumption DEF ScheduleInv, TypeOK
<1>9. SavedInv'
  BY <1>3, <1>7, <1>8, Zenon DEF ScheduleInv, SavedInv
<1>10. ThreadInv'
  BY <1>3, Zenon DEF ScheduleInv, ThreadInv, runVars, snapVars
<1>11. \A p \in Queries : snapMark[p] # None /\ upper # None
  BY HuntScheduleAssumption DEF ScheduleInv, TypeOK
<1>12. SnapInv'
  <2> SUFFICES ASSUME NEW p \in Queries, ahead(p)
      PROVE  /\ 1 <= snapGen[p] /\ snapGen[p] <= saves[p]
             /\ stored[p] /\ snapGen[p] = saves[p] =>
                  mark'[p] = snapMark[p] /\ status[p] = snapStatus[p]
    BY <1>3, Zenon DEF SnapInv, ahead, runVars, snapVars
  <2> QED BY <1>7, <1>11, Zenon DEF ScheduleInv, SnapInv
<1>13. EmitInv'
  <2> SUFFICES ASSUME pc = "emit"
      PROVE  /\ snapGen[cur] <= saves[cur]
             /\ stored[cur] /\ snapGen[cur] = saves[cur] => mark'[cur] = upper
    BY <1>3, Zenon DEF EmitInv, runVars, snapVars
  <2>1. cur \in Queries
    BY Zenon DEF ScheduleInv, ThreadInv
  <2> QED BY <1>7, <1>11, <2>1, Zenon DEF ScheduleInv, EmitInv
<1>14. ReportInv'
  <2> SUFFICES ASSUME NEW a \in reported
      PROVE  /\ a[2] <= saves[a[1]]
             /\ stored[a[1]] /\ a[2] = saves[a[1]] => mark'[a[1]] # None /\ a[4] <= mark'[a[1]]
             /\ ahead(a[1]) \/ (pc = "emit" /\ cur = a[1]) =>
                  a[2] <= snapGen[a[1]] /\ (a[2] = snapGen[a[1]] => a[4] <= snapMark[a[1]])
    BY <1>3, Zenon DEF ReportInv, ahead, runVars, snapVars
  <2>1. a[1] \in Queries
    BY ReportType, Zenon DEF ScheduleInv
  <2> QED BY <1>7, <2>1, Zenon DEF ScheduleInv, ReportInv
<1>15. ReportedOnce'
  BY <1>3, Zenon DEF ScheduleInv, ReportedOnce
<1>16. FirstInv'
  <2> SUFFICES ASSUME NEW p \in Queries, stored[p], saves[p] <= 1
      PROVE  /\ mark'[p] # None =>
                  \A r \in 1..MaxRows : base'[p] < r /\ r <= mark'[p] => r \in scanned[p]
             /\ status[p] = "failed" => told[p] \/ silenced[p] \/ (pc = "announce" /\ cur = p)
    BY <1>3, Zenon DEF FirstInv, runVars
  <2>1. \A r \in 1..MaxRows : ~(seq < r /\ r <= seq)
    BY <1>1, HuntScheduleAssumption DEF ScheduleInv, TypeOK
  <2> QED BY <1>7, <2>1, Zenon DEF ScheduleInv, FirstInv
<1> QED
  BY <1>6, <1>9, <1>10, <1>12, <1>13, <1>14, <1>15, <1>16, Zenon DEF ScheduleInv

\* A schedule switched off leaves the watermark.
LEMMA UnscheduleQueryKeeps ==
  ASSUME ScheduleInv, NEW q \in Queries, UnscheduleQuery(q)
  PROVE  ScheduleInv'
<1>1. UNCHANGED <<saves, stored, mark, status, runVars, snapVars, pastVars>>
  BY Zenon DEF UnscheduleQuery
<1>2. TypeOK'
  BY Zenon DEF UnscheduleQuery, ScheduleInv, TypeOK, rowVars, runVars, snapVars, pastVars
<1>3. \A p \in Queries : sched'[p] => sched[p]
  BY Zenon DEF UnscheduleQuery, ScheduleInv, TypeOK
<1>4. SavedInv'
  BY <1>1, <1>3, Zenon DEF ScheduleInv, SavedInv
<1>5. ThreadInv' /\ SnapInv' /\ EmitInv'
  BY <1>1, Zenon DEF ScheduleInv, ThreadInv, SnapInv, EmitInv, ahead, runVars, snapVars
<1>6. ReportInv' /\ ReportedOnce' /\ FirstInv'
  BY <1>1, Zenon DEF ScheduleInv, ReportInv, ReportedOnce, FirstInv, ahead, runVars, snapVars,
     pastVars
<1> QED BY <1>2, <1>4, <1>5, <1>6, Zenon DEF ScheduleInv

-----------------------------------------------------------------------------
(* Scheduled hunts: the snapshot, the stamps and the emission.                *)

\* due_queries reads the rows that are due.
LEMMA TickKeeps == ASSUME ScheduleInv, NEW D \in SUBSET Queries, Tick(D) PROVE ScheduleInv'
<1>1. /\ pc = "idle" /\ pc' = "next" /\ due' = D
      /\ UNCHANGED <<rowVars, keepVars, calls, cur, upper, hit, streak, stop, failures, crashes,
                     pastVars>>
  BY Zenon DEF Tick
<1>2. \A q \in D : stored[q] /\ mark[q] # None /\ saves[q] >= 1
  BY Zenon DEF Tick, standing, ScheduleInv, SavedInv
<1>3. /\ \A q \in Queries \ D : snapGen'[q] = snapGen[q] /\ snapMark'[q] = snapMark[q]
      /\ \A q \in D : /\ snapGen'[q] = saves[q] /\ snapMark'[q] = mark[q]
                      /\ snapStatus'[q] = status[q]
  BY Zenon DEF Tick
<1>4. TypeOK'
  <2>1. \A q \in D : mark[q] \in 0..top
    BY <1>2, Zenon DEF ScheduleInv, TypeOK
  <2>2. /\ snapGen' \in [Queries -> 0..MaxSaves] /\ snapMark' \in [Queries -> 0..top]
        /\ snapStatus' \in [Queries -> {"none", "ok", "failed"}]
    BY <2>1, Zenon DEF Tick, ScheduleInv, TypeOK
  <2> QED BY <1>1, <2>2, Zenon DEF ScheduleInv, TypeOK, rowVars, keepVars, pastVars
<1>5. cur' = None /\ \A q \in Queries : ahead(q)' => q \in D
  BY <1>1, Zenon DEF ScheduleInv, ThreadInv, ahead
<1>6. ThreadInv'
  BY <1>1, <1>5, HuntScheduleAssumption, Zenon DEF ThreadInv
<1>7. SavedInv' /\ ReportedOnce' /\ EmitInv'
  BY <1>1, Zenon DEF ScheduleInv, SavedInv, ReportedOnce, EmitInv, keepVars, pastVars
<1>8. \A q \in D : 1 <= saves[q] /\ saves[q] <= saves[q]
  BY <1>2, HuntScheduleAssumption DEF ScheduleInv, TypeOK
<1>9. SnapInv'
  BY <1>1, <1>3, <1>5, <1>8, Zenon DEF SnapInv, keepVars
<1>10. ReportInv'
  <2> SUFFICES ASSUME NEW a \in reported
      PROVE  /\ a[2] <= saves[a[1]]
             /\ stored[a[1]] /\ a[2] = saves[a[1]] => mark[a[1]] # None /\ a[4] <= mark[a[1]]
             /\ a[1] \in D =>
                  a[2] <= snapGen'[a[1]] /\ (a[2] = snapGen'[a[1]] => a[4] <= snapMark'[a[1]])
    <3>1. \A a \in reported : a[1] \in Queries
      BY ReportType, Zenon DEF ScheduleInv
    <3> QED BY <1>1, <1>5, <3>1, Zenon DEF ReportInv, keepVars, pastVars, ahead
  <2> QED BY <1>2, <1>3, Zenon DEF ScheduleInv, ReportInv
<1>11. FirstInv'
  BY <1>1, FirstFrame, Zenon DEF ScheduleInv, pastVars
<1> QED BY <1>4, <1>6, <1>7, <1>9, <1>10, <1>11, Zenon DEF ScheduleInv

\* A run that succeeded moves the watermark to the end of its window.
LEMMA RunRecordKeeps == ASSUME ScheduleInv, RunRecord PROVE ScheduleInv'
<1>1. /\ pc = "record" /\ stored[cur] /\ sched[cur] /\ pc' \in {"emit", "next"}
      /\ UNCHANGED <<rowVars, saves, stored, sched, calls, due, cur, upper, hit, snapVars, stop,
                     failures, crashes, base, reported>>
  BY Zenon DEF RunRecord, standing
<1>2. cur \in Queries /\ cur \notin due /\ snapMark[cur] < upper /\ ahead(cur)
  BY <1>1, Zenon DEF ScheduleInv, ThreadInv, ahead
<1>3. TypeOK'
  <2>1. window \subseteq 1..MaxRows
    BY Zenon DEF window
  <2>2. /\ scanned' \in [Queries -> SUBSET (1..MaxRows)]
        /\ mark' \in [Queries -> {None} \cup 0..top]
        /\ status' \in [Queries -> {"none", "ok", "failed"}]
    BY <1>2, <2>1, Zenon DEF RunRecord, ScheduleInv, TypeOK
  <2>3. streak' \in [Queries -> Nat]
    <3>1. 0 \in Nat
      OBVIOUS
    <3> QED BY <1>2, <3>1, Zenon DEF RunRecord, ScheduleInv, TypeOK
  <2>4. told' \in [Queries -> BOOLEAN] /\ silenced' \in [Queries -> BOOLEAN]
    BY <1>2, Zenon DEF RunRecord, ScheduleInv, TypeOK
  <2> QED
    BY <1>1, <2>2, <2>3, <2>4, Zenon DEF ScheduleInv, TypeOK, rowVars, snapVars
<1>4. /\ mark'[cur] = upper /\ status'[cur] = "ok"
      /\ snapGen[cur] = saves[cur] => scanned'[cur] = scanned[cur] \cup window
      /\ \A p \in Queries \ {cur} :
           /\ mark'[p] = mark[p] /\ status'[p] = status[p] /\ scanned'[p] = scanned[p]
           /\ told'[p] = told[p] /\ silenced'[p] = silenced[p]
  BY <1>2, Zenon DEF RunRecord, ScheduleInv, TypeOK
<1>5. upper \in Nat /\ upper # None /\ upper <= MaxRows
  BY HuntScheduleAssumption DEF ScheduleInv, TypeOK
<1>6. SavedInv'
  BY <1>1, <1>4, <1>5, Zenon DEF ScheduleInv, SavedInv
<1>7. ThreadInv'
  BY <1>1, <1>2, Zenon DEF ThreadInv, snapVars
<1>8. \A q \in Queries : ahead(q)' => ahead(q) /\ q # cur
  BY <1>1, <1>2, Zenon DEF ahead
<1>9. SnapInv'
  BY <1>1, <1>4, <1>8, Zenon DEF ScheduleInv, SnapInv, snapVars
<1>10. EmitInv'
  BY <1>1, <1>2, <1>4, Zenon DEF ScheduleInv, SnapInv, EmitInv, snapVars
<1>11. ReportInv'
  <2> SUFFICES ASSUME NEW a \in reported
      PROVE  /\ a[2] <= saves[a[1]]
             /\ stored[a[1]] /\ a[2] = saves[a[1]] => mark'[a[1]] # None /\ a[4] <= mark'[a[1]]
             /\ ahead(a[1]) =>
                  a[2] <= snapGen[a[1]] /\ (a[2] = snapGen[a[1]] => a[4] <= snapMark[a[1]])
    <3>1. \A a \in reported : a[1] \in Queries
      BY ReportType, Zenon DEF ScheduleInv
    <3> QED BY <1>1, <1>2, <1>8, <3>1, Zenon DEF ReportInv, snapVars
  <2>1. a[1] \in Queries /\ a[2] \in Nat /\ a[4] \in Nat
    BY ReportType, Zenon DEF ScheduleInv
  <2>2. CASE a[1] # cur
    BY <1>4, <2>1, <2>2, Zenon DEF ScheduleInv, ReportInv
  <2>3. CASE a[1] = cur
    <3>1. a[2] <= snapGen[cur] /\ (a[2] = snapGen[cur] => a[4] <= snapMark[cur])
      BY <1>2, <2>3, Zenon DEF ScheduleInv, ReportInv
    <3>2. snapGen[cur] <= saves[cur]
      BY <1>2, Zenon DEF ScheduleInv, SnapInv
    <3>3. snapGen[cur] \in Nat /\ saves[cur] \in Nat /\ snapMark[cur] \in Nat
      BY <1>2, HuntScheduleAssumption DEF ScheduleInv, TypeOK
    <3>4. a[2] <= saves[cur] /\ (a[2] = saves[cur] => a[4] <= upper)
      BY <1>2, <1>5, <2>1, <3>1, <3>2, <3>3
    <3> QED BY <1>4, <1>5, <2>3, <3>1, <3>4, Zenon
  <2> QED BY <2>2, <2>3, Zenon
<1>12. ReportedOnce'
  BY <1>1, Zenon DEF ScheduleInv, ReportedOnce
<1>13. FirstInv'
  <2> SUFFICES ASSUME NEW p \in Queries, stored[p], saves[p] <= 1
      PROVE  /\ mark'[p] # None =>
                  \A r \in 1..MaxRows : base[p] < r /\ r <= mark'[p] => r \in scanned'[p]
             /\ status'[p] = "failed" => told'[p] \/ silenced'[p] \/ (pc' = "announce" /\ cur = p)
    BY <1>1, Zenon DEF FirstInv
  <2>1. CASE p # cur
    BY <1>1, <1>4, <2>1, Zenon DEF ScheduleInv, FirstInv
  <2>2. CASE p = cur
    <3>1. 1 <= snapGen[cur] /\ snapGen[cur] <= saves[cur]
      BY <1>2, Zenon DEF ScheduleInv, SnapInv
    <3>2. snapGen[cur] = saves[cur]
      <4>1. snapGen[cur] \in 0..MaxSaves /\ saves[cur] \in 0..MaxSaves /\ saves[cur] <= 1
        BY <1>2, <2>2, Zenon DEF ScheduleInv, TypeOK
      <4> QED BY <3>1, <4>1
    <3>3. mark[cur] = snapMark[cur] /\ snapMark[cur] \in Nat /\ snapMark[cur] # None
      <4>1. mark[cur] = snapMark[cur]
        BY <1>1, <1>2, <3>2, Zenon DEF ScheduleInv, SnapInv
      <4> QED BY <1>2, <4>1, HuntScheduleAssumption DEF ScheduleInv, TypeOK
    <3>4. \A r \in 1..MaxRows : base[cur] < r /\ r <= snapMark[cur] => r \in scanned[cur]
      BY <1>1, <2>2, <3>3, Zenon DEF ScheduleInv, FirstInv
    <3>5. \A r \in 1..MaxRows : r <= upper => r <= snapMark[cur] \/ r \in window
      BY <1>5, <3>3 DEF window
    <3>6. "ok" # "failed"
      OBVIOUS
    <3> QED BY <1>4, <2>2, <3>2, <3>4, <3>5, <3>6, Zenon
  <2> QED BY <2>1, <2>2, Zenon
<1> QED
  BY <1>3, <1>6, <1>7, <1>9, <1>10, <1>11, <1>12, <1>13, Zenon DEF ScheduleInv

\* hunt_match is emitted for a window that begins where the last one ended.
LEMMA RunEmitKeeps == ASSUME ScheduleInv, RunEmit PROVE ScheduleInv'
<1> DEFINE b == <<cur, snapGen[cur], snapMark[cur], upper>>
<1>1. /\ pc = "emit" /\ pc' = "next" /\ reported' = reported \cup {b}
      /\ UNCHANGED <<rowVars, keepVars, calls, due, cur, upper, hit, snapVars, streak, stop,
                     failures, crashes, base, scanned, told, silenced>>
  BY Zenon DEF RunEmit
<1>2. cur \in Queries /\ cur \notin due
  BY <1>1, Zenon DEF ScheduleInv, ThreadInv
<1>3. b[1] = cur /\ b[2] = snapGen[cur] /\ b[3] = snapMark[cur] /\ b[4] = upper
  BY Zenon
<1>4. b \in Queries \X (0..MaxSaves) \X (0..top) \X (0..top)
  BY <1>2 DEF ScheduleInv, TypeOK
<1> HIDE DEF b
<1>5. TypeOK'
  BY <1>1, <1>4, Zenon DEF ScheduleInv, TypeOK, rowVars, keepVars, snapVars
<1>6. SavedInv' /\ ThreadInv' /\ EmitInv'
  BY <1>1, <1>2, Zenon DEF ScheduleInv, SavedInv, ThreadInv, EmitInv, keepVars
<1>7. \A q \in Queries : ahead(q)' => ahead(q) /\ q # cur
  BY <1>1, <1>2, Zenon DEF ahead
<1>8. SnapInv'
  BY <1>1, <1>7, Zenon DEF ScheduleInv, SnapInv, keepVars, snapVars
<1>9. snapGen[cur] <= saves[cur] /\ (stored[cur] /\ snapGen[cur] = saves[cur] => mark[cur] = upper)
  BY <1>1, Zenon DEF ScheduleInv, EmitInv
<1>10. upper # None /\ upper <= upper
  BY HuntScheduleAssumption DEF ScheduleInv, TypeOK
<1>11. ReportInv'
  <2> SUFFICES ASSUME NEW a \in reported \cup {b}
      PROVE  /\ a[2] <= saves[a[1]]
             /\ stored[a[1]] /\ a[2] = saves[a[1]] => mark[a[1]] # None /\ a[4] <= mark[a[1]]
             /\ ahead(a[1])' =>
                  a[2] <= snapGen[a[1]] /\ (a[2] = snapGen[a[1]] => a[4] <= snapMark[a[1]])
    BY <1>1, Zenon DEF ReportInv, keepVars, snapVars, ahead
  <2>1. CASE a \in reported
    <3>1. a[1] \in Queries
      BY <2>1, ReportType, Zenon DEF ScheduleInv
    <3> QED BY <1>7, <2>1, <3>1, Zenon DEF ScheduleInv, ReportInv
  <2>2. CASE a = b
    BY <1>2, <1>3, <1>7, <1>9, <1>10, <2>2, Zenon
  <2> QED BY <2>1, <2>2, Zenon
<1>12. ReportedOnce'
  <2>1. \A a \in reported : a[1] = b[1] /\ a[2] = b[2] => a[4] <= b[3]
    BY <1>1, <1>3, Zenon DEF ScheduleInv, ReportInv
  <2> QED BY <1>1, <2>1, Zenon DEF ScheduleInv, ReportedOnce
<1>13. FirstInv'
  BY <1>1, FirstFrame, Zenon DEF ScheduleInv
<1> QED BY <1>5, <1>6, <1>8, <1>11, <1>12, <1>13, Zenon DEF ScheduleInv

\* A failed run is stamped; the first of a series is about to be announced.
LEMMA FailRecordKeeps == ASSUME ScheduleInv, FailRecord PROVE ScheduleInv'
<1>1. /\ pc = "failed" /\ stored[cur] /\ sched[cur] /\ status' = [status EXCEPT ![cur] = "failed"]
      /\ pc' = IF snapStatus[cur] = "failed" THEN "next" ELSE "announce"
      /\ UNCHANGED <<rowVars, saves, stored, sched, mark, calls, due, cur, upper, hit, snapVars,
                     stop, failures, crashes, pastVars>>
  BY Zenon DEF FailRecord, standing
<1>2. cur \in Queries /\ cur \notin due /\ ahead(cur) /\ pc' \in {"next", "announce"}
  BY <1>1, Zenon DEF ScheduleInv, ThreadInv, ahead
<1>3. TypeOK'
  <2>1. streak \in [Queries -> Nat] /\ streak[cur] \in Nat
    BY <1>2, Zenon DEF ScheduleInv, TypeOK
  <2>2. streak[cur] + 1 \in Nat
    BY <2>1
  <2>3. streak' \in [Queries -> Nat]
    BY <1>2, <2>1, <2>2, Zenon DEF FailRecord
  <2> QED BY <1>1, <1>2, <2>3, Zenon DEF ScheduleInv, TypeOK, rowVars, snapVars, pastVars
<1>4. \A p \in Queries : status'[p] = IF p = cur THEN "failed" ELSE status[p]
  BY <1>1, Zenon DEF ScheduleInv, TypeOK
<1>5. SavedInv' /\ ThreadInv' /\ EmitInv'
  BY <1>1, <1>2, <1>4, Zenon DEF ScheduleInv, SavedInv, ThreadInv, EmitInv
<1>6. \A q \in Queries : ahead(q)' => ahead(q) /\ q # cur
  BY <1>1, <1>2, Zenon DEF ahead
<1>7. SnapInv'
  BY <1>1, <1>4, <1>6, Zenon DEF ScheduleInv, SnapInv, snapVars
<1>8. ReportInv'
  <2> SUFFICES ASSUME NEW a \in reported
      PROVE  /\ a[2] <= saves[a[1]]
             /\ stored[a[1]] /\ a[2] = saves[a[1]] => mark[a[1]] # None /\ a[4] <= mark[a[1]]
             /\ ahead(a[1])' =>
                  a[2] <= snapGen[a[1]] /\ (a[2] = snapGen[a[1]] => a[4] <= snapMark[a[1]])
    BY <1>1, <1>2, Zenon DEF ReportInv, snapVars, pastVars, ahead
  <2>1. a[1] \in Queries
    BY ReportType, Zenon DEF ScheduleInv
  <2> QED BY <1>6, <2>1, Zenon DEF ScheduleInv, ReportInv
<1>9. ReportedOnce'
  BY <1>1, Zenon DEF ScheduleInv, ReportedOnce, pastVars
<1>10. FirstInv'
  <2> SUFFICES ASSUME NEW p \in Queries, stored[p], saves[p] <= 1
      PROVE  /\ mark[p] # None =>
                  \A r \in 1..MaxRows : base[p] < r /\ r <= mark[p] => r \in scanned[p]
             /\ status'[p] = "failed" => told[p] \/ silenced[p] \/ (pc' = "announce" /\ cur = p)
    BY <1>1, Zenon DEF FirstInv, pastVars
  <2>1. p = cur /\ snapStatus[cur] = "failed" => status[cur] = "failed"
    <3> SUFFICES ASSUME p = cur PROVE status[cur] = snapStatus[cur]
      BY Zenon
    <3>1. 1 <= snapGen[cur] /\ snapGen[cur] <= saves[cur]
      BY <1>2, Zenon DEF ScheduleInv, SnapInv
    <3>2. snapGen[cur] = saves[cur]
      BY <1>2, <3>1, HuntScheduleAssumption DEF ScheduleInv, TypeOK
    <3> QED BY <1>1, <1>2, <3>2, Zenon DEF ScheduleInv, SnapInv
  <2> QED BY <1>1, <1>4, <2>1, Zenon DEF ScheduleInv, FirstInv
<1> QED BY <1>3, <1>5, <1>7, <1>8, <1>9, <1>10, Zenon DEF ScheduleInv

-----------------------------------------------------------------------------
(* Scheduled hunts: the theorems.                                             *)

\* Nothing is saved and nothing runs at the start.
LEMMA ScheduleStart == Init => ScheduleInv
<1> SUFFICES ASSUME Init PROVE ScheduleInv
  BY Zenon
<1>1. 0 \in 0..MaxRows /\ 0 \in 0..0 /\ 0 \in Nat /\ 0 \in 0..MaxSaves
  BY HuntScheduleAssumption
<1>2. TypeOK
  BY <1>1, Zenon DEF Init, TypeOK
<1>3. SavedInv /\ ThreadInv /\ SnapInv /\ EmitInv /\ ReportInv /\ ReportedOnce /\ FirstInv
  BY Zenon DEF Init, SavedInv, ThreadInv, SnapInv, EmitInv, ReportInv, ReportedOnce, FirstInv,
     ahead
<1> QED BY <1>2, <1>3, Zenon DEF ScheduleInv

\* Every step of the scheduler and of the handlers keeps the invariant.
LEMMA ScheduleStep == ScheduleInv /\ [Next]_vars => ScheduleInv'
<1> SUFFICES ASSUME ScheduleInv, [Next]_vars PROVE ScheduleInv'
  BY Zenon
<1>1. ASSUME Handlers PROVE ScheduleInv'
  BY <1>1, SaveQueryKeeps, DeleteQueryKeeps, UnscheduleQueryKeeps, ScheduleWriteKeeps,
     ScheduleReadKeeps, Zenon DEF Handlers
<1>2. ASSUME Run PROVE ScheduleInv'
  BY <1>2, TickDoneKeeps, RunHeldKeeps, RunStartKeeps, RunSelectKeeps, RunDroppedKeeps,
     RunRecordKeeps, RunEmitKeeps, FailRecordKeeps, FailRaisesKeeps, FailEmitKeeps, Zenon DEF Run
<1>3. ASSUME UNCHANGED vars PROVE ScheduleInv'
  <2>1. TypeOK'
    BY <1>3, Zenon DEF ScheduleInv, TypeOK, vars, rowVars, keepVars, runVars, snapVars, pastVars
  <2> QED BY <1>3, <2>1, QuietKeeps, Zenon DEF vars
<1> QED
  BY <1>1, <1>2, <1>3, IngestKeeps, PrunedKeeps, TickKeeps, RunFailsKeeps, StopSetKeeps,
     RestartKeeps, Zenon DEF Next

\* The inductive invariant of the scheduled hunts, however often a name is
\* deleted and saved again.
THEOREM ScheduleInvariant == Spec => []ScheduleInv
BY ScheduleStart, ScheduleStep, PTL DEF Spec

\* A row is in the window of at most one hunt_match of a saved query, however
\* often its name is deleted and saved again under a run.
THEOREM MatchesOnce == Spec => []ReportedOnce
<1>1. ScheduleInv => ReportedOnce
  BY Zenon DEF ScheduleInv
<1> QED BY <1>1, ScheduleInvariant, PTL

\* Of a name that was saved once, FirstInv says all.
LEMMA FirstSaved == ASSUME MaxSaves <= 1 PROVE ScheduleInv => EachRowOnce
<1> SUFFICES ASSUME ScheduleInv PROVE EachRowOnce
  BY Zenon
<1>1. \A q \in Queries : saves[q] <= 1
  <2>1. \A q \in Queries : saves[q] \in 0..MaxSaves
    BY Zenon DEF ScheduleInv, TypeOK
  <2> QED BY <2>1, HuntScheduleAssumption
<1> QED BY <1>1, Zenon DEF ScheduleInv, FirstInv, EachRowOnce, NoRowSkipped, FailureAnnounced

\* Of names that are saved at most once, every row is in exactly one successful
\* run's window, and a hunt that fails says so.  (A name that is deleted and
\* saved again under a run inherits the stamp of that run.)
THEOREM RowsOnce == ASSUME MaxSaves <= 1 PROVE Spec => []EachRowOnce
BY FirstSaved, ScheduleInvariant, PTL
=============================================================================
