---------------------------- MODULE RouterProofs ----------------------------
(***************************************************************************)
(* Router's type invariant, the bound on its queues and the order in which *)
(* events leave them, for any number of publishing threads, any queue_size *)
(* and any number of events.                                               *)
(***************************************************************************)
EXTENDS Router, FiniteSetTheorems, SequenceTheorems, TLAPS

(* The publishers that found room, or made room, at s and have not yet     *)
(* appended there.                                                         *)
appending(s) == {t \in Threads : pc[t] = "append" /\ sub[t] = s}

(* A publisher on its way has an event; one about to delete has a victim. *)
PublisherInv ==
  \A t \in Threads :
    /\ pc[t] # "idle" => sent[t] > 0
    /\ pc[t] = "delete" => index[t] > 0

(* The room promised to publishers counts as used. *)
RoomInv ==
  \A s \in Subs :
    Len(queue[s]) + Cardinality(appending(s)) < QueueSize + Cardinality(Threads)

IInv == TypeOK /\ PublisherInv /\ RoomInv

(* A nonempty set of numbers has a least element, which is its Min. *)
LEMMA MinOfNumbers ==
  ASSUME NEW I, I \subseteq Nat, I # {}
  PROVE  Min(I) \in I
<1>1. PICK x \in I : \A y \in I : ~(<<y, x>> \in OpToRel(<, Nat))
  <2> HIDE DEF OpToRel
  <2> QED BY NatLessThanWellFounded, WFMin, Zenon
<1>2. \A y \in I : ~(y < x)
  BY <1>1, Zenon DEF OpToRel
<1>3. \A y \in I : x <= y
  BY <1>2
<1> QED BY <1>3, Zenon DEF Min

(* The victim is no index, 0, or a place in the queue. *)
LEMMA VictimType ==
  ASSUME TypeOK, NEW s \in Subs
  PROVE  victim(s) \in Nat
<1> DEFINE I == {i \in 1..Len(queue[s]) : queue[s][i] \notin critical}
<1>1. victim(s) = IF I # {} THEN Min(I) ELSE 0
  BY Zenon DEF victim, SelectInSeq
<1>2. I \subseteq Nat
  OBVIOUS
<1> HIDE DEF I
<1>3. CASE I = {}
  BY <1>1, <1>3
<1>4. CASE I # {}
  <2>1. Min(I) \in I
    BY <1>2, <1>4, MinOfNumbers, Zenon
  <2> QED BY <1>1, <1>2, <1>4, <2>1, Zenon
<1> QED BY <1>3, <1>4, Zenon

(* Deleting one place of a queue shortens it by one. *)
LEMMA RemoveAtLen ==
  ASSUME NEW S, NEW q \in Seq(S), NEW i \in 1..Len(q)
  PROVE  RemoveAt(q, i) \in Seq(S) /\ Len(RemoveAt(q, i)) = Len(q) - 1
<1>0. Len(q) \in Nat /\ \A j \in 1..Len(q) : q[j] \in S
  BY LenProperties, ElementOfSeq, Zenon
<1>1. SubSeq(q, 1, i-1) \in Seq(S) /\ Len(SubSeq(q, 1, i-1)) = i - 1
  <2>1. \A j \in 1..(i-1) : q[j] \in S
    BY <1>0
  <2>2. /\ SubSeq(q, 1, i-1) \in Seq(S)
        /\ Len(SubSeq(q, 1, i-1)) = IF 1 <= i-1 THEN (i-1)-1+1 ELSE 0
    BY <2>1, SubSeqProperties
  <2> QED BY <2>2
<1>2. SubSeq(q, i+1, Len(q)) \in Seq(S) /\ Len(SubSeq(q, i+1, Len(q))) = Len(q) - i
  <2>1. \A j \in (i+1)..Len(q) : q[j] \in S
    BY <1>0
  <2>2. /\ SubSeq(q, i+1, Len(q)) \in Seq(S)
        /\ Len(SubSeq(q, i+1, Len(q))) = IF i+1 <= Len(q) THEN Len(q)-(i+1)+1 ELSE 0
    BY <1>0, <2>1, SubSeqProperties
  <2> QED BY <1>0, <2>2
<1> DEFINE a == SubSeq(q, 1, i-1)
           b == SubSeq(q, i+1, Len(q))
<1>3. a \o b \in Seq(S) /\ Len(a \o b) = Len(a) + Len(b)
  <2> HIDE DEF a, b
  <2>1. a \in Seq(S) /\ b \in Seq(S)
    BY <1>1, <1>2, Zenon DEF a, b
  <2> QED BY <2>1, ConcatProperties, Zenon
<1>4. Len(a) + Len(b) = Len(q) - 1
  <2>1. Len(a) = i - 1 /\ Len(b) = Len(q) - i
    BY <1>1, <1>2, Zenon
  <2> HIDE DEF a, b
  <2> QED BY <1>0, <2>1
<1> QED BY <1>3, <1>4, Zenon DEF RemoveAt

(* The publishers about to append are finitely many, at most all threads;  *)
(* one more or one less of them changes their number by one.               *)
LEMMA AppendingCount ==
  ASSUME NEW A \in SUBSET Threads, NEW t \in Threads
  PROVE  /\ Cardinality(A) \in Nat /\ Cardinality(Threads) \in Nat
         /\ Cardinality(A) <= Cardinality(Threads)
         /\ t \notin A => Cardinality(A \cup {t}) = Cardinality(A) + 1
         /\ t \in A => Cardinality(A \ {t}) = Cardinality(A) - 1
<1>1. IsFiniteSet(Threads) /\ IsFiniteSet(A)
  BY RouterAssumption, FS_Subset, Zenon
<1>2. Cardinality(A) \in Nat /\ Cardinality(Threads) \in Nat /\ Cardinality(A) <= Cardinality(Threads)
  BY <1>1, FS_CardinalityType, FS_Subset, Zenon
<1>3. t \notin A => Cardinality(A \cup {t}) = Cardinality(A) + 1
  BY <1>1, FS_AddElement
<1>4. t \in A => Cardinality(A \ {t}) = Cardinality(A) - 1
  BY <1>1, FS_RemoveElement, Zenon
<1> QED BY <1>2, <1>3, <1>4, Zenon

(* What a step of publisher t does to the promised room: t joins the ones  *)
(* about to append, leaves them, or neither.                               *)
LEMMA RoomKept ==
  ASSUME TypeOK, RoomInv, TypeOK',
         \A s \in Subs :
           \/ /\ Len(queue'[s]) <= Len(queue[s])
              /\ appending(s)' = appending(s)
           \/ \E t \in Threads :
                /\ t \notin appending(s) /\ appending(s)' = appending(s) \cup {t}
                /\ Len(queue'[s]) < QueueSize \/ Len(queue'[s]) = Len(queue[s]) - 1
           \/ \E t \in Threads :
                /\ t \in appending(s) /\ appending(s)' = appending(s) \ {t}
                /\ Len(queue'[s]) = Len(queue[s]) + 1
  PROVE  RoomInv'
<1> SUFFICES ASSUME NEW s \in Subs
             PROVE  Len(queue'[s]) + Cardinality(appending(s)') < QueueSize + Cardinality(Threads)
  BY Zenon DEF RoomInv
<1>1. appending(s) \in SUBSET Threads /\ appending(s)' \in SUBSET Threads
  BY Zenon DEF appending
<1>2. Len(queue[s]) \in Nat /\ Len(queue'[s]) \in Nat /\ QueueSize \in Nat
  BY RouterAssumption, LenProperties, Zenon DEF TypeOK
<1>3. Len(queue[s]) + Cardinality(appending(s)) < QueueSize + Cardinality(Threads)
  BY Zenon DEF RoomInv
<1>4. PICK u \in Threads : TRUE
  BY RouterAssumption, Zenon
<1>5. /\ Cardinality(appending(s)) \in Nat /\ Cardinality(Threads) \in Nat
      /\ Cardinality(appending(s)') \in Nat
      /\ Cardinality(appending(s)') <= Cardinality(Threads)
  BY <1>1, <1>4, AppendingCount, Zenon
<1>6. CASE Len(queue'[s]) <= Len(queue[s]) /\ appending(s)' = appending(s)
  BY <1>2, <1>3, <1>5, <1>6
<1>7. ASSUME NEW t \in Threads, t \notin appending(s), appending(s)' = appending(s) \cup {t},
             Len(queue'[s]) < QueueSize \/ Len(queue'[s]) = Len(queue[s]) - 1
      PROVE  Len(queue'[s]) + Cardinality(appending(s)') < QueueSize + Cardinality(Threads)
  <2>1. Cardinality(appending(s)') = Cardinality(appending(s)) + 1
    BY <1>1, <1>7, AppendingCount, Zenon
  <2> QED BY <1>2, <1>3, <1>5, <1>7, <2>1
<1>8. ASSUME NEW t \in Threads, t \in appending(s), appending(s)' = appending(s) \ {t},
             Len(queue'[s]) = Len(queue[s]) + 1
      PROVE  Len(queue'[s]) + Cardinality(appending(s)') < QueueSize + Cardinality(Threads)
  <2>1. Cardinality(appending(s)') = Cardinality(appending(s)) - 1
    BY <1>1, <1>8, AppendingCount, Zenon
  <2> QED BY <1>2, <1>3, <1>5, <1>8, <2>1
<1> QED BY <1>6, <1>7, <1>8, Zenon

(* A new router: empty queues, no publisher on its way. *)
LEMMA InitInv == Init => IInv
<1> SUFFICES ASSUME Init PROVE IInv
  BY Zenon
<1>1. TypeOK
  BY RouterAssumption, EmptySeq DEF Init, TypeOK, Subs
<1>2. PublisherInv
  BY Zenon DEF Init, PublisherInv
<1>3. RoomInv
  <2> SUFFICES ASSUME NEW s \in Subs
               PROVE  Len(queue[s]) + Cardinality(appending(s)) < QueueSize + Cardinality(Threads)
    BY Zenon DEF RoomInv
  <2>1. Len(queue[s]) = 0 /\ appending(s) = {}
    BY EmptySeq, Zenon DEF Init, appending
  <2>2. Cardinality(appending(s)) = 0
    BY <2>1, FS_EmptySet, Zenon
  <2>3. Cardinality(Threads) \in Nat
    BY RouterAssumption, FS_CardinalityType
  <2> QED BY <2>1, <2>2, <2>3, RouterAssumption
<1> QED BY <1>1, <1>2, <1>3, Zenon DEF IInv

(* A step that leaves the queues alone, and whose publisher t neither      *)
(* joins nor leaves the ones about to append.                              *)
LEMMA QuietRoom ==
  ASSUME IInv, TypeOK', UNCHANGED queue,
         \A s \in Subs : appending(s)' = appending(s)
  PROVE  RoomInv'
<1>1. \A s \in Subs : Len(queue'[s]) <= Len(queue[s])
  BY LenProperties DEF IInv, TypeOK
<1> QED BY <1>1, RoomKept, Zenon DEF IInv

(* _dispatch hands publish an event; no queue is touched yet. *)
LEMMA DispatchInv ==
  ASSUME IInv, NEW t \in Threads, Dispatch(t)
  PROVE  IInv'
<1>1. TypeOK'
  BY RouterAssumption DEF IInv, TypeOK, Dispatch, Subs
<1>2. PublisherInv'
  BY DEF IInv, TypeOK, PublisherInv, Dispatch
<1>3. \A s \in Subs : appending(s)' = appending(s)
  BY Zenon DEF IInv, TypeOK, Dispatch, appending
<1>4. RoomInv'
  BY <1>1, <1>3, QuietRoom, Zenon DEF Dispatch
<1> QED BY <1>1, <1>2, <1>4, Zenon DEF IInv

(* A filtered event passes a subscription by. *)
LEMMA PublishFilteredInv ==
  ASSUME IInv, NEW t \in Threads, PublishFiltered(t)
  PROVE  IInv'
<1>1. TypeOK'
  BY Zenon DEF IInv, TypeOK, PublishFiltered, onward, Subs
<1>2. PublisherInv'
  BY Zenon DEF IInv, TypeOK, PublisherInv, PublishFiltered, onward
<1>3. \A s \in Subs : appending(s)' = appending(s)
  BY Zenon DEF IInv, TypeOK, PublishFiltered, onward, appending
<1>4. RoomInv'
  BY <1>1, <1>3, QuietRoom, Zenon DEF PublishFiltered
<1> QED BY <1>1, <1>2, <1>4, Zenon DEF IInv

(* The length test promises room only below queue_size. *)
LEMMA PublishCheckInv ==
  ASSUME IInv, NEW t \in Threads, PublishCheck(t)
  PROVE  IInv'
<1>1. TypeOK'
  BY Zenon DEF IInv, TypeOK, PublishCheck, goto
<1>2. PublisherInv'
  BY Zenon DEF IInv, TypeOK, PublisherInv, PublishCheck, goto
<1>3. CASE Len(queue[sub[t]]) < QueueSize
  <2>1. ASSUME NEW s \in Subs
        PROVE  IF sub[t] = s
                 THEN t \notin appending(s) /\ appending(s)' = appending(s) \cup {t}
                 ELSE appending(s)' = appending(s)
    BY <1>3 DEF IInv, TypeOK, PublishCheck, goto, appending
  <2>2. UNCHANGED queue /\ \A s \in Subs : Len(queue[s]) \in Nat
    BY LenProperties, Zenon DEF IInv, TypeOK, PublishCheck
  <2> QED BY <1>1, <1>2, <1>3, <2>1, <2>2, RoomKept DEF IInv
<1>4. CASE ~(Len(queue[sub[t]]) < QueueSize)
  <2>1. \A s \in Subs : appending(s)' = appending(s)
    BY <1>4 DEF IInv, TypeOK, PublishCheck, goto, appending
  <2> QED BY <1>1, <1>2, <2>1, QuietRoom, Zenon DEF IInv, PublishCheck
<1> QED BY <1>3, <1>4, Zenon

(* The append uses the room that was promised. *)
LEMMA PublishAppendInv ==
  ASSUME IInv, NEW t \in Threads, PublishAppend(t)
  PROVE  IInv'
<1>0. sent[t] \in 1..MaxEvents
  <2>1. sent[t] \in 0..MaxEvents /\ sent[t] > 0
    BY Zenon DEF IInv, TypeOK, PublisherInv, PublishAppend
  <2> HIDE DEF IInv
  <2> QED BY <2>1, RouterAssumption
<1>1. sub[t] \in Subs /\ event(t) \in Events /\ queue[sub[t]] \in Seq(Events)
  BY <1>0, Zenon DEF IInv, TypeOK, event, Events
<1>2. /\ Append(queue[sub[t]], event(t)) \in Seq(Events)
      /\ Len(Append(queue[sub[t]], event(t))) = Len(queue[sub[t]]) + 1
  BY <1>1, AppendProperties
<1>3. TypeOK'
  BY <1>2, Zenon DEF IInv, TypeOK, PublishAppend, change, onward, Subs
<1>4. PublisherInv'
  BY Zenon DEF IInv, TypeOK, PublisherInv, PublishAppend, onward
<1>5. ASSUME NEW s \in Subs
      PROVE  IF sub[t] = s
               THEN t \in appending(s) /\ appending(s)' = appending(s) \ {t}
               ELSE appending(s)' = appending(s)
  BY Zenon DEF IInv, TypeOK, PublishAppend, onward, appending
<1>6. ASSUME NEW s \in Subs
      PROVE  IF sub[t] = s THEN Len(queue'[s]) = Len(queue[s]) + 1 ELSE Len(queue'[s]) <= Len(queue[s])
  BY <1>2, LenProperties DEF IInv, TypeOK, PublishAppend, change
<1> QED BY <1>3, <1>4, <1>5, <1>6, RoomKept DEF IInv

(* The drop path starts to iterate. *)
LEMMA DropIterateInv ==
  ASSUME IInv, NEW t \in Threads, DropIterate(t)
  PROVE  IInv'
<1>1. TypeOK'
  BY Zenon DEF IInv, TypeOK, DropIterate, goto
<1>2. PublisherInv'
  BY Zenon DEF IInv, TypeOK, PublisherInv, DropIterate, goto
<1>3. \A s \in Subs : appending(s)' = appending(s)
  BY Zenon DEF IInv, TypeOK, DropIterate, goto, appending
<1>4. RoomInv'
  BY <1>1, <1>3, QuietRoom, Zenon DEF DropIterate
<1> QED BY <1>1, <1>2, <1>4, Zenon DEF IInv

(* The iteration ends with a victim, or raises the drop. *)
LEMMA DropScanInv ==
  ASSUME IInv, NEW t \in Threads, DropScan(t)
  PROVE  IInv'
<1>1. sub[t] \in Subs /\ victim(sub[t]) \in Nat
  BY VictimType, Zenon DEF IInv, TypeOK
<1>2. TypeOK'
  BY <1>1, Zenon DEF IInv, TypeOK, DropScan, raised, goto
<1>3. PublisherInv'
  BY <1>1 DEF IInv, TypeOK, PublisherInv, DropScan, raised, goto
<1>4. \A s \in Subs : appending(s)' = appending(s)
  BY Zenon DEF IInv, TypeOK, DropScan, raised, goto, appending
<1>5. RoomInv'
  BY <1>2, <1>4, QuietRoom, Zenon DEF DropScan
<1> QED BY <1>2, <1>3, <1>5, Zenon DEF IInv

(* Both exceptions of the drop path end the dispatch and change nothing. *)
LEMMA DropBrokenInv ==
  ASSUME IInv, NEW t \in Threads, DropScanBroken(t) \/ DropDeleteBroken(t)
  PROVE  IInv'
<1>1. TypeOK'
  BY Zenon DEF IInv, TypeOK, DropScanBroken, DropDeleteBroken, raised, goto
<1>2. PublisherInv'
  BY Zenon DEF IInv, TypeOK, PublisherInv, DropScanBroken, DropDeleteBroken, raised, goto
<1>3. \A s \in Subs : appending(s)' = appending(s)
  BY Zenon DEF IInv, TypeOK, DropScanBroken, DropDeleteBroken, raised, goto, appending
<1>4. RoomInv'
  BY <1>1, <1>3, QuietRoom, Zenon DEF DropScanBroken, DropDeleteBroken
<1> QED BY <1>1, <1>2, <1>4, Zenon DEF IInv

(* Deleting the victim makes the room that is promised. *)
LEMMA DropDeleteInv ==
  ASSUME IInv, NEW t \in Threads, DropDelete(t)
  PROVE  IInv'
<1>0. sub[t] \in Subs /\ queue[sub[t]] \in Seq(Events) /\ Len(queue[sub[t]]) \in Nat
  BY LenProperties, Zenon DEF IInv, TypeOK
<1>1. index[t] \in 1..Len(queue[sub[t]])
  BY <1>0 DEF IInv, TypeOK, PublisherInv, DropDelete
<1>2. /\ RemoveAt(queue[sub[t]], index[t]) \in Seq(Events)
      /\ Len(RemoveAt(queue[sub[t]], index[t])) = Len(queue[sub[t]]) - 1
  BY <1>0, <1>1, RemoveAtLen, Zenon
<1>3. TypeOK'
  BY <1>2, Zenon DEF IInv, TypeOK, DropDelete, change, goto
<1>4. PublisherInv'
  BY Zenon DEF IInv, TypeOK, PublisherInv, DropDelete, goto
<1>5. ASSUME NEW s \in Subs
      PROVE  IF sub[t] = s
               THEN t \notin appending(s) /\ appending(s)' = appending(s) \cup {t}
               ELSE appending(s)' = appending(s)
  BY Zenon DEF IInv, TypeOK, DropDelete, goto, appending
<1>6. ASSUME NEW s \in Subs
      PROVE  IF sub[t] = s THEN Len(queue'[s]) = Len(queue[s]) - 1 ELSE Len(queue'[s]) <= Len(queue[s])
  BY <1>2, LenProperties DEF IInv, TypeOK, DropDelete, change
<1> QED BY <1>3, <1>4, <1>5, <1>6, RoomKept DEF IInv

(* get_nowait only shortens a queue. *)
LEMMA ConsumeInv ==
  ASSUME IInv, NEW s \in Subs, Consume(s)
  PROVE  IInv'
<1>0. \A r \in Subs : appending(r)' = appending(r)
  BY Zenon DEF Consume, ConsumeTest, ConsumePop, ConsumeBroken, pubVars, appending
<1>1. PublisherInv'
  BY Zenon DEF IInv, PublisherInv, Consume, ConsumeTest, ConsumePop, ConsumeBroken, pubVars
<1>2. CASE ConsumeTest(s) \/ ConsumeBroken(s)
  <2>1. TypeOK'
    BY <1>2, Zenon DEF IInv, TypeOK, ConsumeTest, ConsumeBroken, pubVars
  <2> QED BY <1>0, <1>1, <1>2, <2>1, QuietRoom, Zenon DEF IInv, ConsumeTest, ConsumeBroken
<1>3. CASE ConsumePop(s)
  <2>1. queue[s] \in Seq(Events) /\ taken[s] \in Seq(Events) /\ queue[s] # <<>>
    BY <1>3, Zenon DEF IInv, TypeOK, ConsumePop
  <2>2. Head(queue[s]) \in Events /\ Tail(queue[s]) \in Seq(Events) /\ Len(Tail(queue[s])) = Len(queue[s]) - 1
    BY <2>1, HeadTailProperties, Zenon
  <2>3. Append(taken[s], Head(queue[s])) \in Seq(Events)
    BY <2>1, <2>2, AppendProperties
  <2>4. TypeOK'
    BY <1>3, <2>2, <2>3, Zenon DEF IInv, TypeOK, ConsumePop, change, pubVars
  <2>5. ASSUME NEW r \in Subs
        PROVE  Len(queue'[r]) <= Len(queue[r])
    BY <1>3, <2>2, LenProperties DEF IInv, TypeOK, ConsumePop, change
  <2> QED BY <1>0, <1>1, <2>4, <2>5, RoomKept DEF IInv
<1> QED BY <1>2, <1>3, Zenon DEF Consume

(* Every step keeps the inductive invariant. *)
LEMMA NextInv == IInv /\ [Next]_vars => IInv'
<1> SUFFICES ASSUME IInv, [Next]_vars PROVE IInv'
  BY Zenon
<1>1. ASSUME NEW t \in Threads, Dispatch(t) \/ Publish(t)
      PROVE  IInv'
  BY <1>1, DispatchInv, PublishFilteredInv, PublishCheckInv, PublishAppendInv, DropIterateInv,
     DropScanInv, DropBrokenInv, DropDeleteInv DEF Publish
<1>2. ASSUME NEW s \in Subs, Consume(s)
      PROVE  IInv'
  BY <1>2, ConsumeInv
<1>3. CASE UNCHANGED vars
  <2>1. TypeOK' /\ PublisherInv'
    BY <1>3, Zenon DEF IInv, TypeOK, PublisherInv, vars, pubVars
  <2>2. \A s \in Subs : appending(s)' = appending(s)
    BY <1>3 DEF vars, pubVars, appending
  <2> QED BY <1>3, <2>1, <2>2, QuietRoom, Zenon DEF IInv, vars
<1> QED BY <1>1, <1>2, <1>3, Zenon DEF Next

(* The inductive invariant holds of every reachable state of the router. *)
THEOREM Invariance == Spec => []IInv
BY InitInv, NextInv, PTL DEF Spec

(* Every step of publish, of the drop path and of get_nowait keeps the     *)
(* types of the router's state.                                            *)
THEOREM TypeCorrect == Spec => []TypeOK
<1>1. IInv => TypeOK
  BY DEF IInv
<1> QED BY <1>1, Invariance, PTL

(* Without a lock a queue exceeds queue_size by less than the number of    *)
(* publishing threads, however publish, the drop path and get_nowait       *)
(* interleave.                                                             *)
THEOREM QueuesBounded == Spec => []QueueBounded
<1>1. IInv => QueueBounded
  <2> SUFFICES ASSUME IInv, NEW s \in Subs
               PROVE  Len(queue[s]) < QueueSize + Cardinality(Threads)
    BY Zenon DEF QueueBounded
  <2>1. Len(queue[s]) + Cardinality(appending(s)) < QueueSize + Cardinality(Threads)
    BY Zenon DEF IInv, RoomInv
  <2>2. appending(s) \in SUBSET Threads /\ IsFiniteSet(Threads)
    BY RouterAssumption DEF appending
  <2>3. Cardinality(appending(s)) \in Nat /\ Cardinality(Threads) \in Nat
    BY <2>2, FS_Subset, FS_CardinalityType, Zenon
  <2>4. Len(queue[s]) \in Nat /\ QueueSize \in Nat
    BY RouterAssumption, LenProperties, Zenon DEF IInv, TypeOK
  <2> QED BY <2>1, <2>3, <2>4
<1> QED BY <1>1, Invariance, PTL

-----------------------------------------------------------------------------
(* The order of one thread's events, as get_nowait hands them out.         *)

later(d, e) == d[1] = e[1] => d[2] < e[2]

ordered(z) == \A i, j \in 1..Len(z) : i < j => later(z[i], z[j])

precedes(y, z) == \A i \in 1..Len(y), j \in 1..Len(z) : later(y[i], z[j])

(* Publisher t has yet to reach s, or is at it, with its last event. *)
pending(t, s) == pc[t] # "idle" /\ sub[t] \in {"anomaly", s}

(* What is in z was dispatched, and before an event that is on its way. *)
fresh(z, s) ==
  \A i \in 1..Len(z) :
    /\ z[i][2] <= sent[z[i][1]]
    /\ pending(z[i][1], s) => z[i][2] < sent[z[i][1]]

(* What was taken and what is queued are in order, the first before the    *)
(* second, and both before what is still to be appended.                   *)
OrderInv ==
  \A s \in Subs :
    /\ ordered(taken[s]) /\ ordered(queue[s]) /\ precedes(taken[s], queue[s])
    /\ fresh(taken[s], s) /\ fresh(queue[s], s)

(* An ordered sequence before another: their concatenation is ordered.     *)
LEMMA ConcatOrdered ==
  ASSUME NEW y \in Seq(Events), NEW z \in Seq(Events),
         ordered(y), ordered(z), precedes(y, z)
  PROVE  ordered(y \o z)
<1>0. Len(y) \in Nat /\ Len(z) \in Nat /\ Len(y \o z) = Len(y) + Len(z)
  BY LenProperties, ConcatProperties, Zenon
<1>. SUFFICES ASSUME NEW i \in 1..Len(y \o z), NEW j \in 1..Len(y \o z), i < j
     PROVE  later((y \o z)[i], (y \o z)[j])
  BY Zenon DEF ordered
<1>1. /\ (y \o z)[i] = IF i <= Len(y) THEN y[i] ELSE z[i - Len(y)]
      /\ (y \o z)[j] = IF j <= Len(y) THEN y[j] ELSE z[j - Len(y)]
  BY <1>0, ConcatProperties
<1>2. CASE j <= Len(y)
  BY <1>0, <1>1, <1>2 DEF ordered
<1>3. CASE i <= Len(y) /\ ~(j <= Len(y))
  <2>1. i \in 1..Len(y) /\ j - Len(y) \in 1..Len(z)
    BY <1>0, <1>3
  <2>. QED BY <1>1, <1>3, <2>1, Zenon DEF precedes
<1>4. CASE ~(i <= Len(y))
  <2>1. /\ i - Len(y) \in 1..Len(z) /\ j - Len(y) \in 1..Len(z) /\ i - Len(y) < j - Len(y)
        /\ ~(j <= Len(y))
    BY <1>0, <1>4
  <2>. QED BY <1>1, <1>4, <2>1, Zenon DEF ordered
<1>. QED BY <1>0, <1>2, <1>3, <1>4

(* z is y, less some places. *)
thins(z, y) ==
  \E f \in [1..Len(z) -> 1..Len(y)] :
    /\ \A i \in 1..Len(z) : z[i] = y[f[i]]
    /\ \A i, j \in 1..Len(z) : i < j => f[i] < f[j]

(* Taking places away keeps every order.                                   *)
LEMMA Thinned ==
  ASSUME NEW y \in Seq(Events), NEW z \in Seq(Events), thins(z, y), ordered(y)
  PROVE  /\ ordered(z)
         /\ \A x \in Seq(Events) : precedes(x, y) => precedes(x, z)
         /\ \A s \in Subs : fresh(y, s) => fresh(z, s)
<1>1. PICK f \in [1..Len(z) -> 1..Len(y)] :
        /\ \A i \in 1..Len(z) : z[i] = y[f[i]]
        /\ \A i, j \in 1..Len(z) : i < j => f[i] < f[j]
  BY Zenon DEF thins
<1>2. \A i \in 1..Len(z) : f[i] \in 1..Len(y) /\ z[i] = y[f[i]]
  BY <1>1, Zenon
<1>3. ordered(z)
  <2>. SUFFICES ASSUME NEW i \in 1..Len(z), NEW j \in 1..Len(z), i < j PROVE later(z[i], z[j])
    BY Zenon DEF ordered
  <2>1. f[i] < f[j] /\ z[i] = y[f[i]] /\ z[j] = y[f[j]] /\ f[i] \in 1..Len(y) /\ f[j] \in 1..Len(y)
    BY <1>1, <1>2
  <2>. QED BY <2>1, Zenon DEF ordered
<1>4. \A x \in Seq(Events) : precedes(x, y) => precedes(x, z)
  BY <1>2, Zenon DEF precedes
<1>5. \A s \in Subs : fresh(y, s) => fresh(z, s)
  BY <1>2, Zenon DEF fresh
<1>. QED BY <1>3, <1>4, <1>5, Zenon

(* Deleting by index and popleft do so.                                    *)
LEMMA RemoveAtThins ==
  ASSUME NEW q \in Seq(Events), NEW k \in 1..Len(q)
  PROVE  thins(RemoveAt(q, k), q)
<1> DEFINE r == RemoveAt(q, k)
           f == [i \in 1..Len(r) |-> IF i < k THEN i ELSE i + 1]
           a == SubSeq(q, 1, k - 1)
           b == SubSeq(q, k + 1, Len(q))
<1>0. Len(q) \in Nat /\ r \in Seq(Events) /\ Len(r) = Len(q) - 1 /\ r = a \o b
  BY LenProperties, RemoveAtLen, Zenon DEF RemoveAt
<1>1. /\ a \in Seq(Events) /\ Len(a) = k - 1 /\ \A i \in 1..(k - 1) : a[i] = q[i]
      /\ b \in Seq(Events) /\ Len(b) = Len(q) - k
      /\ \A i \in 1..(Len(q) - k) : b[i] = q[k + i]
  <2>0. Len(q) \in Nat /\ k \in Int /\ 1 <= k /\ k <= Len(q)
    BY <1>0
  <2>1. \A j \in 1..Len(q) : q[j] \in Events
    BY ElementOfSeq, Zenon
  <2>2. (\A j \in 1..(k - 1) : q[j] \in Events) /\ (\A j \in (k + 1)..Len(q) : q[j] \in Events)
    <3>1. (\A j \in 1..(k - 1) : j \in 1..Len(q)) /\ (\A j \in (k + 1)..Len(q) : j \in 1..Len(q))
      BY <2>0
    <3>. QED BY <2>1, <3>1, Zenon
  <2>3. /\ a \in Seq(Events) /\ Len(a) = (IF 1 <= k - 1 THEN (k - 1) - 1 + 1 ELSE 0)
        /\ \A i \in 1..((k - 1) - 1 + 1) : a[i] = q[1 + i - 1]
    BY <2>0, <2>2, SubSeqProperties
  <2>4. /\ b \in Seq(Events) /\ Len(b) = (IF k + 1 <= Len(q) THEN Len(q) - (k + 1) + 1 ELSE 0)
        /\ \A i \in 1..(Len(q) - (k + 1) + 1) : b[i] = q[(k + 1) + i - 1]
    BY <2>0, <2>2, SubSeqProperties
  <2> HIDE DEF a, b
  <2>5. /\ Len(a) = k - 1 /\ \A i \in 1..(k - 1) : a[i] = q[i]
    BY <2>3
  <2>6. /\ Len(b) = Len(q) - k /\ \A i \in 1..(Len(q) - k) : b[i] = q[k + i]
    BY <1>0, <2>4
  <2>. QED BY <2>3, <2>4, <2>5, <2>6, Zenon
<1> HIDE DEF a, b, r
<1>2. f \in [1..Len(r) -> 1..Len(q)]
  BY <1>0
<1>3. \A i, j \in 1..Len(r) : i < j => f[i] < f[j]
  BY <1>0
<1>4. ASSUME NEW i \in 1..Len(r) PROVE r[i] = q[f[i]]
  <2>1. r[i] = IF i <= Len(a) THEN a[i] ELSE b[i - Len(a)]
    BY <1>0, <1>1, ConcatProperties
  <2>2. CASE i < k
    BY <1>0, <1>1, <2>1, <2>2
  <2>3. CASE ~(i < k)
    <3>1. i - (k - 1) \in 1..(Len(q) - k) /\ k + (i - (k - 1)) = i + 1 /\ ~(i <= k - 1)
      BY <1>0, <2>3
    <3>. QED BY <1>1, <2>1, <2>3, <3>1, Zenon
  <2>. QED BY <2>2, <2>3, Zenon
<1>. QED BY <1>2, <1>3, <1>4, Zenon DEF thins, r

LEMMA TailThins ==
  ASSUME NEW q \in Seq(Events), q # <<>>
  PROVE  thins(Tail(q), q)
<1> DEFINE f == [i \in 1..Len(Tail(q)) |-> i + 1]
<1>1. Len(q) \in Nat /\ Len(Tail(q)) = Len(q) - 1 /\ \A i \in 1..Len(Tail(q)) : Tail(q)[i] = q[i + 1]
  BY LenProperties, HeadTailProperties, Zenon
<1>2. f \in [1..Len(Tail(q)) -> 1..Len(q)]
  BY <1>1
<1>3. /\ \A i \in 1..Len(Tail(q)) : Tail(q)[i] = q[f[i]]
      /\ \A i, j \in 1..Len(Tail(q)) : i < j => f[i] < f[j]
  BY <1>1
<1>. QED BY <1>2, <1>3, Zenon DEF thins

(* The threads named in a sequence of events.                              *)
LEMMA EventsNamed ==
  ASSUME NEW z \in Seq(Events)
  PROVE  \A i \in 1..Len(z) : z[i][1] \in Threads /\ z[i][2] \in Nat
<1>1. \A i \in 1..Len(z) : z[i] \in Events
  BY ElementOfSeq, Zenon
<1>2. \A e \in Events : e[1] \in Threads /\ e[2] \in Nat
  BY RouterAssumption DEF Events
<1>. QED BY <1>1, <1>2, Zenon

(* Freshness is lost only to an event that sets out.                       *)
LEMMA FreshRests ==
  ASSUME NEW z \in Seq(Events), NEW s \in Subs, fresh(z, s), UNCHANGED sent,
         \A u \in Threads : pending(u, s)' => pending(u, s)
  PROVE  fresh(z, s)'
<1>1. \A i \in 1..Len(z) : z[i][1] \in Threads
  BY EventsNamed, Zenon
<1>. QED BY <1>1, Zenon DEF fresh

(* A step that touches no queue and sends no event out.                    *)
LEMMA QuietOrder ==
  ASSUME TypeOK, OrderInv, UNCHANGED <<queue, taken, sent>>,
         \A u \in Threads, s \in Subs : pending(u, s)' => pending(u, s)
  PROVE  OrderInv'
<1>. SUFFICES ASSUME NEW s \in Subs
     PROVE  (/\ ordered(taken[s]) /\ ordered(queue[s]) /\ precedes(taken[s], queue[s])
             /\ fresh(taken[s], s) /\ fresh(queue[s], s))'
  BY Zenon DEF OrderInv
<1>1. /\ ordered(taken[s]) /\ ordered(queue[s]) /\ precedes(taken[s], queue[s])
      /\ fresh(taken[s], s) /\ fresh(queue[s], s)
      /\ taken[s] \in Seq(Events) /\ queue[s] \in Seq(Events)
  BY Zenon DEF OrderInv, TypeOK
<1>2. taken'[s] = taken[s] /\ queue'[s] = queue[s]
  BY Zenon
<1>3. fresh(taken[s], s)'
  <2>1. \A z \in Seq(Events) : fresh(z, s) => fresh(z, s)'
    BY FreshRests, Zenon
  <2>. QED BY <1>1, <1>2, <2>1, Zenon DEF fresh, pending
<1>4. fresh(queue[s], s)'
  <2>1. \A z \in Seq(Events) : fresh(z, s) => fresh(z, s)'
    BY FreshRests, Zenon
  <2>. QED BY <1>1, <1>2, <2>1, Zenon DEF fresh, pending
<1>5. (ordered(taken[s]) /\ ordered(queue[s]) /\ precedes(taken[s], queue[s]))'
  BY <1>1, <1>2, Zenon DEF ordered, precedes
<1>. QED BY <1>3, <1>4, <1>5, Zenon

(* The steps of a publisher that touch no queue.                           *)
LEMMA QuietSteps ==
  ASSUME IInv, OrderInv, NEW t \in Threads,
         \/ PublishFiltered(t) \/ PublishCheck(t) \/ DropIterate(t) \/ DropScan(t)
         \/ DropScanBroken(t) \/ DropDeleteBroken(t)
  PROVE  OrderInv'
<1>1. TypeOK /\ UNCHANGED <<queue, taken, sent>>
  BY Zenon DEF IInv, PublishFiltered, PublishCheck, DropIterate, DropScan, DropScanBroken,
     DropDeleteBroken, onward, raised, goto
<1>2. ASSUME NEW u \in Threads, NEW s \in Subs, pending(u, s)' PROVE pending(u, s)
  BY <1>1, <1>2 DEF TypeOK, pending, Subs, PublishFiltered, PublishCheck, DropIterate, DropScan,
     DropScanBroken, DropDeleteBroken, onward, raised, goto
<1>. QED BY <1>1, <1>2, QuietOrder

(* An event sets out: everything before it has a smaller number.           *)
LEMMA DispatchOrder ==
  ASSUME IInv, OrderInv, NEW t \in Threads, Dispatch(t)
  PROVE  OrderInv'
<1>0. /\ TypeOK /\ UNCHANGED <<queue, taken>> /\ sent' = [sent EXCEPT ![t] = @ + 1]
      /\ \A u \in Threads : sent[u] \in Nat
  BY RouterAssumption DEF IInv, TypeOK, Dispatch
<1>1. ASSUME NEW z \in Seq(Events), NEW s \in Subs, fresh(z, s) PROVE fresh(z, s)'
  <2>. SUFFICES ASSUME NEW i \in 1..Len(z)
       PROVE  /\ z[i][2] <= sent'[z[i][1]]
              /\ pending(z[i][1], s)' => z[i][2] < sent'[z[i][1]]
    BY Zenon DEF fresh
  <2>1. z[i][1] \in Threads /\ z[i][2] \in Nat
    BY EventsNamed, Zenon
  <2>2. /\ z[i][2] <= sent[z[i][1]]
        /\ pending(z[i][1], s) => z[i][2] < sent[z[i][1]]
    BY <1>1, Zenon DEF fresh
  <2>3. CASE z[i][1] = t
    BY <1>0, <2>1, <2>2, <2>3 DEF TypeOK
  <2>4. CASE z[i][1] # t
    <3>1. sent'[z[i][1]] = sent[z[i][1]] /\ (pending(z[i][1], s)' => pending(z[i][1], s))
      BY <1>0, <2>1, <2>4, Zenon DEF TypeOK, Dispatch, pending
    <3>. QED BY <2>2, <3>1, Zenon
  <2>. QED BY <2>3, <2>4, Zenon
<1>. SUFFICES ASSUME NEW s \in Subs
     PROVE  (/\ ordered(taken[s]) /\ ordered(queue[s]) /\ precedes(taken[s], queue[s])
             /\ fresh(taken[s], s) /\ fresh(queue[s], s))'
  BY Zenon DEF OrderInv
<1>2. /\ ordered(taken[s]) /\ ordered(queue[s]) /\ precedes(taken[s], queue[s])
      /\ fresh(taken[s], s) /\ fresh(queue[s], s)
      /\ taken[s] \in Seq(Events) /\ queue[s] \in Seq(Events)
      /\ taken'[s] = taken[s] /\ queue'[s] = queue[s]
  BY <1>0, Zenon DEF OrderInv, TypeOK
<1>3. (fresh(taken[s], s) /\ fresh(queue[s], s))'
  BY <1>1, <1>2, Zenon DEF fresh, pending
<1>4. (ordered(taken[s]) /\ ordered(queue[s]) /\ precedes(taken[s], queue[s]))'
  BY <1>2, Zenon DEF ordered, precedes
<1>. QED BY <1>3, <1>4, Zenon

(* What a step makes of one subscription, from what it makes of its two    *)
(* sequences.                                                              *)
LEMMA OrderFrom ==
  ASSUME \A s \in Subs :
           /\ ordered(taken'[s]) /\ ordered(queue'[s]) /\ precedes(taken'[s], queue'[s])
           /\ \A z \in {taken'[s], queue'[s]} : fresh(z, s)'
  PROVE  OrderInv'
<1>1. \A s \in Subs : (ordered(taken[s]) /\ ordered(queue[s]) /\ precedes(taken[s], queue[s]))'
  BY Zenon DEF ordered, precedes
<1>2. \A s \in Subs : (fresh(taken[s], s) /\ fresh(queue[s], s))'
  BY Zenon DEF fresh, pending
<1>. QED BY <1>1, <1>2, Zenon DEF OrderInv

(* A sequence and one more event that nothing is pending after.            *)
LEMMA FreshAppend ==
  ASSUME NEW q \in Seq(Events), NEW e \in Events, NEW s \in Subs,
         fresh(q, s)', e[2] <= sent'[e[1]], ~pending(e[1], s)'
  PROVE  fresh(Append(q, e), s)'
<1>1. /\ Len(q) \in Nat /\ Len(Append(q, e)) = Len(q) + 1
      /\ \A i \in 1..Len(q) : Append(q, e)[i] = q[i]
      /\ Append(q, e)[Len(q) + 1] = e
  BY AppendProperties, LenProperties
<1>. SUFFICES ASSUME NEW i \in 1..Len(Append(q, e))
     PROVE  /\ Append(q, e)[i][2] <= sent'[Append(q, e)[i][1]]
            /\ pending(Append(q, e)[i][1], s)' => Append(q, e)[i][2] < sent'[Append(q, e)[i][1]]
  BY Zenon DEF fresh
<1>2. CASE i \in 1..Len(q)
  BY <1>1, <1>2, Zenon DEF fresh
<1>3. CASE i = Len(q) + 1
  BY <1>1, <1>3, Zenon
<1>. QED BY <1>1, <1>2, <1>3

(* An event is appended: it is the last of its thread at this queue, and   *)
(* nothing of it is pending there any more.                                *)
LEMMA AppendOrder ==
  ASSUME IInv, OrderInv, NEW t \in Threads, PublishAppend(t)
  PROVE  OrderInv'
<1>0. /\ TypeOK /\ sub[t] \in Subs /\ sent[t] \in Nat /\ UNCHANGED <<taken, sent>>
      /\ queue' = [queue EXCEPT ![sub[t]] = Append(@, event(t))]
      /\ pending(t, sub[t]) /\ event(t) = <<t, sent[t]>> /\ event(t) \in Events
  <2>1. TypeOK /\ sub[t] \in Subs /\ sent[t] \in 0..MaxEvents /\ sent[t] > 0 /\ pc[t] = "append"
    BY Zenon DEF IInv, TypeOK, PublisherInv, PublishAppend
  <2>2. sent[t] \in Nat /\ sent[t] \in 1..MaxEvents
    BY <2>1, RouterAssumption
  <2>3. event(t) = <<t, sent[t]>> /\ event(t) \in Events
    BY <2>2, Zenon DEF event, Events
  <2>4. UNCHANGED <<taken, sent>> /\ queue' = [queue EXCEPT ![sub[t]] = Append(@, event(t))]
    BY Zenon DEF PublishAppend, change, onward
  <2>. QED BY <2>1, <2>2, <2>3, <2>4, Zenon DEF pending
<1>1. /\ \A u \in Threads, s \in Subs : pending(u, s)' => pending(u, s)
      /\ \A s \in Subs : s = sub[t] => ~pending(t, s)'
  <2>1. /\ pc[t] = "append" /\ sub' = [sub EXCEPT ![t] = "store"]
        /\ pc' = [pc EXCEPT ![t] = IF sub[t] = "anomaly" THEN "check" ELSE "idle"]
    BY DEF PublishAppend, onward
  <2>2. \A u \in Threads : u # t => pc'[u] = pc[u] /\ sub'[u] = sub[u]
    BY <1>0, <2>1, Zenon DEF TypeOK
  <2>3. sub'[t] = "store" /\ pc'[t] = IF sub[t] = "anomaly" THEN "check" ELSE "idle"
    BY <1>0, <2>1, Zenon DEF TypeOK
  <2>4. \A s \in Subs : pending(t, s)' => sub[t] = "anomaly" /\ s = "store"
    BY <2>3 DEF pending, Subs
  <2>. QED BY <2>1, <2>2, <2>4, Zenon DEF pending
<1>2. ASSUME NEW s \in Subs
      PROVE  /\ ordered(taken'[s]) /\ ordered(queue'[s]) /\ precedes(taken'[s], queue'[s])
             /\ \A z \in {taken'[s], queue'[s]} : fresh(z, s)'
  <2>1. /\ ordered(taken[s]) /\ ordered(queue[s]) /\ precedes(taken[s], queue[s])
        /\ fresh(taken[s], s) /\ fresh(queue[s], s)
        /\ taken[s] \in Seq(Events) /\ queue[s] \in Seq(Events) /\ taken'[s] = taken[s]
    BY <1>0, Zenon DEF OrderInv, TypeOK
  <2>2. \A z \in Seq(Events) : fresh(z, s) => fresh(z, s)'
    BY <1>0, <1>1, FreshRests
  <2>3. CASE s # sub[t]
    <3>1. queue'[s] = queue[s]
      BY <1>0, <2>3, Zenon DEF TypeOK
    <3>. QED BY <2>1, <2>2, <3>1, Zenon
  <2>4. CASE s = sub[t]
    <3> DEFINE q == queue[s]
               r == Append(q, event(t))
    <3>1. queue'[s] = r
      BY <1>0, <2>4, Zenon DEF TypeOK
    <3>2. /\ Len(q) \in Nat /\ r \in Seq(Events) /\ Len(r) = Len(q) + 1
          /\ \A i \in 1..Len(q) : r[i] = q[i]
          /\ r[Len(q) + 1] = event(t)
      BY <1>0, <2>1, AppendProperties, LenProperties
    <3>3. ASSUME NEW z \in Seq(Events), fresh(z, s), NEW i \in 1..Len(z)
          PROVE  later(z[i], event(t))
      BY <1>0, <2>4, <3>3 DEF fresh, later
    <3> HIDE DEF q, r
    <3>4. ordered(q) /\ precedes(taken[s], q) /\ fresh(q, s) /\ q \in Seq(Events)
      BY <2>1, Zenon DEF q
    <3>5. ordered(r)
      <4>. SUFFICES ASSUME NEW i \in 1..Len(r), NEW j \in 1..Len(r), i < j PROVE later(r[i], r[j])
        BY Zenon DEF ordered
      <4>1. CASE j \in 1..Len(q)
        BY <3>2, <3>4, <4>1 DEF ordered
      <4>2. CASE j = Len(q) + 1
        <5>1. i \in 1..Len(q)
          BY <3>2, <4>2
        <5>. QED BY <3>2, <3>3, <3>4, <4>2, <5>1, Zenon
      <4>. QED BY <3>2, <4>1, <4>2
    <3>6. precedes(taken[s], r)
      <4>. SUFFICES ASSUME NEW i \in 1..Len(taken[s]), NEW j \in 1..Len(r)
           PROVE  later(taken[s][i], r[j])
        BY Zenon DEF precedes
      <4>1. CASE j \in 1..Len(q)
        BY <3>2, <3>4, <4>1, Zenon DEF precedes
      <4>2. CASE j = Len(q) + 1
        BY <2>1, <3>2, <3>3, <4>2
      <4>. QED BY <3>2, <4>1, <4>2
    <3>7. \A z : z = r => fresh(z, s)'
      <4>1. ASSUME NEW x \in Seq(Events), NEW e \in Events, x = q, e = event(t)
            PROVE  fresh(Append(x, e), s)'
        BY <1>0, <1>1, <2>2, <2>4, <3>4, <4>1, FreshAppend
      <4>. QED BY <1>0, <3>4, <4>1, Zenon DEF r
    <3>. QED BY <2>1, <2>2, <3>1, <3>5, <3>6, <3>7
  <2>. QED BY <2>3, <2>4, Zenon
<1>. QED BY <1>2, OrderFrom, Zenon

(* A victim is deleted: what is left of the queue is in order.             *)
LEMMA DeleteOrder ==
  ASSUME IInv, OrderInv, NEW t \in Threads, DropDelete(t)
  PROVE  OrderInv'
<1>0. /\ TypeOK /\ sub[t] \in Subs /\ UNCHANGED <<taken, sent>>
      /\ queue' = [queue EXCEPT ![sub[t]] = RemoveAt(@, index[t])]
      /\ queue[sub[t]] \in Seq(Events) /\ index[t] \in 1..Len(queue[sub[t]])
  <2>1. queue[sub[t]] \in Seq(Events) /\ Len(queue[sub[t]]) \in Nat /\ sub[t] \in Subs
    BY LenProperties, Zenon DEF IInv, TypeOK
  <2>. QED BY <2>1 DEF IInv, TypeOK, PublisherInv, DropDelete, change, goto
<1>1. \A u \in Threads, s \in Subs : pending(u, s)' => pending(u, s)
  BY <1>0, Zenon DEF TypeOK, DropDelete, goto, pending
<1>2. ASSUME NEW s \in Subs
      PROVE  /\ ordered(taken'[s]) /\ ordered(queue'[s]) /\ precedes(taken'[s], queue'[s])
             /\ \A z \in {taken'[s], queue'[s]} : fresh(z, s)'
  <2>1. /\ ordered(taken[s]) /\ ordered(queue[s]) /\ precedes(taken[s], queue[s])
        /\ fresh(taken[s], s) /\ fresh(queue[s], s)
        /\ taken[s] \in Seq(Events) /\ queue[s] \in Seq(Events) /\ taken'[s] = taken[s]
    BY <1>0, Zenon DEF OrderInv, TypeOK
  <2>2. \A z \in Seq(Events) : fresh(z, s) => fresh(z, s)'
    BY <1>0, <1>1, FreshRests, Zenon
  <2>3. CASE s # sub[t]
    <3>1. queue'[s] = queue[s]
      BY <1>0, <2>3, Zenon DEF TypeOK
    <3>. QED BY <2>1, <2>2, <3>1
  <2>4. CASE s = sub[t]
    <3>1. queue'[s] = RemoveAt(queue[s], index[t]) /\ index[t] \in 1..Len(queue[s])
      BY <1>0, <2>4 DEF TypeOK
    <3>2. queue'[s] \in Seq(Events) /\ thins(queue'[s], queue[s])
      BY <2>1, <3>1, RemoveAtThins, RemoveAtLen, Zenon
    <3>3. ordered(queue'[s]) /\ precedes(taken[s], queue'[s]) /\ fresh(queue'[s], s)
      BY <2>1, <3>2, Thinned, Zenon
    <3>. QED BY <2>1, <2>2, <3>2, <3>3, Zenon
  <2>. QED BY <2>3, <2>4, Zenon
<1>. QED BY <1>2, OrderFrom, Zenon

(* popleft moves the first of the queue to the end of what was taken.      *)
LEMMA PopOrder ==
  ASSUME IInv, OrderInv, NEW c \in Subs, ConsumePop(c)
  PROVE  OrderInv'
<1>0. /\ TypeOK /\ UNCHANGED <<pc, sub, sent>>
      /\ queue[c] \in Seq(Events) /\ taken[c] \in Seq(Events) /\ queue[c] # <<>>
      /\ queue' = [queue EXCEPT ![c] = Tail(@)]
      /\ taken' = [taken EXCEPT ![c] = Append(@, Head(queue[c]))]
  BY Zenon DEF IInv, TypeOK, ConsumePop, change, pubVars
<1>1. \A u \in Threads, s \in Subs : pending(u, s)' => pending(u, s)
  BY <1>0 DEF pending
<1>2. ASSUME NEW s \in Subs
      PROVE  /\ ordered(taken'[s]) /\ ordered(queue'[s]) /\ precedes(taken'[s], queue'[s])
             /\ \A z \in {taken'[s], queue'[s]} : fresh(z, s)'
  <2>1. /\ ordered(taken[s]) /\ ordered(queue[s]) /\ precedes(taken[s], queue[s])
        /\ fresh(taken[s], s) /\ fresh(queue[s], s)
        /\ taken[s] \in Seq(Events) /\ queue[s] \in Seq(Events)
    BY <1>0, Zenon DEF OrderInv, TypeOK
  <2>2. \A z \in Seq(Events) : fresh(z, s) => fresh(z, s)'
    BY <1>0, <1>1, FreshRests
  <2>3. CASE s # c
    <3>1. queue'[s] = queue[s] /\ taken'[s] = taken[s]
      BY <1>0, <2>3 DEF TypeOK
    <3>. QED BY <2>1, <2>2, <3>1, Zenon
  <2>4. CASE s = c
    <3> DEFINE q == queue[s]
               y == taken[s]
               r == Append(y, Head(q))
    <3>1. queue'[s] = Tail(q) /\ taken'[s] = r /\ q # <<>>
      BY <1>0, <2>4 DEF TypeOK
    <3>2. /\ Len(q) \in Nat /\ 1 \in 1..Len(q) /\ Head(q) = q[1] /\ Head(q) \in Events
          /\ Tail(q) \in Seq(Events) /\ Len(Tail(q)) = Len(q) - 1
          /\ \A i \in 1..Len(Tail(q)) : Tail(q)[i] = q[i + 1] /\ i + 1 \in 1..Len(q) /\ 1 < i + 1
      BY <2>1, <3>1, HeadTailProperties, LenProperties, EmptySeq
    <3>3. /\ Len(y) \in Nat /\ r \in Seq(Events) /\ Len(r) = Len(y) + 1
          /\ \A i \in 1..Len(y) : r[i] = y[i]
          /\ r[Len(y) + 1] = q[1]
      BY <2>1, <3>2, AppendProperties, LenProperties
    <3>4. thins(Tail(q), q)
      BY <2>1, <3>1, TailThins, Zenon
    <3> HIDE DEF q, y, r
    <3>5. /\ ordered(y) /\ ordered(q) /\ precedes(y, q) /\ fresh(y, s) /\ fresh(q, s)
          /\ q \in Seq(Events) /\ y \in Seq(Events)
      BY <2>1, Zenon DEF q, y
    <3>6. ordered(Tail(q)) /\ precedes(y, Tail(q)) /\ fresh(Tail(q), s)
      BY <3>2, <3>4, <3>5, Thinned, Zenon
    <3>7. ordered(r)
      <4>. SUFFICES ASSUME NEW i \in 1..Len(r), NEW j \in 1..Len(r), i < j PROVE later(r[i], r[j])
        BY Zenon DEF ordered
      <4>1. CASE j \in 1..Len(y)
        BY <3>3, <3>5, <4>1 DEF ordered
      <4>2. CASE j = Len(y) + 1
        <5>1. i \in 1..Len(y)
          BY <3>3, <4>2
        <5>. QED BY <3>2, <3>3, <3>5, <4>2, <5>1, Zenon DEF precedes
      <4>. QED BY <3>3, <4>1, <4>2
    <3>8. precedes(r, Tail(q))
      <4>. SUFFICES ASSUME NEW i \in 1..Len(r), NEW j \in 1..Len(Tail(q))
           PROVE  later(r[i], Tail(q)[j])
        BY Zenon DEF precedes
      <4>1. CASE i \in 1..Len(y)
        BY <3>3, <3>6, <4>1, Zenon DEF precedes
      <4>2. CASE i = Len(y) + 1
        BY <3>2, <3>3, <3>5, <4>2, Zenon DEF ordered
      <4>. QED BY <3>3, <4>1, <4>2
    <3>9. fresh(r, s)
      <4>. SUFFICES ASSUME NEW i \in 1..Len(r)
           PROVE  /\ r[i][2] <= sent[r[i][1]]
                  /\ pending(r[i][1], s) => r[i][2] < sent[r[i][1]]
        BY Zenon DEF fresh
      <4>1. CASE i \in 1..Len(y)
        BY <3>3, <3>5, <4>1, Zenon DEF fresh
      <4>2. CASE i = Len(y) + 1
        BY <3>2, <3>3, <3>5, <4>2 DEF fresh
      <4>. QED BY <3>3, <4>1, <4>2
    <3>. QED BY <2>2, <3>1, <3>2, <3>3, <3>6, <3>7, <3>8, <3>9, Zenon
  <2>. QED BY <2>3, <2>4, Zenon
<1>. QED BY <1>2, OrderFrom, Zenon

(* Whatever is dropped and however publishers interleave, get_nowait hands *)
(* out the events of one thread in the order it dispatched them, none      *)
(* twice.                                                                  *)
THEOREM OrderHolds == Spec => []OrderKept
<1>1. Init => OrderInv
  <2>. SUFFICES ASSUME Init, NEW s \in Subs
       PROVE  /\ ordered(taken[s]) /\ ordered(queue[s]) /\ precedes(taken[s], queue[s])
              /\ fresh(taken[s], s) /\ fresh(queue[s], s)
    BY Zenon DEF OrderInv
  <2>1. taken[s] = <<>> /\ queue[s] = <<>> /\ Len(<<>>) = 0
    BY EmptySeq, Zenon DEF Init
  <2>. QED BY <2>1 DEF ordered, precedes, fresh
<1>2. IInv /\ OrderInv /\ [Next]_vars => OrderInv'
  <2>. SUFFICES ASSUME IInv, OrderInv, [Next]_vars PROVE OrderInv'
    BY Zenon
  <2>1. ASSUME NEW t \in Threads, Dispatch(t) \/ Publish(t) PROVE OrderInv'
    BY <2>1, DispatchOrder, QuietSteps, AppendOrder, DeleteOrder DEF Publish
  <2>2. ASSUME NEW s \in Subs, Consume(s) PROVE OrderInv'
    <3>1. CASE ConsumePop(s)
      BY <3>1, PopOrder
    <3>2. CASE ConsumeTest(s) \/ ConsumeBroken(s)
      <4>1. TypeOK /\ UNCHANGED <<queue, taken, sent>> /\ UNCHANGED <<pc, sub>>
        BY <3>2, Zenon DEF IInv, ConsumeTest, ConsumeBroken, pubVars
      <4>. QED BY <4>1, QuietOrder, Zenon DEF pending
    <3>. QED BY <2>2, <3>1, <3>2, Zenon DEF Consume
  <2>3. CASE UNCHANGED vars
    <3>1. TypeOK /\ UNCHANGED <<queue, taken, sent>> /\ UNCHANGED <<pc, sub>>
      BY <2>3, Zenon DEF IInv, vars, pubVars
    <3>. QED BY <3>1, QuietOrder, Zenon DEF pending
  <2>. QED BY <2>1, <2>2, <2>3, Zenon DEF Next
<1>3. IInv /\ OrderInv => OrderKept
  <2>. SUFFICES ASSUME IInv, OrderInv, NEW s \in Subs
       PROVE  ordered(taken[s] \o queue[s])
    BY Zenon DEF OrderKept, ordered, later
  <2>1. /\ ordered(taken[s]) /\ ordered(queue[s]) /\ precedes(taken[s], queue[s])
        /\ taken[s] \in Seq(Events) /\ queue[s] \in Seq(Events)
    BY Zenon DEF IInv, OrderInv, TypeOK
  <2>. QED BY <2>1, ConcatOrdered, Zenon
<1>. QED BY <1>1, <1>2, <1>3, Invariance, PTL DEF Spec
=============================================================================
