------------------------------- MODULE Router -------------------------------
(***************************************************************************)
(* EventRouter and its two subscriptions (inspectord/router.py).  Every    *)
(* thread that runs Supervisor._dispatch publishes; the anomaly detector   *)
(* consumes "anomaly", the drain thread consumes "store".  The deques have *)
(* no lock, so each read and each update of one is a step of its own.      *)
(***************************************************************************)
EXTENDS Naturals, Sequences, FiniteSets, SequencesExt

CONSTANTS
  Threads,      \* threads that call _dispatch: readers, monitor, detector...
  Detector,     \* the one whose events the "anomaly" filter turns away
  QueueSize,    \* queue_size
  MaxEvents     \* model bound: events each thread dispatches

ASSUME RouterAssumption ==
  /\ IsFiniteSet(Threads) /\ Threads # {}
  /\ QueueSize \in Nat \ {0}
  /\ MaxEvents \in Nat

VARIABLES
  queue,        \* Subscription._q
  pc, sub,      \* each publisher: where it is, and at which subscription
  sent,         \* events it has dispatched: <<t, sent[t]>> is the last one
  index,        \* i of _try_drop_oldest_non_critical
  stale,        \* the deque changed under its iterator
  consumer,     \* each subscription's consumer
  taken,        \* history: what get_nowait returned
  critical      \* the events of severity critical

pubVars == <<pc, sub, sent, index>>
vars == <<queue, pubVars, stale, consumer, taken, critical>>

Subs   == {"anomaly", "store"}
Events == Threads \X (1..MaxEvents)

Init ==
  /\ queue = [s \in Subs |-> <<>>]
  /\ pc = [t \in Threads |-> "idle"]
  /\ sub = [t \in Threads |-> "anomaly"]
  /\ sent = [t \in Threads |-> 0]
  /\ index = [t \in Threads |-> 0]
  /\ stale = [t \in Threads |-> FALSE]
  /\ consumer = [s \in Subs |-> "idle"]
  /\ taken = [s \in Subs |-> <<>>]
  /\ critical \in SUBSET Events

event(t) == <<t, sent[t]>>

(* A change of a deque invalidates the iterators over it. *)
change(s, q) ==
  /\ queue' = [queue EXCEPT ![s] = q]
  /\ stale' = [t \in Threads |-> stale[t] \/ (pc[t] = "scan" /\ sub[t] = s)]

-----------------------------------------------------------------------------
(* _dispatch: enrichment and the alert path, which may fail, then publish. *)
Dispatch(t) ==
  /\ pc[t] = "idle"
  /\ sent[t] < MaxEvents
  /\ sent' = [sent EXCEPT ![t] = @ + 1]
  /\ sub' = [sub EXCEPT ![t] = "anomaly"]
  /\ pc' = [pc EXCEPT ![t] = "check"]
  /\ UNCHANGED <<queue, index, stale, consumer, taken, critical>>

goto(t, label) == pc' = [pc EXCEPT ![t] = label] /\ UNCHANGED <<sub, sent>>

(* To the next subscription of publish's loop, or out of it. *)
onward(t) ==
  /\ sub' = [sub EXCEPT ![t] = "store"]
  /\ pc' = [pc EXCEPT ![t] = IF sub[t] = "anomaly" THEN "check" ELSE "idle"]
  /\ UNCHANGED sent

(* publish raises: _dispatch logs it and drops the event for the           *)
(* subscriptions not yet reached as well.                                  *)
raised(t) == goto(t, "idle")

filtered(t) == sub[t] = "anomaly" /\ t = Detector

PublishFiltered(t) ==
  /\ pc[t] = "check" /\ filtered(t)
  /\ onward(t)
  /\ UNCHANGED <<queue, index, stale, consumer, taken, critical>>

(* len(sub._q) < sub.queue_size *)
PublishCheck(t) ==
  /\ pc[t] = "check" /\ ~filtered(t)
  /\ goto(t, IF Len(queue[sub[t]]) < QueueSize THEN "append" ELSE "full")
  /\ UNCHANGED <<queue, index, stale, consumer, taken, critical>>

PublishAppend(t) ==
  /\ pc[t] = "append"
  /\ change(sub[t], Append(queue[sub[t]], event(t)))
  /\ onward(t)
  /\ UNCHANGED <<index, consumer, taken, critical>>

(* _try_drop_oldest_non_critical: the iteration, its end, the deletion by  *)
(* index and the append that follows it.                                   *)
DropIterate(t) ==
  /\ pc[t] = "full"
  /\ stale' = [stale EXCEPT ![t] = FALSE]
  /\ goto(t, "scan")
  /\ UNCHANGED <<queue, index, consumer, taken, critical>>

victim(s) == SelectInSeq(queue[s], LAMBDA e : e \notin critical)

DropScan(t) ==
  /\ pc[t] = "scan" /\ ~stale[t]
  /\ index' = [index EXCEPT ![t] = victim(sub[t])]
  /\ IF victim(sub[t]) = 0 THEN raised(t) ELSE goto(t, "delete")
  /\ UNCHANGED <<queue, stale, consumer, taken, critical>>

(* RuntimeError: deque mutated during iteration *)
DropScanBroken(t) ==
  /\ pc[t] = "scan" /\ stale[t]
  /\ raised(t)
  /\ UNCHANGED <<queue, index, stale, consumer, taken, critical>>

\* mutation: the victim stays in the deque
DropDelete_Kept(t) ==
  /\ pc[t] = "delete"
  /\ index[t] <= Len(queue[sub[t]])
  /\ goto(t, "append")
  /\ UNCHANGED <<queue, stale, index, consumer, taken, critical>>

DropDelete(t) ==
  /\ pc[t] = "delete"
  /\ index[t] <= Len(queue[sub[t]])
  /\ change(sub[t], RemoveAt(queue[sub[t]], index[t]))
  /\ goto(t, "append")
  /\ UNCHANGED <<index, consumer, taken, critical>>

(* IndexError: deque index out of range *)
DropDeleteBroken(t) ==
  /\ pc[t] = "delete"
  /\ index[t] > Len(queue[sub[t]])
  /\ raised(t)
  /\ UNCHANGED <<queue, index, stale, consumer, taken, critical>>

-----------------------------------------------------------------------------
(* get_nowait: the test for an empty deque and the popleft. *)
ConsumeTest(s) ==
  /\ consumer[s] = "idle"
  /\ queue[s] # <<>>
  /\ consumer' = [consumer EXCEPT ![s] = "pop"]
  /\ UNCHANGED <<queue, pubVars, stale, taken, critical>>

\* mutation: pop instead of popleft
ConsumePop_Newest(s) ==
  /\ consumer[s] = "pop"
  /\ queue[s] # <<>>
  /\ taken' = [taken EXCEPT ![s] = Append(@, Last(queue[s]))]
  /\ change(s, Front(queue[s]))
  /\ consumer' = [consumer EXCEPT ![s] = "idle"]
  /\ UNCHANGED <<pubVars, critical>>

ConsumePop(s) ==
  /\ consumer[s] = "pop"
  /\ queue[s] # <<>>
  /\ taken' = [taken EXCEPT ![s] = Append(@, Head(queue[s]))]
  /\ change(s, Tail(queue[s]))
  /\ consumer' = [consumer EXCEPT ![s] = "idle"]
  /\ UNCHANGED <<pubVars, critical>>

(* popleft of a deque emptied since the test: IndexError.  The detector's  *)
(* loop catches it; _drain catches QueueEmpty only, and its thread ends.   *)
ConsumeBroken(s) ==
  /\ consumer[s] = "pop"
  /\ queue[s] = <<>>
  /\ consumer' = [consumer EXCEPT ![s] = IF s = "store" THEN "dead" ELSE "idle"]
  /\ UNCHANGED <<queue, pubVars, stale, taken, critical>>

-----------------------------------------------------------------------------
Publish(t) ==
  \/ PublishFiltered(t) \/ PublishCheck(t) \/ PublishAppend(t)
  \/ DropIterate(t) \/ DropScan(t) \/ DropScanBroken(t)
  \/ DropDelete(t) \/ DropDeleteBroken(t)

Consume(s) == ConsumeTest(s) \/ ConsumePop(s) \/ ConsumeBroken(s)

Next ==
  \/ \E t \in Threads : Dispatch(t) \/ Publish(t)
  \/ \E s \in Subs : Consume(s)

Spec == Init /\ [][Next]_vars

-----------------------------------------------------------------------------
(* The shapes of the queues, of each publisher and of each consumer. *)
TypeOK ==
  /\ queue \in [Subs -> Seq(Events)]
  /\ pc \in [Threads -> {"idle", "check", "append", "full", "scan", "delete"}]
  /\ sub \in [Threads -> Subs]
  /\ sent \in [Threads -> 0..MaxEvents]
  /\ index \in [Threads -> Nat]
  /\ stale \in [Threads -> BOOLEAN]
  /\ consumer \in [Subs -> {"idle", "pop", "dead"}]
  /\ taken \in [Subs -> Seq(Events)]
  /\ critical \subseteq Events

(* The length test and the append are two steps, so publishers overshoot   *)
(* queue_size together, but by no more than one event for each publisher   *)
(* but one: the drop path removes an event before it appends another.      *)
QueueBounded ==
  \A s \in Subs : Len(queue[s]) < QueueSize + Cardinality(Threads)

(* Whatever is dropped and however publishers interleave, a consumer sees  *)
(* the events of one thread in the order it dispatched them, none twice.   *)
OrderKept ==
  \A s \in Subs :
    LET seen == taken[s] \o queue[s]
    IN  \A i, j \in 1..Len(seen) :
          i < j /\ seen[i][1] = seen[j][1] => seen[i][2] < seen[j][2]

(* The drain thread outlives every event: nothing the publishers do ends   *)
(* the loop of _drain.                                                     *)
DrainSurvives == consumer["store"] # "dead"
=============================================================================
