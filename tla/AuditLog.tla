------------------------------ MODULE AuditLog ------------------------------
(* The hash-chained audit log and its anchors.  A hash is modelled by what  *)
(* it commits to: the hash of a row is the sequence of the contents hashed  *)
(* up to it, so two hashes are equal exactly when the chains below are.     *)
EXTENDS Integers, Sequences, FiniteSets, FiniteSetsExt
CONSTANT EventsDays     \* age at which retention deletes an event row

ZERO_HASH == <<>>

\* _row_hash_from_stored
row_hash(seq, ts, what, prev) == Append(prev, <<seq, ts, what>>)

\* append_audit: the row after the head of the table.
NextRow(rows, ts) ==
  LET head == rows[Len(rows)]
      seq  == IF rows = <<>> THEN 1 ELSE head.seq + 1
      prev == IF rows = <<>> THEN ZERO_HASH ELSE head.hash
  IN  [seq |-> seq, ts |-> ts, what |-> "action", prev |-> prev,
       hash |-> row_hash(seq, ts, "action", prev)]

\* The sum a failed append leaves in the module's window of outcomes.
LastOutcomes(outcomes, ok, n) ==
  LET all == Append(outcomes, ok)
  IN  SubSeq(all, IF Len(all) > n THEN Len(all) - n + 1 ELSE 1, Len(all))

failures(outcomes) == Len(SelectSeq(outcomes, LAMBDA ok : ~ok))

\* newest_anchor: the audit_head event with the latest time, the later id on a tie.
NoAnchor == [ts |-> -1, id |-> 0, seq |-> 0, hash |-> <<>>]

newest_anchor(anchors) ==
  IF anchors = {} THEN NoAnchor
  ELSE CHOOSE a \in anchors :
         \A b \in anchors : a.ts > b.ts \/ (a.ts = b.ts /\ a.id >= b.id)

\* verify_audit_chain: the walk over the rows, then the anchored row.
ChainWalk(rows) ==
  \A i \in DOMAIN rows :
    /\ rows[i].seq = i
    /\ rows[i].prev = (IF i = 1 THEN ZERO_HASH ELSE rows[i-1].hash)
    /\ rows[i].hash = row_hash(rows[i].seq, rows[i].ts, rows[i].what, rows[i].prev)

AnchorHeld(rows, anchor) ==
  anchor # NoAnchor =>
    \E i \in DOMAIN rows : rows[i].seq = anchor.seq /\ rows[i].hash = anchor.hash

verify_audit_chain(rows, anchor) == ChainWalk(rows) /\ AnchorHeld(rows, anchor)

\* prune_events on the anchors: what it may delete; the newest one is exempt.
prunable_events_NoExemption(anchors, now) ==
  {a \in anchors : a.ts < now - EventsDays}

prunable_events(anchors, now) ==
  {a \in anchors : a.ts < now - EventsDays} \ {newest_anchor(anchors)}

\* One run deletes at most max_rows of them, which ones the query leaves open.
prune_events(anchors, now, max_rows) ==
  LET old == prunable_events(anchors, now)
      n   == IF Cardinality(old) < max_rows THEN Cardinality(old) ELSE max_rows
  IN  {anchors \ gone : gone \in kSubset(n, old)}
=============================================================================
