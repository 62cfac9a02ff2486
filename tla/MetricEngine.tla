---------------------------- MODULE MetricEngine ----------------------------
(* The statistics of the anomaly detector: minute buckets and the rings     *)
(* they are closed into (anomaly/stats.py), the inter-arrival times of      *)
(* connections (anomaly/beacon.py) and the sustained-deviation rule         *)
(* (anomaly/entity_baseline.py).  Every operator is a function.  Rates are  *)
(* counts, and the tests on mean and deviation are multiplied out.          *)
EXTENDS Integers, FiniteSets, TLC, SequencesExt, Functions

CONSTANTS MaxEntities,      \* max_entities_per_metric (512)
          Capacity,         \* slots of a ring (60)
          Width,            \* minutes of a wide bucket (5)
          MinSamples,       \* min_samples (50)
          ZThreshold,       \* z_threshold (3)
          MaxCatchup,       \* _MAX_CATCHUP_MINUTES (180)
          BeaconRing,       \* _RING_SIZE (32)
          BeaconMinEvents,  \* beacon_min_events (12)
          BeaconMinInterval, BeaconMaxInterval,
          SustainedFactor, SustainedTicks   \* 5 and 6

Never == -1

Total(s) == FoldLeft(LAMBDA a, b : a + b, 0, s)

Squares(s) == FoldLeft(LAMBDA a, b : a + b * b, 0, s)

LastOf(s, n) == SubSeq(s, IF Len(s) > n THEN Len(s) - n + 1 ELSE 1, Len(s))

\* A function without the keys of a set.
Without(f, S) == Restrict(f, DOMAIN f \ S)

(* ----------------------------- WindowedStats ---------------------------- *)

NoStats == [ring |-> <<>>, wide |-> <<>>, total |-> 0, minutes |-> 0]

\* |value - mean| / stddev >= z_threshold, and no test on a constant series.
evaluate(ring, value) ==
  LET n == Len(ring)
      spread == n * Squares(ring) - Total(ring) * Total(ring)
      off == n * value - Total(ring)
  IN  n >= MinSamples /\ spread > 0 /\ off * off >= ZThreshold * ZThreshold * spread

push_minute_NoReset(ws, value) ==
  LET total == ws.total + value
      closes == ws.minutes + 1 >= Width
  IN  [stats |-> [ring |-> LastOf(Append(ws.ring, value), Capacity),
                  wide |-> IF closes THEN LastOf(Append(ws.wide, total), Capacity) ELSE ws.wide,
                  total |-> total, minutes |-> IF closes THEN 0 ELSE ws.minutes + 1],
       told |-> {}]

\* The value is judged before it joins the ring it is judged against.  A wide
\* window (24h stands for both) takes the sum of Width minutes.
push_minute(ws, value) ==
  LET total == ws.total + value
      closes == ws.minutes + 1 >= Width
  IN  [stats |-> [ring |-> LastOf(Append(ws.ring, value), Capacity),
                  wide |-> IF closes THEN LastOf(Append(ws.wide, total), Capacity) ELSE ws.wide,
                  total |-> IF closes THEN 0 ELSE total,
                  minutes |-> IF closes THEN 0 ELSE ws.minutes + 1],
       told |-> {w \in {"1h", "24h"} : \/ w = "1h" /\ evaluate(ws.ring, value)
                                       \/ w = "24h" /\ closes /\ evaluate(ws.wide, total)}]

(* ------------------------------ MetricEngine ---------------------------- *)

NoEngine == [stats |-> <<>>, active |-> <<>>, buckets |-> <<>>, closed |-> Never]

\* A full engine gives up the entity that was active least lately, and its
\* open buckets with it.
admit(e, k) ==
  LET active(j) == e.active[j]
      victims == IF Cardinality(DOMAIN e.stats) < MaxEntities THEN {}
                 ELSE {CHOOSE j \in DOMAIN e.stats : \A i \in DOMAIN e.stats : active(j) <= active(i)}
  IN  [e EXCEPT !.stats = (k :> NoStats) @@ Without(@, victims),
                !.active = (k :> Never) @@ Without(@, victims),
                !.buckets = Without(@, {b \in DOMAIN @ : b[2] \in victims})]

\* A late event counts in the oldest minute that is still open.
ingest(e, k, minute) ==
  LET f == IF k \in DOMAIN e.stats THEN e ELSE admit(e, k)
      m == IF f.closed # Never /\ minute <= f.closed THEN f.closed + 1 ELSE minute
      b == <<m, k>>
  IN  [f EXCEPT !.active[k] = m, !.buckets = (b :> 1 + IF b \in DOMAIN @ THEN @[b] ELSE 0) @@ @]

\* One minute is closed: every entity gets its bucket, or a zero.
close_minute(r, minute) ==
  LET keys == DOMAIN r.engine.stats
      value(k) == IF <<minute, k>> \in DOMAIN r.engine.buckets THEN r.engine.buckets[<<minute, k>>] ELSE 0
      pushed == [k \in keys |-> push_minute(r.engine.stats[k], value(k))]
  IN  [engine |-> [r.engine EXCEPT !.stats = [k \in keys |-> pushed[k].stats], !.closed = minute,
                                   !.buckets = Without(@, {<<minute, k>> : k \in keys})],
       fed |-> [k \in keys |-> Append(r.fed[k], value(k))],
       signals |-> r.signals \cup
         {[minute |-> minute, key |-> p[1], window |-> p[2], after |-> Len(r.fed[p[1]])] :
            p \in {<<j, v>> \in keys \X {"1h", "24h"} : v \in pushed[j].told}}]

\* The minute the next one to be closed follows, before the first tick: the one
\* before the oldest open bucket.
OldestOpen(e, now) ==
  LET open == {b[1] : b \in DOMAIN e.buckets}
  IN  IF open = {} THEN now ELSE CHOOSE m \in open : \A o \in open : m <= o

first_closed(e, now) == IF e.closed # Never THEN e.closed ELSE OldestOpen(e, now) - 1

\* Every minute before this one is closed; after a gap that is too long none of
\* it is, and what was open of it is dropped.
tick(e, fed, now) ==
  LET last == first_closed(e, now)
      slept == now - (last + 1) > MaxCatchup
      gone == IF slept THEN {b \in DOMAIN e.buckets : b[1] < now} ELSE {}
      start == IF slept THEN now ELSE last + 1
      minutes == [i \in 1..(IF now > start THEN now - start ELSE 0) |-> start + i - 1]
      begun == [engine |-> [e EXCEPT !.closed = start - 1, !.buckets = Without(@, gone)],
                fed |-> fed, signals |-> {}]
  IN  FoldLeft(close_minute, begun, minutes)

(* ------------------------------ BeaconTracker --------------------------- *)

NoBeacon == [last |-> Never, seen |-> Never, intervals |-> <<>>]

\* The mean lies within bounds and the coefficient of variation is under 1/10.
beacon_evaluate(b) ==
  LET n == Len(b.intervals)
      s == Total(b.intervals)
  IN  /\ n >= BeaconMinEvents /\ s > 0
      /\ n * BeaconMinInterval <= s /\ s <= n * BeaconMaxInterval
      /\ 100 * (n * Squares(b.intervals) - s * s) < s * s

beacon_admit(bs, k) ==
  LET victims == IF k \in DOMAIN bs \/ Cardinality(DOMAIN bs) < MaxEntities THEN {}
                 ELSE {CHOOSE j \in DOMAIN bs : \A i \in DOMAIN bs : bs[j].seen <= bs[i].seen}
  IN  IF k \in DOMAIN bs THEN bs ELSE (k :> NoBeacon) @@ Without(bs, victims)

beacon_observe(bs, k, ts) ==
  LET a == beacon_admit(bs, k)
  IN  [a EXCEPT ![k] = [last |-> ts, seen |-> ts,
                        intervals |-> IF @.last = Never THEN @.intervals
                                      ELSE LastOf(Append(@.intervals, ts - @.last), BeaconRing)]]

\* What is restored has no observation to take the next interval from; the
\* time it was last seen only orders the evictions.
beacon_load_row(b) == [b EXCEPT !.last = Never]

(* ----------------------------- ResourceSampler -------------------------- *)

\* One sample against the ring: the streak grows while the value exceeds the
\* factor times the mean, and the ring is frozen until the streak fires.
observe(st, value) ==
  LET ring == st.ring
      judged == Len(ring) >= MinSamples
      breach == judged /\ Total(ring) > 0 /\ value * Len(ring) > SustainedFactor * Total(ring)
      streak == IF ~judged THEN st.streak ELSE IF breach THEN st.streak + 1 ELSE 0
  IN  [ring |-> IF 0 < streak /\ streak < SustainedTicks THEN ring ELSE LastOf(Append(ring, value), Capacity),
       streak |-> streak, fired |-> breach /\ streak = SustainedTicks]
=============================================================================
