---------------------------- MODULE AnomalyWatch ----------------------------
(* The anomaly detector: first sightings are flagged on the reader threads  *)
(* and persisted by the detector's thread, which also drains its events     *)
(* into the metrics, samples a unit and checkpoints the lot                 *)
(* (anomaly/first_sighting.py, anomaly/detector.py), over stops, kills and  *)
(* restarts of the daemon (supervisor.start and stop).                      *)
(* An event is a connection of a process; the process is its sighting key,  *)
(* its metric's entity and its beacon key.  Time is the minute.             *)
EXTENDS MetricEngine

CONSTANTS Procs,                    \* processes that connect: 1..n, named in the order they appear
          Loads,                    \* resident sizes a sample may read
          MaxConnects, MaxMinute, MaxRestarts, MaxDbFaults, MaxSamples   \* bounds of the model

VARIABLES duty,        \* what the environment of this behaviour does
          watch,       \* the daemon: "off", "down", "up", "stopping", "joining", "final"
          readers,     \* the reader threads still dispatch
          minute,      \* the clock
          born,        \* when this life began
          seen, unsaved,            \* FirstSightingTracker._seen, _pending
          batch,       \* the rows a flush is still to write
          first_seen,  \* the table
          backlog,     \* the detector's subscription
          turn,        \* the detector thread: "wait", "flush", "work", "save"
          engine, beacons, sampler, \* MetricEngine, BeaconTracker, ResourceSampler
          metric_baseline,          \* the table
          tx,          \* the rewrite of it that is not committed yet, if any
          flagged,     \* history: keys flagged in this life
          fed,         \* history: every minute pushed to an entity
          signals,      \* history: the signals of the last tick
          base, high, fired,        \* history: a deviation's baseline, length, and its signal
          spoilt,      \* history: a write failed or a thread outlived its join, in this life
          spent        \* steps taken, against the bounds

sightVars == <<seen, unsaved, first_seen, flagged>>
metricVars == <<engine, beacons, fed, signals>>
sampleVars == <<sampler, base, high, fired>>
tableVars == <<metric_baseline, tx>>
lifeVars == <<duty, watch, readers, minute, born>>
anomvars == <<sightVars, metricVars, sampleVars, tableVars, lifeVars, batch, backlog, turn, spoilt, spent>>

NoTable == [stats |-> <<>>, beacons |-> <<>>, ring |-> <<>>, fed |-> <<>>]

\* To keep the product of its concerns small, a behaviour is about one of three.  In
\* "metrics" the clock runs, and then nothing interrupts a tick, no write fails, no
\* entity is evicted and the processes are known already.  "sightings" has every
\* interleaving, failure and eviction, within one minute.  "resources" has the
\* resource ticks.
Interrupts == duty = "metrics" => turn = "wait"

CanFail == duty # "metrics" /\ spent.faults < MaxDbFaults

Spend(k) == spent' = [spent EXCEPT ![k] = @ + 1]

(* --------------------------- FirstSightingTracker ----------------------- *)

\* A key is fresh once: it is remembered as it is queued, under the lock.
observe_sighting(k) ==
  IF k \in seen THEN UNCHANGED <<seen, unsaved, flagged>>
  ELSE /\ seen' = seen \cup {k}
       /\ unsaved' = Append(unsaved, k)
       /\ flagged' = flagged \cup {k}

\* flush takes the queue over in one step ...
TakeQueue == batch' = unsaved /\ unsaved' = <<>>

\* ... and writes row by row; a failed write loses the rest of the batch.
WriteRow ==
  /\ batch # <<>>
  /\ \/ /\ first_seen' = first_seen \cup {Head(batch)}
        /\ batch' = Tail(batch)
        /\ UNCHANGED <<spent, spoilt>>
     \/ /\ CanFail
        /\ Spend("faults")
        /\ batch' = <<>>
        /\ spoilt' = TRUE
        /\ UNCHANGED first_seen

(* -------------------------------- events -------------------------------- *)

\* A reader thread dispatches an event: the sighting is flagged, then the event
\* published.  Its time is of this life, and may be that of the minute closed last;
\* one of a minute still open is as if it was published before the clock moved.
Connect(k, at) ==
  /\ Interrupts
  /\ duty = "metrics" => k <= MaxEntities
  /\ at >= born
  /\ spent.connects < MaxConnects /\ k <= spent.connects + 1 /\ Spend("connects")
  /\ observe_sighting(k)
  /\ backlog' = Append(backlog, [key |-> k, ts |-> at])
  /\ UNCHANGED <<first_seen, metricVars, sampleVars, tableVars, lifeVars, batch, turn, spoilt>>

\* Time passes, also while the daemon is down.
Minute ==
  /\ watch # "off" /\ duty = "metrics" /\ turn = "wait" /\ minute < MaxMinute
  /\ minute' = minute + 1
  /\ UNCHANGED <<sightVars, metricVars, sampleVars, tableVars, duty, watch, readers, born, batch, backlog, turn,
                 spoilt, spent>>

(* --------------------------- the detector's thread ---------------------- *)

\* A tick begins with the flush of the sightings.
TickFlush ==
  /\ watch \in {"up", "stopping"} /\ turn = "wait" /\ duty # "resources"
  /\ duty = "metrics" => backlog # <<>> \/ engine.closed # minute - 1    \* or there is nothing to do
  /\ TakeQueue
  /\ turn' = "flush"
  /\ UNCHANGED <<seen, first_seen, flagged, metricVars, sampleVars, tableVars, lifeVars, backlog, spoilt, spent>>

FlushRow ==
  /\ turn = "flush" /\ WriteRow
  /\ UNCHANGED <<seen, unsaved, flagged, metricVars, sampleVars, tableVars, lifeVars, backlog, turn>>

\* One event of the subscription goes into the engine and the beacon tracker; a
\* connection that looks periodic is a hit, one for its key in a tick.
drain_one(r, ev) ==
  LET e == ingest(r.engine, ev.key, ev.ts)
      bs == beacon_observe(r.beacons, ev.key, ev.ts)
  IN  [engine |-> e, beacons |-> bs,
       hits |-> IF beacon_evaluate(bs[ev.key]) THEN r.hits \cup {ev.key} ELSE r.hits,
       fed |-> [k \in DOMAIN e.stats |-> IF k \in DOMAIN r.engine.stats THEN r.fed[k] ELSE <<>>]]

\* The subscription is drained, the minutes are closed and the signals emitted;
\* a checkpoint follows when it is due.
TickWork ==
  /\ turn = "flush" /\ batch = <<>>
  /\ LET start == [engine |-> engine, beacons |-> beacons, hits |-> {}, fed |-> fed]
         drained == FoldLeft(drain_one, start, backlog)
         ticked == tick(drained.engine, drained.fed, minute)
     IN  /\ engine' = ticked.engine
         /\ fed' = ticked.fed
         /\ signals' = ticked.signals \cup
              {[minute |-> minute, key |-> k, window |-> "beacon", after |-> 0] : k \in drained.hits}
         /\ beacons' = drained.beacons
  /\ backlog' = <<>>
  /\ turn' \in {"wait", "work"}
  /\ UNCHANGED <<sightVars, sampleVars, tableVars, lifeVars, batch, spoilt, spent>>

\* One resource tick, on the same thread: the unit's process is gone from /proc,
\* or its size is read and judged.
Breach(ring, v) == Len(ring) >= MinSamples /\ Total(ring) > 0 /\ v * Len(ring) > SustainedFactor * Total(ring)

Sample(v) ==
  /\ duty = "resources" /\ watch \in {"up", "stopping"} /\ turn = "wait"
  /\ spent.samples < MaxSamples /\ Spend("samples")
  /\ LET st == observe(sampler, v)
         ref == IF high = 0 THEN sampler.ring ELSE base
     IN  /\ sampler' = [ring |-> st.ring, streak |-> st.streak]
         /\ fired' = st.fired
         /\ base' = ref
         /\ high' = IF ~Breach(ref, v) THEN 0 ELSE IF high > SustainedTicks THEN high ELSE high + 1
  /\ turn' \in {"wait", "work"}
  /\ UNCHANGED <<sightVars, metricVars, tableVars, lifeVars, batch, backlog, spoilt>>

(* ------------------------------ checkpoint ------------------------------ *)

Snapshot == [stats |-> engine.stats, beacons |-> beacons, ring |-> sampler.ring, fed |-> fed]

\* The table is emptied and filled again in a transaction.
Begin_NoTransaction ==
  /\ metric_baseline' = NoTable
  /\ tx' = <<Snapshot>>

Begin ==
  /\ tx' = <<Snapshot>>
  /\ UNCHANGED metric_baseline

\* It commits, or is rolled back and tried again when the next one is due.
Commit ==
  /\ tx # <<>>
  /\ tx' = <<>>
  /\ \/ metric_baseline' = Head(tx) /\ UNCHANGED <<spent, spoilt>>
     \/ /\ CanFail
        /\ Spend("faults")
        /\ spoilt' = TRUE
        /\ UNCHANGED metric_baseline

TickBegin ==
  /\ turn = "work"
  /\ Begin
  /\ turn' = "save"
  /\ UNCHANGED <<sightVars, metricVars, sampleVars, lifeVars, batch, backlog, spoilt, spent>>

TickCommit ==
  /\ turn = "save" /\ Commit
  /\ turn' = "wait"
  /\ UNCHANGED <<sightVars, metricVars, sampleVars, lifeVars, batch, backlog>>

(* ----------------------------- start and stop --------------------------- *)

load_checkpoints(t) ==
  /\ engine' = [NoEngine EXCEPT !.stats = t.stats, !.active = [k \in DOMAIN t.stats |-> Never]]
  /\ beacons' = [k \in DOMAIN t.beacons |-> beacon_load_row(t.beacons[k])]
  /\ sampler' = [ring |-> t.ring, streak |-> 0]
  /\ fed' = t.fed

\* The seen-set and the checkpoints are loaded before any worker runs.
StartWatch ==
  /\ watch = "down" /\ spent.restarts < MaxRestarts /\ Spend("restarts")
  /\ seen' = first_seen
  /\ load_checkpoints(metric_baseline)
  /\ watch' = "up" /\ readers' = TRUE /\ born' = minute
  /\ unsaved' = <<>> /\ backlog' = <<>> /\ flagged' = {} /\ signals' = {}
  /\ base' = <<>> /\ high' = 0 /\ fired' = FALSE /\ spoilt' = FALSE
  /\ UNCHANGED <<first_seen, tableVars, duty, minute, batch, turn>>

\* The daemon is killed: what is not in a table is gone, and so is an open
\* transaction.
Kill ==
  /\ watch \in {"up", "stopping", "joining", "final"} /\ spent.restarts < MaxRestarts /\ Interrupts
  /\ duty = "metrics" => metric_baseline # NoTable    \* or the next life is as the first
  /\ watch' = "down" /\ readers' = FALSE /\ turn' = "wait" /\ batch' = <<>> /\ tx' = <<>>
  /\ seen' = {} /\ unsaved' = <<>> /\ flagged' = {} /\ backlog' = <<>> /\ born' = 1
  /\ engine' = NoEngine /\ beacons' = <<>> /\ fed' = <<>> /\ signals' = {}
  /\ sampler' = [ring |-> <<>>, streak |-> 0] /\ base' = <<>> /\ high' = 0 /\ fired' = FALSE
  /\ spoilt' = TRUE
  /\ UNCHANGED <<first_seen, metric_baseline, duty, minute, spent>>

\* supervisor.stop: the workers are told to end ...
StopWorkers ==
  /\ watch = "up" /\ duty # "metrics"
  /\ watch' = "stopping"
  /\ UNCHANGED <<sightVars, metricVars, sampleVars, tableVars, duty, readers, minute, born, batch, backlog, turn,
                 spoilt, spent>>

\* ... their reader threads are joined, or outlive what is left of the budget,
\* and the detector's thread is told to stop.
JoinReaders ==
  /\ watch = "stopping"
  /\ watch' = "joining"
  /\ \/ readers' = FALSE /\ UNCHANGED spoilt
     \/ spoilt' = TRUE /\ UNCHANGED readers
  /\ UNCHANGED <<sightVars, metricVars, sampleVars, tableVars, duty, minute, born, batch, backlog, turn, spent>>

\* The thread has ended and the last flush begins, or it is still writing and
\* stop leaves the tables to it.
JoinDetector ==
  /\ watch = "joining"
  /\ \/ /\ turn = "wait"
        /\ watch' = "final"
        /\ TakeQueue
        /\ UNCHANGED <<turn, spoilt, tx>>
     \/ /\ turn # "wait"
        /\ watch' = "down" /\ turn' = "wait" /\ batch' = <<>> /\ tx' = <<>>
        /\ spoilt' = TRUE
        /\ UNCHANGED unsaved
  /\ UNCHANGED <<seen, first_seen, flagged, metricVars, sampleVars, metric_baseline, duty, readers, minute, born,
                 backlog, spent>>

FinalRow ==
  /\ watch = "final" /\ tx = <<>> /\ WriteRow
  /\ UNCHANGED <<seen, unsaved, flagged, metricVars, sampleVars, tableVars, lifeVars, backlog, turn>>

FinalBegin ==
  /\ watch = "final" /\ batch = <<>> /\ tx = <<>>
  /\ Begin
  /\ UNCHANGED <<sightVars, metricVars, sampleVars, lifeVars, batch, backlog, turn, spoilt, spent>>

FinalCommit ==
  /\ watch = "final" /\ Commit
  /\ watch' = "down" /\ readers' = FALSE
  /\ UNCHANGED <<sightVars, metricVars, sampleVars, duty, minute, born, batch, backlog, turn>>

(* ---------------------------- the specification -------------------------- *)

Resting ==
  /\ readers = FALSE /\ minute = 1 /\ born = 1
  /\ seen = {} /\ unsaved = <<>> /\ batch = <<>>
  /\ first_seen = IF duty = "metrics" THEN Procs ELSE {}
  /\ backlog = <<>> /\ turn = "wait"
  /\ engine = NoEngine /\ beacons = <<>> /\ sampler = [ring |-> <<>>, streak |-> 0]
  /\ metric_baseline = NoTable /\ tx = <<>>
  /\ flagged = {} /\ fed = <<>> /\ signals = {}
  /\ base = <<>> /\ high = 0 /\ fired = FALSE /\ spoilt = FALSE
  /\ spent = [connects |-> 0, restarts |-> 0, faults |-> 0, samples |-> 0]

AnomInit == duty \in {"sightings", "metrics", "resources"} /\ watch = "down" /\ Resting

AnomOff == duty = "sightings" /\ watch = "off" /\ Resting

AnomNext ==
  \/ /\ watch \in {"up", "stopping", "joining", "final"} /\ readers /\ duty # "resources"
     /\ \E k \in Procs, at \in {minute} \cup ({minute - 1} \cap {engine.closed}) : Connect(k, at)
  \/ \E v \in Loads : Sample(v)
  \/ Minute \/ TickFlush \/ FlushRow \/ TickWork \/ TickBegin \/ TickCommit
  \/ StartWatch \/ Kill \/ StopWorkers \/ JoinReaders \/ JoinDetector
  \/ FinalRow \/ FinalBegin \/ FinalCommit

(* ------------------------------- properties ------------------------------ *)

AnomTypeOK ==
  /\ watch \in {"off", "down", "up", "stopping", "joining", "final"} /\ readers \in BOOLEAN
  /\ minute \in 1..MaxMinute /\ born \in 1..minute
  /\ seen \subseteq Procs /\ first_seen \subseteq Procs /\ unsaved \in Seq(Procs) /\ batch \in Seq(Procs)
  /\ backlog \in Seq([key : Procs, ts : 1..MaxMinute])
  /\ turn \in {"wait", "flush", "work", "save"}
  /\ DOMAIN engine.stats \subseteq Procs /\ Cardinality(DOMAIN engine.stats) <= MaxEntities
  /\ DOMAIN engine.active = DOMAIN engine.stats /\ DOMAIN fed = DOMAIN engine.stats
  /\ DOMAIN beacons \subseteq Procs /\ Cardinality(DOMAIN beacons) <= MaxEntities
  /\ sampler.streak \in Nat /\ Len(sampler.ring) <= Capacity /\ Len(tx) <= 1

Queued(s, k) == Len(SelectSeq(s, LAMBDA u : u = k))

\* FirstSightingTracker.observe: a key is flagged as a first sighting at most once
\* in a life of the daemon, and never when the table had it at the start, whatever
\* flushes run or fail meanwhile.
FlaggedOnce ==
  [][\A k \in Procs :
       Queued(unsaved', k) > Queued(unsaved, k) => k \notin flagged /\ k \notin first_seen]_anomvars

\* AnomalyDetector.stop, "so a clean shutdown loses nothing" (detector.py:370): once
\* a daemon has stopped in order, with its threads joined in time and no write
\* failing, every sighting it flagged is in the table and the checkpoint is what
\* the detector ended with.
CleanStopKeeps ==
  watch = "down" /\ ~spoilt => flagged \subseteq first_seen /\ metric_baseline = Snapshot

\* checkpoint: the table changes only to a whole snapshot of the detector, so a kill
\* or a failure between the DELETE and the COMMIT leaves the one before.
CheckpointWhole == [][metric_baseline' # metric_baseline => metric_baseline' = Snapshot]_anomvars

\* MetricEngine.ingest and _admit: every open bucket is one a later tick will close
\* or drop: its entity is tracked and its minute is not closed yet.
NoStranded ==
  \A b \in DOMAIN engine.buckets :
    b[2] \in DOMAIN engine.stats /\ (engine.closed # Never => b[1] > engine.closed)

\* What the rings of an entity should be, given every minute it was fed.
Blocks(f) == [i \in 1..(Len(f) \div Width) |-> Total(SubSeq(f, (i - 1) * Width + 1, i * Width))]

\* WindowedStats.push_minute, over ticks, evictions, checkpoints and restarts: the
\* narrow ring is the last minutes fed, the wide one the sums of whole blocks of
\* them, and the accumulator the rest.
RingsExact ==
  \A k \in DOMAIN engine.stats :
    LET f == fed[k]
        rest == SubSeq(f, (Len(f) \div Width) * Width + 1, Len(f))
    IN  engine.stats[k] = [ring |-> LastOf(f, Capacity), wide |-> LastOf(Blocks(f), Capacity),
                           total |-> Total(rest), minutes |-> Len(rest)]

\* MetricEngine.tick: a signal is about a minute of this life of the daemon (down time
\* is not counted as silence) and is judged against MinSamples earlier buckets.
SignalEarned ==
  \A s \in signals :
    /\ s.minute >= born
    /\ s.window = "1h" => s.after >= MinSamples
    /\ s.window = "24h" => s.after >= MinSamples * Width

\* BeaconTracker.load_row: the next interval of a connection starts at an observation
\* of this life, so none spans a time the daemon was down.
NoBogusInterval == watch # "down" => \A k \in DOMAIN beacons : beacons[k].last # Never => beacons[k].last >= born

\* ResourceSampler._observe: when SustainedTicks samples in a row exceed the factor
\* over the mean the unit had before the first of them, the last one fires.
SustainedTold == high = SustainedTicks => fired

\* The engine's statistics are exactly of the minutes it was fed, through ticks,
\* evictions and restarts, and a signal rests on enough of them.
MetricsSound ==
  AnomTypeOK /\ NoStranded /\ RingsExact /\ SignalEarned /\ NoBogusInterval /\ SustainedTold

\* What the detector learnt is kept: a key is flagged once, the stored baseline is
\* always a whole one, and an orderly stop loses nothing.
SightingsKept == FlaggedOnce /\ CheckpointWhole /\ []CleanStopKeeps
=============================================================================
