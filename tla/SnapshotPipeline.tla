-------------------------- MODULE SnapshotPipeline --------------------------
(* A snapshot worker, the way of its events into the state tables, and the  *)
(* panel's baseline: the host changes, the worker polls, dies and is        *)
(* restarted, events are lost on the way, the projector keeps the table,    *)
(* and a user captures a baseline of it.                                    *)
EXTENDS SnapshotSources, Projector

CONSTANTS Sockets,       \* <<proto, endpoint>>
          Units,         \* service units
          Entries,       \* <<source, name>> of persistence entries
          Modules,       \* kernel modules
          MaxChanges,    \* changes of the host followed, by sensor
          MaxDeaths,     \* deaths of the worker followed
          MaxFaults,     \* readings that fail
          MaxLosses,     \* events lost on the way
          MaxInFlight,   \* events written and not yet projected
          ListLimit      \* rows a list request asks for (200)

VARIABLES sensor,        \* the worker that runs, "off" for none
          world,         \* what the host has, as its text
          up, src,       \* the worker's process and its source
          chan, rows,    \* events written and not yet projected; the table
          view,          \* history: what the events written so far add up to
          unreported,    \* history: things adopted without a word
          lost,          \* history: things whose last event was lost
          calm,          \* history: live, and read by every poll, since the start
          slandered,     \* history: things reported removed against what was read
          changes, deaths, losses, faulty,
          capture,       \* the user's capture of a baseline under way
          baseline,      \* table baseline_entry
          selected       \* history: the table as the last capture selected it

worldVars == <<world, changes>>

sensorVars == <<up, src, view, unreported, calm, slandered>>

captureVars == <<capture, baseline, selected>>

snapvars == <<sensor, worldVars, sensorVars, chan, rows, lost, deaths, losses, faulty, captureVars>>

Things ==
  CASE sensor = "listeners" -> Sockets
    [] sensor = "kmods" -> Modules
    [] sensor = "services" -> Units
    [] sensor = "persistence" -> Entries
    [] sensor = "firewall" -> {"ruleset"}
    [] OTHER -> {}

\* What the host's text may say of a thing.
Says ==
  CASE sensor = "listeners" -> {"open", "busy"}
    [] sensor = "kmods" -> {"loaded"}
    [] sensor = "services" -> {"active", "failed"}
    [] sensor = "persistence" -> {"live", "inert"}
    [] sensor = "firewall" -> {"no rules", "r1", "r2"}
    [] OTHER -> {}

Present == {e[1] : e \in Entries}

Missing == {"crontab", "cron_d", "user_crontab", "run_parts", "system_wants", "user_wants",
            "home_autostart", "xdg_autostart", "authorized_keys"} \ Present

\* The directories; the other sources are single files.
Directories == {"cron_d", "run_parts", "system_wants", "user_wants", "home_autostart", "xdg_autostart"}

\* What the host's commands and files answer a reading, when all goes well and
\* when it does not: systemctl fails or prints no list; persistence sources cannot
\* be opened, or a file of one not read; nft, or both, give no ruleset.
Well == [captured |-> TRUE, faults |-> [closed |-> Missing, torn |-> {}],
         answers |-> {"nftables", "iptables"}]

Failing ==
  CASE sensor = "services" -> {[Well EXCEPT !.captured = FALSE]}
    [] sensor = "persistence" ->
         {[Well EXCEPT !.faults.closed = Missing \cup c] : c \in (SUBSET Present) \ {{}}}
           \cup {[Well EXCEPT !.faults.torn = {t}] : t \in Present \cap Directories}
    [] sensor = "firewall" -> {[Well EXCEPT !.answers = a] : a \in {{}, {"iptables"}}}
    [] OTHER -> {}

NoCapture == [pc |-> "none", todo |-> EmptyTable]

NoSource == Source(Empty, "none")

Unseeded == Source(Empty, "unseeded")

SnapOff ==
  /\ sensor = "off" /\ world = Empty /\ up = FALSE /\ src = NoSource
  /\ chan = <<>> /\ rows = EmptyTable /\ view = Empty /\ unreported = {} /\ lost = {}
  /\ calm = {} /\ slandered = {} /\ changes = 0 /\ deaths = 0 /\ losses = 0 /\ faulty = 0
  /\ capture = NoCapture /\ baseline = EmptyTable /\ selected = EmptyTable

\* The host as the daemon finds it: with the first things there and the others not.
SnapInit ==
  /\ sensor \in Sensors
  /\ \E T \in SUBSET Things : world = [k \in T |-> CHOOSE v \in Says : TRUE]
  /\ sensor = "firewall" => DOMAIN world = Things
  /\ up = FALSE /\ src = NoSource
  /\ chan = <<>> /\ rows = EmptyTable /\ view = Empty /\ unreported = {} /\ lost = {}
  /\ calm = {} /\ slandered = {} /\ changes = 0 /\ deaths = 0 /\ losses = 0 /\ faulty = 0
  /\ capture = NoCapture /\ baseline = EmptyTable /\ selected = EmptyTable

\* The host changes one thing.
Live(w) == {k \in DOMAIN w : w[k] \notin {"busy", "inert"}}

HostChanges ==
  /\ sensor # "off" /\ changes < MaxChanges[sensor]
  /\ \E k \in Things :
       \/ \E v \in Says : /\ k \in DOMAIN world => v # world[k]
                          /\ world' = (k :> v) @@ world
       \/ /\ sensor # "firewall" /\ k \in DOMAIN world
          /\ world' = Restrict(world, DOMAIN world \ {k})
  /\ changes' = changes + 1
  /\ calm' = calm \cap Live(world')
  /\ UNCHANGED <<sensor, faulty, up, src, chan, rows, view, unreported, slandered, lost, deaths, losses, captureVars>>

(* -------------------------------- worker -------------------------------- *)

Readings == {Well} \cup IF faulty < MaxFaults THEN Failing ELSE {}

Failed(r) == IF r = Well THEN 0 ELSE 1

\* What the events add up to for one who replays them.
Key(k) == IF sensor = "listeners" THEN <<transport(k[1]), k[2]>> ELSE k

IsRemoval(ev) == ev.action \in {"listener_removed", "kmod_unloaded", "service_removed", "persistence_removed"}

Replay(v, ev) == IF IsRemoval(ev) THEN Restrict(v, DOMAIN v \ {ev.key}) ELSE (ev.key :> ev.state) @@ v

\* The things of which the replayed events say other than the snapshot.
Differ(v, snap) ==
  {k \in Things : \/ (Key(k) \in DOMAIN v) # (k \in DOMAIN snap)
                  \/ /\ k \in DOMAIN snap
                     /\ v[Key(k)] # snap[k]}

\* The worker's poll, by what the host's files and commands answered.
Polls(r) ==
  CASE sensor = "listeners" -> ListeningSocketSource_poll(src, world)
    [] sensor = "kmods" -> ProcModulesSource_poll(src, world)
    [] sensor = "services" -> ServicesSource_poll(src, r.captured, world)
    [] sensor = "persistence" -> Persistence_step(src, world, r.faults)
    [] sensor = "firewall" -> FirewallSource_poll(src, capture_ruleset(world["ruleset"], r.answers))

\* The baseline a new source takes in its constructor; persistence has none.
Baseline(r) ==
  CASE sensor = "listeners" -> Source(parse_listeners(world), "")
    [] sensor = "kmods" -> Source(parse_proc_modules(world), "")
    [] sensor = "services" -> Source(IF r.captured THEN parse_units(world) ELSE Empty, "")
    [] sensor = "persistence" -> Unseeded
    [] sensor = "firewall" -> LET c == capture_ruleset(world["ruleset"], r.answers)
                              IN  Source("ruleset" :> c.text, c.backend)

\* The supervisor starts the worker, which opens its source.
Start ==
  /\ sensor # "off" /\ ~up
  /\ \E r \in Readings : src' = Baseline(r) /\ faulty' = faulty + Failed(r)
  /\ up' = TRUE
  /\ unreported' = Differ(view, src'.snap)
  /\ calm' = Live(world)
  /\ UNCHANGED <<sensor, worldVars, chan, rows, view, slandered, lost, deaths, losses, captureVars>>

Blinded(faults) == {k \in Things : sensor = "persistence" /\ k[1] \in faults.closed \cup faults.torn}

Thing(key) == CHOOSE t \in Things : Key(t) = key

\* Removals that the reading does not bear out: of a thing that is there, and
\* not because its own source could not be read while others of its kind could.
FalseRemovals(events, faults) ==
  {k \in {Thing(ev.key) : ev \in {e \in events : IsRemoval(e)}} \cap Live(world) :
     k \in Blinded(faults) => src.snap[k] \in snapshot(world, faults).failed}

Dies ==
  /\ up' = FALSE /\ src' = NoSource /\ unreported' = {}
  /\ calm' = {} /\ deaths' = deaths + 1

\* One step: poll, and write and flush one event per record.  A worker that is
\* killed, or whose reader raises, leaves the first n of them.
Step ==
  /\ up
  /\ \E r \in Readings :
       LET p == Polls(r)
           events == [i \in DOMAIN p.records |-> record_to_event(sensor, p.records[i])]
       IN  /\ faulty' = faulty + Failed(r)
           /\ Len(chan) + Len(events) <= MaxInFlight
           /\ \E n \in 0..Len(events) :
                LET written == SubSeq(events, 1, n)
                IN  /\ n = Len(events) \/ deaths < MaxDeaths
                    /\ chan' = chan \o written
                    /\ view' = FoldLeft(Replay, view, written)
                    /\ slandered' = slandered \cup FalseRemovals(ToSet(written), r.faults)
                    /\ lost' = lost \ {ev.key : ev \in ToSet(written)}
                    /\ IF n = Len(events)
                       THEN /\ src' = p.src /\ UNCHANGED <<up, deaths>>
                            /\ unreported' = Differ(view', p.src.snap)
                                               \cap (IF p.adopted THEN Things ELSE unreported)
                            /\ calm' = calm \ Blinded(r.faults)
                       ELSE Dies
  /\ UNCHANGED <<sensor, worldVars, rows, losses, captureVars>>

\* Between two steps, or when /proc cannot be read, the worker dies.
Die ==
  /\ up /\ deaths < MaxDeaths
  /\ Dies
  /\ UNCHANGED <<sensor, faulty, worldVars, chan, rows, view, slandered, lost, losses, captureVars>>

(* --------------------------- delivery and panel ------------------------- *)

\* The supervisor persists the next event and projects it.
Persist ==
  /\ chan # <<>>
  /\ rows' = project(Head(chan), rows, Null)
  /\ chan' = Tail(chan)
  /\ UNCHANGED <<sensor, faulty, worldVars, sensorVars, lost, deaths, losses, captureVars>>

\* An event is lost: a full queue, or a write to the store that fails.
Lose ==
  /\ chan # <<>> /\ losses < MaxLosses
  /\ lost' = lost \cup ({Head(chan).key} \ {ev.key : ev \in ToSet(Tail(chan))})
  /\ chan' = Tail(chan) /\ losses' = losses + 1
  /\ UNCHANGED <<sensor, faulty, worldVars, sensorVars, rows, deaths, captureVars>>

\* capture_baseline: the old baseline goes, the table is read, and its rows go
\* in one by one, each a statement of its own.
CaptureDelete ==
  /\ sensor \in {"services", "persistence"}
  /\ capture.pc \in {"none", "done", "cut"}
  /\ baseline' = EmptyTable /\ selected' = EmptyTable
  /\ capture' = [NoCapture EXCEPT !.pc = "deleted"]
  /\ UNCHANGED <<sensor, faulty, worldVars, sensorVars, chan, rows, lost, deaths, losses>>

CaptureSelect ==
  /\ capture.pc = "deleted"
  /\ selected' = rows
  /\ capture' = [pc |-> IF DOMAIN rows = {} THEN "done" ELSE "inserting", todo |-> rows]
  /\ UNCHANGED <<sensor, faulty, worldVars, sensorVars, chan, rows, lost, deaths, losses, baseline>>

CaptureInsert ==
  /\ capture.pc = "inserting"
  /\ LET k == CHOOSE k \in DOMAIN capture.todo : TRUE
         todo == Delete(capture.todo, k)
     IN  /\ baseline' = (k :> capture.todo[k]) @@ baseline
         /\ capture' = [pc |-> IF DOMAIN todo = {} THEN "done" ELSE "inserting", todo |-> todo]
  /\ UNCHANGED <<sensor, faulty, worldVars, sensorVars, chan, rows, lost, deaths, losses, selected>>

\* A statement fails, or the daemon dies between two of them.
CaptureCut ==
  /\ capture.pc \in {"deleted", "inserting"}
  /\ capture' = [NoCapture EXCEPT !.pc = "cut"]
  /\ UNCHANGED <<sensor, faulty, worldVars, sensorVars, chan, rows, lost, deaths, losses, baseline, selected>>

\* What the panel shows of a row next to the baseline.
diff_status(k) ==
  CASE k \notin DOMAIN baseline -> "new"
    [] k \in DOMAIN baseline /\ baseline[k].state = "failed" /\ rows[k].state = "active" -> "re-enabled"
    [] OTHER -> "unchanged"

\* The rows a request gets, and of the baseline what is not among them.
Shown == LET all == SetToSeq(DOMAIN rows) IN ToSet(SubSeq(all, 1, Min({ListLimit, Len(all)})))

handle_list_services ==
  [k \in Shown \cup DOMAIN baseline |-> IF k \in Shown THEN diff_status(k) ELSE "removed"]

handle_list_persistence ==
  [k \in Shown \cup DOMAIN baseline |->
     IF k \notin Shown THEN "removed" ELSE IF k \in DOMAIN baseline THEN "unchanged" ELSE "new"]

Panel == IF sensor = "services" THEN handle_list_services ELSE handle_list_persistence

SnapNext ==
  \/ HostChanges \/ Start \/ Step \/ Die \/ Persist \/ Lose
  \/ CaptureDelete \/ CaptureSelect \/ CaptureInsert \/ CaptureCut

(* ------------------------------ properties ------------------------------ *)

SnapTypeOK ==
  /\ sensor \in Sensors \cup {"off"}
  /\ DOMAIN world \subseteq Things /\ Range(world) \subseteq Says
  /\ up \in BOOLEAN /\ DOMAIN src.snap \subseteq Things
  /\ DOMAIN rows \cup DOMAIN baseline \subseteq {Key(k) : k \in Things}
  /\ unreported \cup calm \cup slandered \subseteq Things
  /\ lost \subseteq {Key(k) : k \in Things}
  /\ capture.pc \in {"none", "deleted", "inserting", "done", "cut"}

\* Nothing the worker takes into its snapshot goes unsaid: one who replays its
\* events knows the snapshot, but for the things of a baseline it adopted (at
\* its start, after a first capture that failed, or when the firewall could
\* not be read), as the sources' docstrings allow.
EventsTellAll == up => Differ(view, src.snap) \subseteq unreported

\* The table is what the events say: once they are projected, a thing's row is
\* there and says what its last event said, unless that one event was lost.
\* An earlier lost event heals, since every event carries the whole state.
TableFollows ==
  sensor \in {"listeners", "services", "persistence"} =>
    \A k \in {Key(t) : t \in Things} \ (lost \cup {ev.key : ev \in ToSet(chan)}) :
      /\ k \in DOMAIN rows <=> k \in DOMAIN view
      /\ k \in DOMAIN rows => rows[k].state = view[k]

\* The panel's comparison is the difference between the table now and the table
\* when the baseline was captured, if the capture was not cut and the list is
\* not longer than the rows asked for.
DiffHonest ==
  capture.pc = "done" /\ DOMAIN rows = Shown =>
    \A k \in DOMAIN rows \cup DOMAIN selected :
      LET s == Panel[k]
      IN  /\ s = "new" <=> k \notin DOMAIN selected
          /\ s = "removed" <=> k \notin DOMAIN rows
          /\ s = "re-enabled" <=> /\ k \in DOMAIN rows \cap DOMAIN selected
                                  /\ selected[k].state = "failed" /\ rows[k].state = "active"

Said == IF Len(chan') > Len(chan) THEN ToSet(SubSeq(chan', Len(chan) + 1, Len(chan'))) ELSE {}

\* A reading that fails is no removal: what a worker reports as removed is not
\* on the host, or is of a persistence kind of which only a part could be read.
NoFalseRemoval == slandered = {}

\* A restart raises no alarm: an addition that the rules may judge (one not
\* marked first_seen) is of a thing that came after the worker's start, or of
\* one whose source it once could not read.
NoAlarmAtStart ==
  [][\A ev \in Said :
       /\ ev.action \in {"listener_added", "kmod_loaded", "service_added", "persistence_added"}
       /\ ~ev.first_seen
       => Thing(ev.key) \notin calm]_snapvars

\* From the host to the panel nothing is made up and nothing goes unsaid: the
\* snapshot, the events, the rows and the comparison with a baseline agree, a
\* failed reading removes nothing, and a restart alarms about nothing old.
SnapshotsHonest ==
  /\ [](SnapTypeOK /\ EventsTellAll /\ TableFollows /\ DiffHonest /\ NoFalseRemoval)
  /\ NoAlarmAtStart
=============================================================================
