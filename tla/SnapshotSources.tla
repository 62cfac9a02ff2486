-------------------------- MODULE SnapshotSources --------------------------
(* The sources of the workers that watch the host by comparing snapshots:   *)
(* what each reads, what it keeps of it, what it says of the difference.    *)
(* A text is a function from the things it names to what it says of them; a *)
(* source is what it remembers of the last reading (snap) and the mark of   *)
(* firewall (the backend) and of persistence (whether it was seeded).       *)
EXTENDS Naturals, SequencesExt, Functions

Sensors == {"listeners", "kmods", "services", "persistence", "firewall"}

Empty == [k \in {} |-> ""]

Keep(text, P(_)) == Restrict(text, {k \in DOMAIN text : P(k)})

Source(snap, mark) == [snap |-> snap, mark |-> mark]

\* What a poll leaves and what it says; adopted when it says nothing of a
\* snapshot that it takes over.
Polled(src, records, adopted) == [src |-> src, records |-> records, adopted |-> adopted]

\* A record of a change: its event, the thing, what is now said of the thing.
Record(action, k, state, seen) == [action |-> action, key |-> k, state |-> state, first_seen |-> seen]

Records(action, keys, text, seen) ==
  LET s == SetToSeq(keys)
  IN  [i \in DOMAIN s |-> Record(action, s[i], text[s[i]], seen)]

Added(prev, curr) == DOMAIN curr \ DOMAIN prev

Removed(prev, curr) == DOMAIN prev \ DOMAIN curr

(* ------------------------- /proc/net, /proc/modules --------------------- *)

\* A socket is <<proto, endpoint>>.  Of tcp the rows in LISTEN count, of udp the
\* ones with no peer; in both the text says "open", and "busy" of the others.
parse_listeners(text) == Keep(text, LAMBDA k : text[k] = "open")

diff_listeners(prev, curr) ==
  Records("listener_added", Added(prev, curr), curr, FALSE)
    \o Records("listener_removed", Removed(prev, curr), prev, FALSE)

\* The event names the transport: tcp6 and udp6 are told by the address alone.
transport(proto) == IF proto \in {"tcp", "tcp6"} THEN "tcp" ELSE "udp"

listener_event(r) == [r EXCEPT !.key = <<transport(r.key[1]), r.key[2]>>]
                       @@ [module |-> "listening_socket_snapshotter"]

ListeningSocketSource_poll(src, text) ==
  LET curr == parse_listeners(text)
  IN  Polled(Source(curr, ""), diff_listeners(src.snap, curr), FALSE)

\* A line with a size and a count that are no numbers is skipped.
parse_proc_modules(text) == Keep(text, LAMBDA k : text[k] # "malformed")

diff_modules(prev, curr) ==
  Records("loaded", Added(prev, curr), curr, FALSE)
    \o Records("unloaded", Removed(prev, curr), prev, FALSE)

kmod_event(r) == [r EXCEPT !.action = IF r.action = "loaded" THEN "kmod_loaded" ELSE "kmod_unloaded"]
                   @@ [module |-> "kmod_watcher"]

ProcModulesSource_poll(src, text) ==
  LET curr == parse_proc_modules(text)
  IN  Polled(Source(curr, ""), diff_modules(src.snap, curr), FALSE)

(* ------------------------------- systemctl ------------------------------ *)

\* systemctl answers with the units, with text that is no list, or not at all.
parse_units(text) == Keep(text, LAMBDA k : text[k] # "malformed")

diff_units(prev, curr) ==
  Records("service_added", Added(prev, curr), curr, FALSE)
    \o Records("service_removed", Removed(prev, curr), prev, FALSE)
    \o Records("service_state_changed",
               {k \in DOMAIN curr \cap DOMAIN prev : curr[k] # prev[k]}, curr, FALSE)

service_event(r) == r @@ [module |-> "services_monitor"]

\* A capture that failed or names no unit keeps the baseline; the first one
\* that names some is adopted when there is none yet.
ServicesSource_poll(src, captured, text) ==
  LET curr == parse_units(text)
  IN  CASE ~captured \/ DOMAIN curr = {} -> Polled(src, <<>>, FALSE)
        [] captured /\ DOMAIN curr # {} /\ DOMAIN src.snap = {} -> Polled(Source(curr, ""), <<>>, TRUE)
        [] OTHER -> Polled(Source(curr, ""), diff_units(src.snap, curr), FALSE)

(* ------------------------------ persistence ----------------------------- *)

\* An entry is <<source, name>>; the text says "live" of it, or "inert" of what
\* the parsers skip: a comment or too few fields in a crontab, a masked or
\* template timer, a desktop file that launches nothing, a key whose blob is
\* not of its type.  Faults are the sources that cannot be opened (closed), and
\* the ones whose directory lists while the file in it cannot be read (torn).
From(text, sources, faults) ==
  Keep(text, LAMBDA k : /\ k[1] \in sources /\ text[k] = "live"
                        /\ k[1] \notin faults.closed \cup faults.torn)

Enumerated(text, sources, faults) ==
  [entries |-> From(text, sources, faults), readable |-> \E s \in sources : s \notin faults.closed]

enum_cron(text, faults) ==
  Enumerated(text, {"crontab", "cron_d", "user_crontab", "run_parts"}, faults)

enum_timers(text, faults) ==
  Enumerated(text, {"system_wants", "user_wants"}, faults)

enum_autostart(text, faults) ==
  Enumerated(text, {"home_autostart", "xdg_autostart"}, faults)

enum_authorized_keys(text, faults) ==
  Enumerated(text, {"authorized_keys"}, faults)

\* snapshot(): the entries of every kind, and the kinds none of whose sources
\* could be opened.
Enumerators(text, faults) ==
  [cron |-> enum_cron(text, faults), timer |-> enum_timers(text, faults),
   autostart |-> enum_autostart(text, faults), authorized_key |-> enum_authorized_keys(text, faults)]

Kinds == {"cron", "timer", "autostart", "authorized_key"}

snapshot(text, faults) ==
  LET e == Enumerators(text, faults)
      kind_of(k) == CHOOSE c \in Kinds : k \in DOMAIN e[c].entries
      found == UNION {DOMAIN e[c].entries : c \in Kinds}
  IN  [entries |-> [k \in found |-> kind_of(k)], failed |-> {c \in Kinds : ~e[c].readable}]

\* The worker's step: what it knew of a kind it could not read is carried over;
\* the first snapshot is the inventory, told as first seen.
Persistence_step_NoCarry(src, text, faults) ==
  LET effective == snapshot(text, faults).entries
      baseline == src.mark # "seeded"
  IN  Polled(Source(effective, "seeded"),
             Records("persistence_added", Added(src.snap, effective), effective, baseline)
               \o Records("persistence_removed", Removed(src.snap, effective), src.snap, FALSE),
             FALSE)

Persistence_step(src, text, faults) ==
  LET s == snapshot(text, faults)
      effective == s.entries @@ Keep(src.snap, LAMBDA k : src.snap[k] \in s.failed)
      baseline == src.mark # "seeded"
  IN  Polled(Source(effective, "seeded"),
             Records("persistence_added", Added(src.snap, effective), effective, baseline)
               \o Records("persistence_removed", Removed(src.snap, effective), src.snap, FALSE),
             FALSE)

persistence_event(r) == r @@ [module |-> "persistence_snapshotter"]

(* -------------------------------- firewall ------------------------------ *)

\* The first backend that answers; the two print the same rules differently,
\* and no rules alike.  With no answer the text is empty.
capture_ruleset(rules, answers) ==
  LET backend == CASE "nftables" \in answers -> "nftables"
                   [] "nftables" \notin answers /\ "iptables" \in answers -> "iptables"
                   [] OTHER -> "none"
  IN  [backend |-> backend,
       text |-> IF backend = "none" \/ rules = "no rules" THEN <<"", "">> ELSE <<backend, rules>>]

\* The same text: at most another label.  To or from an unreadable firewall:
\* adopted.  Otherwise one record, of the digest before and after.
FirewallSource_poll(src, capture) ==
  LET now == Source("ruleset" :> capture.text, capture.backend)
  IN  CASE now.snap = src.snap -> Polled(now, <<>>, FALSE)
        [] now.snap # src.snap /\ "none" \in {src.mark, now.mark} -> Polled(now, <<>>, TRUE)
        [] OTHER -> Polled(now, <<Record("firewall_ruleset_changed", "ruleset", capture.text, FALSE)
                                    @@ [previous |-> src.snap["ruleset"]]>>, FALSE)

firewall_event(r) == r @@ [module |-> "firewall_inspector"]

\* record_to_event of the sensor's worker.
record_to_event(s, r) ==
  CASE s = "listeners" -> listener_event(r)
    [] s = "kmods" -> kmod_event(r)
    [] s = "services" -> service_event(r)
    [] s = "persistence" -> persistence_event(r)
    [] s = "firewall" -> firewall_event(r)
=============================================================================
