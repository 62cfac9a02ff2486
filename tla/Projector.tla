----------------------------- MODULE Projector -----------------------------
(* state/projector.py, reconcile.py and the panels that read their tables:  *)
(* what one event does to the table of its module.  A table is a function   *)
(* from the keys that have a row to their rows; an event is a record with   *)
(* the fields its projector reads.  Every operator is a function.           *)
EXTENDS Naturals, TLC, Functions

Null == "null"

EmptyTable == [k \in {} |-> Null]

\* INSERT ... ON CONFLICT (k) DO UPDATE: `again` is what the row becomes.
Upsert(rows, k, fresh, again) ==
  (k :> IF k \in DOMAIN rows THEN again ELSE fresh) @@ rows

Delete(rows, k) == Restrict(rows, DOMAIN rows \ {k})

project_connection(ev, rows) ==
  IF Null \in {ev.pid, ev.daddr} THEN rows
  ELSE LET k == <<ev.pid, ev.daddr, ev.dport>>
       IN  Upsert(rows, k, [first_seen |-> ev.ts, last_seen |-> ev.ts],
                  [rows[k] EXCEPT !.last_seen = ev.ts])

project_listener(ev, rows) ==
  IF ev.key = Null THEN rows
  ELSE IF ev.action = "listener_removed" THEN Delete(rows, ev.key)
  ELSE Upsert(rows, ev.key, [state |-> ev.state], [rows[ev.key] EXCEPT !.state = ev.state])

project_service(ev, rows) ==
  IF ev.key = Null THEN rows
  ELSE IF ev.action = "service_removed" THEN Delete(rows, ev.key)
  ELSE Upsert(rows, ev.key, [state |-> ev.state], [rows[ev.key] EXCEPT !.state = ev.state])

project_persistence(ev, rows) ==
  IF ev.key = Null THEN rows
  ELSE IF ev.action = "persistence_removed" THEN Delete(rows, ev.key)
  ELSE Upsert(rows, ev.key, [state |-> ev.state], [rows[ev.key] EXCEPT !.state = ev.state])

\* A log of changes: a deletion is one more change, the row stays.
project_file(ev, rows) ==
  IF ev.path = Null THEN rows
  ELSE Upsert(rows, ev.path, [change_type |-> ev.action, first_seen |-> ev.ts, last_seen |-> ev.ts],
              [rows[ev.path] EXCEPT !.change_type = ev.action, !.last_seen = ev.ts])

\* Rows of a boot: an exit closes its row, or makes one for a start never seen;
\* a start opens it, and keeps the executable it knows when this one has none.
project_process(ev, rows, boot_id) ==
  LET k == <<ev.pid, boot_id>>
  IN  IF ev.pid = Null THEN rows
      ELSE IF ev.action = "process_exit"
      THEN Upsert(rows, k, [status |-> "exited", exe_path |-> Null],
                  [rows[k] EXCEPT !.status = "exited"])
      ELSE Upsert(rows, k, [status |-> "running", exe_path |-> ev.exe],
                  [status |-> "running",
                   exe_path |-> IF ev.exe = Null THEN rows[k].exe_path ELSE ev.exe])

\* A device is named by its ids, else by its path, else by its name.
device_key(ev) ==
  IF ev.ids # Null THEN ev.ids ELSE IF ev.devpath # Null THEN ev.devpath ELSE ev.name

\* A removed device keeps its row, and a removal of an unknown one makes none.
project_device(ev, rows) ==
  LET k == device_key(ev)
  IN  IF k = Null \/ (ev.action = "device_removed" /\ k \notin DOMAIN rows)
      THEN rows
      ELSE (k :> [status |-> IF ev.action = "device_removed" THEN "removed" ELSE "present"]) @@ rows

\* A start that comes after its own completion must not reopen the run.
project_scan_started(ev, rows) ==
  IF ev.run_id = Null THEN rows
  ELSE Upsert(rows, ev.run_id,
              [scanner |-> ev.scanner, status |-> "running", started_at |-> ev.ts],
              [rows[ev.run_id] EXCEPT !.scanner = ev.scanner, !.started_at = ev.ts])

\* A completion whose start was lost dates it by the run's own duration.
project_scan_completed(ev, rows) ==
  LET status == IF ev.scan_outcome = "failure" THEN "failure" ELSE "success"
  IN  IF ev.run_id = Null THEN rows
      ELSE Upsert(rows, ev.run_id,
                  [scanner |-> ev.scanner, status |-> status, started_at |-> ev.ts - ev.duration_s],
                  [rows[ev.run_id] EXCEPT !.scanner = ev.scanner, !.status = status])

\* A skip has no run: its row is keyed by the event.
project_scan_skipped(ev, rows) ==
  LET k == <<"skip", ev.event_id>>
      row == [scanner |-> ev.scanner, status |-> "skipped", started_at |-> ev.ts]
  IN  Upsert(rows, k, row, rows[k])

project_scan_run(ev, rows) ==
  IF ev.scanner = Null THEN rows
  ELSE CASE ev.action = "scan_started" -> project_scan_started(ev, rows)
         [] ev.action = "scan_completed" -> project_scan_completed(ev, rows)
         [] ev.action = "scan_skipped" -> project_scan_skipped(ev, rows)
         [] OTHER -> rows

\* A match that is found again is open again; its acknowledgement and the day
\* it was first seen stay.
project_vulnerability_found(ev, rows) ==
  IF Null \in {ev.key[1], ev.key[2]} THEN rows
  ELSE Upsert(rows, ev.key,
         [first_seen_at |-> ev.ts, last_seen |-> ev.ts, resolved |-> FALSE, acked |-> FALSE],
         [rows[ev.key] EXCEPT !.last_seen = ev.ts, !.resolved = FALSE])

\* The sweep resolves what this scan did not find, save what it skipped.
project_vulnerability_sweep_NoSkips(ev, rows) ==
  [k \in DOMAIN rows |->
     [rows[k] EXCEPT !.resolved = @ \/ rows[k].last_seen < ev.scan_started_at]]

project_vulnerability_sweep(ev, rows) ==
  [k \in DOMAIN rows |->
     [rows[k] EXCEPT !.resolved = @ \/ (/\ rows[k].last_seen < ev.scan_started_at
                                       /\ k[1] \notin ev.skipped_avg_ids)]]

project_vulnerability(ev, rows) ==
  CASE ev.action = "vulnerability_found" -> project_vulnerability_found(ev, rows)
    [] ev.action = "vuln_scan_completed" -> project_vulnerability_sweep(ev, rows)
    [] OTHER -> rows

\* The dispatch on the module; boot_id is Null when it could not be read.
project(ev, rows, boot_id) ==
  CASE ev.module = "services_monitor" -> project_service(ev, rows)
    [] ev.module = "udev_monitor" -> project_device(ev, rows)
    [] ev.module \in {"process_collector", "process_collector_exit"} /\ boot_id # Null ->
         project_process(ev, rows, boot_id)
    [] ev.module \in {"outbound_connection_tracker", "outbound_connection_tracker6"} ->
         project_connection(ev, rows)
    [] ev.module = "listening_socket_snapshotter" -> project_listener(ev, rows)
    [] ev.module = "fim_watcher" -> project_file(ev, rows)
    [] ev.module = "persistence_snapshotter" -> project_persistence(ev, rows)
    [] ev.module = "scanner_runner" -> project_scan_run(ev, rows)
    [] ev.module = "vuln_scanner" -> project_vulnerability(ev, rows)
    [] OTHER -> rows

\* At start-up the running rows of another boot are closed.
reconcile_processes(rows, boot_id) ==
  [k \in DOMAIN rows |->
     IF k[2] # boot_id /\ rows[k].status = "running"
     THEN [rows[k] EXCEPT !.status = "exited"] ELSE rows[k]]
=============================================================================
