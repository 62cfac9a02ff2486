----------------------------- MODULE VulnWatch -----------------------------
(* The vuln_scanner worker: the polls that watch the advisory file and the  *)
(* package database, the scan one of them starts, the rescan command on the *)
(* reader thread, and the table and panel its events end in.  A scan reads  *)
(* the file and then the packages, either of which may change meanwhile.    *)
EXTENDS VulnMatching, SequencesExt, Projector

CONSTANTS AdvisoryFiles, FirstFiles,  \* the states of the advisory file, and at start-up
          Installs,       \* the installed sets pacman may list
          MaxEdits,       \* changes of the file or of the packages
          MaxScans,       \* scans started
          MaxWork,        \* changes and scans together
          MaxVulnFaults,  \* tools that fail, locks met, deaths and lost events
          MaxRescans, Clerks

VARIABLES vup,            \* the worker is up
          file, packages, locked,   \* the advisory file, the packages, db.lck
          fstat, pstat,   \* how often each has changed: its stat
          observed,       \* _advisory_stat and _pacman_db_mtime, or <<>>
          pending, interval_due, window_open,  \* _pending_file_trigger and the two clocks
          lock_reported, rescan_requested, prev_keys, first_scan,
          scan,           \* the scan under way, by its stage
          vchan, vulns,   \* events on their way; the table
          shown,          \* the last scan event of the panel
          acks, audits,   \* the acknowledgements under way; the audit rows
          scans, edits, vfaults, rescans,
          asked,          \* history: a rescan was accepted and no file read since
          ringing,        \* history: alerted, and found by every scan since
          read_at,        \* history: the stats the last attempt read, and how it went
          missing         \* history: found events of this scan that were lost

scannerVars == <<vup, observed, pending, interval_due, window_open, lock_reported, rescan_requested,
              prev_keys, first_scan, scan>>

fileVars == <<file, packages, locked, fstat, pstat, edits>>

panelVars == <<vulns, shown, acks, audits>>

vulnvars == <<scannerVars, fileVars, panelVars, vchan, scans, vfaults, rescans, asked, ringing,
              read_at, missing>>

NoScan == [stage |-> "none", file |-> [state |-> "missing", entries |-> {}], fstat |-> 0, no |-> 0]

ScannerFresh ==
  /\ observed = <<>> /\ pending = FALSE /\ interval_due = TRUE /\ window_open = TRUE
  /\ lock_reported = FALSE /\ rescan_requested = FALSE /\ prev_keys = {} /\ first_scan = TRUE
  /\ scan = NoScan

VulnRest(on) ==
  /\ vup = on /\ ScannerFresh
  /\ file = [state |-> "missing", entries |-> {}] /\ packages = {} /\ locked = FALSE
  /\ fstat = 0 /\ pstat = 0 /\ edits = 0 /\ vulns = EmptyTable /\ shown = Null
  /\ acks = [c \in Clerks |-> Null] /\ audits = {} /\ vchan = <<>> /\ scans = 0 /\ vfaults = 0
  /\ rescans = 0 /\ asked = FALSE /\ ringing = {} /\ missing = {}
  /\ read_at = [fstat |-> 0, pstat |-> 0, result |-> "none"]

VulnOff == VulnRest(FALSE)

VulnInit ==
  /\ vup = TRUE /\ ScannerFresh
  /\ \E f \in FirstFiles, p \in Installs : file = f /\ packages = p
  /\ locked = FALSE /\ fstat = 0 /\ pstat = 0 /\ edits = 0 /\ vulns = EmptyTable /\ shown = Null
  /\ acks = [c \in Clerks |-> Null] /\ audits = {} /\ vchan = <<>> /\ scans = 0 /\ vfaults = 0
  /\ rescans = 0 /\ asked = FALSE /\ ringing = {} /\ missing = {}
  /\ read_at = [fstat |-> 0, pstat |-> 0, result |-> "none"]

(* --------------------------------- host --------------------------------- *)

\* The file is replaced, or a package operation starts or ends.  Neither these nor
\* the clock touch what the daemon does with an event, so they wait for it.
Edit ==
  /\ vup /\ vchan = <<>> /\ edits < MaxEdits /\ edits + scans < MaxWork /\ edits' = edits + 1
  /\ \/ /\ \E f \in AdvisoryFiles \ {file} : file' = f
        /\ fstat' = fstat + 1 /\ UNCHANGED <<packages, locked, pstat>>
     \/ /\ ~locked /\ locked' = TRUE /\ UNCHANGED <<file, fstat, packages, pstat>>
  /\ UNCHANGED <<scannerVars, panelVars, vchan, scans, vfaults, rescans, asked, ringing, read_at, missing>>

Upgrade ==
  /\ locked /\ vchan = <<>> /\ locked' = FALSE
  /\ \E p \in Installs : packages' = p /\ pstat' = IF p = packages THEN pstat ELSE pstat + 1
  /\ UNCHANGED <<scannerVars, panelVars, file, fstat, edits, vchan, scans, vfaults, rescans, asked,
                 ringing, read_at, missing>>

\* The daily interval, or the five minutes after a file scan, are over.
Clock ==
  /\ vup /\ scan = NoScan /\ vchan = <<>>
  /\ \/ ~interval_due /\ interval_due' = TRUE /\ UNCHANGED window_open
     \/ ~window_open /\ window_open' = TRUE /\ UNCHANGED interval_due
  /\ UNCHANGED <<vup, observed, pending, lock_reported, rescan_requested, prev_keys, first_scan, scan,
                 fileVars, panelVars, vchan, scans, vfaults, rescans, asked, ringing, read_at, missing>>

(* -------------------------------- worker -------------------------------- *)

\* The reader thread: the flag is all it touches.
handle_command ==
  /\ vup /\ rescans < MaxRescans /\ rescans' = rescans + 1
  /\ rescan_requested' = TRUE /\ asked' = TRUE
  /\ UNCHANGED <<vup, observed, pending, interval_due, window_open, lock_reported, prev_keys,
                 first_scan, scan, fileVars, panelVars, vchan, scans, vfaults, ringing, read_at, missing>>

\* What a poll finds changed since the last one, other than the first.
observe_files == observed # <<>> /\ observed # <<fstat, pstat>>

trigger == pending \/ observe_files

scan_due == rescan_requested \/ interval_due \/ (trigger /\ window_open)

failed_event(reason) == [module |-> "vuln_scanner", action |-> "vuln_scan_failed", reason |-> reason]

poll_idle ==
  /\ ~scan_due /\ pending' = trigger
  /\ UNCHANGED <<interval_due, window_open, lock_reported, rescan_requested, scan, vchan, scans>>

\* A locked package database is reported once and keeps every trigger.
poll_locked ==
  /\ scan_due /\ locked /\ pending' = trigger /\ lock_reported' = TRUE
  /\ vchan' = IF lock_reported THEN vchan ELSE Append(vchan, failed_event("pacman_db_locked"))
  /\ UNCHANGED <<interval_due, window_open, rescan_requested, scan, scans>>

\* The triggers are spent before the scan reads a thing.  Bound: the events of an
\* earlier scan are through by then.
run_scan ==
  /\ scan_due /\ ~locked /\ vchan = <<>> /\ scans < MaxScans /\ edits + scans < MaxWork /\ scans' = scans + 1
  /\ rescan_requested' = FALSE /\ pending' = FALSE /\ lock_reported' = FALSE
  /\ interval_due' = FALSE /\ window_open' = IF trigger THEN FALSE ELSE window_open
  /\ scan' = [NoScan EXCEPT !.stage = "begun", !.no = scans + 1]
  /\ UNCHANGED vchan

\* One turn of the worker: the files are looked at, and a scan begins if one is due.
step ==
  /\ vup /\ scan = NoScan /\ observed' = <<fstat, pstat>>
  /\ poll_idle \/ poll_locked \/ run_scan
  /\ UNCHANGED <<vup, prev_keys, first_scan, fileVars, panelVars, vfaults, rescans, asked, ringing,
                 read_at, missing>>

\* The advisory file is read.
load_file ==
  /\ vup /\ scan.stage = "begun"
  /\ scan' = [scan EXCEPT !.stage = "loaded", !.file = file, !.fstat = fstat] /\ asked' = FALSE
  /\ UNCHANGED <<vup, observed, pending, interval_due, window_open, lock_reported, rescan_requested,
                 prev_keys, first_scan, fileVars, panelVars, vchan, scans, vfaults, rescans, ringing,
                 read_at, missing>>

found_event(k, no, alert) ==
  [module |-> "vuln_scanner", action |-> "vulnerability_found", key |-> k, ts |-> no, alert |-> alert]

completed_event(r, no) ==
  [module |-> "vuln_scanner", action |-> "vuln_scan_completed", ts |-> no, scan_started_at |-> no,
   skipped_avg_ids |-> r.skipped, advisories |-> r.advisories, found |-> r.matches]

\* The events of a scan: every match, and the completion that sweeps the rest;
\* a match is new when the last scan did not have it, and alerts unless this is
\* the first scan of the worker's life.
scan_events(r, no) ==
  LET keys == SetToSeq(r.matches)
  IN  [i \in DOMAIN keys |-> found_event(keys[i], no, ~first_scan /\ keys[i] \notin prev_keys)]
        \o <<completed_event(r, no)>>

Alerts(events) ==
  {e.key : e \in {f \in ToSet(events) : f.action = "vulnerability_found" /\ f.alert}}

\* The packages are listed and matched, and the events written; a worker killed
\* on the way wrote the first of them and starts anew.
finish_scan ==
  /\ vup /\ scan.stage = "loaded"
  /\ \E tools \in [pacman : BOOLEAN, vercmp : BOOLEAN] :
       LET bad == ~tools.pacman \/ ~tools.vercmp
           r == Reading(scan.file, packages, tools.pacman, tools.vercmp)
           events == IF r.reason # "" THEN <<failed_event(r.reason)>> ELSE scan_events(r, scan.no)
           alerts == Alerts(events)
       IN  /\ bad => vfaults < MaxVulnFaults
           /\ \/ /\ vchan' = vchan \o events /\ scan' = NoScan
                 /\ first_scan' = (first_scan /\ r.reason # "")
                 /\ prev_keys' = IF r.reason = "" THEN r.matches ELSE prev_keys
                 /\ ringing' = IF r.reason # "" THEN ringing
                               ELSE (ringing \cup alerts) \cap r.matches
                 /\ read_at' = [fstat |-> scan.fstat, pstat |-> pstat,
                                result |-> IF r.reason = "" THEN "read" ELSE "failed"]
                 /\ vfaults' = IF bad THEN vfaults + 1 ELSE vfaults
                 /\ UNCHANGED <<vup, observed, pending, interval_due, window_open, lock_reported,
                                rescan_requested>>
              \/ /\ ~bad /\ vfaults < MaxVulnFaults /\ vfaults' = vfaults + 1
                 /\ \E k \in 0..(Len(events) - 1) :
                      vchan' = vchan \o SubSeq(events, 1, k)
                 /\ vup' = FALSE
                 /\ UNCHANGED <<observed, pending, interval_due, window_open, lock_reported,
                                rescan_requested, prev_keys, first_scan, scan, ringing, read_at>>
  /\ UNCHANGED <<fileVars, panelVars, scans, rescans, asked, missing>>

\* The supervisor starts the worker anew: nothing of it is kept.
Respawn ==
  /\ ~vup /\ vfaults > 0 /\ vup' = TRUE
  /\ observed' = <<>> /\ pending' = FALSE /\ interval_due' = TRUE /\ window_open' = TRUE
  /\ lock_reported' = FALSE /\ rescan_requested' = FALSE /\ prev_keys' = {} /\ first_scan' = TRUE
  /\ scan' = NoScan /\ asked' = FALSE /\ ringing' = {}
  /\ UNCHANGED <<fileVars, panelVars, vchan, scans, vfaults, rescans, read_at, missing>>

(* -------------------------------- daemon -------------------------------- *)

\* An event is projected, or lost on the way to the table.
Project ==
  /\ vchan # <<>> /\ vchan' = Tail(vchan)
  /\ LET ev == Head(vchan)
     IN  \/ /\ vulns' = project(ev, vulns, Null)
            /\ shown' = IF ev.action = "vulnerability_found" THEN shown ELSE ev.action
            /\ UNCHANGED <<missing, vfaults>>
         \/ /\ ev.action = "vulnerability_found" /\ vfaults < MaxVulnFaults /\ vfaults' = vfaults + 1
            /\ missing' = missing \cup {<<ev.key, ev.ts>>} /\ UNCHANGED <<vulns, shown>>
  /\ UNCHANGED <<scannerVars, fileVars, acks, audits, scans, rescans, asked, ringing, read_at>>

\* handle_list_vulnerabilities: the open rows and how the last scan ended.
handle_list_vulnerabilities ==
  [open |-> {k \in DOMAIN vulns : ~vulns[k].resolved}, last_scan |-> shown]

\* handle_ack_vulnerability: the row is read, written, and audited when it was
\* not acknowledged before.  Bound: acknowledgements begin until one is audited.
AckRead(c) ==
  /\ vup /\ acks[c] = Null /\ audits = {}
  /\ \E k \in DOMAIN vulns : acks' = [acks EXCEPT ![c] = <<k, ~vulns[k].acked>>]
  /\ UNCHANGED <<scannerVars, fileVars, vulns, shown, audits, vchan, scans, vfaults, rescans, asked,
                 ringing, read_at, missing>>

AckWrite(c) ==
  /\ acks[c] # Null
  /\ LET k == acks[c][1]
     IN  /\ vulns' = [vulns EXCEPT ![k].acked = TRUE]
         /\ audits' = IF acks[c][2] THEN audits \cup {k} ELSE audits
  /\ acks' = [acks EXCEPT ![c] = Null]
  /\ UNCHANGED <<scannerVars, fileVars, shown, vchan, scans, vfaults, rescans, asked, ringing, read_at,
                 missing>>

VulnNext ==
  \/ Edit \/ Upgrade \/ Clock \/ handle_command \/ step \/ load_file \/ finish_scan \/ Respawn
  \/ Project \/ \E c \in Clerks : AckRead(c) \/ AckWrite(c)

(* ------------------------------ properties ------------------------------ *)

\* The worker, its channel to the daemon and the table keep their types.
VulnTypeOK ==
  /\ scan.stage \in {"none", "begun", "loaded"} /\ scans \in 0..MaxScans
  /\ \A k \in DOMAIN vulns : vulns[k].last_seen \in 1..MaxScans
  /\ shown \in {Null, "vuln_scan_completed", "vuln_scan_failed"}

\* No change of the advisory file or of the packages slips through between a
\* poll and a scan: what the last attempt read is what there is, or a later poll
\* will see the difference, or it is due, unless that attempt failed.
NoMissedChange ==
  vup /\ scan = NoScan /\ read_at.result = "read" =>
    \/ read_at.fstat = fstat /\ read_at.pstat = pstat
    \/ pending \/ interval_due \/ observed # <<fstat, pstat>>

\* An accepted rescan reads the advisory file after it was accepted, also one
\* that comes while a scan runs or the package database is locked.
RescanHonoured == vup /\ asked => rescan_requested \/ scan.stage = "begun"

\* A vulnerability leaves the panel only by a scan that neither found it nor skipped
\* its advisory, and that had a whole advisory file to go by, unless the event
\* that found it was lost.
ResolvedOnlyIfGone ==
  [][\A k \in DOMAIN vulns :
       k \in handle_list_vulnerabilities.open /\ k \notin handle_list_vulnerabilities'.open =>
         LET ev == Head(vchan)
         IN  /\ k[1] \notin ev.skipped_avg_ids /\ ev.advisories + Cardinality(ev.skipped_avg_ids) > 0
             /\ k \in ev.found => <<k, ev.ts>> \in missing]_vulnvars

\* An acknowledgement outlives every rescan, and the day a vulnerability was
\* first seen does not move.
AckKept ==
  [][\A k \in DOMAIN vulns :
       /\ vulns[k].acked => vulns'[k].acked
       /\ vulns'[k].first_seen_at = vulns[k].first_seen_at]_vulnvars

\* A vulnerability is alerted once for as long as the scans of this worker keep
\* finding it.
OneAlert ==
  [][Len(vchan') > Len(vchan) =>
       Alerts(SubSeq(vchan', Len(vchan) + 1, Len(vchan'))) \cap ringing = {}]_vulnvars

\* Every acknowledgement that took effect is in the audit log.
AckAudited ==
  \A k \in DOMAIN vulns : vulns[k].acked /\ (\A c \in Clerks : acks[c] = Null) => k \in audits

\* The vulnerability panel is true: each change and each accepted rescan is read, a row is resolved
\* only if its vulnerability is gone, acknowledgements stay and are audited, and each is alerted once.
VulnPanelTrue ==
  /\ [](VulnTypeOK /\ NoMissedChange /\ RescanHonoured /\ AckAudited)
  /\ ResolvedOnlyIfGone /\ AckKept /\ OneAlert
=============================================================================
