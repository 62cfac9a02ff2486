---------------------------- MODULE ControlPlane ----------------------------
(* The daemon behind its control socket.  Every connection has a thread that *)
(* parses, gates and serves one request after the other; the reader threads  *)
(* of the workers raise alerts; the monitor thread verifies the audit log    *)
(* and runs retention.  They share the tables, the limiters and the one      *)
(* prompt.  A statement is one step, a handler is several.                   *)
(*                                                                           *)
(* The panel in use is chosen once: "commands" and "gated" run on a clock of *)
(* limiter units, "alerts", "cases" and "audit" on a clock of days.          *)
EXTENDS IpcGate, AuditLog, AlertDesk, TLC
CONSTANTS Clients, AllowedClients,  \* connections; those whose uid may call
          Dispatchers,              \* worker reader threads
          Panels,                   \* the panels a run explores
          Shas,                     \* the evidence blobs of the case
          DedupWindows,             \* windows rules ask for
          FailureWindow, FailureThreshold, FailureCooldown,
          EventsMaxRows,            \* rows prune_events deletes in a run
          MaxTime,                  \* bound: clock, per panel
          MaxRequests,              \* bound: requests, per panel
          MaxMatches                \* bound: rule matches

VARIABLES panel, now, left,
          conn,       \* per connection: where its thread is and what it carries
          gen,        \* per client: which process owns its pid (start time)
          lim,        \* the sliding windows
          prompt,     \* who holds _PROMPT_SEMAPHORE
          rows, outcomes, alertedAt,     \* audit_log and its failure window
          anchors, emitted,              \* audit_head events: stored, in the router
          alerts, raised, disp,          \* alerts; matches so far; reader threads
          cases, blobs, files,           \* cases, their evidence, journal files
          mon, lastTick,                 \* the monitor thread
          admitted, told,                \* history: limiter passes, audited rejections
          highest, tampered, alarm,      \* history: the anchor with the highest seq
          lastFail,                      \* history: time of the last failed append
          late, noisy, ghost             \* history: notices of an alert not new, of no row

net == <<conn, gen, lim, prompt, admitted, told>>
audit == <<rows, outcomes, alertedAt, lastFail>>
anchor == <<anchors, emitted, highest, tampered, alarm>>
desk == <<alerts, raised, disp, late, noisy, ghost>>
records == <<cases, blobs, files>>
monitor == <<mon, lastTick>>
vars == <<panel, now, left, net, audit, anchor, desk, records, monitor>>

Nobody == "nobody"
Severities == {"low", "critical"}
NoConn == [pc |-> "closed", m |-> "none", arg |-> 0, peer |-> 0, born |-> 0,
           grant |-> 0, what |-> "none", seen |-> {}]
IdleMon == [pc |-> "idle", anchor |-> NoAnchor, deleted |-> FALSE,
            reported |-> FALSE, errors |-> FALSE]
IdleDisp == [pc |-> "idle", id |-> 0, cand |-> build_alert("k", "low", 0), row |-> 0, open |-> FALSE]

Methods ==
  [commands |-> CommandMethods, gated |-> QuarantineMethods, alerts |-> AlertMethods,
   cases |-> CaseMethods \cup CustodyMethods, audit |-> {"add_note", "verify_audit_log"}]

\* A panel on cases opens on one case and the alert it was opened from; connections
\* come and go in the panel whose requests depend on the peer, and are open in others.
Init ==
  /\ panel \in Panels /\ now = 0 /\ left = MaxRequests[panel]
  /\ conn \in [Clients -> {NoConn, [NoConn EXCEPT !.pc = "idle", !.peer = 1, !.born = 1]}]
  /\ \A c \in Clients : conn[c].pc = "idle" <=> c \in AllowedClients /\ panel # "gated"
  /\ gen = [c \in Clients |-> 1]
  /\ lim = [l \in Limiters |-> NewLimiter] /\ prompt = Nobody
  /\ rows = <<>> /\ outcomes = <<>> /\ alertedAt = -1
  /\ anchors = {} /\ emitted = <<>>
  /\ alerts = IF panel = "cases" THEN (1 :> build_alert("k", "low", 0)) ELSE <<>>
  /\ raised = IF panel = "cases" THEN 1 ELSE 0
  /\ disp = [d \in Dispatchers |-> IdleDisp]
  /\ cases = IF panel \in {"cases", "audit"} THEN <<open_case(1)>> ELSE <<>>
  /\ blobs = Shas /\ files = {0}
  /\ mon = IdleMon /\ lastTick = -1
  /\ admitted = [l \in Limiters |-> <<>>] /\ told = [l \in Limiters |-> 0]
  /\ highest = NoAnchor /\ tampered = FALSE /\ alarm = FALSE /\ lastFail = -1
  /\ late = {} /\ noisy = FALSE /\ ghost = FALSE

At(c, pc) == conn[c].pc = pc
Go(c, pc) == conn' = [conn EXCEPT ![c].pc = pc]

\* The response is sent and the thread waits for the next line.
Waiting(c) == [NoConn EXCEPT !.pc = "idle", !.peer = conn[c].peer, !.born = conn[c].born]
ToAudit(c) == conn' = [conn EXCEPT ![c] = [Waiting(c) EXCEPT !.pc = "audit"]]
Answer(c) == conn' = [conn EXCEPT ![c] = Waiting(c)]

\* The log and a failing disk are followed in the audit panel.
Followed == panel = "audit"

\* The time in a row tells it from the row a cut removed from its place.
Era == IF tampered THEN 1 ELSE 0

\* append_audit: fail-open; the failure listener fires past the threshold.
append_audit ==
  IF ~Followed THEN UNCHANGED audit
  ELSE \E ok \in BOOLEAN :
    LET last == LastOutcomes(outcomes, ok, FailureWindow)
    IN  /\ rows' = IF ok THEN Append(rows, NextRow(rows, Era)) ELSE rows
        /\ outcomes' = last
        /\ lastFail' = IF ok THEN lastFail ELSE now
        /\ alertedAt' = IF /\ ~ok /\ failures(last) >= FailureThreshold
                           /\ alertedAt = -1 \/ now - alertedAt >= FailureCooldown
                        THEN now ELSE alertedAt

-----------------------------------------------------------------------------
\* ipc_server.py: _accept_loop, _handle, _dispatch, _gate.

\* A connection of an allowed uid: the start time of the peer is read now, and
\* is none when the peer is gone already.
Connect(c) ==
  /\ At(c, "closed") /\ c \in AllowedClients /\ left > 0
  /\ \E peer \in {0, gen[c]} :
       conn' = [conn EXCEPT ![c] = [NoConn EXCEPT !.pc = "idle", !.peer = peer, !.born = gen[c]]]
  /\ UNCHANGED <<gen, lim, prompt, admitted, told, panel, now, left, audit, anchor, desk, records, monitor>>

\* The peer exits and another process takes its pid, the connection still open.
PidReused(c) ==
  /\ panel = "gated" /\ ~At(c, "closed") /\ \A k \in Clients : gen[k] = 1
  /\ gen' = [gen EXCEPT ![c] = 2]
  /\ UNCHANGED <<conn, lim, prompt, admitted, told, panel, now, left, audit, anchor, desk, records, monitor>>

\* What a request is about: the first alert, the first case and what is tied to it.
ArgsOf(m) ==
  CASE m = "run_worker_command" -> CommandArgs
    [] m \in AlertMethods -> {1}
    [] m = "attach_alert" -> {1, 2}
    [] m = "download_evidence" -> Shas
    [] OTHER -> {0}

EntryOf(m) == IF polkit_action(m) THEN "gate" ELSE "handler"

\* One line is read and dispatched; what does not parse, has another version, names
\* no method or no case, or only reads is answered at once.
Request(c) ==
  /\ At(c, "idle") /\ left > 0 /\ left' = left - 1
  /\ \/ \E m \in Methods[panel] : \E a \in ArgsOf(m) :
          conn' = [conn EXCEPT ![c].pc = EntryOf(m), ![c].m = m, ![c].arg = a]
     \/ UNCHANGED conn
  /\ UNCHANGED <<gen, lim, prompt, admitted, told, panel, now, audit, anchor, desk, records, monitor>>

Disconnect(c) ==
  /\ At(c, "idle") /\ panel = "gated"
  /\ conn' = [conn EXCEPT ![c] = NoConn]
  /\ UNCHANGED <<gen, lim, prompt, admitted, told, panel, now, left, audit, anchor, desk, records, monitor>>

\* As much of the admissions as one window can be wrong about.
LastN(s) == SubSeq(s, IF Len(s) > Limit + 1 THEN Len(s) - Limit ELSE 1, Len(s))

\* A limiter decides; the history keeps what it admitted and how many rejections
\* were audited since, 2 standing for any other number than the one promised.
Meter(l, r) ==
  /\ lim' = [lim EXCEPT ![l] = r.limiter]
  /\ admitted' = [admitted EXCEPT ![l] = IF r.allowed THEN LastN(Append(@, now)) ELSE @]
  /\ told' = [told EXCEPT ![l] = IF r.allowed THEN 0
                                 ELSE IF r.audit THEN @ + 1 ELSE IF @ = 0 THEN 2 ELSE @]

\* _gate, before polkit: the limiter, then the peer.
GateLimit(c) ==
  /\ At(c, "gate")
  /\ LET l == LimiterOf(conn[c].m)
         r == check(lim[l], now)
     IN  /\ Meter(l, r)
         /\ IF r.allowed
            THEN IF conn[c].peer = 0 THEN ToAudit(c) ELSE Go(c, "authz")
            ELSE IF r.audit THEN ToAudit(c) ELSE Answer(c)
  /\ UNCHANGED <<gen, prompt, panel, now, left, audit, anchor, desk, records, monitor>>

\* check_polkit: one prompt at a time, the second caller is told at once.
AskPolkit(c) ==
  /\ At(c, "authz")
  /\ IF prompt = Nobody
     THEN prompt' = c /\ Go(c, "prompt")
     ELSE ToAudit(c) /\ UNCHANGED prompt
  /\ UNCHANGED <<gen, lim, admitted, told, panel, now, left, audit, anchor, desk, records, monitor>>

\* polkit answers about the process that has the pid and the start time asked for.
Subject_AtCall(c) == gen[c]

Subject(c) == conn[c].peer

PolkitAnswers(c) ==
  /\ At(c, "prompt")
  /\ \E run \in PkcheckRuns :
       /\ run = "exit_0" => gen[c] = Subject(c)
       /\ IF classify(run) = "authorized"
          THEN conn' = [conn EXCEPT ![c].pc = "handler", ![c].grant = gen[c]]
          ELSE ToAudit(c)
  /\ prompt' = IF prompt = c THEN Nobody ELSE prompt
  /\ UNCHANGED <<gen, lim, admitted, told, panel, now, left, audit, anchor, desk, records, monitor>>

\* The audit row of a denial, a rejection or an action, and the way to the reply.
AuditRow(c) ==
  /\ At(c, "audit")
  /\ append_audit /\ Answer(c)
  /\ UNCHANGED <<gen, lim, prompt, admitted, told, panel, now, left, anchor, desk, records, monitor>>

-----------------------------------------------------------------------------
\* ipc_commands.py, alerts/ipc_handlers.py, cases/ipc_handlers.py.

\* The verbs past the gate are the actions of module Quarantine.
ServeVerb(c) ==
  /\ At(c, "handler") /\ polkit_action(conn[c].m)
  /\ Answer(c)
  /\ UNCHANGED <<gen, lim, prompt, admitted, told, panel, now, left, audit, anchor, desk, records, monitor>>

\* handle_run_worker_command up to the pipe: limiter, allowlist, caps.
CommandChecks(c) ==
  /\ At(c, "handler") /\ conn[c].m = "run_worker_command"
  /\ LET r == check(lim["commands"], now)
         reason == CommandRejection(conn[c].arg)
     IN  /\ Meter("commands", r)
         /\ IF r.allowed
            THEN IF reason # "none" THEN ToAudit(c) ELSE Go(c, "sent")
            ELSE IF r.audit THEN ToAudit(c) ELSE Answer(c)
  /\ UNCHANGED <<gen, prompt, panel, now, left, audit, anchor, desk, records, monitor>>

\* send_worker_command comes back (module Supervisor), and its status is audited.
SendReturns(c) ==
  /\ At(c, "sent")
  /\ ToAudit(c)
  /\ UNCHANGED <<gen, lim, prompt, admitted, told, panel, now, left, audit, anchor, desk, records, monitor>>

\* _transition, its SELECT and the test of the life cycle.
TransitionRead(c) ==
  /\ At(c, "handler") /\ conn[c].m \in AlertMethods
  /\ LET a == conn[c].arg
     IN  IF a \in DOMAIN alerts /\ validate_transition(alerts[a].status, TargetOf(conn[c].m))
         THEN conn' = [conn EXCEPT ![c].pc = "write", ![c].what = alerts[a].status]
         ELSE Answer(c)
  /\ UNCHANGED <<gen, lim, prompt, admitted, told, panel, now, left, audit, anchor, desk, records, monitor>>

\* Its UPDATE, which tests nothing any more.
TransitionWrite(c) ==
  /\ At(c, "write") /\ conn[c].m \in AlertMethods
  /\ LET a == conn[c].arg
     IN  alerts' = IF a \in DOMAIN alerts
                   THEN [alerts EXCEPT ![a].status = TargetOf(conn[c].m)] ELSE alerts
  /\ ToAudit(c)
  /\ UNCHANGED <<gen, lim, prompt, admitted, told, panel, now, left, audit, anchor,
                 raised, disp, late, noisy, ghost, records, monitor>>

\* open_case is one transaction.
OpenCase(c) ==
  /\ At(c, "handler") /\ conn[c].m = "open_case"
  /\ cases' = Append(cases, open_case(1))
  /\ ToAudit(c)
  /\ UNCHANGED <<gen, lim, prompt, admitted, told, panel, now, left, audit, anchor, desk, blobs, files, monitor>>

\* attach_alert: the link is looked up, then inserted with its timeline row.  The
\* second of two inserts meets the primary key and answers with an error.
AttachRead(c) ==
  /\ At(c, "handler") /\ conn[c].m = "attach_alert"
  /\ IF conn[c].arg \in cases[1].alerts THEN ToAudit(c) ELSE Go(c, "write")
  /\ UNCHANGED <<gen, lim, prompt, admitted, told, panel, now, left, audit, anchor, desk, records, monitor>>

AttachWrite(c) ==
  /\ At(c, "write") /\ conn[c].m = "attach_alert"
  /\ cases' = [cases EXCEPT ![1] = attach(@, conn[c].arg)]
  /\ IF conn[c].arg \in cases[1].alerts THEN Answer(c) ELSE ToAudit(c)
  /\ UNCHANGED <<gen, lim, prompt, admitted, told, panel, now, left, audit, anchor, desk, blobs, files, monitor>>

AddNote(c) ==
  /\ At(c, "handler") /\ conn[c].m = "add_note"
  /\ cases' = [cases EXCEPT ![1] = add_note(@)]
  /\ ToAudit(c)
  /\ UNCHANGED <<gen, lim, prompt, admitted, told, panel, now, left, audit, anchor, desk, blobs, files, monitor>>

\* close_case: the status is read, then written and noted.
CloseRead(c) ==
  /\ At(c, "handler") /\ conn[c].m = "close_case"
  /\ IF cases[1].status = "closed" THEN ToAudit(c) ELSE Go(c, "write")
  /\ UNCHANGED <<gen, lim, prompt, admitted, told, panel, now, left, audit, anchor, desk, records, monitor>>

CloseWrite(c) ==
  /\ At(c, "write") /\ conn[c].m = "close_case"
  /\ cases' = [cases EXCEPT ![1] = close_case(@)]
  /\ ToAudit(c)
  /\ UNCHANGED <<gen, lim, prompt, admitted, told, panel, now, left, audit, anchor, desk, blobs, files, monitor>>

\* handle_export_case_zip: the case is read, its blobs one by one, and the export
\* is noted in the timeline; a blob that is gone is listed as missing.
ExportRead(c) ==
  /\ At(c, "handler") /\ conn[c].m = "export_case_zip"
  /\ conn' = [conn EXCEPT ![c].pc = "export", ![c].seen = Shas, ![c].what = "whole"]
  /\ UNCHANGED <<gen, lim, prompt, admitted, told, panel, now, left, audit, anchor, desk, records, monitor>>

ExportBlob(c) ==
  /\ At(c, "export")
  /\ \E sha \in conn[c].seen :
       conn' = [conn EXCEPT ![c].seen = @ \ {sha},
                            ![c].what = IF sha \in blobs THEN @ ELSE "missing"]
  /\ UNCHANGED <<gen, lim, prompt, admitted, told, panel, now, left, audit, anchor, desk, records, monitor>>

\* The cap on the bytes can end it instead.
ExportDone(c) ==
  /\ At(c, "export")
  /\ \/ /\ conn[c].seen = {}
        /\ cases' = [cases EXCEPT ![1] = append_timeline(@, "exported")]
        /\ ToAudit(c)
     \/ Answer(c) /\ UNCHANGED cases
  /\ UNCHANGED <<gen, lim, prompt, admitted, told, panel, now, left, audit, anchor, desk, blobs, files, monitor>>

\* handle_download_evidence: one blob of this case.
Download(c) ==
  /\ At(c, "handler") /\ conn[c].m = "download_evidence"
  /\ IF conn[c].arg \in blobs
     THEN /\ cases' = [cases EXCEPT ![1] = append_timeline(@, "evidence_downloaded")]
          /\ ToAudit(c)
     ELSE Answer(c) /\ UNCHANGED cases
  /\ UNCHANGED <<gen, lim, prompt, admitted, told, panel, now, left, audit, anchor, desk, blobs, files, monitor>>

\* handle_verify_audit_log: the anchor first, then the rows.
VerifyAnchor(c) ==
  /\ At(c, "handler") /\ conn[c].m = "verify_audit_log"
  /\ conn' = [conn EXCEPT ![c].pc = "verify", ![c].seen = {newest_anchor(anchors)}]
  /\ UNCHANGED <<gen, lim, prompt, admitted, told, panel, now, left, audit, anchor, desk, records, monitor>>

VerifyRows(c) ==
  /\ At(c, "verify")
  /\ Answer(c)
  /\ alarm' = (alarm \/ \E a \in conn[c].seen : ~verify_audit_chain(rows, a))
  /\ UNCHANGED <<gen, lim, prompt, admitted, told, panel, now, left, audit, anchors, emitted, highest,
                 tampered, desk, records, monitor>>

-----------------------------------------------------------------------------
\* rule_engine.py and alerts/dedup.py on the reader threads of the workers.

\* A match that no allowlist entry suppresses looks for the alert it may bump.
DedupRead(d) ==
  /\ disp[d].pc = "idle" /\ raised < MaxMatches /\ panel = "alerts"
  /\ \E window \in DedupWindows :
       LET near == Latest(alerts, InWindow(alerts, "k", now, window))
       IN  \E row \in IF near = {} THEN {0} ELSE near, severity \in Severities :
             disp' = [disp EXCEPT ![d] = [pc |-> "write", id |-> raised + 1, row |-> row,
                                          open |-> row # 0 => alerts[row].status = "new",
                                          cand |-> build_alert("k", IF row = 0 THEN severity ELSE "low", now)]]
  /\ raised' = raised + 1
  /\ UNCHANGED <<panel, now, left, net, audit, anchor, alerts, late, noisy, ghost, records, monitor>>

\* It is inserted, or bumps the row that was found; what is notifiable goes out.
DedupWrite(d) ==
  /\ disp[d].pc = "write"
  /\ LET row  == disp[d].row
         cand == disp[d].cand
     IN  /\ alerts' = IF row = 0 THEN alerts @@ (disp[d].id :> cand) ELSE bump(alerts, row, cand)
         /\ IF row \in DOMAIN alerts /\ disp[d].open /\ alerts[row].status # "new"
            THEN late' = late \cup {<<d, row>>} /\ noisy' = (noisy \/ <<d, row>> \in late)
            ELSE UNCHANGED <<late, noisy>>
         /\ ghost' = (ghost \/ (row # 0 /\ row \notin DOMAIN alerts))
  /\ disp' = [disp EXCEPT ![d] = IdleDisp]
  /\ UNCHANGED <<panel, now, left, net, audit, anchor, raised, records, monitor>>

-----------------------------------------------------------------------------
\* supervisor.py, the daily ticks of the monitor thread.

Monitored == panel \in {"alerts", "cases", "audit"}

\* _audit_tick: the newest anchor, then the rows; a broken chain is reported and
\* not anchored again, the head of an intact one is emitted as an event.
TickAnchor ==
  /\ mon.pc = "idle" /\ Monitored /\ now > lastTick
  /\ lastTick' = now
  /\ mon' = [mon EXCEPT !.pc = IF Followed THEN "verify" ELSE "retain",
                        !.anchor = newest_anchor(anchors)]
  /\ UNCHANGED <<panel, now, left, net, audit, anchor, desk, records>>

TickVerify ==
  /\ mon.pc = "verify"
  /\ emitted' = IF verify_audit_chain(rows, mon.anchor) /\ rows # <<>>
                THEN Append(emitted, [ts |-> now, id |-> now, seq |-> rows[Len(rows)].seq,
                                      hash |-> rows[Len(rows)].hash])
                ELSE emitted
  /\ mon' = [mon EXCEPT !.pc = "retain", !.anchor = NoAnchor]
  /\ UNCHANGED <<panel, now, left, net, audit, anchors, highest, tampered, alarm, desk, records, lastTick>>

\* The event reaches the events table, or the router or the disk loses it.
AnchorStored ==
  /\ emitted # <<>> /\ emitted' = Tail(emitted)
  /\ \/ /\ anchors' = anchors \cup {Head(emitted)}
        /\ highest' = IF Head(emitted).seq >= highest.seq THEN Head(emitted) ELSE highest
     \/ UNCHANGED <<anchors, highest>>
  /\ UNCHANGED <<panel, now, left, net, audit, tampered, alarm, desk, records, monitor>>

\* What each pruner did: what is gone, and whether it raised.  An exception after
\* a part of the deletions leaves its count at zero.
PruneEvents == [anchors : prune_events(anchors, now, EventsMaxRows), failed : IF Followed THEN BOOLEAN ELSE {FALSE}]

PruneJournal == [files : {prune_journal_files(files, alerts, now)}, failed : {FALSE}]
             \cup IF Followed THEN [files : {files, prune_journal_files(files, alerts, now)}, failed : {TRUE}] ELSE {}

PruneAlerts == [alerts : {prune_alerts(alerts, cases, now)}, failed : {FALSE}]
            \cup IF Followed THEN [alerts : {alerts}, failed : {TRUE}] ELSE {}

\* prune_evidence on the blobs of the case (in detail in module Quarantine).
StaleBlobs == IF now > 0 /\ \A k \in DOMAIN cases : cases[k].status = "closed" THEN blobs ELSE {}

PruneEvidence == [blobs : {blobs \ StaleBlobs}, failed : {FALSE}]
              \cup IF Followed THEN [blobs : {blobs \ gone : gone \in SUBSET StaleBlobs}, failed : {TRUE}] ELSE {}

\* run_retention: every pruner guarded on its own, the errors collected.
run_retention(e, j, a, v) ==
  [deleted  |-> e.anchors # anchors \/ j.files # files \/ a.alerts # alerts \/ v.blobs # blobs,
   reported |-> \/ e.anchors # anchors /\ ~e.failed
                \/ j.files # files /\ ~j.failed
                \/ a.alerts # alerts
                \/ v.blobs # blobs /\ ~v.failed,
   errors   |-> e.failed \/ j.failed \/ a.failed \/ v.failed]

RetentionRun ==
  /\ mon.pc = "retain"
  /\ \E e \in PruneEvents, j \in PruneJournal, a \in PruneAlerts, v \in PruneEvidence :
       LET report == run_retention(e, j, a, v)
       IN  /\ anchors' = e.anchors /\ files' = j.files /\ alerts' = a.alerts /\ blobs' = v.blobs
           /\ mon' = [mon EXCEPT !.pc = "report", !.deleted = report.deleted,
                                 !.reported = report.reported, !.errors = report.errors]
  /\ UNCHANGED <<panel, now, left, net, audit, emitted, highest, tampered, alarm,
                 raised, disp, late, noisy, ghost, cases, lastTick>>

\* _retention_tick: one audit row when something was deleted; errors go out as an event.
RetentionReport ==
  /\ mon.pc = "report" /\ mon' = IdleMon
  /\ IF mon.reported THEN append_audit ELSE UNCHANGED audit
  /\ UNCHANGED <<panel, now, left, net, anchor, desk, records, lastTick>>

-----------------------------------------------------------------------------
\* A row removed from the end, or changed, behind the daemon's back, between ticks.
Tamper ==
  /\ panel = "audit" /\ ~tampered /\ rows # <<>> /\ mon.pc = "idle"
  /\ tampered' = TRUE
  /\ rows' \in {SubSeq(rows, 1, Len(rows) - 1)}
               \cup {[rows EXCEPT ![i].what = "edited"] : i \in DOMAIN rows}
  /\ UNCHANGED <<panel, now, left, net, outcomes, alertedAt, lastFail, anchors, emitted,
                 highest, alarm, desk, records, monitor>>

\* A day is long for a request, an alert, an event in the router and the monitor; the
\* journal opens the file of the new day.
Tick ==
  /\ now < MaxTime[panel] /\ now' = now + 1
  /\ panel \in {"alerts", "cases", "audit"} =>
       /\ mon.pc = "idle" /\ emitted = <<>>
       /\ \A c \in Clients : conn[c].pc \in {"closed", "idle"}
       /\ \A d \in Dispatchers : disp[d].pc = "idle"
  /\ files' = IF Monitored THEN files \cup {now + 1} ELSE files
  /\ UNCHANGED <<panel, left, net, audit, anchor, desk, cases, blobs, monitor>>

Thread(c) ==
  \/ Connect(c) \/ Request(c) \/ Disconnect(c) \/ GateLimit(c) \/ AskPolkit(c)
  \/ PolkitAnswers(c) \/ AuditRow(c) \/ ServeVerb(c) \/ CommandChecks(c) \/ SendReturns(c)
  \/ TransitionRead(c) \/ TransitionWrite(c) \/ OpenCase(c) \/ AttachRead(c) \/ AttachWrite(c)
  \/ AddNote(c) \/ CloseRead(c) \/ CloseWrite(c) \/ ExportRead(c) \/ ExportBlob(c)
  \/ ExportDone(c) \/ Download(c) \/ VerifyAnchor(c) \/ VerifyRows(c)

Monitor == TickAnchor \/ TickVerify \/ RetentionRun \/ RetentionReport

Next ==
  \/ \E c \in Clients : Thread(c) \/ PidReused(c)
  \/ \E d \in Dispatchers : DedupRead(d) \/ DedupWrite(d)
  \/ Monitor \/ AnchorStored \/ Tamper \/ Tick

Spec == Init /\ [][Next]_vars
-----------------------------------------------------------------------------
\* Every variable keeps its type, and a limiter never holds more stamps than it admits.
TypeOK ==
  /\ panel \in Panels /\ now \in 0..MaxTime[panel] /\ left \in 0..MaxRequests[panel]
  /\ \A c \in Clients : conn[c].pc \in {"closed", "idle", "gate", "authz", "prompt", "handler",
       "sent", "write", "export", "verify", "audit"}
  /\ \A l \in Limiters : Len(lim[l].stamps) <= Limit
  /\ prompt \in Clients \cup {Nobody}
  /\ Len(outcomes) <= FailureWindow /\ Len(rows) <= MaxRequests[panel] + MaxTime[panel] + 1
  /\ DOMAIN alerts \subseteq 1..MaxMatches
  /\ \A a \in DOMAIN alerts : alerts[a].status \in Statuses
  /\ blobs \subseteq Shas /\ files \subseteq 0..MaxTime[panel]
  /\ mon.pc \in {"idle", "verify", "retain", "report"}

\* SlidingWindowLimiter.check: no window of Window units, wherever it begins, admits
\* more than Limit calls, whoever makes them and however they straddle its edges.
WindowRespected ==
  \A l \in Limiters : \A i \in DOMAIN admitted[l] :
    Cardinality({j \in 1..i : admitted[l][i] - admitted[l][j] < Window}) <= Limit

\* Between two admitted calls a limiter has exactly one of its rejections audited,
\* the first one, however many threads are rejected.
OneNotice == \A l \in Limiters : told[l] < 2

\* check_polkit: at most one prompt is open, and _PROMPT_SEMAPHORE is held by the
\* thread that opened it and by no other, whatever pkcheck did.
OnePrompt ==
  \A c \in Clients : At(c, "prompt") <=> prompt = c

\* A verb behind polkit runs only with a grant given to the very process that opened
\* the connection, also when its pid was taken by another one meanwhile.
BoundToPeer ==
  \A c \in Clients : At(c, "handler") /\ polkit_action(conn[c].m) => conn[c].grant = conn[c].born

\* append_audit: while the failures of the window are past the threshold, the last
\* failure lies within the cooldown of a notice to the failure listener.
FailuresHeard ==
  failures(outcomes) >= FailureThreshold =>
    alertedAt >= 0 /\ lastFail - alertedAt < FailureCooldown

\* No verification fails on a log nobody touched: neither the tick nor a client,
\* with any anchor stored or on its way, between any two failing or racing appends.
NoFalseAlarm ==
  ~tampered =>
    /\ \A a \in anchors \cup {emitted[i] : i \in DOMAIN emitted} \cup {NoAnchor} :
         verify_audit_chain(rows, a)
    /\ ~alarm

\* An audit log that verifies still holds every row that was ever anchored: a cut or
\* an edit below an anchor is noticed, also after later appends and after retention
\* pruned the events table.
VerifiedMeansWhole ==
  verify_audit_chain(rows, newest_anchor(anchors)) => AnchorHeld(rows, highest)

\* _transition: a resolved or suppressed alert changes its status only by a request
\* that had read an earlier, open status; a request that begins later cannot reopen it.
TerminalKept ==
  [][\A a \in DOMAIN alerts \cap DOMAIN alerts' :
       alerts[a].status \in Terminal /\ alerts'[a].status # alerts[a].status =>
         \E c \in Clients : /\ At(c, "write") /\ conn'[c].pc = "audit"
                            /\ conn[c].arg = a /\ conn[c].what \notin Terminal]_vars

\* An alert that is no longer new is notified again only by the matches that were in
\* flight when it was acknowledged, one for each reader thread at most.
AckedQuiet == ~noisy

\* A bump never goes to a row retention removed after it was found: what is notified
\* is in the table.
NoGhost == ~ghost

\* Retention never removes an alert of a case that is open, nor a critical one.
KeptForCase ==
  [][\A a \in DOMAIN alerts \ DOMAIN alerts' :
       a \notin Attached(cases) /\ alerts[a].severity # "critical"]_vars

\* The journal file of a day with a critical alert outlives age and quota.
CriticalDayKept == critical_alert_days(alerts) \subseteq files

\* An export of a case that stays open is whole: no blob of it is missing, whatever
\* retention does between the reads.
OpenCaseWhole ==
  \A c \in Clients : At(c, "export") /\ conn[c].what = "missing" => cases[1].status = "closed"

\* A retention run that deleted anything is accounted for: by the audit row, or by the
\* event about the error that kept it from being counted.
Accounted == mon.deleted => mon.reported \/ mon.errors

\* The gate in front of the verbs: the limiters hold over every window and audit one rejection of
\* each spell, polkit asks one question at a time, and its answer is for the process that asked.
GateSound == TypeOK /\ WindowRespected /\ OneNotice /\ OnePrompt /\ BoundToPeer

\* The audit log can be believed: it never cries wolf, it is whole when it verifies, and rows that
\* could not be written were reported.
AuditTrusted == NoFalseAlarm /\ VerifiedMeansWhole /\ FailuresHeard

\* What an operator decided about an alert stands: later matches do not wake it, later requests do
\* not reopen it.
DecisionStands == []AckedQuiet /\ TerminalKept

\* Retention removes only what nobody holds: neither an alert, a blob nor a journal file of an open
\* case or a critical alert, nor a row that is being bumped; and it accounts for what it removed.
RetentionSafe == [](OpenCaseWhole /\ CriticalDayKept /\ NoGhost /\ Accounted) /\ KeptForCase
=============================================================================
