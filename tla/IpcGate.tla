------------------------------ MODULE IpcGate ------------------------------
(* What stands between a request on the control socket and its handler: the *)
(* method table of the daemon, the sliding-window limiter and the answer of *)
(* pkcheck.  Every operator is a function of its arguments.                 *)
EXTENDS Naturals, Sequences
CONSTANTS Limit,        \* calls a window admits (12)
          Window        \* its length in clock units (60 s)

ASSUME LimiterAssumption == Limit \in Nat \ {0} /\ Window \in Nat \ {0}

\* The methods whose handlers change state, by the panel they belong to.
AlertMethods == {"ack_alert", "resolve_alert", "suppress_alert"}

CaseMethods == {"open_case", "attach_alert", "add_note", "close_case"}

CustodyMethods == {"export_case_zip", "download_evidence"}

CommandMethods == {"run_worker_command"}

QuarantineMethods == {"quarantine_file", "restore_quarantined", "delete_quarantined"}

\* Only the three quarantine verbs carry a polkit action.
polkit_action(m) == m \in QuarantineMethods

\* Their windows: isolating has its own, restoring and deleting share one.
LimiterOf(m) ==
  CASE m = "quarantine_file" -> "quarantine"
    [] m \in {"restore_quarantined", "delete_quarantined"} -> "restore_delete"
    [] m = "run_worker_command" -> "commands"

Limiters == {"quarantine", "restore_delete", "commands"}

NewLimiter == [stamps |-> <<>>, rejection_audited |-> FALSE]

\* The stamps that are still inside the window that ends now.
Fresh(stamps, now) == SelectSeq(stamps, LAMBDA s : now - s < Window)

\* SlidingWindowLimiter.check: admit, or reject and say whether to audit it.
check(l, now) ==
  LET kept == Fresh(l.stamps, now)
      admit == Len(kept) < Limit
  IN  [allowed |-> admit,
       audit   |-> ~admit /\ ~l.rejection_audited,
       limiter |-> [stamps |-> IF admit THEN Append(kept, now) ELSE kept,
                    rejection_audited |-> ~admit]]

\* What a pkcheck run can do, and the outcome check_polkit makes of it.
PkcheckRuns == {"exit_0", "no_agent", "not_registered", "refused",
                "not_installed", "timed_out", "os_error"}

classify(run) ==
  CASE run = "exit_0" -> "authorized"
    [] run = "no_agent" -> "agent_missing"
    [] run = "not_registered" -> "action_unknown"
    [] run = "refused" -> "denied"
    [] run = "not_installed" -> "polkit_unavailable"
    [] run = "timed_out" -> "timeout"
    [] run = "os_error" -> "error"

\* run_worker_command: the argument classes its checks tell apart, in the order
\* of the checks, with the reason each is rejected for.
CommandArgs == {"listed", "unlisted", "not_object", "too_large"}

CommandRejection(arg) ==
  CASE arg = "unlisted" -> "not_allowlisted"
    [] arg = "not_object" -> "args_not_object"
    [] arg = "too_large" -> "args_too_large"
    [] arg = "listed" -> "none"
=============================================================================
