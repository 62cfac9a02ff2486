----------------------------- MODULE Quarantine -----------------------------
(***************************************************************************)
(* The forensic blob store and the four writers that share it:             *)
(* quarantine/ops.py (isolate, restore, delete), evidence/collector.py     *)
(* (capture), and retention/engine.py (prune_evidence).                    *)
(*                                                                         *)
(* Calls are the threads that run these operations, one operation each; a  *)
(* step is one database statement, one file-system call or one taking of   *)
(* EvidenceCollector.capture_lock.  A quarantine row is named by the       *)
(* isolate call that inserted it: its columns sha256 and original_path are *)
(* sha[q] and path[q], which nothing changes after the INSERT.  A file is  *)
(* its content and its inode number, <<sha, n>>.  Database and blobs       *)
(* survive a crash of the daemon; the threads and the lock do not.         *)
(***************************************************************************)
EXTENDS Naturals

CONSTANTS
  Calls,          \* threads, each runs one operation
  Cases,          \* alerts that open a case (one case for each)
  CriticalCases,  \* the cases with a critical alert attached
  Shas,           \* contents, named by their digest
  Paths,          \* original paths outside the store and the deny-list
  MaxInodes,      \* model bound: inodes ever created
  MaxCrashes,     \* model bound: crashes of the daemon
  None

ASSUME QuarantineAssumption ==
  /\ CriticalCases \subseteq Cases
  /\ MaxInodes \in Nat /\ MaxCrashes \in Nat
  /\ None \notin Calls \cup Cases \cup Shas \cup Paths \cup (Shas \X (1..MaxInodes))

VARIABLES
  at, inodes,       \* the file at each path; inodes created so far
  blobs,            \* the digests present in the forensic store
  status,           \* quarantine.status of each row
  evidence, cases,  \* case_evidence rows, and the status of their cases
  lock,             \* capture_lock
  pc, subject,      \* each call: its next step; the row or the case it works on
  sha, path, file,  \*   its digest, its path, the file it has open
  todo,             \*   the candidates a prune has left
  audit,            \* audit_log: the outcome recorded for each call
  crashes, torn     \* crashes so far; digests whose stamping one interrupted

fileVars == <<at, inodes>>
rowVars  == <<status, evidence, cases>>
callVars == <<pc, subject, sha, path, file, todo>>
pastVars == <<crashes, torn>>
vars == <<fileVars, blobs, rowVars, lock, callVars, audit, pastVars>>

Files      == Shas \X (1..MaxInodes)
Protecting == {"isolating", "active", "failed", "restoring"}
RowStates  == Protecting \cup {"none", "restored", "deleting", "deleted"}
Unmarked   == {"fresh", "stale"}      \* case_evidence without pruned_at

-----------------------------------------------------------------------------
Init ==
  /\ at = [p \in Paths |-> None] /\ inodes = 0
  /\ blobs = {}
  /\ status = [q \in Calls |-> "none"]
  /\ evidence = [r \in Cases \X Shas |-> "none"]
  /\ cases = [k \in Cases |-> "none"]
  /\ lock = None
  /\ pc = [c \in Calls |-> "idle"] /\ subject = [c \in Calls |-> None]
  /\ sha = [c \in Calls |-> None] /\ path = [c \in Calls |-> None]
  /\ file = [c \in Calls |-> None] /\ todo = [c \in Calls |-> {}]
  /\ audit = [c \in Calls |-> "none"]
  /\ crashes = 0 /\ torn = {}

goto(c, label) == pc' = [pc EXCEPT ![c] = label]

acquire(c) == lock = None /\ lock' = c
release    == lock' = None

\* mutation: the UPDATE is not guarded by the status
cas_Unguarded(q, from, to) == from # {} /\ status' = [status EXCEPT ![q] = to]

(* _cas: the guarded UPDATE of quarantine.status. *)
cas(q, from, to) == status[q] \in from /\ status' = [status EXCEPT ![q] = to]

-----------------------------------------------------------------------------
(* isolate *)

(* _validate_target, _open_parent, _open_target: a missing file is refused. *)
IsolateOpen(c, p) ==
  /\ pc[c] = "idle"
  /\ path' = [path EXCEPT ![c] = p]
  /\ file' = [file EXCEPT ![c] = at[p]]
  /\ goto(c, IF at[p] = None THEN "refused" ELSE "capture")
  /\ UNCHANGED <<fileVars, blobs, rowVars, lock, subject, sha, todo, audit, pastVars>>

IsolateLock(c) ==
  /\ pc[c] = "capture"
  /\ acquire(c)
  /\ goto(c, "put")
  /\ UNCHANGED <<fileVars, blobs, rowVars, subject, sha, path, file, todo, audit, pastVars>>

(* put_stream: stored, or found there by its digest. *)
IsolatePut(c) ==
  /\ pc[c] = "put"
  /\ sha' = [sha EXCEPT ![c] = file[c][1]]
  /\ blobs' = blobs \cup {file[c][1]}
  /\ goto(c, "insert")
  /\ UNCHANGED <<fileVars, rowVars, lock, subject, path, file, todo, audit, pastVars>>

\* mutation: the failed capture keeps the lock
IsolatePutFails_LockKept(c) ==
  /\ pc[c] = "put"
  /\ goto(c, "refused")
  /\ UNCHANGED <<fileVars, blobs, rowVars, lock, subject, sha, path, file, todo, audit,
                 pastVars>>

(* put_stream over its cap (refused), or an OSError that isolate lets      *)
(* through without an audit row: nothing is stored, the lock is released.  *)
IsolatePutFails(c) ==
  /\ pc[c] = "put"
  /\ release
  /\ \/ goto(c, "refused")
     \/ goto(c, "done")
  /\ UNCHANGED <<fileVars, blobs, rowVars, subject, sha, path, file, todo, audit, pastVars>>

(* The INSERT of the row ends the locked section. *)
IsolateInsert(c) ==
  /\ pc[c] = "insert"
  /\ status' = [status EXCEPT ![c] = "isolating"]
  /\ subject' = [subject EXCEPT ![c] = c]
  /\ release
  /\ goto(c, "stat")
  /\ UNCHANGED <<fileVars, blobs, evidence, cases, sha, path, file, todo, audit, pastVars>>

(* _unlink_guarded: fstatat must still find the inode that was captured... *)
IsolateStat(c) ==
  /\ pc[c] = "stat"
  /\ goto(c, IF at[path[c]] = file[c] THEN "unlink" ELSE "fail")
  /\ UNCHANGED <<fileVars, blobs, rowVars, lock, subject, sha, path, file, todo, audit, pastVars>>

\* mutation: a failed unlink is not noticed
IsolateUnlink_Unchecked(c) ==
  /\ pc[c] = "unlink"
  /\ at' \in {at, [at EXCEPT ![path[c]] = None]}
  /\ goto(c, "activate")
  /\ UNCHANGED <<inodes, blobs, rowVars, lock, subject, sha, path, file, todo, audit, pastVars>>

(* ...before unlinkat removes whatever is at the name, or fails.           *)
IsolateUnlink(c) ==
  /\ pc[c] = "unlink"
  /\ \/ /\ at[path[c]] # None
        /\ at' = [at EXCEPT ![path[c]] = None]
        /\ goto(c, "activate")
     \/ UNCHANGED at /\ goto(c, "fail")
  /\ UNCHANGED <<inodes, blobs, rowVars, lock, subject, sha, path, file, todo, audit, pastVars>>

IsolateActivate(c) ==
  /\ pc[c] = "activate"
  /\ cas(c, {"isolating"}, "active")
  /\ goto(c, "quarantined")
  /\ UNCHANGED <<fileVars, blobs, evidence, cases, lock, subject, sha, path, file, todo,
                 audit, pastVars>>

IsolateFail(c) ==
  /\ pc[c] = "fail"
  /\ cas(c, {"isolating"}, "failed")
  /\ goto(c, "refused")
  /\ UNCHANGED <<fileVars, blobs, evidence, cases, lock, subject, sha, path, file, todo,
                 audit, pastVars>>

-----------------------------------------------------------------------------
(* restore *)

(* The guarded transition comes first; a call that loses it is refused. *)
RestoreClaim(c, q) ==
  /\ pc[c] = "idle"
  /\ status[q] # "none"
  /\ \/ /\ cas(q, {"active"}, "restoring")
        /\ subject' = [subject EXCEPT ![c] = q]
        /\ goto(c, "verify")
     \/ /\ status[q] # "active"
        /\ goto(c, "refused")
        /\ UNCHANGED <<status, subject>>
  /\ UNCHANGED <<fileVars, blobs, evidence, cases, lock, sha, path, file, todo, audit,
                 pastVars>>

(* _verify_blob, then the deny-list and the parent directory, which may    *)
(* have changed since the isolation.                                       *)
RestoreVerify(c) ==
  /\ pc[c] = "verify"
  /\ \/ sha[subject[c]] \in blobs /\ goto(c, "link")
     \/ goto(c, "rollback")
  /\ UNCHANGED <<fileVars, blobs, rowVars, lock, subject, sha, path, file, todo, audit, pastVars>>

(* _write_and_commit: the blob is copied to a new inode, which is linked   *)
(* at the original path unless something is there.                         *)
RestoreLink(c) ==
  /\ pc[c] = "link"
  /\ \/ /\ sha[subject[c]] \in blobs
        /\ at[path[subject[c]]] = None
        /\ inodes < MaxInodes
        /\ inodes' = inodes + 1
        /\ at' = [at EXCEPT ![path[subject[c]]] = <<sha[subject[c]], inodes + 1>>]
        /\ goto(c, "commit")
     \/ goto(c, "rollback") /\ UNCHANGED fileVars
  /\ UNCHANGED <<blobs, rowVars, lock, subject, sha, path, file, todo, audit, pastVars>>

RestoreCommit(c) ==
  /\ pc[c] = "commit"
  /\ cas(subject[c], {"restoring"}, "restored")
  /\ goto(c, "restored")
  /\ UNCHANGED <<fileVars, blobs, evidence, cases, lock, subject, sha, path, file, todo,
                 audit, pastVars>>

RestoreRollback(c) ==
  /\ pc[c] = "rollback"
  /\ cas(subject[c], {"restoring"}, "active")
  /\ goto(c, "refused")
  /\ UNCHANGED <<fileVars, blobs, evidence, cases, lock, subject, sha, path, file, todo,
                 audit, pastVars>>

-----------------------------------------------------------------------------
(* delete *)

DeleteClaim(c, q) ==
  /\ pc[c] = "idle"
  /\ status[q] # "none"
  /\ \/ /\ cas(q, {"active", "restored", "failed"}, "deleting")
        /\ subject' = [subject EXCEPT ![c] = q]
        /\ goto(c, "discard")
     \/ /\ status[q] \notin {"active", "restored", "failed"}
        /\ goto(c, "refused")
        /\ UNCHANGED <<status, subject>>
  /\ UNCHANGED <<fileVars, blobs, evidence, cases, lock, sha, path, file, todo, audit,
                 pastVars>>

DeleteLock(c) ==
  /\ pc[c] = "discard"
  /\ acquire(c)
  /\ goto(c, "claims")
  /\ UNCHANGED <<fileVars, blobs, rowVars, subject, sha, path, file, todo, audit, pastVars>>

\* mutation: the other quarantine rows of the content are not asked
held_CasesOnly(q) == \E k \in Cases : evidence[<<k, sha[q]>>] # "none"

\* mutation: the case evidence of the content is not asked
held_RowsOnly(q) ==
  \E r \in Calls \ {q} : sha[r] = sha[q] /\ status[r] \notin {"none", "deleted"}

(* held_by_case or held_by_other: a reference that keeps the blob of q. *)
held(q) ==
  \/ \E k \in Cases : evidence[<<k, sha[q]>>] # "none"
  \/ \E r \in Calls \ {q} : sha[r] = sha[q] /\ status[r] \notin {"none", "deleted"}

DeleteClaims(c) ==
  /\ pc[c] = "claims"
  /\ IF held(subject[c]) THEN release /\ goto(c, "erase")
                         ELSE goto(c, "remove") /\ UNCHANGED lock
  /\ UNCHANGED <<fileVars, blobs, rowVars, subject, sha, path, file, todo, audit, pastVars>>

DeleteRemove(c) ==
  /\ pc[c] = "remove"
  /\ blobs' = blobs \ {sha[subject[c]]}
  /\ release
  /\ goto(c, "erase")
  /\ UNCHANGED <<fileVars, rowVars, subject, sha, path, file, todo, audit, pastVars>>

DeleteErase(c) ==
  /\ pc[c] = "erase"
  /\ cas(subject[c], {"deleting"}, "deleted")
  /\ goto(c, "deleted")
  /\ UNCHANGED <<fileVars, blobs, evidence, cases, lock, subject, sha, path, file, todo,
                 audit, pastVars>>

\* mutation: only the refusals are recorded
Audit_RefusalsOnly(c) ==
  /\ pc[c] \in {"refused", "quarantined", "restored", "deleted"}
  /\ audit' = [audit EXCEPT ![c] = IF pc[c] = "refused" THEN "refused" ELSE @]
  /\ goto(c, "done")
  /\ UNCHANGED <<fileVars, blobs, rowVars, lock, subject, sha, path, file, todo, pastVars>>

(* audit_log and the case timeline record the outcome, then the call       *)
(* returns.  A refusal is recorded too.                                    *)
Audit(c) ==
  /\ pc[c] \in {"refused", "quarantined", "restored", "deleted"}
  /\ audit' = [audit EXCEPT ![c] = pc[c]]
  /\ goto(c, "done")
  /\ UNCHANGED <<fileVars, blobs, rowVars, lock, subject, sha, path, file, todo, pastVars>>

-----------------------------------------------------------------------------
(* EvidenceCollector.capture, for the alert of case k *)

(* An alert that has its case is not captured twice. *)
CaptureOpen(c, k) ==
  /\ pc[c] = "idle"
  /\ lock = None
  /\ \/ /\ cases[k] = "none"
        /\ acquire(c)
        /\ cases' = [cases EXCEPT ![k] = "open"]
        /\ subject' = [subject EXCEPT ![c] = k]
        /\ \E artefacts \in SUBSET Shas : todo' = [todo EXCEPT ![c] = artefacts]
        /\ goto(c, "artefact")
     \/ /\ cases[k] # "none"
        /\ goto(c, "done")
        /\ UNCHANGED <<lock, cases, subject, todo>>
  /\ UNCHANGED <<fileVars, blobs, status, evidence, sha, path, file, audit, pastVars>>

(* ForensicStore.put of the next artefact; one that fails is skipped. *)
CapturePut(c, s) ==
  /\ pc[c] = "artefact"
  /\ s \in todo[c]
  /\ todo' = [todo EXCEPT ![c] = @ \ {s}]
  /\ \/ /\ blobs' = blobs \cup {s}
        /\ sha' = [sha EXCEPT ![c] = s]
        /\ goto(c, "record")
     \/ UNCHANGED <<blobs, sha, pc>>
  /\ UNCHANGED <<fileVars, rowVars, lock, subject, path, file, audit, pastVars>>

(* _insert, ON CONFLICT DO NOTHING; a failed INSERT is logged. *)
CaptureInsert(c) ==
  /\ pc[c] = "record"
  /\ \/ evidence' = [evidence EXCEPT ![<<subject[c], sha[c]>>] =
                        IF @ = "none" THEN "fresh" ELSE @]
     \/ UNCHANGED evidence
  /\ goto(c, "artefact")
  /\ UNCHANGED <<fileVars, blobs, status, cases, lock, subject, sha, path, file, todo,
                 audit, pastVars>>

(* Every artefact handled, or a bound hit (_MAX_FILES, the deadline). *)
CaptureDone(c) ==
  /\ pc[c] = "artefact"
  /\ release
  /\ goto(c, "done")
  /\ UNCHANGED <<fileVars, blobs, rowVars, subject, sha, path, file, todo, audit, pastVars>>

-----------------------------------------------------------------------------
(* prune_evidence, entirely under the lock *)

protected(s) == \E q \in Calls : status[q] \in Protecting /\ sha[q] = s

(* The candidates: a stale unmarked row, and no protecting quarantine row. *)
PruneScan(c) ==
  /\ pc[c] = "idle"
  /\ acquire(c)
  /\ todo' = [todo EXCEPT ![c] =
                {s \in Shas : /\ \E k \in Cases : evidence[<<k, s>>] = "stale"
                             /\ ~protected(s)}]
  /\ goto(c, "prune")
  /\ UNCHANGED <<fileVars, blobs, rowVars, subject, sha, path, file, audit, pastVars>>

(* No younger row, and every referencing case closed and not critical. *)
prunable(s) ==
  \A k \in Cases : evidence[<<k, s>>] # "none" =>
    evidence[<<k, s>>] # "fresh" /\ cases[k] = "closed" /\ k \notin CriticalCases

PruneSkip(c, s) ==
  /\ pc[c] = "prune"
  /\ s \in todo[c] /\ ~prunable(s)
  /\ todo' = [todo EXCEPT ![c] = @ \ {s}]
  /\ UNCHANGED <<fileVars, blobs, rowVars, lock, pc, subject, sha, path, file, audit,
                 pastVars>>

(* The unlink; a blob that is missing already gets its marker all the same. *)
PruneUnlink(c, s) ==
  /\ pc[c] = "prune"
  /\ s \in todo[c] /\ prunable(s)
  /\ todo' = [todo EXCEPT ![c] = @ \ {s}]
  /\ sha' = [sha EXCEPT ![c] = s]
  /\ blobs' = blobs \ {s}
  /\ goto(c, "stamp")
  /\ UNCHANGED <<fileVars, rowVars, lock, subject, path, file, audit, pastVars>>

(* _stamp_tombstones: one UPDATE for each row of the digest. *)
PruneStamp(c, k) ==
  /\ pc[c] = "stamp"
  /\ evidence[<<k, sha[c]>>] = "stale"
  /\ evidence' = [evidence EXCEPT ![<<k, sha[c]>>] = "pruned"]
  /\ UNCHANGED <<fileVars, blobs, status, cases, lock, callVars, audit, pastVars>>

PruneStamped(c) ==
  /\ pc[c] = "stamp"
  /\ \A k \in Cases : evidence[<<k, sha[c]>>] # "stale"
  /\ goto(c, "prune")
  /\ UNCHANGED <<fileVars, blobs, rowVars, lock, subject, sha, path, file, todo, audit, pastVars>>

PruneDone(c) ==
  /\ pc[c] = "prune"
  /\ todo[c] = {}
  /\ release
  /\ goto(c, "done")
  /\ UNCHANGED <<fileVars, blobs, rowVars, subject, sha, path, file, todo, audit, pastVars>>

-----------------------------------------------------------------------------
(* The surroundings *)

(* Some program creates the path, replacing what is there, or removes it. *)
FileCreated(p, s) ==
  /\ inodes < MaxInodes
  /\ inodes' = inodes + 1
  /\ at' = [at EXCEPT ![p] = <<s, inodes + 1>>]
  /\ UNCHANGED <<blobs, rowVars, lock, callVars, audit, pastVars>>

FileRemoved(p) ==
  /\ at[p] # None
  /\ at' = [at EXCEPT ![p] = None]
  /\ UNCHANGED <<inodes, blobs, rowVars, lock, callVars, audit, pastVars>>

(* close_case, by the operator; a closed case stays closed. *)
CaseClosed(k) ==
  /\ cases[k] = "open"
  /\ cases' = [cases EXCEPT ![k] = "closed"]
  /\ UNCHANGED <<fileVars, blobs, status, evidence, lock, callVars, audit, pastVars>>

(* captured_at falls behind the retention window.  A prune computes its    *)
(* cutoff once, so no row ages for it while it runs.                       *)
EvidenceAges(k, s) ==
  /\ evidence[<<k, s>>] = "fresh"
  /\ \A c \in Calls : pc[c] \notin {"prune", "stamp"}
  /\ evidence' = [evidence EXCEPT ![<<k, s>>] = "stale"]
  /\ UNCHANGED <<fileVars, blobs, status, cases, lock, callVars, audit, pastVars>>

(* The daemon dies; start-up only logs the rows left isolating             *)
(* (log_incomplete_isolations).                                            *)
Crash ==
  /\ crashes < MaxCrashes
  /\ crashes' = crashes + 1
  /\ torn' = torn \cup {sha[c] : c \in {d \in Calls : pc[d] = "stamp"}}
  /\ pc' = [c \in Calls |-> IF pc[c] \in {"idle", "done"} THEN pc[c] ELSE "dead"]
  /\ lock' = None
  /\ UNCHANGED <<fileVars, blobs, rowVars, subject, sha, path, file, todo, audit>>

-----------------------------------------------------------------------------
Isolate(c) ==
  \/ IsolateLock(c) \/ IsolatePut(c) \/ IsolatePutFails(c) \/ IsolateInsert(c)
  \/ IsolateStat(c) \/ IsolateUnlink(c) \/ IsolateActivate(c) \/ IsolateFail(c)
Restore(c) ==
  RestoreVerify(c) \/ RestoreLink(c) \/ RestoreCommit(c) \/ RestoreRollback(c)
Delete(c) ==
  DeleteLock(c) \/ DeleteClaims(c) \/ DeleteRemove(c) \/ DeleteErase(c)
Capture(c) ==
  (\E s \in Shas : CapturePut(c, s)) \/ CaptureInsert(c) \/ CaptureDone(c)
Prune(c) ==
  \/ \E s \in Shas : PruneSkip(c, s) \/ PruneUnlink(c, s)
  \/ \E k \in Cases : PruneStamp(c, k)
  \/ PruneStamped(c) \/ PruneDone(c)
Start(c) ==
  \/ \E p \in Paths : IsolateOpen(c, p)
  \/ \E q \in Calls : RestoreClaim(c, q) \/ DeleteClaim(c, q)
  \/ \E k \in Cases : CaptureOpen(c, k)
  \/ PruneScan(c)
Step(c) ==
  Isolate(c) \/ Restore(c) \/ Delete(c) \/ Audit(c) \/ Capture(c) \/ Prune(c)

Next ==
  \/ \E c \in Calls : Start(c) \/ Step(c)
  \/ \E p \in Paths : FileRemoved(p) \/ \E s \in Shas : FileCreated(p, s)
  \/ \E k \in Cases : CaseClosed(k) \/ \E s \in Shas : EvidenceAges(k, s)
  \/ Crash

Spec == Init /\ [][Next]_vars

(* A running thread keeps running, and gets the lock once it is free: the  *)
(* other calls are finitely many.                                          *)
FairSpec == Spec /\ \A c \in Calls : WF_vars(Step(c))

-----------------------------------------------------------------------------
(* Properties *)

Transient == {"isolating", "restoring", "deleting"}
Working   == {"stat", "unlink", "activate", "fail", "verify", "link", "commit",
              "rollback", "discard", "claims", "remove", "erase"}
Locked    == {"put", "insert", "claims", "remove", "artefact", "record", "prune", "stamp"}
Ends      == {"refused", "quarantined", "restored", "deleted"}
owners(q) == {c \in Calls : pc[c] \in Working /\ subject[c] = q}

(* The type of the store, the tables and the threads. *)
TypeOK ==
  /\ at \in [Paths -> Files \cup {None}] /\ inodes \in 0..MaxInodes
  /\ blobs \subseteq Shas
  /\ status \in [Calls -> RowStates]
  /\ evidence \in [Cases \X Shas -> {"none", "fresh", "stale", "pruned"}]
  /\ cases \in [Cases -> {"none", "open", "closed"}]
  /\ lock \in Calls \cup {None}
  /\ pc \in [Calls -> Working \cup Locked \cup Ends \cup {"idle", "capture", "done", "dead"}]
  /\ subject \in [Calls -> Calls \cup Cases \cup {None}]
  /\ sha \in [Calls -> Shas \cup {None}] /\ path \in [Calls -> Paths \cup {None}]
  /\ file \in [Calls -> Files \cup {None}] /\ todo \in [Calls -> SUBSET Shas]
  /\ audit \in [Calls -> Ends \cup {"none"}]
  /\ crashes \in 0..MaxCrashes /\ torn \subseteq Shas

(* Nothing removes the bytes of a quarantined file while its row may still *)
(* need them: neither a delete of another row with the same content, nor   *)
(* the retention run, nor a crash anywhere (ops._delete's checks and       *)
(* prune_evidence's protection clause, under the capture lock).            *)
BlobKept == \A q \in Calls : status[q] \in Protecting => sha[q] \in blobs

(* A case_evidence row without the pruned_at marker has its blob, but for  *)
(* the moments between prune_evidence's unlink and its stamps, and the     *)
(* digests whose stamping a crash cut short.                               *)
EvidenceKept ==
  \A k \in Cases, s \in Shas : evidence[<<k, s>>] \in Unmarked =>
    \/ s \in blobs \cup torn
    \/ \E c \in Calls : pc[c] = "stamp" /\ sha[c] = s

(* A restore and a delete of one row never both proceed (the guarded       *)
(* UPDATE of ops._cas): a row in a transient status has exactly one call   *)
(* working on it, or lost it in a crash; any other row has none.           *)
OwnedByOne ==
  \A q \in Calls :
    IF status[q] \in Transient
      THEN (\E c \in Calls : owners(q) = {c}) \/ (owners(q) = {} /\ crashes > 0)
      ELSE owners(q) = {}

(* `active` earns its meaning: the file that was captured is no longer at  *)
(* its path when a row says so, whatever other programs, a second isolate  *)
(* or a failed restore did in between (ops._unlink_guarded).               *)
ContainedMeansGone ==
  \A q \in Calls : status[q] = "active" => at[path[q]] # file[q]

(* A row that was restored or deleted has its audit record, from the call  *)
(* that did it, unless that call is about to write it or died before.      *)
OutcomeAudited ==
  \A q \in Calls : status[q] \in {"restored", "deleted"} =>
    \E c \in Calls :
      subject[c] = q /\ (status[q] \in {audit[c], pc[c]} \/ pc[c] = "dead")

(* A transient status is left, unless its call died: no call waits for     *)
(* ever for the capture lock, and none gives up between two transitions.   *)
TransientResolves ==
  \A q \in Calls :
    status[q] \in Transient ~> (status[q] \notin Transient \/ owners(q) = {})
=============================================================================
