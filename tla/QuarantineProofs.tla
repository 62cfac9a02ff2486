-------------------------- MODULE QuarantineProofs --------------------------
(***************************************************************************)
(* The safety invariants of Quarantine, proved for any sets of calls,      *)
(* cases, contents and paths and any number of crashes.                    *)
(***************************************************************************)
EXTENDS Quarantine, TLAPS

(* Where a call is while it works on its row. *)
IsolateWork == {"stat", "unlink", "activate", "fail"}
RestoreWork == {"verify", "link", "commit", "rollback"}
DeleteWork  == {"discard", "claims", "remove", "erase"}

(* capture_lock is held by the call that is in a locked section. *)
LockInv == \A c \in Calls : pc[c] \in Locked <=> lock = c

(* A row belongs to an isolate call past its INSERT, so its digest, its    *)
(* path and the inode it captured are fixed.                               *)
RowInv ==
  \A q \in Calls :
    /\ status[q] # "none" =>
         pc[q] \in IsolateWork \cup {"refused", "quarantined", "done", "dead"} /\ sha[q] \in Shas
    /\ status[q] # "none" \/ pc[q] \in {"capture", "put", "insert"} =>
         file[q] \in Files /\ path[q] \in Paths
    /\ pc[q] \in {"insert", "record", "stamp"} => sha[q] \in Shas

(* A working call finds its row in the status that it set itself. *)
OwnInv ==
  \A c \in Calls :
    /\ pc[c] \in IsolateWork => subject[c] = c /\ status[c] = "isolating"
    /\ pc[c] \in RestoreWork => subject[c] \in Calls /\ status[subject[c]] = "restoring"
    /\ pc[c] \in DeleteWork => subject[c] \in Calls /\ status[subject[c]] = "deleting"

(* No two calls work on one row. *)
UniqueInv ==
  \A c, d \in Calls :
    pc[c] \in Working /\ pc[d] \in Working /\ subject[c] = subject[d] => c = d

(* A transient row has its call, but for a crash. *)
WorkedInv ==
  \A q \in Calls :
    status[q] \in Transient => crashes > 0 \/ \E c \in Calls : pc[c] \in Working /\ subject[c] = q

(* What a call stored in a locked section is there until its row is. *)
StoredInv == \A c \in Calls : pc[c] \in {"insert", "record"} => sha[c] \in blobs

(* What delete found unclaimed under the lock stays unclaimed. *)
RemoveInv ==
  \A c \in Calls : pc[c] = "remove" =>
    /\ \A k \in Cases : evidence[<<k, sha[subject[c]]>>] = "none"
    /\ \A r \in Calls \ {subject[c]} : sha[r] = sha[subject[c]] => status[r] \in {"none", "deleted"}

(* What prune found unprotected under the lock stays unprotected. *)
PruneInv ==
  \A c \in Calls : pc[c] \in {"prune", "stamp"} =>
    \A q \in Calls : sha[q] \in todo[c] => status[q] \notin Protecting

(* No younger evidence joins a digest while its markers are written. *)
StampInv ==
  \A c \in Calls : pc[c] = "stamp" => \A k \in Cases : evidence[<<k, sha[c]>>] # "fresh"

(* Inodes are never reused, so what is gone from a path stays gone. *)
InodeInv ==
  /\ \A p \in Paths : at[p] # None => at[p][2] <= inodes
  /\ \A c \in Calls : file[c] # None => file[c][2] <= inodes
  /\ \A q \in Calls :
       pc[q] = "activate" \/ status[q] \in {"active", "restoring"} => at[path[q]] # file[q]

(* Only an ended call is audited, and as it ended. *)
AuditInv ==
  /\ OutcomeAudited
  /\ \A c \in Calls : audit[c] # "none" => pc[c] = "done"

(* All but the types and the lock. *)
Rest ==
  /\ RowInv /\ OwnInv /\ UniqueInv /\ WorkedInv /\ StoredInv /\ RemoveInv
  /\ PruneInv /\ BlobKept /\ StampInv /\ EvidenceKept /\ InodeInv /\ AuditInv

(* The inductive invariant. *)
IInv == TypeOK /\ LockInv /\ Rest
-----------------------------------------------------------------------------
(* What each part of the invariant needs of a step that leaves its         *)
(* variables alone and moves calls from one label to another.              *)

(* Where the call of a row can be. *)
Settled == IsolateWork \cup {"refused", "quarantined", "done", "dead"}

(* Going from u to v neither starts nor ends the work on a row. *)
sameTask(u, v) ==
  /\ u \in IsolateWork <=> v \in IsolateWork
  /\ u \in RestoreWork <=> v \in RestoreWork
  /\ u \in DeleteWork <=> v \in DeleteWork

(* Nor does it give the call a row, or take one from it. *)
sameWork(u, v) ==
  /\ sameTask(u, v)
  /\ u \in Settled => v \in Settled
  /\ v \in {"capture", "put", "insert"} => u \in {"capture", "put", "insert"}
  /\ v \in {"insert", "record", "stamp"} => u \in {"insert", "record", "stamp"}

(* The rows stay as they are, and so does the work on them. *)
LEMMA WorkFrame ==
  ASSUME OwnInv, UniqueInv, WorkedInv, UNCHANGED <<status, crashes>>,
         \A d \in Calls : /\ sameTask(pc[d], pc'[d])
                          /\ pc[d] \in Working => subject'[d] = subject[d]
  PROVE  OwnInv' /\ UniqueInv' /\ WorkedInv'
<1>1. \A d \in Calls : pc'[d] \in Working <=> pc[d] \in Working
  BY Zenon DEF sameTask, Working, IsolateWork, RestoreWork, DeleteWork
<1>2. \A d \in Calls : pc[d] \in IsolateWork \cup RestoreWork \cup DeleteWork => pc[d] \in Working
  BY Zenon DEF Working, IsolateWork, RestoreWork, DeleteWork
<1>3. OwnInv'
  BY <1>2, Zenon DEF OwnInv, sameTask
<1>4. UniqueInv'
  BY <1>1, Zenon DEF UniqueInv
<1>5. WorkedInv'
  BY <1>1, Zenon DEF WorkedInv
<1>. QED BY <1>3, <1>4, <1>5, Zenon

(* The rows and their calls stay as they are. *)
LEMMA RowsFrame ==
  ASSUME RowInv, OwnInv, UniqueInv, WorkedInv, \A d \in Calls : sameWork(pc[d], pc'[d]),
         UNCHANGED <<status, subject, sha, path, file, crashes>>
  PROVE  RowInv' /\ OwnInv' /\ UniqueInv' /\ WorkedInv'
<1>1. OwnInv' /\ UniqueInv' /\ WorkedInv'
  BY WorkFrame, Zenon DEF sameWork
<1>2. RowInv'
  BY Zenon DEF RowInv, sameWork, Settled
<1>. QED BY <1>1, <1>2, Zenon

(* The store and its references stay as they are. *)
LEMMA StoreFrame ==
  ASSUME StoredInv, BlobKept, StampInv, EvidenceKept,
         \A d \in Calls : /\ pc'[d] \in {"insert", "record"} => pc[d] \in {"insert", "record"}
                          /\ pc'[d] = "stamp" <=> pc[d] = "stamp",
         UNCHANGED <<status, evidence, blobs, sha, torn>>
  PROVE  StoredInv' /\ BlobKept' /\ StampInv' /\ EvidenceKept'
BY Zenon DEF StoredInv, BlobKept, StampInv, EvidenceKept

(* No call starts to remove. *)
LEMMA RemoveFrame ==
  ASSUME RemoveInv, \A d \in Calls : pc'[d] = "remove" => pc[d] = "remove",
         UNCHANGED <<status, evidence, sha, subject>>
  PROVE  RemoveInv'
BY Zenon DEF RemoveInv

(* No call starts to prune, and no candidate is added. *)
LEMMA PruneFrame ==
  ASSUME PruneInv, UNCHANGED <<status, sha>>,
         \A d \in Calls : /\ pc'[d] \in {"prune", "stamp"} => pc[d] \in {"prune", "stamp"}
                          /\ todo'[d] \subseteq todo[d]
  PROVE  PruneInv'
BY Zenon DEF PruneInv

(* No file moves and no call starts to activate its row. *)
LEMMA InodeFrame ==
  ASSUME InodeInv, \A d \in Calls : pc'[d] = "activate" => pc[d] = "activate",
         UNCHANGED <<at, inodes, file, path, status>>
  PROVE  InodeInv'
BY Zenon DEF InodeInv

(* No ended call moves. *)
LEMMA AuditFrame ==
  ASSUME AuditInv, UNCHANGED <<status, subject, audit>>,
         \A d \in Calls : pc'[d] = pc[d] \/ pc[d] \notin {"restored", "deleted", "dead", "done"}
  PROVE  AuditInv'
BY DEF AuditInv, OutcomeAudited

(* No call enters or leaves a locked section. *)
LEMMA LockFrame ==
  ASSUME LockInv, lock' = lock, \A d \in Calls : pc'[d] \in Locked <=> pc[d] \in Locked
  PROVE  LockInv'
BY Zenon DEF LockInv

(* A call enters a locked section: capture_lock was free. *)
LEMMA LockTaken ==
  ASSUME LockInv, NEW c \in Calls, lock = None, lock' = c,
         \A d \in Calls : pc'[d] \in Locked <=> d = c \/ pc[d] \in Locked
  PROVE  LockInv'
BY QuarantineAssumption, Zenon DEF LockInv

(* The holder of capture_lock leaves its locked section. *)
LEMMA LockFreed ==
  ASSUME LockInv, NEW c \in Calls, pc[c] \in Locked, lock' = None,
         \A d \in Calls : pc'[d] \in Locked <=> d # c /\ pc[d] \in Locked
  PROVE  LockInv'
BY QuarantineAssumption, Zenon DEF LockInv

(* Nobody else is in a locked section while a call is. *)
LEMMA Alone ==
  ASSUME LockInv, NEW c \in Calls, pc[c] \in Locked, \A d \in Calls : d # c => pc'[d] = pc[d]
  PROVE  \A d \in Calls : pc'[d] \in Locked => d = c
BY Zenon DEF LockInv

(* A call gives up its row q in the status it is to have, and goes to l.   *)
LEMMA WorkEnds ==
  ASSUME Rest, NEW c \in Calls, NEW q \in Calls, NEW to, NEW l,
         pc[c] \in Working, subject[c] = q, l \in Ends,
         pc[c] \in IsolateWork => l \in {"refused", "quarantined"},
         to \in {"active", "failed", "restored", "deleted"},
         to \in Protecting => status[q] \in Protecting,
         to = "active" => at[path[q]] # file[q],
         to \in {"restored", "deleted"} => l = to,
         \A d \in Calls : pc'[d] = IF d = c THEN l ELSE pc[d],
         \A r \in Calls : status'[r] = IF r = q THEN to ELSE status[r],
         UNCHANGED <<at, inodes, blobs, evidence, subject, sha, path, file, todo, audit, crashes,
                     torn>>
  PROVE  Rest'
<1>. USE DEF Rest
<1>1. status[q] \in Transient
  BY DEF OwnInv, Transient, Working, IsolateWork, RestoreWork, DeleteWork
<1>2. \A d \in Calls : pc[d] \in Working => d = c \/ subject[d] # q
  BY Zenon DEF UniqueInv
<1>3. RowInv'
  <2>1. pc[c] \in IsolateWork \/ status[c] = "none"
    BY Zenon DEF RowInv, Working, IsolateWork
  <2>2. q # c => status'[c] = status[c]
    BY Zenon
  <2>3. q = c => pc[c] \in IsolateWork
    BY <1>1, <2>1, Zenon DEF Transient
  <2>. QED BY <1>1, <2>1, <2>2, <2>3, Zenon DEF RowInv, Transient, Ends
<1>4. OwnInv'
  BY <1>2 DEF OwnInv, Working, IsolateWork, RestoreWork, DeleteWork, Ends
<1>5. UniqueInv'
  BY DEF UniqueInv, Working, Ends
<1>6. WorkedInv'
  BY <1>2 DEF WorkedInv, Transient
<1>7. StoredInv'
  BY Zenon DEF StoredInv, Ends
<1>8. RemoveInv'
  BY <1>1 DEF RemoveInv, Transient, Ends
<1>9. PruneInv'
  BY Zenon DEF PruneInv, Ends
<1>10. BlobKept'
  BY Zenon DEF BlobKept
<1>11. StampInv'
  BY Zenon DEF StampInv, Ends
<1>12. EvidenceKept'
  BY DEF EvidenceKept, Working
<1>13. InodeInv'
  BY Zenon DEF InodeInv, Ends
<1>14. AuditInv'
  <2>1. audit[c] = "none"
    BY Zenon DEF AuditInv, Working
  <2>2. OutcomeAudited'
    BY <2>1 DEF AuditInv, OutcomeAudited
  <2>. QED BY <2>1, <2>2, Zenon DEF AuditInv
<1>. QED BY <1>3, <1>4, <1>5, <1>6, <1>7, <1>8, <1>9, <1>10, <1>11, <1>12, <1>13, <1>14, Zenon

(* A call claims the row q, which nobody works on, and goes to l.          *)
LEMMA WorkStarts ==
  ASSUME Rest, NEW c \in Calls, NEW q \in Calls, NEW to, NEW l, pc[c] = "idle",
         \/ l = "verify" /\ to = "restoring" /\ status[q] = "active"
         \/ l = "discard" /\ to = "deleting" /\ status[q] \in {"active", "restored", "failed"},
         \A d \in Calls : pc'[d] = IF d = c THEN l ELSE pc[d],
         \A d \in Calls : subject'[d] = IF d = c THEN q ELSE subject[d],
         \A r \in Calls : status'[r] = IF r = q THEN to ELSE status[r],
         UNCHANGED <<at, inodes, blobs, evidence, sha, path, file, todo, audit, crashes, torn>>
  PROVE  Rest'
<1>. USE DEF Rest
<1>1. \A d \in Calls : pc[d] \in Working => subject[d] # q
  BY DEF OwnInv, Working, IsolateWork, RestoreWork, DeleteWork
<1>2. status[c] = "none"
  BY Zenon DEF RowInv, IsolateWork
<1>3. RowInv'
  BY <1>2, Zenon DEF RowInv
<1>4. OwnInv'
  BY <1>1 DEF OwnInv, Working, IsolateWork, RestoreWork, DeleteWork
<1>5. UniqueInv'
  BY <1>1 DEF UniqueInv, Working
<1>6. WorkedInv'
  BY DEF WorkedInv, Working
<1>7. StoredInv'
  BY Zenon DEF StoredInv
<1>8. RemoveInv'
  BY DEF RemoveInv
<1>9. PruneInv'
  BY Zenon DEF PruneInv, Protecting
<1>10. BlobKept'
  BY Zenon DEF BlobKept, Protecting
<1>11. StampInv'
  BY Zenon DEF StampInv
<1>12. EvidenceKept'
  BY DEF EvidenceKept
<1>13. InodeInv'
  BY Zenon DEF InodeInv
<1>14. AuditInv'
  <2>1. audit[c] = "none"
    BY Zenon DEF AuditInv
  <2>2. OutcomeAudited'
    BY <2>1 DEF AuditInv, OutcomeAudited
  <2>. QED BY <2>1, <2>2, Zenon DEF AuditInv
<1>. QED BY <1>3, <1>4, <1>5, <1>6, <1>7, <1>8, <1>9, <1>10, <1>11, <1>12, <1>13, <1>14, Zenon

(* A step from u to v that no part of the invariant but the lock minds. *)
calm(u, v) ==
  /\ sameWork(u, v)
  /\ v \in {"insert", "record"} => u \in {"insert", "record"}
  /\ v = "stamp" <=> u = "stamp"
  /\ v = "remove" => u = "remove"
  /\ v \in {"prune", "stamp"} => u \in {"prune", "stamp"}
  /\ v = "activate" => u = "activate"
  /\ u = v \/ u \notin {"restored", "deleted", "dead", "done"}

(* A call goes on, nothing else happens. *)
LEMMA Quiet ==
  ASSUME Rest, \A d \in Calls : calm(pc[d], pc'[d]) /\ todo'[d] \subseteq todo[d],
         UNCHANGED <<fileVars, blobs, status, evidence, subject, sha, path, file, audit, pastVars>>
  PROVE  Rest'
<1>1. /\ UNCHANGED <<at, inodes, blobs, status, evidence, subject, sha, path, file, audit>>
      /\ UNCHANGED <<crashes, torn>>
  BY Zenon DEF fileVars, pastVars
<1>2. RowInv' /\ OwnInv' /\ UniqueInv' /\ WorkedInv'
  BY <1>1, RowsFrame, Zenon DEF Rest, calm
<1>3. StoredInv' /\ BlobKept' /\ StampInv' /\ EvidenceKept'
  BY <1>1, StoreFrame, Zenon DEF Rest, calm
<1>4. RemoveInv' /\ PruneInv'
  BY <1>1, RemoveFrame, PruneFrame, Zenon DEF Rest, calm
<1>5. InodeInv' /\ AuditInv'
  BY <1>1, InodeFrame, AuditFrame, Zenon DEF Rest, calm
<1>. QED BY <1>2, <1>3, <1>4, <1>5, Zenon DEF Rest
-----------------------------------------------------------------------------
(* isolate, step by step.                                                  *)

(* isolate opens a file: no row is its yet.                                *)
LEMMA IsolateOpenStep ==
  ASSUME IInv, NEW c \in Calls, NEW p \in Paths, IsolateOpen(c, p)
  PROVE  IInv'
<1>. USE DEF IInv, Rest
<1>. UNCHANGED <<at, inodes, blobs, status, evidence, cases, lock, subject, sha, todo, audit,
                  crashes, torn>>
  BY Zenon DEF IsolateOpen, fileVars, rowVars, callVars, pastVars
<1>2. /\ pc[c] = "idle"
      /\ \/ \A d \in Calls : pc'[d] = IF d = c THEN "refused" ELSE pc[d]
         \/ \A d \in Calls : pc'[d] = IF d = c THEN "capture" ELSE pc[d]
  BY Zenon DEF IsolateOpen, TypeOK, goto
<1>3. status[c] = "none"
  BY <1>2, Zenon DEF RowInv, IsolateWork
<1>4. TypeOK'
  BY Zenon DEF TypeOK, IsolateOpen, goto, Ends
<1>5. LockInv'
  BY <1>2, LockFrame, Zenon DEF Locked
<1>6. StoredInv' /\ BlobKept' /\ StampInv' /\ EvidenceKept'
  BY <1>2, StoreFrame, Zenon
<1>7. RemoveInv'
  BY <1>2, RemoveFrame, Zenon
<1>8. PruneInv'
  BY <1>2, PruneFrame, Zenon
<1>9. AuditInv'
  BY <1>2, AuditFrame, Zenon
<1>10. RowInv'
  BY <1>3 DEF IsolateOpen, goto, TypeOK, RowInv, IsolateWork
<1>11. OwnInv' /\ UniqueInv' /\ WorkedInv'
  BY <1>2, WorkFrame, Zenon DEF sameTask, IsolateWork, RestoreWork, DeleteWork
<1>12. InodeInv'
  BY <1>2, <1>3, Zenon DEF IsolateOpen, InodeInv, TypeOK
<1>. QED BY <1>4, <1>5, <1>6, <1>7, <1>8, <1>9, <1>10, <1>11, <1>12, Zenon

(* isolate takes capture_lock.                                             *)
LEMMA IsolateLockStep ==
  ASSUME IInv, NEW c \in Calls, IsolateLock(c)
  PROVE  IInv'
<1>1. \A d \in Calls : pc'[d] = IF d = c THEN "put" ELSE pc[d]
  BY Zenon DEF IInv, TypeOK, IsolateLock, goto
<1>2. TypeOK'
  BY Zenon DEF IInv, TypeOK, IsolateLock, Locked, goto, acquire, fileVars, rowVars, pastVars
<1>3. LockInv'
  BY <1>1, LockTaken, Zenon DEF IInv, IsolateLock, acquire, Locked
<1>4. \A d \in Calls : calm(pc[d], pc'[d]) /\ todo'[d] \subseteq todo[d]
  BY <1>1, Zenon DEF IsolateLock, calm, sameWork, sameTask, IsolateWork, RestoreWork, DeleteWork,
    Settled
<1>5. Rest'
  BY <1>4, Quiet, Zenon DEF IInv, IsolateLock, rowVars
<1>. QED BY <1>2, <1>3, <1>5, Zenon DEF IInv

(* put_stream adds a blob; its digest is that of the captured file.        *)
LEMMA IsolatePutStep ==
  ASSUME IInv, NEW c \in Calls, IsolatePut(c)
  PROVE  IInv'
<1>. USE DEF IInv, Rest
<1>. UNCHANGED <<at, inodes, status, evidence, cases, lock, subject, path, file, todo, audit,
                  crashes, torn>>
  BY Zenon DEF IsolatePut, fileVars, rowVars, callVars, pastVars
<1>2. pc[c] = "put" /\ \A d \in Calls : pc'[d] = IF d = c THEN "insert" ELSE pc[d]
  BY Zenon DEF IsolatePut, TypeOK, goto
<1>3. file[c] \in Files /\ file[c][1] \in Shas
  BY <1>2, Zenon DEF RowInv, Files
<1>4. status[c] = "none"
  BY <1>2, Zenon DEF RowInv, IsolateWork
<1>5. /\ \A d \in Calls : sha'[d] = IF d = c THEN file[c][1] ELSE sha[d]
      /\ blobs' = blobs \cup {file[c][1]}
  BY Zenon DEF IsolatePut, TypeOK
<1>6. TypeOK'
  BY <1>3 DEF TypeOK, IsolatePut, goto, Locked
<1>7. LockInv'
  BY <1>2, LockFrame, Zenon DEF Locked
<1>8. InodeInv'
  BY <1>2, InodeFrame, Zenon
<1>9. AuditInv'
  BY <1>2, AuditFrame, Zenon
<1>10. RowInv'
  BY <1>2, <1>3, <1>5, Zenon DEF RowInv, IsolateWork
<1>11. OwnInv' /\ UniqueInv' /\ WorkedInv'
  BY <1>2, WorkFrame, Zenon DEF sameTask, IsolateWork, RestoreWork, DeleteWork
<1>12. StoredInv' /\ BlobKept'
  BY <1>2, <1>4, <1>5, Zenon DEF StoredInv, BlobKept, Protecting
<1>alone. \A d \in Calls : pc'[d] \in Locked => d = c
  BY <1>2, Alone, Zenon DEF Locked
<1>13. RemoveInv' /\ PruneInv' /\ StampInv'
  BY <1>2, <1>alone, Zenon DEF RemoveInv, PruneInv, StampInv, Locked
<1>14. EvidenceKept'
  BY <1>2, <1>5, Zenon DEF EvidenceKept
<1>. QED BY <1>6, <1>7, <1>8, <1>9, <1>10, <1>11, <1>12, <1>13, <1>14, Zenon

(* put_stream fails and the lock is released.                              *)
LEMMA IsolatePutFailsStep ==
  ASSUME IInv, NEW c \in Calls, IsolatePutFails(c)
  PROVE  IInv'
<1>1. \/ \A d \in Calls : pc'[d] = IF d = c THEN "refused" ELSE pc[d]
      \/ \A d \in Calls : pc'[d] = IF d = c THEN "done" ELSE pc[d]
  BY DEF IInv, TypeOK, IsolatePutFails, goto
<1>2. TypeOK'
  BY Zenon DEF IInv, TypeOK, IsolatePutFails, Ends, goto, release, fileVars, rowVars, pastVars
<1>3. LockInv'
  BY <1>1, LockFreed, Zenon DEF IInv, IsolatePutFails, release, Locked
<1>4. \A d \in Calls : calm(pc[d], pc'[d]) /\ todo'[d] \subseteq todo[d]
  BY <1>1, Zenon DEF IsolatePutFails, calm, sameWork, sameTask, IsolateWork, RestoreWork,
    DeleteWork, Settled
<1>5. Rest'
  BY <1>4, Quiet, Zenon DEF IInv, IsolatePutFails, rowVars
<1>. QED BY <1>2, <1>3, <1>5, Zenon DEF IInv

(* The INSERT: the blob is there, and the row is its call's own.           *)
LEMMA IsolateInsertStep ==
  ASSUME IInv, NEW c \in Calls, IsolateInsert(c)
  PROVE  IInv'
<1>. USE DEF IInv, Rest
<1>. UNCHANGED <<at, inodes, blobs, evidence, cases, sha, path, file, todo, audit, crashes,
                  torn>>
  BY Zenon DEF IsolateInsert, fileVars, rowVars, callVars, pastVars
<1>2. pc[c] = "insert" /\ \A d \in Calls : pc'[d] = IF d = c THEN "stat" ELSE pc[d]
  BY Zenon DEF IsolateInsert, TypeOK, goto
<1>3. status[c] = "none"
  BY <1>2, Zenon DEF RowInv, IsolateWork
<1>4. /\ \A q \in Calls : status'[q] = IF q = c THEN "isolating" ELSE status[q]
      /\ \A d \in Calls : subject'[d] = IF d = c THEN c ELSE subject[d]
  BY Zenon DEF IsolateInsert, TypeOK
<1>5. TypeOK'
  BY DEF TypeOK, IsolateInsert, RowStates, Protecting, Working, goto, release
<1>6. LockInv'
  BY <1>2, LockFreed, Zenon DEF IsolateInsert, release, Locked
<1>7. RowInv'
  BY <1>2, <1>4, Zenon DEF RowInv, IsolateWork
<1>8. OwnInv'
  BY <1>2, <1>4, <1>3 DEF OwnInv, IsolateWork, RestoreWork, DeleteWork
<1>9. UniqueInv'
  BY <1>2, <1>4, <1>3 DEF UniqueInv, OwnInv, Working, IsolateWork, RestoreWork, DeleteWork
<1>10. WorkedInv'
  BY <1>2, <1>4 DEF WorkedInv, Working
<1>11. StoredInv' /\ BlobKept'
  BY <1>2, <1>4, Zenon DEF StoredInv, BlobKept
<1>alone. \A d \in Calls : pc'[d] \in Locked => d = c
  BY <1>2, Alone, Zenon DEF Locked
<1>12. RemoveInv' /\ PruneInv'
  BY <1>2, <1>alone, Zenon DEF RemoveInv, PruneInv, Locked
<1>13. StampInv' /\ EvidenceKept'
  BY <1>2, Zenon DEF StampInv, EvidenceKept
<1>14. InodeInv'
  BY <1>2, <1>4, Zenon DEF InodeInv
<1>15. AuditInv'
  BY <1>2, <1>4, <1>3 DEF AuditInv, OutcomeAudited
<1>. QED BY <1>5, <1>6, <1>7, <1>8, <1>9, <1>10, <1>11, <1>12, <1>13, <1>14, <1>15, Zenon

(* fstatat compares the inode that was captured.                           *)
LEMMA IsolateStatStep ==
  ASSUME IInv, NEW c \in Calls, IsolateStat(c)
  PROVE  IInv'
<1>1. \/ \A d \in Calls : pc'[d] = IF d = c THEN "unlink" ELSE pc[d]
      \/ \A d \in Calls : pc'[d] = IF d = c THEN "fail" ELSE pc[d]
  BY Zenon DEF IInv, TypeOK, IsolateStat, goto
<1>2. TypeOK'
  BY Zenon DEF IInv, TypeOK, IsolateStat, Working, goto, fileVars, rowVars, pastVars
<1>3. LockInv'
  BY <1>1, LockFrame, Zenon DEF IInv, IsolateStat, Locked
<1>4. \A d \in Calls : calm(pc[d], pc'[d]) /\ todo'[d] \subseteq todo[d]
  BY <1>1, Zenon DEF IsolateStat, calm, sameWork, sameTask, IsolateWork, RestoreWork, DeleteWork,
    Settled
<1>5. Rest'
  BY <1>4, Quiet, Zenon DEF IInv, IsolateStat, rowVars
<1>. QED BY <1>2, <1>3, <1>5, Zenon DEF IInv

(* unlinkat: the name is empty when the call goes on to activate.          *)
LEMMA IsolateUnlinkStep ==
  ASSUME IInv, NEW c \in Calls, IsolateUnlink(c)
  PROVE  IInv'
<1>. USE DEF IInv, Rest
<1>. UNCHANGED <<inodes, blobs, status, evidence, cases, lock, subject, sha, path, file, todo,
                  audit, crashes, torn>>
  BY Zenon DEF IsolateUnlink, fileVars, rowVars, callVars, pastVars
<1>2. /\ pc[c] = "unlink"
      /\ \/ \A d \in Calls : pc'[d] = IF d = c THEN "activate" ELSE pc[d]
         \/ \A d \in Calls : pc'[d] = IF d = c THEN "fail" ELSE pc[d]
  BY DEF IsolateUnlink, TypeOK, goto
<1>3. path[c] \in Paths
  BY Zenon DEF RowInv, OwnInv, IsolateUnlink, IsolateWork
<1>4. TypeOK'
  BY <1>3 DEF TypeOK, IsolateUnlink, goto, Working
<1>5. LockInv'
  BY <1>2, LockFrame, Zenon DEF Locked
<1>6. RowInv' /\ OwnInv' /\ UniqueInv' /\ WorkedInv'
  BY <1>2, RowsFrame, Zenon DEF sameWork, sameTask, IsolateWork, RestoreWork, DeleteWork, Settled
<1>7. StoredInv' /\ BlobKept' /\ StampInv' /\ EvidenceKept'
  BY <1>2, StoreFrame, Zenon
<1>8. RemoveInv'
  BY <1>2, RemoveFrame, Zenon
<1>9. PruneInv'
  BY <1>2, PruneFrame, Zenon
<1>10. AuditInv'
  BY <1>2, AuditFrame, Zenon
<1>11. InodeInv'
  BY <1>3, QuarantineAssumption DEF IsolateUnlink, TypeOK, InodeInv, RowInv, OwnInv,
     IsolateWork, RestoreWork, Files, goto, rowVars
<1>. QED BY <1>4, <1>5, <1>6, <1>7, <1>8, <1>9, <1>10, <1>11, Zenon

(* The row becomes active; the captured inode is gone from its path.       *)
LEMMA IsolateActivateStep ==
  ASSUME IInv, NEW c \in Calls, IsolateActivate(c)
  PROVE  IInv'
<1>. USE DEF IInv, Rest
<1>. UNCHANGED <<at, inodes, blobs, evidence, cases, lock, subject, sha, path, file, todo, audit,
                 crashes, torn>>
  BY Zenon DEF IsolateActivate, fileVars, pastVars
<1>1. pc[c] = "activate" /\ \A d \in Calls : pc'[d] = IF d = c THEN "quarantined" ELSE pc[d]
  BY Zenon DEF IsolateActivate, TypeOK, goto
<1>2. /\ subject[c] = c /\ status[c] = "isolating"
      /\ \A q \in Calls : status'[q] = IF q = c THEN "active" ELSE status[q]
  BY <1>1 DEF IsolateActivate, TypeOK, cas, OwnInv, IsolateWork
<1>3. TypeOK'
  BY Zenon DEF TypeOK, IsolateActivate, cas, goto, RowStates, Protecting, Ends
<1>4. LockInv'
  BY <1>1, LockFrame, Zenon DEF Locked
<1>5. at[path[c]] # file[c]
  BY <1>1, Zenon DEF InodeInv
<1>6. Rest'
  BY <1>1, <1>2, <1>5, WorkEnds DEF Working, Protecting, Ends
<1>. QED BY <1>3, <1>4, <1>6, Zenon

(* The row becomes failed, which still protects its blob.                  *)
LEMMA IsolateFailStep ==
  ASSUME IInv, NEW c \in Calls, IsolateFail(c)
  PROVE  IInv'
<1>. USE DEF IInv, Rest
<1>. UNCHANGED <<at, inodes, blobs, evidence, cases, lock, subject, sha, path, file, todo, audit,
                 crashes, torn>>
  BY Zenon DEF IsolateFail, fileVars, pastVars
<1>1. pc[c] = "fail" /\ \A d \in Calls : pc'[d] = IF d = c THEN "refused" ELSE pc[d]
  BY Zenon DEF IsolateFail, TypeOK, goto
<1>2. /\ subject[c] = c /\ status[c] = "isolating"
      /\ \A q \in Calls : status'[q] = IF q = c THEN "failed" ELSE status[q]
  BY <1>1 DEF IsolateFail, TypeOK, cas, OwnInv, IsolateWork
<1>3. TypeOK'
  BY Zenon DEF TypeOK, IsolateFail, cas, goto, RowStates, Protecting, Ends
<1>4. LockInv'
  BY <1>1, LockFrame, Zenon DEF Locked
<1>6. Rest'
  BY <1>1, <1>2, WorkEnds DEF Working, Protecting, Ends
<1>. QED BY <1>3, <1>4, <1>6, Zenon

-----------------------------------------------------------------------------
(* restore.                                                                *)

(* _cas gives restore an active row, which nobody else works on.           *)
LEMMA RestoreClaimStep ==
  ASSUME IInv, NEW c \in Calls, NEW q \in Calls, RestoreClaim(c, q)
  PROVE  IInv'
<1>. USE DEF IInv, Rest
<1>. UNCHANGED <<at, inodes, blobs, evidence, cases, lock, sha, path, file, todo, audit, crashes,
                 torn>>
  BY Zenon DEF RestoreClaim, fileVars, pastVars
<1>1. TypeOK'
  <2>1. status' \in [Calls -> RowStates]
    BY DEF RestoreClaim, cas, TypeOK, RowStates, Protecting
  <2>2. subject' \in [Calls -> Calls \cup Cases \cup {None}]
    BY Zenon DEF RestoreClaim, TypeOK
  <2>3. pc' \in [Calls -> Working \cup Locked \cup Ends \cup {"idle", "capture", "done", "dead"}]
    BY DEF RestoreClaim, goto, TypeOK, Working, Ends
  <2>. QED BY <2>1, <2>2, <2>3, Zenon DEF TypeOK
<1>2. CASE UNCHANGED <<status, subject>>
  <2>1. \A d \in Calls : pc'[d] = IF d = c THEN "refused" ELSE pc[d]
    BY <1>2, Zenon DEF RestoreClaim, TypeOK, goto, cas
  <2>2. LockInv'
    BY <2>1, LockFrame, Zenon DEF RestoreClaim, Locked
  <2>3. \A d \in Calls : calm(pc[d], pc'[d]) /\ todo'[d] \subseteq todo[d]
    BY <2>1, Zenon DEF RestoreClaim, calm, sameWork, sameTask, IsolateWork, RestoreWork,
      DeleteWork, Settled
  <2>4. Rest'
    BY <1>2, <2>3, Quiet, Zenon DEF fileVars, pastVars
  <2>. QED BY <1>1, <2>2, <2>4, Zenon
<1>3. CASE ~UNCHANGED <<status, subject>>
  <2>1. pc[c] = "idle" /\ \A d \in Calls : pc'[d] = IF d = c THEN "verify" ELSE pc[d]
    BY <1>3, Zenon DEF RestoreClaim, TypeOK, goto
  <2>2. \A d \in Calls : subject'[d] = IF d = c THEN q ELSE subject[d]
    BY <1>3, Zenon DEF RestoreClaim, TypeOK
  <2>3. /\ status[q] \in {"active"}
        /\ \A r \in Calls : status'[r] = IF r = q THEN "restoring" ELSE status[r]
    BY <1>3, Zenon DEF RestoreClaim, TypeOK, cas
  <2>4. LockInv'
    BY <2>1, LockFrame, Zenon DEF Locked
  <2>5. Rest'
    BY <2>1, <2>2, <2>3, WorkStarts
  <2>. QED BY <1>1, <2>4, <2>5, Zenon
<1>. QED BY <1>2, <1>3, Zenon

(* _verify_blob, or a rollback.                                            *)
LEMMA RestoreVerifyStep ==
  ASSUME IInv, NEW c \in Calls, RestoreVerify(c)
  PROVE  IInv'
<1>1. \/ \A d \in Calls : pc'[d] = IF d = c THEN "link" ELSE pc[d]
      \/ \A d \in Calls : pc'[d] = IF d = c THEN "rollback" ELSE pc[d]
  BY DEF IInv, TypeOK, RestoreVerify, goto
<1>2. TypeOK'
  BY Zenon DEF IInv, TypeOK, RestoreVerify, Working, goto, fileVars, rowVars, pastVars
<1>3. LockInv'
  BY <1>1, LockFrame, Zenon DEF IInv, RestoreVerify, Locked
<1>4. \A d \in Calls : calm(pc[d], pc'[d]) /\ todo'[d] \subseteq todo[d]
  BY <1>1, Zenon DEF RestoreVerify, calm, sameWork, sameTask, IsolateWork, RestoreWork,
    DeleteWork, Settled
<1>5. Rest'
  BY <1>4, Quiet, Zenon DEF IInv, RestoreVerify, rowVars
<1>. QED BY <1>2, <1>3, <1>5, Zenon DEF IInv

(* The link makes a new inode, so never the captured one.                  *)
LEMMA RestoreLinkStep ==
  ASSUME IInv, NEW c \in Calls, RestoreLink(c)
  PROVE  IInv'
<1>. USE DEF IInv, Rest
<1>. UNCHANGED <<blobs, status, evidence, cases, lock, subject, sha, path, file, todo, audit,
                  crashes, torn>>
  BY Zenon DEF RestoreLink, fileVars, rowVars, callVars, pastVars
<1>2. /\ pc[c] = "link"
      /\ \/ \A d \in Calls : pc'[d] = IF d = c THEN "commit" ELSE pc[d]
         \/ \A d \in Calls : pc'[d] = IF d = c THEN "rollback" ELSE pc[d]
  BY Zenon DEF RestoreLink, TypeOK, goto
<1>3. subject[c] \in Calls /\ path[subject[c]] \in Paths /\ sha[subject[c]] \in Shas
  BY Zenon DEF RowInv, OwnInv, RestoreLink, RestoreWork
<1>4. at' \in [Paths -> Files \cup {None}] /\ inodes' \in 0..MaxInodes
  <2>1. CASE /\ inodes < MaxInodes /\ inodes' = inodes + 1
             /\ at' = [at EXCEPT ![path[subject[c]]] = <<sha[subject[c]], inodes + 1>>]
    <3>1. inodes + 1 \in 1..MaxInodes
      BY <2>1, QuarantineAssumption DEF TypeOK
    <3>2. <<sha[subject[c]], inodes + 1>> \in Files
      BY <1>3, <3>1, Zenon DEF Files
    <3>. QED BY <1>3, <2>1, <3>1, <3>2 DEF TypeOK
  <2>2. CASE UNCHANGED fileVars
    BY <2>2, Zenon DEF TypeOK, fileVars
  <2>. QED BY <2>1, <2>2, Zenon DEF RestoreLink
<1>5. TypeOK'
  BY <1>4 DEF TypeOK, RestoreLink, goto, Working
<1>6. LockInv'
  BY <1>2, LockFrame, Zenon DEF Locked
<1>7. RowInv' /\ OwnInv' /\ UniqueInv' /\ WorkedInv'
  BY <1>2, RowsFrame, Zenon DEF sameWork, sameTask, IsolateWork, RestoreWork, DeleteWork, Settled
<1>8. StoredInv' /\ BlobKept' /\ StampInv' /\ EvidenceKept'
  BY <1>2, StoreFrame, Zenon
<1>9. RemoveInv'
  BY <1>2, RemoveFrame, Zenon
<1>10. PruneInv'
  BY <1>2, PruneFrame, Zenon
<1>11. AuditInv'
  BY <1>2, AuditFrame, Zenon
<1>12. InodeInv'
  BY <1>3, QuarantineAssumption DEF RestoreLink, TypeOK, InodeInv, RowInv, OwnInv,
     IsolateWork, Files, goto, fileVars, rowVars
<1>. QED BY <1>5, <1>6, <1>7, <1>8, <1>9, <1>10, <1>11, <1>12, Zenon

(* The restored row leaves its call with an outcome to audit.              *)
LEMMA RestoreCommitStep ==
  ASSUME IInv, NEW c \in Calls, RestoreCommit(c)
  PROVE  IInv'
<1>. USE DEF IInv, Rest
<1>. UNCHANGED <<at, inodes, blobs, evidence, cases, lock, subject, sha, path, file, todo, audit,
                 crashes, torn>>
  BY Zenon DEF RestoreCommit, fileVars, pastVars
<1>1. pc[c] = "commit" /\ \A d \in Calls : pc'[d] = IF d = c THEN "restored" ELSE pc[d]
  BY Zenon DEF RestoreCommit, TypeOK, goto
<1>2. subject[c] \in Calls
  BY <1>1, Zenon DEF OwnInv, RestoreWork
<1>3. /\ status[subject[c]] = "restoring"
      /\ \A q \in Calls : status'[q] = IF q = subject[c] THEN "restored" ELSE status[q]
  BY <1>2, Zenon DEF RestoreCommit, TypeOK, cas
<1>4. TypeOK'
  BY <1>2 DEF TypeOK, RestoreCommit, cas, goto, RowStates, Protecting, Ends
<1>5. LockInv'
  BY <1>1, LockFrame, Zenon DEF Locked
<1>7. Rest'
  BY <1>1, <1>2, <1>3, WorkEnds DEF Working, IsolateWork, Protecting, Ends
<1>. QED BY <1>4, <1>5, <1>7, Zenon

(* The row is active again; the captured inode is still gone.              *)
LEMMA RestoreRollbackStep ==
  ASSUME IInv, NEW c \in Calls, RestoreRollback(c)
  PROVE  IInv'
<1>. USE DEF IInv, Rest
<1>. UNCHANGED <<at, inodes, blobs, evidence, cases, lock, subject, sha, path, file, todo, audit,
                 crashes, torn>>
  BY Zenon DEF RestoreRollback, fileVars, pastVars
<1>1. pc[c] = "rollback" /\ \A d \in Calls : pc'[d] = IF d = c THEN "refused" ELSE pc[d]
  BY Zenon DEF RestoreRollback, TypeOK, goto
<1>2. subject[c] \in Calls
  BY <1>1, Zenon DEF OwnInv, RestoreWork
<1>3. /\ status[subject[c]] = "restoring"
      /\ \A q \in Calls : status'[q] = IF q = subject[c] THEN "active" ELSE status[q]
  BY <1>2, Zenon DEF RestoreRollback, TypeOK, cas
<1>4. TypeOK'
  BY <1>2 DEF TypeOK, RestoreRollback, cas, goto, RowStates, Protecting, Ends
<1>5. LockInv'
  BY <1>1, LockFrame, Zenon DEF Locked
<1>6. at[path[subject[c]]] # file[subject[c]]
  BY <1>2, <1>3, Zenon DEF InodeInv
<1>7. Rest'
  BY <1>1, <1>2, <1>3, <1>6, WorkEnds DEF Working, IsolateWork, Protecting, Ends
<1>. QED BY <1>4, <1>5, <1>7, Zenon

-----------------------------------------------------------------------------
(* delete, and the audit record of the three.                              *)

(* _cas gives delete a row that is at rest.                                *)
LEMMA DeleteClaimStep ==
  ASSUME IInv, NEW c \in Calls, NEW q \in Calls, DeleteClaim(c, q)
  PROVE  IInv'
<1>. USE DEF IInv, Rest
<1>. UNCHANGED <<at, inodes, blobs, evidence, cases, lock, sha, path, file, todo, audit, crashes,
                 torn>>
  BY Zenon DEF DeleteClaim, fileVars, pastVars
<1>1. TypeOK'
  <2>1. status' \in [Calls -> RowStates]
    BY DEF DeleteClaim, cas, TypeOK, RowStates, Protecting
  <2>2. subject' \in [Calls -> Calls \cup Cases \cup {None}]
    BY Zenon DEF DeleteClaim, TypeOK
  <2>3. pc' \in [Calls -> Working \cup Locked \cup Ends \cup {"idle", "capture", "done", "dead"}]
    BY DEF DeleteClaim, goto, TypeOK, Working, Ends
  <2>. QED BY <2>1, <2>2, <2>3, Zenon DEF TypeOK
<1>2. CASE UNCHANGED <<status, subject>>
  <2>1. \A d \in Calls : pc'[d] = IF d = c THEN "refused" ELSE pc[d]
    BY <1>2, Zenon DEF DeleteClaim, TypeOK, goto, cas
  <2>2. LockInv'
    BY <2>1, LockFrame, Zenon DEF DeleteClaim, Locked
  <2>3. \A d \in Calls : calm(pc[d], pc'[d]) /\ todo'[d] \subseteq todo[d]
    BY <2>1, Zenon DEF DeleteClaim, calm, sameWork, sameTask, IsolateWork, RestoreWork,
      DeleteWork, Settled
  <2>4. Rest'
    BY <1>2, <2>3, Quiet, Zenon DEF fileVars, pastVars
  <2>. QED BY <1>1, <2>2, <2>4, Zenon
<1>3. CASE ~UNCHANGED <<status, subject>>
  <2>1. pc[c] = "idle" /\ \A d \in Calls : pc'[d] = IF d = c THEN "discard" ELSE pc[d]
    BY <1>3, Zenon DEF DeleteClaim, TypeOK, goto
  <2>2. \A d \in Calls : subject'[d] = IF d = c THEN q ELSE subject[d]
    BY <1>3, Zenon DEF DeleteClaim, TypeOK
  <2>3. /\ status[q] \in {"active", "restored", "failed"}
        /\ \A r \in Calls : status'[r] = IF r = q THEN "deleting" ELSE status[r]
    BY <1>3, Zenon DEF DeleteClaim, TypeOK, cas
  <2>4. LockInv'
    BY <2>1, LockFrame, Zenon DEF Locked
  <2>5. Rest'
    BY <2>1, <2>2, <2>3, WorkStarts
  <2>. QED BY <1>1, <2>4, <2>5, Zenon
<1>. QED BY <1>2, <1>3, Zenon

(* delete takes capture_lock.                                              *)
LEMMA DeleteLockStep ==
  ASSUME IInv, NEW c \in Calls, DeleteLock(c)
  PROVE  IInv'
<1>1. \A d \in Calls : pc'[d] = IF d = c THEN "claims" ELSE pc[d]
  BY Zenon DEF IInv, TypeOK, DeleteLock, goto
<1>2. TypeOK'
  BY Zenon DEF IInv, TypeOK, DeleteLock, Working, goto, acquire, fileVars, rowVars, pastVars
<1>3. LockInv'
  BY <1>1, LockTaken, Zenon DEF IInv, DeleteLock, acquire, Locked
<1>4. \A d \in Calls : calm(pc[d], pc'[d]) /\ todo'[d] \subseteq todo[d]
  BY <1>1, Zenon DEF DeleteLock, calm, sameWork, sameTask, IsolateWork, RestoreWork, DeleteWork,
    Settled
<1>5. Rest'
  BY <1>4, Quiet, Zenon DEF IInv, DeleteLock, rowVars
<1>. QED BY <1>2, <1>3, <1>5, Zenon DEF IInv

(* What delete finds unclaimed under the lock is so for remove.            *)
LEMMA DeleteClaimsStep ==
  ASSUME IInv, NEW c \in Calls, DeleteClaims(c)
  PROVE  IInv'
<1>. USE DEF IInv, Rest
<1>. UNCHANGED <<at, inodes, blobs, status, evidence, cases, subject, sha, path, file, todo,
                  audit, crashes, torn>>
  BY Zenon DEF DeleteClaims, fileVars, rowVars, callVars, pastVars
<1>2. /\ pc[c] = "claims"
      /\ \/ \A d \in Calls : pc'[d] = IF d = c THEN "erase" ELSE pc[d]
         \/ \A d \in Calls : pc'[d] = IF d = c THEN "remove" ELSE pc[d]
  BY Zenon DEF DeleteClaims, TypeOK, goto
<1>3. TypeOK'
  BY DEF TypeOK, DeleteClaims, Working, goto, release
<1>4. RowInv' /\ OwnInv' /\ UniqueInv' /\ WorkedInv'
  BY <1>2, RowsFrame, Zenon DEF sameWork, sameTask, IsolateWork, RestoreWork, DeleteWork, Settled
<1>5. StoredInv' /\ BlobKept' /\ StampInv' /\ EvidenceKept'
  BY <1>2, StoreFrame, Zenon
<1>6. PruneInv'
  BY <1>2, PruneFrame, Zenon
<1>7. InodeInv'
  BY <1>2, InodeFrame, Zenon
<1>8. AuditInv'
  BY <1>2, AuditFrame, Zenon
<1>9. LockInv'
  <2>1. CASE held(subject[c])
    BY <2>1, LockFreed, Zenon DEF DeleteClaims, TypeOK, goto, release, Locked
  <2>2. CASE ~held(subject[c])
    BY <2>2, LockFrame, Zenon DEF DeleteClaims, TypeOK, goto, Locked
  <2>. QED BY <2>1, <2>2, Zenon
<1>10. RemoveInv'
  <2>. SUFFICES ASSUME NEW d \in Calls, pc'[d] = "remove"
       PROVE  /\ \A k \in Cases : evidence[<<k, sha[subject[d]]>>] = "none"
              /\ \A r \in Calls \ {subject[d]} :
                   sha[r] = sha[subject[d]] => status[r] \in {"none", "deleted"}
    BY Zenon DEF RemoveInv
  <2>1. CASE pc[d] = "remove"
    BY <2>1, Zenon DEF RemoveInv
  <2>2. CASE d = c /\ ~held(subject[c])
    BY <2>2, Zenon DEF held
  <2>. QED BY <2>1, <2>2, Zenon DEF DeleteClaims, goto, TypeOK
<1>. QED BY <1>3, <1>4, <1>5, <1>6, <1>7, <1>8, <1>9, <1>10, Zenon

(* The blob removed is claimed by no other row and no evidence.            *)
LEMMA DeleteRemoveStep ==
  ASSUME IInv, NEW c \in Calls, DeleteRemove(c)
  PROVE  IInv'
<1>. USE DEF IInv, Rest
<1>. UNCHANGED <<at, inodes, status, evidence, cases, subject, sha, path, file, todo, audit,
                  crashes, torn>>
  BY Zenon DEF DeleteRemove, fileVars, rowVars, callVars, pastVars
<1>2. pc[c] = "remove" /\ \A d \in Calls : pc'[d] = IF d = c THEN "erase" ELSE pc[d]
  BY Zenon DEF DeleteRemove, TypeOK, goto
<1>3. TypeOK'
  BY Zenon DEF TypeOK, DeleteRemove, Working, goto, release
<1>4. LockInv'
  BY <1>2, LockFreed, Zenon DEF DeleteRemove, release, Locked
<1>5. RowInv' /\ OwnInv' /\ UniqueInv' /\ WorkedInv'
  BY <1>2, RowsFrame, Zenon DEF sameWork, sameTask, IsolateWork, RestoreWork, DeleteWork, Settled
<1>6. RemoveInv'
  BY <1>2, RemoveFrame, Zenon
<1>7. PruneInv'
  BY <1>2, PruneFrame, Zenon
<1>8. InodeInv'
  BY <1>2, InodeFrame, Zenon
<1>9. AuditInv'
  BY <1>2, AuditFrame, Zenon
<1>alone. \A d \in Calls : pc'[d] \in Locked => d = c
  BY <1>2, Alone, Zenon DEF Locked
<1>10. StoredInv' /\ StampInv'
  BY <1>2, <1>alone, Zenon DEF StoredInv, StampInv, Locked
<1>11. BlobKept'
  BY DEF DeleteRemove, BlobKept, Protecting, RemoveInv, OwnInv, DeleteWork
<1>12. EvidenceKept'
  BY <1>2 DEF DeleteRemove, EvidenceKept, Unmarked, RemoveInv
<1>. QED BY <1>3, <1>4, <1>5, <1>6, <1>7, <1>8, <1>9, <1>10, <1>11, <1>12, Zenon

(* The deleted row leaves its call with an outcome to audit.               *)
LEMMA DeleteEraseStep ==
  ASSUME IInv, NEW c \in Calls, DeleteErase(c)
  PROVE  IInv'
<1>. USE DEF IInv, Rest
<1>. UNCHANGED <<at, inodes, blobs, evidence, cases, lock, subject, sha, path, file, todo, audit,
                 crashes, torn>>
  BY Zenon DEF DeleteErase, fileVars, pastVars
<1>1. pc[c] = "erase" /\ \A d \in Calls : pc'[d] = IF d = c THEN "deleted" ELSE pc[d]
  BY Zenon DEF DeleteErase, TypeOK, goto
<1>2. subject[c] \in Calls
  BY <1>1, Zenon DEF OwnInv, DeleteWork
<1>3. /\ status[subject[c]] = "deleting"
      /\ \A q \in Calls : status'[q] = IF q = subject[c] THEN "deleted" ELSE status[q]
  BY <1>2, Zenon DEF DeleteErase, TypeOK, cas
<1>4. TypeOK'
  BY <1>2 DEF TypeOK, DeleteErase, cas, goto, RowStates, Protecting, Ends
<1>5. LockInv'
  BY <1>1, LockFrame, Zenon DEF Locked
<1>7. Rest'
  BY <1>1, <1>2, <1>3, WorkEnds DEF Working, IsolateWork, Protecting, Ends
<1>. QED BY <1>4, <1>5, <1>7, Zenon

(* The outcome moves from the thread to audit_log.                         *)
LEMMA AuditStep ==
  ASSUME IInv, NEW c \in Calls, Audit(c)
  PROVE  IInv'
<1>. USE DEF IInv, Rest
<1>. UNCHANGED <<at, inodes, blobs, status, evidence, cases, lock, subject, sha, path, file,
                  todo, crashes, torn>>
  BY Zenon DEF Audit, fileVars, rowVars, callVars, pastVars
<1>2. /\ pc[c] \in {"refused", "quarantined", "restored", "deleted"}
      /\ \A d \in Calls : pc'[d] = IF d = c THEN "done" ELSE pc[d]
  BY Zenon DEF Audit, TypeOK, goto
<1>3. TypeOK'
  BY Zenon DEF TypeOK, Audit, goto, Ends
<1>4. LockInv'
  BY <1>2, LockFrame, Zenon DEF Locked
<1>5. RowInv' /\ OwnInv' /\ UniqueInv' /\ WorkedInv'
  BY <1>2, RowsFrame, Zenon DEF sameWork, sameTask, IsolateWork, RestoreWork, DeleteWork, Settled
<1>6. StoredInv' /\ BlobKept' /\ StampInv' /\ EvidenceKept'
  BY <1>2, StoreFrame, Zenon
<1>7. RemoveInv'
  BY <1>2, RemoveFrame, Zenon
<1>8. PruneInv'
  BY <1>2, PruneFrame, Zenon
<1>9. InodeInv'
  BY <1>2, InodeFrame, Zenon
<1>10. AuditInv'
  <2>1. \A d \in Calls : audit'[d] = IF d = c THEN pc[c] ELSE audit[d]
    BY Zenon DEF Audit, TypeOK
  <2>2. ASSUME NEW q \in Calls, status[q] \in {"restored", "deleted"}
        PROVE  \E d \in Calls :
                 subject[d] = q /\ (status[q] \in {audit'[d], pc'[d]} \/ pc'[d] = "dead")
    <3>1. PICK d \in Calls :
                 subject[d] = q /\ (status[q] \in {audit[d], pc[d]} \/ pc[d] = "dead")
      BY <2>2, Zenon DEF AuditInv, OutcomeAudited
    <3>. QED BY <1>2, <2>1, <2>2, <3>1, Zenon DEF AuditInv
  <2>. QED BY <1>2, <2>1, <2>2 DEF AuditInv, OutcomeAudited
<1>. QED BY <1>3, <1>4, <1>5, <1>6, <1>7, <1>8, <1>9, <1>10, Zenon

-----------------------------------------------------------------------------
(* capture.                                                                *)

(* capture takes the lock and opens its case.                              *)
LEMMA CaptureOpenStep ==
  ASSUME IInv, NEW c \in Calls, NEW k \in Cases, CaptureOpen(c, k)
  PROVE  IInv'
<1>. USE DEF IInv, Rest
<1>. UNCHANGED <<at, inodes, blobs, status, evidence, sha, path, file, audit, crashes, torn>>
  BY Zenon DEF CaptureOpen, fileVars, rowVars, callVars, pastVars
<1>2. /\ pc[c] = "idle"
      /\ \/ \A d \in Calls : pc'[d] = IF d = c THEN "artefact" ELSE pc[d]
         \/ \A d \in Calls : pc'[d] = IF d = c THEN "done" ELSE pc[d]
  BY DEF CaptureOpen, TypeOK, goto
<1>3. \A d \in Calls : d # c => subject'[d] = subject[d] /\ todo'[d] = todo[d]
  BY Zenon DEF CaptureOpen, TypeOK
<1>4. TypeOK'
  <2>1. pc' \in [Calls -> Working \cup Locked \cup Ends \cup {"idle", "capture", "done", "dead"}]
    BY DEF CaptureOpen, goto, TypeOK, Locked
  <2>2. todo' \in [Calls -> SUBSET Shas] /\ subject' \in [Calls -> Calls \cup Cases \cup {None}]
    BY DEF CaptureOpen, TypeOK
  <2>3. cases' \in [Cases -> {"none", "open", "closed"}] /\ lock' \in Calls \cup {None}
    BY Zenon DEF CaptureOpen, acquire, TypeOK
  <2>. QED BY <2>1, <2>2, <2>3, Zenon DEF TypeOK
<1>5. StoredInv' /\ BlobKept' /\ StampInv' /\ EvidenceKept'
  BY <1>2, StoreFrame, Zenon
<1>6. InodeInv'
  BY <1>2, InodeFrame, Zenon
<1>7. AuditInv'
  BY <1>2, <1>3 DEF AuditInv, OutcomeAudited
<1>8. LockInv'
  <2>1. CASE cases[k] = "none"
    BY <2>1, LockTaken DEF CaptureOpen, acquire, TypeOK, goto, Locked
  <2>2. CASE cases[k] # "none"
    BY <2>2, LockFrame DEF CaptureOpen, TypeOK, goto, Locked
  <2>. QED BY <2>1, <2>2, Zenon
<1>9. RowInv'
  BY <1>2, Zenon DEF RowInv, IsolateWork
<1>10. OwnInv' /\ UniqueInv' /\ WorkedInv'
  BY <1>2, <1>3, WorkFrame, Zenon DEF sameTask, Working, IsolateWork, RestoreWork, DeleteWork
<1>11. RemoveInv'
  BY <1>2, <1>3 DEF RemoveInv
<1>12. PruneInv'
  BY <1>2, <1>3, Zenon DEF PruneInv
<1>. QED BY <1>4, <1>5, <1>6, <1>7, <1>8, <1>9, <1>10, <1>11, <1>12, Zenon

(* ForensicStore.put adds a blob, or the artefact is skipped.              *)
LEMMA CapturePutStep ==
  ASSUME IInv, NEW c \in Calls, NEW s \in Shas, CapturePut(c, s)
  PROVE  IInv'
<1>. USE DEF IInv, Rest
<1>. UNCHANGED <<at, inodes, status, evidence, cases, lock, subject, path, file, audit, crashes,
                  torn>>
  BY Zenon DEF CapturePut, fileVars, rowVars, callVars, pastVars
<1>2. /\ pc[c] = "artefact"
      /\ \/ \A d \in Calls : pc'[d] = IF d = c THEN "record" ELSE pc[d]
         \/ \A d \in Calls : pc'[d] = pc[d]
  BY Zenon DEF CapturePut, TypeOK, goto
<1>3. /\ \A d \in Calls : d # c => sha'[d] = sha[d]
      /\ blobs \subseteq blobs'
      /\ pc'[c] = "record" => sha'[c] = s /\ s \in blobs'
  BY Zenon DEF CapturePut, TypeOK, goto
<1>4. status[c] = "none"
  BY <1>2, Zenon DEF RowInv, IsolateWork
<1>5. TypeOK'
  BY DEF TypeOK, CapturePut, goto, Locked
<1>6. LockInv'
  BY <1>2, LockFrame, Zenon DEF Locked
<1>7. InodeInv'
  BY <1>2, InodeFrame, Zenon
<1>8. AuditInv'
  BY <1>2, AuditFrame, Zenon
<1>9. RowInv'
  BY <1>2, <1>3, <1>4, Zenon DEF RowInv, IsolateWork
<1>10. OwnInv' /\ UniqueInv' /\ WorkedInv'
  BY <1>2, WorkFrame, Zenon DEF sameTask, IsolateWork, RestoreWork, DeleteWork
<1>11. StoredInv' /\ BlobKept'
  BY <1>2, <1>3, <1>4, Zenon DEF StoredInv, BlobKept, Protecting
<1>alone. \A d \in Calls : pc'[d] \in Locked => d = c
  BY <1>2, Alone, Zenon DEF Locked
<1>12. RemoveInv' /\ PruneInv' /\ StampInv'
  BY <1>2, <1>alone DEF RemoveInv, PruneInv, StampInv, Locked
<1>13. EvidenceKept'
  BY <1>2, <1>3 DEF EvidenceKept
<1>. QED BY <1>5, <1>6, <1>7, <1>8, <1>9, <1>10, <1>11, <1>12, <1>13, Zenon

(* The evidence row is inserted while its blob is there.                   *)
LEMMA CaptureInsertStep ==
  ASSUME IInv, NEW c \in Calls, CaptureInsert(c)
  PROVE  IInv'
<1>. USE DEF IInv, Rest
<1>. UNCHANGED <<at, inodes, blobs, status, cases, lock, subject, sha, path, file, todo, audit,
                  crashes, torn>>
  BY Zenon DEF CaptureInsert, fileVars, rowVars, callVars, pastVars
<1>2. pc[c] = "record" /\ \A d \in Calls : pc'[d] = IF d = c THEN "artefact" ELSE pc[d]
  BY Zenon DEF CaptureInsert, TypeOK, goto
<1>3. TypeOK'
  BY Zenon DEF TypeOK, CaptureInsert, goto, Locked
<1>4. LockInv'
  BY <1>2, LockFrame, Zenon DEF Locked
<1>5. RowInv' /\ OwnInv' /\ UniqueInv' /\ WorkedInv'
  BY <1>2, RowsFrame, Zenon DEF sameWork, sameTask, IsolateWork, RestoreWork, DeleteWork, Settled
<1>6. PruneInv'
  BY <1>2, PruneFrame, Zenon
<1>7. InodeInv'
  BY <1>2, InodeFrame, Zenon
<1>8. AuditInv'
  BY <1>2, AuditFrame, Zenon
<1>alone. \A d \in Calls : pc'[d] \in Locked => d = c
  BY <1>2, Alone, Zenon DEF Locked
<1>9. RemoveInv' /\ StampInv'
  BY <1>2, <1>alone, Zenon DEF RemoveInv, StampInv, Locked
<1>10. StoredInv' /\ BlobKept'
  BY <1>2, Zenon DEF StoredInv, BlobKept
<1>11. EvidenceKept'
  BY <1>2 DEF CaptureInsert, TypeOK, EvidenceKept, StoredInv
<1>. QED BY <1>3, <1>4, <1>5, <1>6, <1>7, <1>8, <1>9, <1>10, <1>11, Zenon

(* capture releases the lock.                                              *)
LEMMA CaptureDoneStep ==
  ASSUME IInv, NEW c \in Calls, CaptureDone(c)
  PROVE  IInv'
<1>1. \A d \in Calls : pc'[d] = IF d = c THEN "done" ELSE pc[d]
  BY Zenon DEF IInv, TypeOK, CaptureDone, goto
<1>2. TypeOK'
  BY Zenon DEF IInv, TypeOK, CaptureDone, goto, release, fileVars, rowVars, pastVars
<1>3. LockInv'
  BY <1>1, LockFreed, Zenon DEF IInv, CaptureDone, release, Locked
<1>4. \A d \in Calls : calm(pc[d], pc'[d]) /\ todo'[d] \subseteq todo[d]
  BY <1>1, Zenon DEF CaptureDone, calm, sameWork, sameTask, IsolateWork, RestoreWork, DeleteWork,
    Settled
<1>5. Rest'
  BY <1>4, Quiet, Zenon DEF IInv, CaptureDone, rowVars
<1>. QED BY <1>2, <1>3, <1>5, Zenon DEF IInv

-----------------------------------------------------------------------------
(* prune_evidence.                                                         *)

(* prune_evidence picks digests that no protecting row names.              *)
LEMMA PruneScanStep ==
  ASSUME IInv, NEW c \in Calls, PruneScan(c)
  PROVE  IInv'
<1>. USE DEF IInv, Rest
<1>. UNCHANGED <<at, inodes, blobs, status, evidence, cases, subject, sha, path, file, audit,
                  crashes, torn>>
  BY Zenon DEF PruneScan, fileVars, rowVars, callVars, pastVars
<1>2. pc[c] = "idle" /\ \A d \in Calls : pc'[d] = IF d = c THEN "prune" ELSE pc[d]
  BY Zenon DEF PruneScan, TypeOK, goto
<1>3. TypeOK'
  BY DEF TypeOK, PruneScan, goto, acquire, Locked
<1>4. LockInv'
  BY <1>2, LockTaken, Zenon DEF PruneScan, acquire, Locked
<1>5. RowInv' /\ OwnInv' /\ UniqueInv' /\ WorkedInv'
  BY <1>2, RowsFrame, Zenon DEF sameWork, sameTask, IsolateWork, RestoreWork, DeleteWork, Settled
<1>6. StoredInv' /\ BlobKept' /\ StampInv' /\ EvidenceKept'
  BY <1>2, StoreFrame, Zenon
<1>7. RemoveInv'
  BY <1>2, RemoveFrame, Zenon
<1>8. InodeInv'
  BY <1>2, InodeFrame, Zenon
<1>9. AuditInv'
  BY <1>2, AuditFrame, Zenon
<1>10. PruneInv'
  BY <1>2, Zenon DEF PruneScan, TypeOK, PruneInv, protected
<1>. QED BY <1>3, <1>4, <1>5, <1>6, <1>7, <1>8, <1>9, <1>10, Zenon

(* A digest with a younger row or an open case is passed over.             *)
LEMMA PruneSkipStep ==
  ASSUME IInv, NEW c \in Calls, NEW s \in Shas, PruneSkip(c, s)
  PROVE  IInv'
<1>1. TypeOK'
  BY Zenon DEF IInv, TypeOK, PruneSkip, fileVars, rowVars, callVars, pastVars
<1>2. LockInv'
  BY LockFrame, Zenon DEF IInv, PruneSkip, callVars
<1>3. \A d \in Calls : calm(pc[d], pc'[d]) /\ todo'[d] \subseteq todo[d]
  BY DEF IInv, TypeOK, PruneSkip, callVars, calm, sameWork, sameTask
<1>4. Rest'
  BY <1>3, Quiet, Zenon DEF IInv, PruneSkip, rowVars, callVars
<1>. QED BY <1>1, <1>2, <1>4, Zenon DEF IInv

(* The blob unlinked is protected by no row; its evidence is being         *)
(* stamped.                                                                *)
LEMMA PruneUnlinkStep ==
  ASSUME IInv, NEW c \in Calls, NEW s \in Shas, PruneUnlink(c, s)
  PROVE  IInv'
<1>. USE DEF IInv, Rest
<1>. UNCHANGED <<at, inodes, status, evidence, cases, lock, subject, path, file, audit, crashes,
                  torn>>
  BY Zenon DEF PruneUnlink, fileVars, rowVars, callVars, pastVars
<1>2. pc[c] = "prune" /\ \A d \in Calls : pc'[d] = IF d = c THEN "stamp" ELSE pc[d]
  BY Zenon DEF PruneUnlink, TypeOK, goto
<1>3. /\ \A d \in Calls : sha'[d] = IF d = c THEN s ELSE sha[d]
      /\ \A d \in Calls : todo'[d] \subseteq todo[d]
      /\ blobs' = blobs \ {s}
  BY Zenon DEF PruneUnlink, TypeOK
<1>4. status[c] = "none"
  BY <1>2, Zenon DEF RowInv, IsolateWork
<1>5. TypeOK'
  BY Zenon DEF TypeOK, PruneUnlink, goto, Locked
<1>6. LockInv'
  BY <1>2, LockFrame, Zenon DEF Locked
<1>7. InodeInv'
  BY <1>2, InodeFrame, Zenon
<1>8. AuditInv'
  BY <1>2, AuditFrame, Zenon
<1>9. RowInv'
  BY <1>2, <1>3, Zenon DEF RowInv, IsolateWork
<1>10. OwnInv' /\ UniqueInv' /\ WorkedInv'
  BY <1>2, WorkFrame, Zenon DEF sameTask, IsolateWork, RestoreWork, DeleteWork
<1>alone. \A d \in Calls : pc'[d] \in Locked => d = c
  BY <1>2, Alone, Zenon DEF Locked
<1>11. StoredInv' /\ RemoveInv'
  BY <1>2, <1>alone, Zenon DEF StoredInv, RemoveInv, Locked
<1>12. PruneInv'
  BY <1>2, <1>3, <1>4, <1>alone, Zenon DEF PruneInv, Protecting, Locked
<1>13. BlobKept'
  BY <1>2, <1>3, <1>4, Zenon DEF PruneUnlink, BlobKept, Protecting, PruneInv
<1>14. StampInv'
  BY <1>2, <1>3, <1>alone, Zenon DEF PruneUnlink, StampInv, prunable, Locked
<1>15. EvidenceKept'
  BY <1>2, <1>3, Zenon DEF EvidenceKept
<1>. QED BY <1>5, <1>6, <1>7, <1>8, <1>9, <1>10, <1>11, <1>12, <1>13, <1>14, <1>15, Zenon

(* One marker more.                                                        *)
LEMMA PruneStampStep ==
  ASSUME IInv, NEW c \in Calls, NEW k \in Cases, PruneStamp(c, k)
  PROVE  IInv'
<1>. USE DEF IInv, Rest
<1>. UNCHANGED <<at, inodes, blobs, status, cases, lock, pc, subject, sha, path, file, todo,
                  audit, crashes, torn>>
  BY Zenon DEF PruneStamp, fileVars, rowVars, callVars, pastVars
<1>2. TypeOK'
  BY Zenon DEF TypeOK, RowInv, PruneStamp
<1>3. LockInv'
  BY LockFrame, Zenon DEF Locked
<1>4. RowInv' /\ OwnInv' /\ UniqueInv' /\ WorkedInv'
  BY RowsFrame, Zenon DEF sameWork, sameTask, IsolateWork, RestoreWork, DeleteWork, Settled
<1>5. PruneInv'
  BY PruneFrame, Zenon
<1>6. InodeInv'
  BY InodeFrame, Zenon
<1>7. AuditInv'
  BY AuditFrame, Zenon
<1>8. RemoveInv'
  BY Zenon DEF PruneStamp, RemoveInv, LockInv, Locked
<1>9. StoredInv' /\ BlobKept' /\ StampInv' /\ EvidenceKept'
  BY DEF PruneStamp, TypeOK, StoredInv, BlobKept, StampInv, EvidenceKept, Unmarked
<1>. QED BY <1>2, <1>3, <1>4, <1>5, <1>6, <1>7, <1>8, <1>9, Zenon

(* The stamps are complete: no unmarked evidence of the digest is left.    *)
LEMMA PruneStampedStep ==
  ASSUME IInv, NEW c \in Calls, PruneStamped(c)
  PROVE  IInv'
<1>. USE DEF IInv, Rest
<1>. UNCHANGED <<at, inodes, blobs, status, evidence, cases, lock, subject, sha, path, file,
                  todo, audit, crashes, torn>>
  BY Zenon DEF PruneStamped, fileVars, rowVars, callVars, pastVars
<1>2. pc[c] = "stamp" /\ \A d \in Calls : pc'[d] = IF d = c THEN "prune" ELSE pc[d]
  BY Zenon DEF PruneStamped, TypeOK, goto
<1>3. TypeOK'
  BY Zenon DEF TypeOK, PruneStamped, goto, Locked
<1>4. LockInv'
  BY <1>2, LockFrame, Zenon DEF Locked
<1>5. RowInv' /\ OwnInv' /\ UniqueInv' /\ WorkedInv'
  BY <1>2, RowsFrame, Zenon DEF sameWork, sameTask, IsolateWork, RestoreWork, DeleteWork, Settled
<1>6. RemoveInv'
  BY <1>2, RemoveFrame, Zenon
<1>7. PruneInv'
  BY <1>2, PruneFrame, Zenon
<1>8. InodeInv'
  BY <1>2, InodeFrame, Zenon
<1>9. AuditInv'
  BY <1>2, AuditFrame, Zenon
<1>10. StoredInv' /\ BlobKept' /\ StampInv'
  BY <1>2, Zenon DEF StoredInv, BlobKept, StampInv
<1>11. \A k \in Cases : evidence[<<k, sha[c]>>] \notin Unmarked
  BY Zenon DEF PruneStamped, StampInv, Unmarked
<1>12. EvidenceKept'
  BY <1>2, <1>11 DEF EvidenceKept
<1>. QED BY <1>3, <1>4, <1>5, <1>6, <1>7, <1>8, <1>9, <1>10, <1>11, <1>12, Zenon

(* prune_evidence releases the lock.                                       *)
LEMMA PruneDoneStep ==
  ASSUME IInv, NEW c \in Calls, PruneDone(c)
  PROVE  IInv'
<1>1. \A d \in Calls : pc'[d] = IF d = c THEN "done" ELSE pc[d]
  BY Zenon DEF IInv, TypeOK, PruneDone, goto
<1>2. TypeOK'
  BY Zenon DEF IInv, TypeOK, PruneDone, goto, release, fileVars, rowVars, pastVars
<1>3. LockInv'
  BY <1>1, LockFreed, Zenon DEF IInv, PruneDone, release, Locked
<1>4. \A d \in Calls : calm(pc[d], pc'[d]) /\ todo'[d] \subseteq todo[d]
  BY <1>1, Zenon DEF PruneDone, calm, sameWork, sameTask, IsolateWork, RestoreWork, DeleteWork,
    Settled
<1>5. Rest'
  BY <1>4, Quiet, Zenon DEF IInv, PruneDone, rowVars
<1>. QED BY <1>2, <1>3, <1>5, Zenon DEF IInv

-----------------------------------------------------------------------------
(* The surroundings.                                                       *)

(* Another program makes a new inode at a path.                            *)
LEMMA FileCreatedStep ==
  ASSUME IInv, NEW p \in Paths, NEW s \in Shas, FileCreated(p, s)
  PROVE  IInv'
<1>. USE DEF IInv, Rest
<1>. UNCHANGED <<blobs, status, evidence, cases, lock, pc, subject, sha, path, file, todo,
                  audit, crashes, torn>>
  BY Zenon DEF FileCreated, fileVars, rowVars, callVars, pastVars
<1>2. TypeOK'
  BY QuarantineAssumption DEF TypeOK, FileCreated, Files
<1>3. LockInv'
  BY LockFrame, Zenon DEF Locked
<1>4. RowInv' /\ OwnInv' /\ UniqueInv' /\ WorkedInv'
  BY RowsFrame, Zenon DEF sameWork, sameTask, IsolateWork, RestoreWork, DeleteWork, Settled
<1>5. StoredInv' /\ BlobKept' /\ StampInv' /\ EvidenceKept'
  BY StoreFrame, Zenon
<1>6. RemoveInv'
  BY RemoveFrame, Zenon
<1>7. PruneInv'
  BY PruneFrame, Zenon
<1>8. AuditInv'
  BY AuditFrame, Zenon
<1>9. InodeInv'
  BY QuarantineAssumption DEF FileCreated, InodeInv, TypeOK, Files
<1>. QED BY <1>2, <1>3, <1>4, <1>5, <1>6, <1>7, <1>8, <1>9, Zenon

(* Another program removes a path.                                         *)
LEMMA FileRemovedStep ==
  ASSUME IInv, NEW p \in Paths, FileRemoved(p)
  PROVE  IInv'
<1>. USE DEF IInv, Rest
<1>. UNCHANGED <<inodes, blobs, status, evidence, cases, lock, pc, subject, sha, path, file,
                  todo, audit, crashes, torn>>
  BY Zenon DEF FileRemoved, fileVars, rowVars, callVars, pastVars
<1>2. TypeOK'
  BY Zenon DEF TypeOK, FileRemoved
<1>3. LockInv'
  BY LockFrame, Zenon DEF Locked
<1>4. RowInv' /\ OwnInv' /\ UniqueInv' /\ WorkedInv'
  BY RowsFrame, Zenon DEF sameWork, sameTask, IsolateWork, RestoreWork, DeleteWork, Settled
<1>5. StoredInv' /\ BlobKept' /\ StampInv' /\ EvidenceKept'
  BY StoreFrame, Zenon
<1>6. RemoveInv'
  BY RemoveFrame, Zenon
<1>7. PruneInv'
  BY PruneFrame, Zenon
<1>8. AuditInv'
  BY AuditFrame, Zenon
<1>9. InodeInv'
  BY QuarantineAssumption DEF FileRemoved, InodeInv, RowInv, OwnInv, IsolateWork,
     Files
<1>. QED BY <1>2, <1>3, <1>4, <1>5, <1>6, <1>7, <1>8, <1>9, Zenon

(* The operator closes a case.                                             *)
LEMMA CaseClosedStep ==
  ASSUME IInv, NEW k \in Cases, CaseClosed(k)
  PROVE  IInv'
<1>1. TypeOK'
  BY Zenon DEF IInv, TypeOK, CaseClosed, fileVars, rowVars, callVars, pastVars
<1>2. LockInv'
  BY LockFrame, Zenon DEF IInv, CaseClosed, callVars
<1>3. \A d \in Calls : calm(pc[d], pc'[d]) /\ todo'[d] \subseteq todo[d]
  BY DEF IInv, TypeOK, CaseClosed, callVars, calm, sameWork, sameTask
<1>4. Rest'
  BY <1>3, Quiet, Zenon DEF IInv, CaseClosed, rowVars, callVars
<1>. QED BY <1>1, <1>2, <1>4, Zenon DEF IInv

(* Evidence ages, and never under a running prune.                         *)
LEMMA EvidenceAgesStep ==
  ASSUME IInv, NEW k \in Cases, NEW s \in Shas, EvidenceAges(k, s)
  PROVE  IInv'
<1>. USE DEF IInv, Rest
<1>. UNCHANGED <<at, inodes, blobs, status, cases, lock, pc, subject, sha, path, file, todo,
                  audit, crashes, torn>>
  BY Zenon DEF EvidenceAges, fileVars, rowVars, callVars, pastVars
<1>2. TypeOK'
  BY Zenon DEF TypeOK, EvidenceAges
<1>3. LockInv'
  BY LockFrame, Zenon DEF Locked
<1>4. RowInv' /\ OwnInv' /\ UniqueInv' /\ WorkedInv'
  BY RowsFrame, Zenon DEF sameWork, sameTask, IsolateWork, RestoreWork, DeleteWork, Settled
<1>5. PruneInv'
  BY PruneFrame, Zenon
<1>6. InodeInv'
  BY InodeFrame, Zenon
<1>7. AuditInv'
  BY AuditFrame, Zenon
<1>8. StoredInv' /\ BlobKept' /\ StampInv' /\ EvidenceKept' /\ RemoveInv'
  BY DEF EvidenceAges, TypeOK, StoredInv, BlobKept, StampInv, EvidenceKept,
     Unmarked, RemoveInv
<1>. QED BY <1>2, <1>3, <1>4, <1>5, <1>6, <1>7, <1>8, Zenon

(* The daemon dies: every thread is gone, the lock is free, the rows and   *)
(* blobs stay.                                                             *)
LEMMA CrashStep ==
  ASSUME IInv, Crash
  PROVE  IInv'
<1>. USE DEF IInv, Rest
<1>1. TypeOK'
  BY QuarantineAssumption DEF Crash, TypeOK, RowInv, fileVars, rowVars
<1>2. /\ \A d \in Calls : pc'[d] = IF pc[d] \in {"idle", "done"} THEN pc[d] ELSE "dead"
      /\ UNCHANGED <<at, inodes, blobs, status, evidence, cases, subject, sha, path, file, audit>>
      /\ crashes' > 0 /\ lock' = None
  BY QuarantineAssumption DEF Crash, TypeOK, fileVars, rowVars
<1>3. LockInv' /\ RowInv' /\ OwnInv' /\ UniqueInv' /\ WorkedInv'
  BY <1>2, QuarantineAssumption DEF LockInv, Locked, RowInv, OwnInv, IsolateWork,
     RestoreWork, DeleteWork, UniqueInv, Working, WorkedInv
<1>4. StoredInv' /\ RemoveInv' /\ PruneInv' /\ BlobKept' /\ StampInv' /\ InodeInv'
  BY <1>2, Zenon DEF StoredInv, RemoveInv, PruneInv, BlobKept, StampInv, InodeInv
<1>5. EvidenceKept'
  BY <1>2 DEF Crash, EvidenceKept
<1>6. AuditInv'
  BY <1>2 DEF AuditInv, OutcomeAudited
<1>. QED BY <1>1, <1>3, <1>4, <1>5, <1>6, Zenon

-----------------------------------------------------------------------------
(* The empty store satisfies the invariant.                                *)
LEMMA InitInv == Init => IInv
<1>. SUFFICES ASSUME Init PROVE IInv
  BY Zenon
<1>1. TypeOK
  BY QuarantineAssumption DEF Init, TypeOK, RowStates
<1>2. LockInv /\ RowInv /\ OwnInv /\ UniqueInv
  BY QuarantineAssumption, Zenon DEF Init, LockInv, Locked, RowInv, IsolateWork, OwnInv,
    RestoreWork,
     DeleteWork, UniqueInv, Working
<1>3. WorkedInv /\ StoredInv /\ RemoveInv /\ PruneInv /\ BlobKept
  BY Zenon DEF Init, WorkedInv, Transient, StoredInv, RemoveInv, PruneInv, BlobKept, Protecting
<1>4. StampInv /\ EvidenceKept /\ InodeInv /\ AuditInv
  BY Zenon DEF Init, StampInv, EvidenceKept, Unmarked, InodeInv, AuditInv, OutcomeAudited
<1>. QED BY <1>1, <1>2, <1>3, <1>4, Zenon DEF IInv, Rest

(* Nothing changes in a step that changes none of the variables.           *)
LEMMA StutterStep ==
  ASSUME IInv, UNCHANGED vars
  PROVE  IInv'
<1>1. UNCHANGED <<at, inodes, blobs, status, evidence, cases, lock, pc, subject, sha, path, file,
                  todo, audit, crashes, torn>>
  BY Zenon DEF vars, fileVars, rowVars, callVars, pastVars
<1>2. TypeOK' /\ LockInv'
  BY <1>1, Zenon DEF IInv, TypeOK, LockInv
<1>3. \A d \in Calls : calm(pc[d], pc'[d]) /\ todo'[d] \subseteq todo[d]
  BY <1>1 DEF calm, sameWork, sameTask
<1>4. Rest'
  BY <1>1, <1>3, Quiet, Zenon DEF IInv, fileVars, pastVars
<1>. QED BY <1>2, <1>4, Zenon DEF IInv

(* Every step keeps the invariant.                                         *)
LEMMA NextInv == IInv /\ [Next]_vars => IInv'
<1>. SUFFICES ASSUME IInv, [Next]_vars PROVE IInv'
  BY Zenon
<1>1. ASSUME NEW c \in Calls, Start(c) PROVE IInv'
  BY <1>1, IsolateOpenStep, RestoreClaimStep, DeleteClaimStep, CaptureOpenStep, PruneScanStep, Zenon
     DEF Start
<1>2. ASSUME NEW c \in Calls, Step(c) PROVE IInv'
  <2>1. CASE Isolate(c)
    BY <2>1, IsolateLockStep, IsolatePutStep, IsolatePutFailsStep, IsolateInsertStep,
       IsolateStatStep, IsolateUnlinkStep, IsolateActivateStep, IsolateFailStep, Zenon DEF Isolate
  <2>2. CASE Restore(c)
    BY <2>2, RestoreVerifyStep, RestoreLinkStep, RestoreCommitStep, RestoreRollbackStep, Zenon
       DEF Restore
  <2>3. CASE Delete(c)
    BY <2>3, DeleteLockStep, DeleteClaimsStep, DeleteRemoveStep, DeleteEraseStep, Zenon DEF Delete
  <2>4. CASE Audit(c)
    BY <2>4, AuditStep, Zenon
  <2>5. CASE Capture(c)
    BY <2>5, CapturePutStep, CaptureInsertStep, CaptureDoneStep, Zenon DEF Capture
  <2>6. CASE Prune(c)
    BY <2>6, PruneSkipStep, PruneUnlinkStep, PruneStampStep, PruneStampedStep, PruneDoneStep, Zenon
       DEF Prune
  <2>. QED BY <1>2, <2>1, <2>2, <2>3, <2>4, <2>5, <2>6, Zenon DEF Step
<1>3. ASSUME NEW p \in Paths, FileRemoved(p) \/ \E s \in Shas : FileCreated(p, s) PROVE IInv'
  BY <1>3, FileRemovedStep, FileCreatedStep, Zenon
<1>4. ASSUME NEW k \in Cases, CaseClosed(k) \/ \E s \in Shas : EvidenceAges(k, s) PROVE IInv'
  BY <1>4, CaseClosedStep, EvidenceAgesStep, Zenon
<1>5. CASE Crash
  BY <1>5, CrashStep, Zenon
<1>6. CASE UNCHANGED vars
  BY <1>6, StutterStep, Zenon
<1>. QED BY <1>1, <1>2, <1>3, <1>4, <1>5, <1>6, Zenon DEF Next

-----------------------------------------------------------------------------
(* The invariant of the store, the tables and the threads holds in every   *)
(* reachable state, through every interleaving and every crash.            *)
THEOREM Invariance == Spec => []IInv
<1>. QED BY InitInv, NextInv, PTL DEF Spec

(* Rows, evidence, blobs and threads keep their shapes: no call leaves the *)
(* states that the schema and the code name.                               *)
THEOREM TypeCorrect == Spec => []TypeOK
<1>1. IInv => TypeOK
  BY Zenon DEF IInv
<1>. QED BY Invariance, <1>1, PTL

(* ops._delete and prune_evidence never remove the bytes of a quarantined  *)
(* file while its row may still need them.                                 *)
THEOREM BlobsKept == Spec => []BlobKept
<1>1. IInv => BlobKept
  BY Zenon DEF IInv, Rest
<1>. QED BY Invariance, <1>1, PTL

(* case_evidence without its pruned_at marker has its blob, but while      *)
(* prune_evidence stamps it or where a crash cut the stamping short.       *)
THEOREM EvidenceSafe == Spec => []EvidenceKept
<1>1. IInv => EvidenceKept
  BY Zenon DEF IInv, Rest
<1>. QED BY Invariance, <1>1, PTL

(* ops._cas gives a row to one call at a time: a transient row has exactly *)
(* one call on it or lost it in a crash, any other row has none.           *)
THEOREM SingleOwner == Spec => []OwnedByOne
<1>1. ASSUME IInv, NEW q \in Calls, NEW c \in Calls, c \in owners(q)
      PROVE  owners(q) = {c} /\ status[q] \in Transient
  <2>1. pc[c] \in Working /\ subject[c] = q
    BY <1>1, Zenon DEF owners
  <2>2. owners(q) = {c}
    BY <1>1, <2>1, Zenon DEF IInv, Rest, UniqueInv, owners
  <2>3. status[q] \in Transient
    BY <1>1, <2>1, Zenon DEF IInv, Rest, OwnInv, IsolateWork, RestoreWork, DeleteWork, Working,
      Transient
  <2>. QED BY <2>2, <2>3, Zenon
<1>2. ASSUME IInv PROVE OwnedByOne
  <2>. SUFFICES ASSUME NEW q \in Calls
       PROVE  IF status[q] \in Transient
                THEN (\E c \in Calls : owners(q) = {c}) \/ (owners(q) = {} /\ crashes > 0)
                ELSE owners(q) = {}
    BY Zenon DEF OwnedByOne
  <2>1. owners(q) \subseteq Calls
    BY Zenon DEF owners
  <2>2. CASE \E c \in Calls : c \in owners(q)
    BY <1>1, <1>2, <2>2, Zenon
  <2>3. CASE ~\E c \in Calls : c \in owners(q)
    <3>1. owners(q) = {}
      BY <2>1, <2>3, Zenon
    <3>2. status[q] \in Transient => crashes > 0
      BY <1>2, <2>3, Zenon DEF IInv, Rest, WorkedInv, owners
    <3>. QED BY <3>1, <3>2, Zenon
  <2>. QED BY <2>2, <2>3, Zenon
<1>. QED BY Invariance, <1>2, PTL

(* _unlink_guarded: an active row means that the file it captured is not   *)
(* at its path, whatever other programs and calls did since.               *)
THEOREM Contained == Spec => []ContainedMeansGone
<1>1. IInv => ContainedMeansGone
  BY Zenon DEF IInv, Rest, InodeInv, ContainedMeansGone
<1>. QED BY Invariance, <1>1, PTL

(* A restored or deleted row has the audit record of the call that did it, *)
(* unless that call is about to write it or died before.                   *)
THEOREM Audited == Spec => []OutcomeAudited
<1>1. IInv => OutcomeAudited
  BY Zenon DEF IInv, Rest, AuditInv
<1>. QED BY Invariance, <1>1, PTL
=============================================================================
