------------------------ MODULE SupervisorStepProofs ------------------------
(* The steps of the callers of send_worker_command, of the worker          *)
(* processes, of the reader threads and of the monitor thread preserve the *)
(* invariant.                                                              *)
EXTENDS SupervisorInv, TLAPS

USE SupervisorAssumption

-----------------------------------------------------------------------------
(* Returning with the entry popped, whatever the answer. *)
LEMMA LeaveInv ==
  ASSUME NEW s \in Senders, NEW r \in Results, IInv,
         pc[s] \in {"recheck", "write", "wait"}, return(s, r), pop(s),
         UNCHANGED <<listVars, life, retryVars, termSent, pipeVars, target,
                     cmdVars, histVars, monVars, stopVars>>
  PROVE  IInv'
<1> USE DEF return, pop, listVars, retryVars, pipeVars, sendVars, cmdVars, histVars,
            monVars, stopVars
<1>0. /\ TypeOK /\ MonitorInv /\ IncarnationInv /\ StopInv
      /\ TargetInv /\ EntryInv /\ MapInv /\ DeadInv /\ SweepInv /\ OrphanInv
  BY Zenon DEF IInv
<1>1. SenderTypeOK'
  BY <1>0, Zenon DEF TypeOK, SenderTypeOK
<1>2. PipeTypeOK'
  BY <1>0, Zenon DEF TypeOK, PipeTypeOK, TargetInv
<1>3. TargetInv'
  BY <1>0 DEF TargetInv
<1>4. EntryInv'
  BY <1>0 DEF TypeOK, SenderTypeOK, EntryInv
<1>5. MapInv'
  BY <1>0 DEF TypeOK, PipeTypeOK, MapInv
<1>6. DeadInv'
  BY <1>0 DEF TypeOK, PipeTypeOK, DeadInv, MapInv, declaredDead
<1>7. SweepInv'
  BY <1>0 DEF SweepInv, swept, declaredDead
<1>8. /\ WorkerTypeOK' /\ ThreadTypeOK' /\ MonitorInv' /\ IncarnationInv'
      /\ StopInv' /\ OrphanInv'
  BY <1>0 DEF TypeOK, WorkerTypeOK, ThreadTypeOK, MonitorInv, IncarnationInv,
     StopInv, OrphanInv, current, declaredDead
<1> QED
  BY <1>1, <1>2, <1>3, <1>4, <1>5, <1>6, <1>7, <1>8, Zenon DEF IInv, TypeOK

(* Returning before the registration. *)
LEMMA TurnAwayInv ==
  ASSUME NEW s \in Senders, IInv, pc[s] \in {"idle", "lookup", "register"},
         return(s, "worker_unavailable"), UNCHANGED pending,
         UNCHANGED <<listVars, life, retryVars, termSent, pipeVars, target,
                     cmdVars, histVars, monVars, stopVars>>
  PROVE  IInv'
<1> USE DEF return, listVars, retryVars, pipeVars, sendVars, cmdVars, histVars,
            monVars, stopVars
<1>0. /\ TypeOK /\ MonitorInv /\ IncarnationInv /\ StopInv
      /\ TargetInv /\ EntryInv /\ MapInv /\ DeadInv /\ SweepInv /\ OrphanInv
  BY Zenon DEF IInv
<1>1. SenderTypeOK'
  BY <1>0, Zenon DEF TypeOK, SenderTypeOK, Results, Statuses
<1>2. PipeTypeOK'
  BY <1>0, Zenon DEF TypeOK, PipeTypeOK
<1>3. TargetInv'
  BY <1>0 DEF TargetInv
<1>4. EntryInv'
  BY <1>0 DEF EntryInv
<1>5. MapInv'
  BY <1>0 DEF MapInv
<1>6. DeadInv'
  BY <1>0 DEF DeadInv, declaredDead
<1>7. SweepInv'
  BY <1>0 DEF SweepInv, swept, declaredDead
<1>8. /\ WorkerTypeOK' /\ ThreadTypeOK' /\ MonitorInv' /\ IncarnationInv'
      /\ StopInv' /\ OrphanInv'
  BY <1>0 DEF TypeOK, WorkerTypeOK, ThreadTypeOK, MonitorInv, IncarnationInv,
     StopInv, OrphanInv, current, declaredDead
<1> QED
  BY <1>1, <1>2, <1>3, <1>4, <1>5, <1>6, <1>7, <1>8, Zenon DEF IInv, TypeOK

(* Going past the first check of _stop. *)
LEMMA EnterInv ==
  ASSUME NEW s \in Senders, IInv, pc[s] = "idle",
         goto(s, "lookup"), UNCHANGED pending,
         UNCHANGED <<listVars, life, retryVars, termSent, pipeVars, target,
                     cmdVars, histVars, monVars, stopVars>>
  PROVE  IInv'
<1> USE DEF goto, listVars, retryVars, pipeVars, sendVars, cmdVars, histVars,
            monVars, stopVars
<1>0. /\ TypeOK /\ MonitorInv /\ IncarnationInv /\ StopInv
      /\ TargetInv /\ EntryInv /\ MapInv /\ DeadInv /\ SweepInv /\ OrphanInv
  BY Zenon DEF IInv
<1>1. SenderTypeOK'
  BY <1>0, Zenon DEF TypeOK, SenderTypeOK
<1>2. PipeTypeOK'
  BY <1>0, Zenon DEF TypeOK, PipeTypeOK
<1>3. TargetInv'
  BY <1>0 DEF TargetInv
<1>4. EntryInv'
  BY <1>0 DEF EntryInv
<1>5. MapInv'
  BY <1>0 DEF MapInv
<1>6. DeadInv'
  BY <1>0 DEF DeadInv, declaredDead
<1>7. SweepInv'
  BY <1>0 DEF SweepInv, swept, TargetInv, declaredDead
<1>8. /\ WorkerTypeOK' /\ ThreadTypeOK' /\ MonitorInv' /\ IncarnationInv'
      /\ StopInv' /\ OrphanInv'
  BY <1>0 DEF TypeOK, WorkerTypeOK, ThreadTypeOK, MonitorInv, IncarnationInv,
     StopInv, OrphanInv, current, declaredDead
<1> QED
  BY <1>1, <1>2, <1>3, <1>4, <1>5, <1>6, <1>7, <1>8, Zenon DEF IInv, TypeOK

(* Registering. *)
LEMMA RegisterInv ==
  ASSUME NEW s \in Senders, IInv, pc[s] = "register",
         goto(s, "recheck"),
         pending' = [pending EXCEPT ![target[s]] = @ \cup {s}],
         UNCHANGED <<listVars, life, retryVars, termSent, pipeVars, target,
                     cmdVars, histVars, monVars, stopVars>>
  PROVE  IInv'
<1> USE DEF goto, listVars, retryVars, pipeVars, sendVars, cmdVars, histVars,
            monVars, stopVars
<1>0. /\ TypeOK /\ MonitorInv /\ IncarnationInv /\ StopInv
      /\ TargetInv /\ EntryInv /\ MapInv /\ DeadInv /\ SweepInv /\ OrphanInv
  BY Zenon DEF IInv
<1>1. SenderTypeOK'
  BY <1>0, Zenon DEF TypeOK, SenderTypeOK, Results
<1>2. PipeTypeOK'
  BY <1>0, Zenon DEF TypeOK, PipeTypeOK, TargetInv
<1>3. TargetInv'
  <2>1. \A u \in Senders : pc'[u] = pc[u] \/ (u = s /\ pc'[u] = "recheck")
    BY <1>0, Zenon DEF TypeOK, SenderTypeOK
  <2>2. UNCHANGED <<target, procs>>
    BY Zenon
  <2> QED
    BY <1>0, <2>1, <2>2, Zenon DEF TargetInv
<1>4. EntryInv'
  BY <1>0 DEF TypeOK, PipeTypeOK, EntryInv, TargetInv
<1>5. MapInv'
  BY <1>0 DEF TypeOK, SenderTypeOK, MapInv
<1>6. DeadInv'
  BY <1>0 DEF TypeOK, SenderTypeOK, DeadInv, declaredDead
<1>7. SweepInv'
  BY <1>0 DEF SweepInv, swept, declaredDead
<1>8. /\ WorkerTypeOK' /\ ThreadTypeOK' /\ MonitorInv' /\ IncarnationInv'
      /\ StopInv' /\ OrphanInv'
  BY <1>0 DEF TypeOK, WorkerTypeOK, ThreadTypeOK, MonitorInv, IncarnationInv,
     StopInv, OrphanInv, current, declaredDead
<1> QED
  BY <1>1, <1>2, <1>3, <1>4, <1>5, <1>6, <1>7, <1>8, Zenon DEF IInv, TypeOK

(* Going past the second check of _stop. *)
LEMMA RecheckedInv ==
  ASSUME NEW s \in Senders, IInv, pc[s] = "recheck", ~stopFlag,
         goto(s, "write"), UNCHANGED pending,
         UNCHANGED <<listVars, life, retryVars, termSent, pipeVars, target,
                     cmdVars, histVars, monVars, stopVars>>
  PROVE  IInv'
<1> USE DEF goto, stopFlag, listVars, retryVars, pipeVars, sendVars, cmdVars, histVars,
            monVars, stopVars
<1>0. /\ TypeOK /\ MonitorInv /\ IncarnationInv /\ StopInv
      /\ TargetInv /\ EntryInv /\ MapInv /\ DeadInv /\ SweepInv /\ OrphanInv
  BY Zenon DEF IInv
<1>1. SenderTypeOK'
  BY <1>0, Zenon DEF TypeOK, SenderTypeOK
<1>2. PipeTypeOK'
  BY <1>0, Zenon DEF TypeOK, PipeTypeOK
<1>3. TargetInv'
  BY <1>0 DEF TargetInv
<1>4. EntryInv'
  BY <1>0 DEF EntryInv
<1>5. MapInv'
  BY <1>0 DEF MapInv
<1>6. DeadInv'
  BY <1>0 DEF DeadInv, declaredDead
<1>7. SweepInv'
  BY <1>0, Zenon DEF SweepInv, swept
<1>8. /\ WorkerTypeOK' /\ ThreadTypeOK' /\ MonitorInv' /\ IncarnationInv'
      /\ StopInv' /\ OrphanInv'
  BY <1>0, Zenon DEF TypeOK, WorkerTypeOK, ThreadTypeOK, MonitorInv, IncarnationInv,
     StopInv, OrphanInv, current, declaredDead
<1> QED
  BY <1>1, <1>2, <1>3, <1>4, <1>5, <1>6, <1>7, <1>8, Zenon DEF IInv, TypeOK

(* Writing the line to a live worker. *)
LEMMA WrittenInv ==
  ASSUME NEW s \in Senders, IInv, pc[s] = "write",
         life[target[s]] = "alive", goto(s, "wait"),
         inbox' = [inbox EXCEPT ![target[s]] = Append(@, s)],
         UNCHANGED <<listVars, life, retryVars, termSent, stdinOpen, outbox,
                     held, pending, target, cmdVars, histVars, monVars,
                     stopVars>>
  PROVE  IInv'
<1> USE DEF goto, listVars, retryVars, pipeVars, sendVars, cmdVars, histVars,
            monVars, stopVars
<1>0. /\ TypeOK /\ MonitorInv /\ IncarnationInv /\ StopInv
      /\ TargetInv /\ EntryInv /\ MapInv /\ DeadInv /\ SweepInv /\ OrphanInv
  BY Zenon DEF IInv
<1>1. SenderTypeOK'
  BY <1>0, Zenon DEF TypeOK, SenderTypeOK
<1>2. PipeTypeOK'
  BY <1>0 DEF TypeOK, PipeTypeOK, TargetInv
<1>3. TargetInv'
  BY <1>0 DEF TargetInv
<1>4. EntryInv'
  BY <1>0 DEF EntryInv
<1>5. MapInv'
  BY <1>0 DEF MapInv
<1>6. DeadInv'
  BY <1>0 DEF DeadInv, MapInv, declaredDead
<1>7. SweepInv'
  BY <1>0 DEF SweepInv, swept, declaredDead
<1>8. /\ WorkerTypeOK' /\ ThreadTypeOK' /\ MonitorInv' /\ IncarnationInv'
      /\ StopInv' /\ OrphanInv'
  BY <1>0 DEF TypeOK, WorkerTypeOK, ThreadTypeOK, MonitorInv, IncarnationInv,
     StopInv, OrphanInv, current, declaredDead
<1> QED
  BY <1>1, <1>2, <1>3, <1>4, <1>5, <1>6, <1>7, <1>8, Zenon DEF IInv, TypeOK

(* SendCheckStop preserves the invariant. *)
LEMMA SendCheckStopInv ==
  ASSUME NEW s \in Senders, IInv, SendCheckStop(s)
  PROVE  IInv'
<1>1. CASE stopFlag
  BY <1>1, TurnAwayInv, Zenon DEF SendCheckStop
<1>2. CASE ~stopFlag
  BY <1>2, EnterInv, Zenon DEF SendCheckStop
<1> QED
  BY <1>1, <1>2, Zenon

(* SendLookup preserves the invariant. *)
LEMMA SendLookupInv ==
  ASSUME NEW s \in Senders, NEW w \in Workers, IInv, SendLookup(s, w)
  PROVE  IInv'
<1> USE DEF SendLookup, goto, listVars, retryVars, pipeVars, cmdVars,
            histVars, monVars, stopVars
<1>0. /\ TypeOK /\ MonitorInv /\ IncarnationInv /\ StopInv
      /\ TargetInv /\ EntryInv /\ MapInv /\ DeadInv /\ SweepInv /\ OrphanInv
  BY Zenon DEF IInv
<1>1. SenderTypeOK'
  BY <1>0, Zenon DEF TypeOK, SenderTypeOK, WorkerTypeOK, Incs, current, Line
<1>2. TargetInv'
  BY <1>0 DEF TypeOK, SenderTypeOK, WorkerTypeOK, TargetInv, Incs, current
<1>3. EntryInv'
  BY <1>0 DEF EntryInv
<1>4. MapInv'
  BY <1>0 DEF ThreadTypeOK, MapInv
<1>5. DeadInv'
  BY <1>0 DEF DeadInv, declaredDead
<1>6. SweepInv'
  BY <1>0 DEF WorkerTypeOK, SweepInv, swept, declaredDead
<1>7. /\ WorkerTypeOK' /\ PipeTypeOK' /\ ThreadTypeOK' /\ MonitorInv'
      /\ IncarnationInv' /\ StopInv' /\ OrphanInv'
  BY <1>0 DEF TypeOK, WorkerTypeOK, PipeTypeOK, ThreadTypeOK, MonitorInv,
     IncarnationInv, StopInv, OrphanInv, current, declaredDead
<1> QED
  BY <1>1, <1>2, <1>3, <1>4, <1>5, <1>6, <1>7, Zenon DEF IInv, TypeOK

(* SendRegister preserves the invariant. *)
LEMMA SendRegisterInv ==
  ASSUME NEW s \in Senders, IInv, SendRegister(s)
  PROVE  IInv'
<1>1. CASE inflightFull(target[s])
  BY <1>1, TurnAwayInv, Zenon DEF SendRegister
<1>2. CASE ~inflightFull(target[s])
  BY <1>2, RegisterInv, Zenon DEF SendRegister
<1> QED
  BY <1>1, <1>2, Zenon

(* SendRecheck preserves the invariant. *)
LEMMA SendRecheckInv ==
  ASSUME NEW s \in Senders, IInv, SendRecheck(s)
  PROVE  IInv'
<1>1. CASE stopFlag
  BY <1>1, LeaveInv, Zenon DEF SendRecheck, Results
<1>2. CASE ~stopFlag
  BY <1>2, RecheckedInv, Zenon DEF SendRecheck
<1> QED
  BY <1>1, <1>2, Zenon

(* SendWrite preserves the invariant. *)
LEMMA SendWriteInv ==
  ASSUME NEW s \in Senders, IInv, SendWrite(s)
  PROVE  IInv'
<1>1. CASE stdinOpen[target[s]] /\ life[target[s]] = "alive"
  BY <1>1, WrittenInv, Zenon DEF SendWrite
<1>2. CASE ~(stdinOpen[target[s]] /\ life[target[s]] = "alive")
  BY <1>2, LeaveInv, Zenon DEF SendWrite, Results, pipeVars
<1> QED
  BY <1>1, <1>2, Zenon

(* SendReturn preserves the invariant. *)
LEMMA SendReturnInv ==
  ASSUME NEW s \in Senders, IInv, SendReturn(s)
  PROVE  IInv'
<1>1. result[s] \in Results
  BY Zenon DEF IInv, TypeOK, SenderTypeOK
<1> QED
  BY <1>1, LeaveInv, Zenon DEF SendReturn

(* WorkerHandle preserves the invariant. *)
LEMMA WorkerHandleInv ==
  ASSUME NEW i \in Incs, IInv, WorkerHandle(i)
  PROVE  IInv'
<1> USE DEF WorkerHandle, listVars, retryVars, sendVars, cmdVars, monVars,
            stopVars
<1>0. /\ TypeOK /\ MonitorInv /\ IncarnationInv /\ StopInv
      /\ TargetInv /\ EntryInv /\ MapInv /\ DeadInv /\ SweepInv /\ OrphanInv
  BY Zenon DEF IInv
<1>1. PipeTypeOK'
  <2>1. /\ inbox \in [Incs -> Seq(Senders)] /\ outbox \in [Incs -> Seq(Line)]
        /\ inbox[i] \in Seq(Senders) /\ inbox[i] # << >> /\ outbox[i] \in Seq(Line)
    BY <1>0, Zenon DEF TypeOK, PipeTypeOK
  <2>2. Tail(inbox[i]) \in Seq(Senders) /\ Head(inbox[i]) \in Senders
    BY <2>1
  <2>3. \A status \in Statuses : Append(outbox[i], <<Head(inbox[i]), status>>) \in Seq(Line)
    BY <2>1, <2>2 DEF Line
  <2>4. inbox' \in [Incs -> Seq(Senders)] /\ outbox' \in [Incs -> Seq(Line)]
    BY <2>1, <2>2, <2>3, Zenon
  <2> QED
    BY <1>0, <2>4, Zenon DEF TypeOK, PipeTypeOK
<1>2. SenderTypeOK'
  <2>1. Head(inbox[i]) \in Senders
    BY <1>0 DEF TypeOK, PipeTypeOK
  <2> QED
    BY <1>0, <2>1 DEF TypeOK, SenderTypeOK
<1>3. /\ WorkerTypeOK' /\ ThreadTypeOK' /\ MonitorInv' /\ IncarnationInv'
      /\ StopInv' /\ TargetInv' /\ EntryInv' /\ MapInv' /\ DeadInv' /\ SweepInv' /\ OrphanInv'
  BY <1>0 DEF TypeOK, WorkerTypeOK, ThreadTypeOK, MonitorInv, IncarnationInv,
     StopInv, TargetInv, EntryInv, MapInv, DeadInv, SweepInv, OrphanInv,
     current, swept, declaredDead
<1> QED
  BY <1>1, <1>2, <1>3, Zenon DEF IInv, TypeOK

(* WorkerExit preserves the invariant. *)
LEMMA WorkerExitInv ==
  ASSUME NEW i \in Incs, IInv, WorkerExit(i)
  PROVE  IInv'
<1> USE DEF WorkerExit, listVars, retryVars, sendVars, cmdVars, histVars,
            monVars, stopVars
<1>0. /\ TypeOK /\ MonitorInv /\ IncarnationInv /\ StopInv
      /\ TargetInv /\ EntryInv /\ MapInv /\ DeadInv /\ SweepInv /\ OrphanInv
  BY Zenon DEF IInv
<1>1. WorkerTypeOK'
  BY <1>0, Zenon DEF TypeOK, WorkerTypeOK, ThreadTypeOK
<1>2. PipeTypeOK'
  BY <1>0 DEF TypeOK, PipeTypeOK, None
<1>3. MonitorInv'
  BY <1>0 DEF MonitorInv, current, declaredDead
<1>4. IncarnationInv'
  BY <1>0, Zenon DEF TypeOK, WorkerTypeOK, IncarnationInv, Incs, declaredDead
<1>5. DeadInv'
  BY <1>0 DEF DeadInv, declaredDead
<1>6. SweepInv'
  BY <1>0 DEF SweepInv, swept, declaredDead
<1>7. OrphanInv'
  BY <1>0 DEF OrphanInv, current
<1>8. /\ SenderTypeOK' /\ ThreadTypeOK' /\ StopInv' /\ TargetInv'
      /\ EntryInv' /\ MapInv'
  BY <1>0, Zenon DEF TypeOK, SenderTypeOK, ThreadTypeOK, StopInv, TargetInv,
     EntryInv, MapInv
<1> QED
  BY <1>1, <1>2, <1>3, <1>4, <1>5, <1>6, <1>7, <1>8, Zenon DEF IInv, TypeOK

(* ReaderTake preserves the invariant. *)
LEMMA ReaderTakeInv ==
  ASSUME NEW i \in Incs, IInv, ReaderTake(i)
  PROVE  IInv'
<1> USE DEF ReaderTake, listVars, retryVars, sendVars, cmdVars, histVars,
            monVars, stopVars, stopFlag
<1>0. /\ TypeOK /\ MonitorInv /\ IncarnationInv /\ StopInv
      /\ TargetInv /\ EntryInv /\ MapInv /\ DeadInv /\ SweepInv /\ OrphanInv
  BY Zenon DEF IInv
<1>1. PipeTypeOK'
  BY <1>0 DEF TypeOK, PipeTypeOK
<1>2. /\ WorkerTypeOK' /\ SenderTypeOK' /\ ThreadTypeOK' /\ MonitorInv'
      /\ IncarnationInv' /\ StopInv' /\ OrphanInv'
  BY <1>0, Zenon DEF TypeOK, WorkerTypeOK, SenderTypeOK, ThreadTypeOK, MonitorInv,
     IncarnationInv, StopInv, OrphanInv, current, declaredDead
<1>3. TargetInv' /\ EntryInv' /\ MapInv' /\ DeadInv' /\ SweepInv'
  BY <1>0, Zenon DEF TargetInv, EntryInv, MapInv, DeadInv, SweepInv, swept, declaredDead
<1> QED
  BY <1>1, <1>2, <1>3, Zenon DEF IInv, TypeOK

(* ReaderFulfill preserves the invariant. *)
LEMMA ReaderFulfillInv ==
  ASSUME NEW i \in Incs, IInv, ReaderFulfill(i)
  PROVE  IInv'
<1> USE DEF ReaderFulfill, fulfill, listVars, retryVars, sendVars, histVars,
            monVars, stopVars
<1>0. /\ TypeOK /\ MonitorInv /\ IncarnationInv /\ StopInv
      /\ TargetInv /\ EntryInv /\ MapInv /\ DeadInv /\ SweepInv /\ OrphanInv
  BY Zenon DEF IInv
<1>1. PipeTypeOK'
  BY <1>0, Zenon DEF TypeOK, PipeTypeOK, SenderTypeOK
<1>2. SenderTypeOK'
  BY <1>0 DEF TypeOK, SenderTypeOK, PipeTypeOK, Results, Line
<1>3. EntryInv'
  BY <1>0 DEF EntryInv
<1>4. /\ WorkerTypeOK' /\ ThreadTypeOK' /\ MonitorInv' /\ IncarnationInv'
      /\ StopInv' /\ TargetInv' /\ MapInv' /\ DeadInv' /\ SweepInv' /\ OrphanInv'
  BY <1>0 DEF TypeOK, WorkerTypeOK, ThreadTypeOK, MonitorInv, IncarnationInv,
     StopInv, TargetInv, MapInv, DeadInv, SweepInv, OrphanInv, current,
     swept, declaredDead
<1> QED
  BY <1>1, <1>2, <1>3, <1>4, Zenon DEF IInv, TypeOK

(* SendUnknown preserves the invariant. *)
LEMMA SendUnknownInv ==
  ASSUME IInv, NEW s \in Senders, SendUnknown(s)
  PROVE  IInv'
BY TurnAwayInv, Zenon DEF SendUnknown, Results

-----------------------------------------------------------------------------
(* MonHealthy preserves the invariant. *)
LEMMA MonHealthyInv ==
  ASSUME NEW w \in Workers, IInv, MonHealthy(w)
  PROVE  IInv'
<1> USE DEF MonHealthy, listVars, pipeVars, sendVars, cmdVars, histVars,
            monVars, stopVars, stopFlag
<1>0. /\ TypeOK /\ MonitorInv /\ IncarnationInv /\ StopInv
      /\ TargetInv /\ EntryInv /\ MapInv /\ DeadInv /\ SweepInv /\ OrphanInv
  BY Zenon DEF IInv
<1>1. WorkerTypeOK'
  BY <1>0 DEF TypeOK, WorkerTypeOK, ThreadTypeOK, Incs, current
<1>2. /\ PipeTypeOK' /\ SenderTypeOK' /\ ThreadTypeOK' /\ MonitorInv'
      /\ IncarnationInv' /\ StopInv' /\ TargetInv' /\ EntryInv' /\ MapInv'
      /\ DeadInv' /\ SweepInv' /\ OrphanInv'
  BY <1>0 DEF TypeOK, PipeTypeOK, SenderTypeOK, ThreadTypeOK, MonitorInv,
     IncarnationInv, StopInv, TargetInv, EntryInv, MapInv, DeadInv, SweepInv,
     OrphanInv, swept, declaredDead
<1> QED
  BY <1>1, <1>2, Zenon DEF IInv, TypeOK

(* MonVisitDead preserves the invariant. *)
LEMMA MonVisitDeadInv ==
  ASSUME NEW w \in Workers, IInv, MonVisitDead(w)
  PROVE  IInv'
<1> USE DEF MonVisitDead, listVars, retryVars, pipeVars, sendVars, cmdVars,
            histVars, stopVars, stopFlag
<1>0. /\ TypeOK /\ MonitorInv /\ IncarnationInv /\ StopInv
      /\ TargetInv /\ EntryInv /\ MapInv /\ DeadInv /\ SweepInv /\ OrphanInv
  BY Zenon DEF IInv
<1>1. WorkerTypeOK'
  BY <1>0, Zenon DEF TypeOK, WorkerTypeOK, Incs, current
<1>2. ThreadTypeOK'
  BY <1>0, Zenon DEF TypeOK, ThreadTypeOK, WorkerTypeOK, Incs, current
<1>3. MonitorInv'
  BY <1>0, Zenon DEF TypeOK, WorkerTypeOK, MonitorInv, current, Incs, None,
     declaredDead
<1>4. IncarnationInv'
  BY <1>0, Zenon DEF TypeOK, WorkerTypeOK, IncarnationInv, Incs, None, declaredDead
<1>5. MapInv'
  BY <1>0, Zenon DEF MapInv, MonitorInv
<1>6. DeadInv'
  <2>1. monInc = None /\ current(w) \in Incs /\ None \notin Incs
    BY <1>0 DEF TypeOK, WorkerTypeOK, MonitorInv, Incs, current, None
  <2>2. CASE life[current(w)] = "reported"
    <3>1. \A i \in Incs : life'[i] = life[i]
      BY <1>0, <2>1, <2>2 DEF WorkerTypeOK
    <3> QED
      BY <1>0, <2>1, <3>1, Zenon DEF DeadInv, declaredDead
  <2>3. CASE life[current(w)] = "dead"
    <3>1. /\ \A i \in Incs \ {current(w)} : life'[i] = life[i]
          /\ monInc' = current(w) /\ monPc' = "reap"
      BY <1>0, <2>1, <2>3 DEF WorkerTypeOK
    <3> QED
      BY <1>0, <2>1, <3>1, Zenon DEF DeadInv, declaredDead
  <2> QED
    BY <1>0, <2>2, <2>3, Zenon
<1>7. SweepInv'
  BY <1>0, Zenon DEF SweepInv, swept
<1>8. OrphanInv'
  BY <1>0, Zenon DEF OrphanInv
<1>9. /\ PipeTypeOK' /\ SenderTypeOK' /\ StopInv' /\ TargetInv'
      /\ EntryInv'
  BY <1>0, Zenon DEF TypeOK, PipeTypeOK, SenderTypeOK, StopInv, TargetInv, EntryInv
<1> QED
  BY <1>1, <1>2, <1>3, <1>4, <1>5, <1>6, <1>7, <1>8, <1>9, Zenon DEF IInv, TypeOK

(* MonReap preserves the invariant. *)
LEMMA MonReapInv ==
  ASSUME NEW joined \in BOOLEAN, IInv, MonReap(joined)
  PROVE  IInv'
<1> USE DEF MonReap, monGoto, listVars, retryVars, sendVars, cmdVars,
            histVars, stopVars
<1>0. /\ TypeOK /\ MonitorInv /\ IncarnationInv /\ StopInv
      /\ TargetInv /\ EntryInv /\ MapInv /\ DeadInv /\ SweepInv /\ OrphanInv
  BY Zenon DEF IInv
<1>1. PipeTypeOK'
  BY <1>0, Zenon DEF TypeOK, PipeTypeOK
<1>2. ThreadTypeOK'
  BY <1>0, Zenon DEF TypeOK, ThreadTypeOK
<1>3. MonitorInv'
  BY <1>0, Zenon DEF MonitorInv, current, declaredDead
<1>4. IncarnationInv'
  BY <1>0, Zenon DEF IncarnationInv, Incs, declaredDead
<1>5. EntryInv'
  BY <1>0, Zenon DEF EntryInv
<1>6. MapInv'
  BY <1>0, Zenon DEF MapInv
<1>7. DeadInv'
  BY <1>0, Zenon DEF DeadInv, declaredDead
<1>8. OrphanInv'
  BY <1>0, Zenon DEF OrphanInv, current, declaredDead
<1>9. /\ WorkerTypeOK' /\ SenderTypeOK' /\ StopInv' /\ TargetInv'
      /\ SweepInv'
  BY <1>0, Zenon DEF TypeOK, WorkerTypeOK, SenderTypeOK, StopInv, TargetInv,
     SweepInv, swept, declaredDead
<1> QED
  BY <1>1, <1>2, <1>3, <1>4, <1>5, <1>6, <1>7, <1>8, <1>9, Zenon DEF IInv, TypeOK

(* MonFailTake preserves the invariant. *)
LEMMA MonFailTakeInv ==
  ASSUME IInv, MonFailTake
  PROVE  IInv'
<1> USE DEF MonFailTake, listVars, retryVars, pipeVars, sendVars, cmdVars,
            histVars, stopVars
<1>0. /\ TypeOK /\ MonitorInv /\ IncarnationInv /\ StopInv
      /\ TargetInv /\ EntryInv /\ MapInv /\ DeadInv /\ SweepInv /\ OrphanInv
  BY Zenon DEF IInv
<1>1. PipeTypeOK'
  BY <1>0, Zenon DEF TypeOK, PipeTypeOK
<1>2. ThreadTypeOK'
  <2>1. monInc \in Incs
    BY <1>0, Zenon DEF TypeOK, ThreadTypeOK, MonitorInv
  <2> QED
    BY <1>0, <2>1, Zenon DEF TypeOK, ThreadTypeOK, PipeTypeOK
<1>3. MonitorInv'
  BY <1>0, Zenon DEF MonitorInv, current, Incs, None, declaredDead
<1>4. IncarnationInv'
  BY <1>0, Zenon DEF IncarnationInv, Incs, next, current, declaredDead
<1>5. EntryInv'
  <2>1. monInc \in Incs /\ monFailing = {}
    BY <1>0, Zenon DEF TypeOK, ThreadTypeOK, MonitorInv
  <2>2. \A i \in Incs : i = monInc \/ pending'[i] = pending[i]
    BY <1>0 DEF PipeTypeOK
  <2> QED
    BY <1>0, <2>1, <2>2 DEF EntryInv
<1>6. MapInv'
  BY <1>0 DEF TypeOK, ThreadTypeOK, MapInv, MonitorInv
<1>7. DeadInv'
  BY <1>0 DEF TypeOK, PipeTypeOK, SenderTypeOK, WorkerTypeOK, DeadInv,
     MapInv, MonitorInv, declaredDead
<1>8. SweepInv'
  BY <1>0 DEF WorkerTypeOK, SweepInv, swept, declaredDead
<1>9. OrphanInv'
  BY <1>0, Zenon DEF OrphanInv, current, next, Installed, declaredDead
<1>10. WorkerTypeOK' /\ SenderTypeOK' /\ StopInv' /\ TargetInv'
  BY <1>0, Zenon DEF TypeOK, WorkerTypeOK, SenderTypeOK, StopInv, TargetInv
<1> QED
  BY <1>1, <1>2, <1>3, <1>4, <1>5, <1>6, <1>7, <1>8, <1>9, <1>10, Zenon DEF IInv,
     TypeOK

(* MonFulfill preserves the invariant. *)
LEMMA MonFulfillInv ==
  ASSUME NEW s \in Senders, IInv, MonFulfill(s)
  PROVE  IInv'
<1> USE DEF MonFulfill, fulfill, listVars, retryVars, pipeVars, sendVars,
            histVars, stopVars
<1>0. /\ TypeOK /\ MonitorInv /\ IncarnationInv /\ StopInv
      /\ TargetInv /\ EntryInv /\ MapInv /\ DeadInv /\ SweepInv /\ OrphanInv
  BY Zenon DEF IInv
<1>1. SenderTypeOK'
  BY <1>0, Zenon DEF TypeOK, SenderTypeOK, Results
<1>2. ThreadTypeOK'
  BY <1>0, Zenon DEF TypeOK, ThreadTypeOK
<1>3. MonitorInv'
  BY <1>0, Zenon DEF MonitorInv, current, None, declaredDead
<1>4. EntryInv'
  BY <1>0, Zenon DEF TypeOK, SenderTypeOK, EntryInv
<1>5. MapInv'
  BY <1>0, Zenon DEF MapInv
<1>6. /\ WorkerTypeOK' /\ PipeTypeOK' /\ IncarnationInv' /\ StopInv'
      /\ TargetInv' /\ DeadInv' /\ SweepInv' /\ OrphanInv'
  BY <1>0, Zenon DEF TypeOK, WorkerTypeOK, PipeTypeOK, IncarnationInv, StopInv,
     TargetInv, DeadInv, SweepInv, OrphanInv, current, swept, declaredDead
<1> QED
  BY <1>1, <1>2, <1>3, <1>4, <1>5, <1>6, Zenon DEF IInv, TypeOK

(* MonFulfilled preserves the invariant. *)
LEMMA MonFulfilledInv ==
  ASSUME IInv, MonFulfilled
  PROVE  IInv'
<1> USE DEF MonFulfilled, monGoto, listVars, retryVars, pipeVars, sendVars,
            cmdVars, histVars, stopVars
<1>0. /\ TypeOK /\ MonitorInv /\ IncarnationInv /\ StopInv
      /\ TargetInv /\ EntryInv /\ MapInv /\ DeadInv /\ SweepInv /\ OrphanInv
  BY Zenon DEF IInv
<1>1. ThreadTypeOK'
  BY <1>0, Zenon DEF TypeOK, ThreadTypeOK, PipeTypeOK, WorkerTypeOK, Incs, current,
     None
<1>2. MonitorInv'
  BY <1>0, Zenon DEF MonitorInv, current, None, declaredDead
<1>3. IncarnationInv'
  BY <1>0, Zenon DEF IncarnationInv, Incs, declaredDead
<1>4. EntryInv'
  BY <1>0, Zenon DEF EntryInv
<1>5. MapInv'
  BY <1>0, Zenon DEF MapInv, MonitorInv
<1>6. DeadInv'
  BY <1>0, Zenon DEF SenderTypeOK, DeadInv, MapInv, MonitorInv, TargetInv, current,
     declaredDead
<1>7. OrphanInv'
  BY <1>0, Zenon DEF OrphanInv, current, next, Installed
<1>8. /\ WorkerTypeOK' /\ PipeTypeOK' /\ SenderTypeOK' /\ StopInv'
      /\ TargetInv' /\ SweepInv'
  BY <1>0, Zenon DEF TypeOK, WorkerTypeOK, PipeTypeOK, SenderTypeOK, StopInv,
     TargetInv, SweepInv, swept, declaredDead
<1> QED
  BY <1>1, <1>2, <1>3, <1>4, <1>5, <1>6, <1>7, <1>8, Zenon DEF IInv, TypeOK

(* MonExhausted preserves the invariant. *)
LEMMA MonExhaustedInv ==
  ASSUME IInv, MonExhausted
  PROVE  IInv'
<1> USE DEF MonExhausted, monIdle, listVars, retryVars, pipeVars, sendVars,
            cmdVars, histVars, stopVars
<1>0. /\ TypeOK /\ MonitorInv /\ IncarnationInv /\ StopInv
      /\ TargetInv /\ EntryInv /\ MapInv /\ DeadInv /\ SweepInv /\ OrphanInv
  BY Zenon DEF IInv
<1>1. WorkerTypeOK'
  BY <1>0, Zenon DEF TypeOK, WorkerTypeOK, ThreadTypeOK, MonitorInv, None,
     declaredDead
<1>2. ThreadTypeOK'
  BY <1>0, Zenon DEF TypeOK, ThreadTypeOK
<1>3. MonitorInv'
  BY <1>0, Zenon DEF MonitorInv, Incs, None, declaredDead
<1>4. IncarnationInv'
  BY <1>0, Zenon DEF TypeOK, WorkerTypeOK, IncarnationInv, MonitorInv, Incs,
     declaredDead
<1>5. EntryInv'
  BY <1>0, Zenon DEF EntryInv
<1>6. MapInv'
  BY <1>0, Zenon DEF MapInv, MonitorInv
<1>7. DeadInv'
  BY <1>0 DEF SenderTypeOK, WorkerTypeOK, DeadInv, MapInv, MonitorInv,
     declaredDead
<1>8. SweepInv'
  BY <1>0 DEF WorkerTypeOK, SweepInv, swept, MapInv, declaredDead
<1>9. OrphanInv'
  BY <1>0 DEF ThreadTypeOK, OrphanInv, MonitorInv, IncarnationInv, Incs,
     current, next, Installed, declaredDead
<1>10. PipeTypeOK' /\ SenderTypeOK' /\ StopInv' /\ TargetInv'
  BY <1>0, Zenon DEF TypeOK, PipeTypeOK, SenderTypeOK, StopInv, TargetInv
<1> QED
  BY <1>1, <1>2, <1>3, <1>4, <1>5, <1>6, <1>7, <1>8, <1>9, <1>10, Zenon DEF IInv,
     TypeOK

(* MonBackoff preserves the invariant. *)
LEMMA MonBackoffInv ==
  ASSUME IInv, MonBackoff
  PROVE  IInv'
<1> USE DEF MonBackoff, monIdle, listVars, pipeVars, sendVars, cmdVars,
            histVars, stopVars
<1>0. /\ TypeOK /\ MonitorInv /\ IncarnationInv /\ StopInv
      /\ TargetInv /\ EntryInv /\ MapInv /\ DeadInv /\ SweepInv /\ OrphanInv
  BY Zenon DEF IInv
<1>1. WorkerTypeOK'
  BY <1>0, Zenon DEF TypeOK, WorkerTypeOK, ThreadTypeOK, Incs, current, MonitorInv,
     next, None, declaredDead
<1>2. ThreadTypeOK'
  BY <1>0, Zenon DEF TypeOK, ThreadTypeOK
<1>3. MonitorInv'
  BY <1>0, Zenon DEF MonitorInv
<1>4. IncarnationInv'
  BY <1>0, Zenon DEF IncarnationInv, next, current, declaredDead
<1>5. EntryInv'
  BY <1>0, Zenon DEF EntryInv, MapInv, TargetInv
<1>6. MapInv'
  BY <1>0, Zenon DEF MapInv, TargetInv, MonitorInv
<1>7. DeadInv'
  BY <1>0, Zenon DEF SenderTypeOK, WorkerTypeOK, DeadInv, declaredDead
<1>8. OrphanInv'
  BY <1>0, Zenon DEF ThreadTypeOK, OrphanInv, current, declaredDead
<1>9. /\ PipeTypeOK' /\ SenderTypeOK' /\ StopInv' /\ TargetInv'
      /\ SweepInv'
  BY <1>0, Zenon DEF TypeOK, PipeTypeOK, SenderTypeOK, StopInv, TargetInv, SweepInv,
     swept, declaredDead
<1> QED
  BY <1>1, <1>2, <1>3, <1>4, <1>5, <1>6, <1>7, <1>8, <1>9, Zenon DEF IInv, TypeOK

(* MonRespawn preserves the invariant. *)
LEMMA MonRespawnInv ==
  ASSUME IInv, MonRespawn
  PROVE  IInv'
<1> USE DEF MonRespawn, monGoto, listVars, pipeVars, sendVars, cmdVars,
            histVars, stopVars
<1>0. /\ TypeOK /\ MonitorInv /\ IncarnationInv /\ StopInv
      /\ TargetInv /\ EntryInv /\ MapInv /\ DeadInv /\ SweepInv /\ OrphanInv
  BY Zenon DEF IInv
<1>1. WorkerTypeOK'
  BY <1>0 DEF TypeOK, WorkerTypeOK, ThreadTypeOK, Incs, MonitorInv
<1>2. ThreadTypeOK'
  BY <1>0, Zenon DEF TypeOK, ThreadTypeOK
<1>3. MonitorInv'
  BY <1>0, Zenon DEF MonitorInv, current, next, declaredDead
<1>4. IncarnationInv'
  BY <1>0, Zenon DEF ThreadTypeOK, IncarnationInv, declaredDead
<1>5. EntryInv'
  BY <1>0, Zenon DEF PipeTypeOK, EntryInv, MapInv
<1>6. MapInv'
  BY <1>0, Zenon DEF SenderTypeOK, MapInv
<1>7. DeadInv'
  BY <1>0, Zenon DEF WorkerTypeOK, DeadInv, current, declaredDead
<1>8. OrphanInv'
  BY <1>0, Zenon DEF OrphanInv, current
<1>9. /\ PipeTypeOK' /\ SenderTypeOK' /\ StopInv' /\ TargetInv'
      /\ SweepInv'
  BY <1>0, Zenon DEF TypeOK, PipeTypeOK, SenderTypeOK, StopInv, TargetInv, SweepInv,
     swept, declaredDead
<1> QED
  BY <1>1, <1>2, <1>3, <1>4, <1>5, <1>6, <1>7, <1>8, <1>9, Zenon DEF IInv, TypeOK

(* MonLock preserves the invariant. *)
LEMMA MonLockInv ==
  ASSUME IInv, MonLock
  PROVE  IInv'
<1> USE DEF MonLock, monGoto, monIdle, retryVars, pipeVars, sendVars,
            cmdVars, histVars, stopVars, stopFlag
<1>0. /\ TypeOK /\ MonitorInv /\ IncarnationInv /\ StopInv
      /\ TargetInv /\ EntryInv /\ MapInv /\ DeadInv /\ SweepInv /\ OrphanInv
  BY Zenon DEF IInv
<1>1. WorkerTypeOK'
  BY <1>0, Zenon DEF TypeOK, WorkerTypeOK, Incs
<1>2. ThreadTypeOK'
  BY <1>0, Zenon DEF TypeOK, ThreadTypeOK, PipeTypeOK, WorkerTypeOK, Incs, current,
     Installed, None
<1>3. MonitorInv'
  BY <1>0, Zenon DEF WorkerTypeOK, ThreadTypeOK, MonitorInv, current, next, Incs,
     None, declaredDead
<1>4. IncarnationInv'
  BY <1>0, Zenon DEF IncarnationInv, None, declaredDead
<1>5. EntryInv'
  BY <1>0, Zenon DEF EntryInv
<1>6. MapInv'
  BY <1>0, Zenon DEF MapInv, MonitorInv
<1>7. DeadInv'
  BY <1>0, Zenon DEF WorkerTypeOK, DeadInv, MapInv, MonitorInv, TargetInv, Incs,
     None, current, declaredDead
<1>8. OrphanInv'
  BY <1>0, Zenon DEF OrphanInv, MonitorInv, IncarnationInv, Incs, current, next,
     Installed, declaredDead
<1>9. /\ PipeTypeOK' /\ SenderTypeOK' /\ StopInv' /\ TargetInv'
      /\ SweepInv'
  BY <1>0, Zenon DEF TypeOK, PipeTypeOK, SenderTypeOK, StopInv, TargetInv, SweepInv,
     swept, declaredDead
<1> QED
  BY <1>1, <1>2, <1>3, <1>4, <1>5, <1>6, <1>7, <1>8, <1>9, Zenon DEF IInv, TypeOK

(* MonSpawn preserves the invariant. *)
LEMMA MonSpawnInv ==
  ASSUME IInv, MonSpawn
  PROVE  IInv'
<1> USE DEF MonSpawn, monGoto, inherited, listVars, sendVars, cmdVars,
            histVars, stopVars
<1>0. /\ TypeOK /\ MonitorInv /\ IncarnationInv /\ StopInv
      /\ TargetInv /\ EntryInv /\ MapInv /\ DeadInv /\ SweepInv /\ OrphanInv
  BY Zenon DEF IInv
<1>1. WorkerTypeOK'
  BY <1>0, Zenon DEF TypeOK, WorkerTypeOK, ThreadTypeOK, Incs, current, MonitorInv,
     next
<1>2. PipeTypeOK'
  BY <1>0, Zenon DEF TypeOK, PipeTypeOK
<1>3. ThreadTypeOK'
  BY <1>0, Zenon DEF TypeOK, ThreadTypeOK
<1>4. MonitorInv'
  BY <1>0 DEF TypeOK, ThreadTypeOK, MonitorInv, current, next, Incs,
     declaredDead
<1>5. IncarnationInv'
  <2>1. PICK v \in Workers : monInc = <<v, procs[v]>>
    BY <1>0, Zenon DEF TypeOK, ThreadTypeOK, MonitorInv, Incs, current
  <2>2. life' = [life EXCEPT ![<<v, procs[v] + 1>>] = "alive"]
    BY <1>0, <2>1, Zenon DEF next
  <2>3. <<v, procs[v] + 1>> = next(monInc)'
    BY <1>0, <2>1, Zenon DEF next
  <2> HIDE DEF MonSpawn
  <2>4. monPc = "spawn" /\ monPc' = "install" /\ UNCHANGED <<procs, monInc>>
    BY <1>0, Zenon DEF MonSpawn
  <2>5. \A u \in Workers, k \in 1..MaxSpawns :
          \/ life'[<<u, k>>] = life[<<u, k>>]
          \/ u = v /\ k = procs[v] + 1 /\ life'[<<u, k>>] = "alive"
    BY <1>0, <2>2 DEF Incs
  <2> SUFFICES ASSUME NEW u \in Workers, NEW k \in 1..MaxSpawns
               PROVE  /\ k < procs'[u] => declaredDead(<<u, k>>)'
                      /\ k > procs'[u] =>
                           /\ ~declaredDead(<<u, k>>)'
                           /\ life'[<<u, k>>] # "unborn" =>
                                /\ monPc' = "install"
                                /\ <<u, k>> = next(monInc)'
    BY <1>0, Zenon DEF IncarnationInv
  <2>6. /\ k < procs[u] => declaredDead(<<u, k>>)
        /\ k > procs[u] =>
             /\ ~declaredDead(<<u, k>>)
             /\ life[<<u, k>>] # "unborn" =>
                  monPc = "install" /\ <<u, k>> = next(monInc)
    BY <1>0, Zenon DEF IncarnationInv
  <2>7. procs[u] \in Nat /\ procs[v] \in Nat
    BY <1>0 DEF TypeOK, WorkerTypeOK
  <2>8. CASE u = v /\ k = procs[v] + 1 /\ life'[<<u, k>>] = "alive"
    BY <1>0, <2>3, <2>4, <2>7, <2>8 DEF declaredDead
  <2>9. CASE life'[<<u, k>>] = life[<<u, k>>]
    BY <1>0, <2>4, <2>6, <2>9, Zenon DEF declaredDead
  <2> QED
    BY <1>0, <2>5, <2>8, <2>9, Zenon
<1>6. EntryInv'
  BY <1>0, Zenon DEF EntryInv
<1>7. MapInv'
  BY <1>0, Zenon DEF MapInv
<1>8. DeadInv'
  BY <1>0 DEF DeadInv, MapInv, TargetInv, Incs, current, declaredDead
<1>9. SweepInv'
  <2>1. next(monInc) \in Incs /\ ~declaredDead(next(monInc))
    BY <1>0 DEF TypeOK, ThreadTypeOK, MonitorInv, IncarnationInv, Incs, next,
       current
  <2>2. \A i \in Incs \ {next(monInc)} : life'[i] = life[i]
    BY <1>0, <2>1 DEF WorkerTypeOK
  <2> QED
    BY <1>0, <2>1, <2>2, Zenon DEF SweepInv, swept, declaredDead
<1>10. OrphanInv'
  BY <1>0 DEF TypeOK, ThreadTypeOK, OrphanInv, MonitorInv, Incs, current,
     next, declaredDead
<1>11. SenderTypeOK' /\ StopInv' /\ TargetInv'
  BY <1>0, Zenon DEF TypeOK, SenderTypeOK, StopInv, TargetInv
<1> QED
  BY <1>1, <1>2, <1>3, <1>4, <1>5, <1>6, <1>7, <1>8, <1>9, <1>10, <1>11, Zenon DEF
     IInv, TypeOK

(* MonSpawnFailed preserves the invariant. *)
LEMMA MonSpawnFailedInv ==
  ASSUME IInv, MonSpawnFailed
  PROVE  IInv'
<1> USE DEF MonSpawnFailed, monIdle, retryVars, pipeVars, sendVars, cmdVars,
            histVars, stopVars
<1>0. /\ TypeOK /\ MonitorInv /\ IncarnationInv /\ StopInv
      /\ TargetInv /\ EntryInv /\ MapInv /\ DeadInv /\ SweepInv /\ OrphanInv
  BY Zenon DEF IInv
<1>1. WorkerTypeOK'
  BY <1>0, Zenon DEF TypeOK, WorkerTypeOK, ThreadTypeOK, Incs, current, MonitorInv,
     next, declaredDead
<1>2. ThreadTypeOK'
  BY <1>0, Zenon DEF TypeOK, ThreadTypeOK
<1>3. MonitorInv'
  BY <1>0, Zenon DEF MonitorInv, current, next, None, declaredDead
<1>4. IncarnationInv'
  BY <1>0, Zenon DEF WorkerTypeOK, ThreadTypeOK, IncarnationInv, MonitorInv, next,
     None, declaredDead
<1>5. EntryInv'
  BY <1>0, Zenon DEF EntryInv
<1>6. MapInv'
  BY <1>0, Zenon DEF SenderTypeOK, ThreadTypeOK, MapInv, TargetInv, MonitorInv
<1>7. DeadInv'
  BY <1>0, Zenon DEF SenderTypeOK, DeadInv, declaredDead
<1>8. OrphanInv'
  BY <1>0, Zenon DEF OrphanInv, current
<1>9. /\ PipeTypeOK' /\ SenderTypeOK' /\ StopInv' /\ TargetInv'
      /\ SweepInv'
  BY <1>0, Zenon DEF TypeOK, PipeTypeOK, SenderTypeOK, StopInv, TargetInv, SweepInv,
     swept, declaredDead
<1> QED
  BY <1>1, <1>2, <1>3, <1>4, <1>5, <1>6, <1>7, <1>8, <1>9, Zenon DEF IInv, TypeOK

(* MonInstall preserves the invariant. *)
LEMMA MonInstallInv ==
  ASSUME IInv, MonInstall
  PROVE  IInv'
<1> USE DEF MonInstall, monGoto, retryVars, pipeVars, sendVars, cmdVars,
            histVars, stopVars
<1>0. /\ TypeOK /\ MonitorInv /\ IncarnationInv /\ StopInv
      /\ TargetInv /\ EntryInv /\ MapInv /\ DeadInv /\ SweepInv /\ OrphanInv
  BY Zenon DEF IInv
<1>1. WorkerTypeOK'
  BY <1>0 DEF TypeOK, WorkerTypeOK, ThreadTypeOK, Incs, current, MonitorInv
<1>2. ThreadTypeOK'
  BY <1>0, Zenon DEF TypeOK, ThreadTypeOK
<1>3. MonitorInv'
  BY <1>0 DEF TypeOK, WorkerTypeOK, ThreadTypeOK, MonitorInv, current, next,
     Incs, None, declaredDead
<1>4. IncarnationInv'
  <2>1. PICK v \in Workers : monInc = <<v, procs[v]>>
    BY <1>0, Zenon DEF TypeOK, ThreadTypeOK, MonitorInv, Incs, current
  <2>2. /\ \A u \in Workers \ {v} : procs'[u] = procs[u]
        /\ procs'[v] = procs[v] + 1
    BY <1>0, <2>1, Zenon DEF TypeOK, WorkerTypeOK
  <2>3. declaredDead(<<v, procs[v]>>)
    BY <1>0, <2>1, Zenon DEF MonitorInv
  <2>4. next(monInc) = <<v, procs[v] + 1>>
    BY <1>0, <2>1, Zenon DEF next
  <2> HIDE DEF MonInstall
  <2>5. monPc = "install" /\ UNCHANGED <<life, monInc>>
    BY <1>0, Zenon DEF MonInstall
  <2> SUFFICES ASSUME NEW u \in Workers, NEW k \in 1..MaxSpawns
               PROVE  /\ k < procs'[u] => declaredDead(<<u, k>>)'
                      /\ k > procs'[u] =>
                           /\ ~declaredDead(<<u, k>>)'
                           /\ life'[<<u, k>>] # "unborn" =>
                                /\ monPc' = "install"
                                /\ <<u, k>> = next(monInc)'
    BY <1>0, Zenon DEF IncarnationInv
  <2>6. /\ k < procs[u] => declaredDead(<<u, k>>)
        /\ k > procs[u] =>
             /\ ~declaredDead(<<u, k>>)
             /\ life[<<u, k>>] # "unborn" =>
                  monPc = "install" /\ <<u, k>> = next(monInc)
    BY <1>0, Zenon DEF IncarnationInv
  <2>7. procs[u] \in Nat /\ procs[v] \in Nat
    BY <1>0 DEF TypeOK, WorkerTypeOK
  <2>8. CASE u = v
    BY <1>0, <2>2, <2>3, <2>4, <2>5, <2>6, <2>7, <2>8 DEF declaredDead
  <2>9. CASE u # v
    BY <1>0, <2>2, <2>4, <2>5, <2>6, <2>9 DEF declaredDead
  <2> QED
    BY <1>0, <2>8, <2>9, Zenon
<1>5. TargetInv'
  BY <1>0 DEF TypeOK, WorkerTypeOK, TargetInv, Incs, current
<1>6. EntryInv'
  BY <1>0, Zenon DEF EntryInv
<1>7. MapInv'
  BY <1>0, Zenon DEF TypeOK, PipeTypeOK, SenderTypeOK, MapInv, TargetInv, MonitorInv
<1>8. DeadInv'
  BY <1>0, Zenon DEF SenderTypeOK, DeadInv, current, declaredDead
<1>9. OrphanInv'
  BY <1>0 DEF OrphanInv, MonitorInv, current, next
<1>10. PipeTypeOK' /\ SenderTypeOK' /\ StopInv' /\ SweepInv'
  BY <1>0, Zenon DEF TypeOK, PipeTypeOK, SenderTypeOK, StopInv, SweepInv, swept,
     declaredDead
<1> QED
  BY <1>1, <1>2, <1>3, <1>4, <1>5, <1>6, <1>7, <1>8, <1>9, <1>10, Zenon DEF IInv,
     TypeOK

(* MonConfirm preserves the invariant. *)
LEMMA MonConfirmInv ==
  ASSUME IInv, MonConfirm
  PROVE  IInv'
<1> USE DEF MonConfirm, monIdle, retryVars, pipeVars, sendVars, cmdVars,
            histVars, stopVars, stopFlag
<1>0. /\ TypeOK /\ MonitorInv /\ IncarnationInv /\ StopInv
      /\ TargetInv /\ EntryInv /\ MapInv /\ DeadInv /\ SweepInv /\ OrphanInv
  BY Zenon DEF IInv
<1>1. WorkerTypeOK'
  BY <1>0, Zenon DEF TypeOK, WorkerTypeOK, ThreadTypeOK, Incs, MonitorInv, next
<1>2. ThreadTypeOK'
  BY <1>0, Zenon DEF TypeOK, ThreadTypeOK
<1>3. MonitorInv'
  BY <1>0, Zenon DEF MonitorInv
<1>4. IncarnationInv'
  BY <1>0, Zenon DEF ThreadTypeOK, IncarnationInv, declaredDead
<1>5. EntryInv'
  BY <1>0, Zenon DEF PipeTypeOK, SenderTypeOK, EntryInv
<1>6. MapInv'
  BY <1>0, Zenon DEF MapInv, TargetInv, MonitorInv
<1>7. DeadInv'
  BY <1>0, Zenon DEF DeadInv, declaredDead
<1>8. OrphanInv'
  BY <1>0, Zenon DEF TypeOK, WorkerTypeOK, OrphanInv, Incs, current
<1>9. /\ PipeTypeOK' /\ SenderTypeOK' /\ StopInv' /\ TargetInv'
      /\ SweepInv'
  BY <1>0, Zenon DEF TypeOK, PipeTypeOK, SenderTypeOK, StopInv, TargetInv, SweepInv,
     swept, declaredDead
<1> QED
  BY <1>1, <1>2, <1>3, <1>4, <1>5, <1>6, <1>7, <1>8, <1>9, Zenon DEF IInv, TypeOK
=============================================================================
