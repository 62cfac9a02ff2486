-------------------------- MODULE SupervisorProofs --------------------------
(* The steps of stop() preserve the invariant; every step preserves what   *)
(* is known of the answers, of the processes the monitor installs and of a *)
(* worker's last word; and the theorems about the worker lifecycle and the *)
(* command channel.                                                        *)
EXTENDS SupervisorStepProofs

USE SupervisorAssumption

-----------------------------------------------------------------------------
(* What a sender is told *)

(* Which commands were sent depends on the pipes, the targets and the      *)
(* verdicts, and on who has not written yet.                               *)
LEMMA SentFrame ==
  ASSUME SentInv, UNCHANGED <<target, verdict, inbox>>,
         \A s \in Senders : pc'[s] \notin {"wait", "done"} =>
           pc[s] \notin {"wait", "done"} /\ answer'[s] = answer[s]
  PROVE  SentInv'
<1>1. \A s \in Senders : unsent(s)' <=> unsent(s)
  BY DEF unsent
<1>2. \A s \in Senders :
        pc'[s] \notin {"wait", "done"} => unsent(s)' /\ answer'[s] = "none"
  BY <1>1 DEF SentInv
<1> QED
  BY <1>2 DEF SentInv

(* A step that touches neither a sender nor a pipe. *)
LEMMA AnswerQuiet ==
  ASSUME AnswerInv, stopFlag => stopFlag',
         UNCHANGED <<sendVars, verdict, inbox, outbox, held, result>>
  PROVE  AnswerInv'
BY DEF AnswerInv, SentInv, unsent, ResultInv, AnswerFaithful, sendVars

(* A sender on its way to the write has sent nothing. *)
LEMMA AnswerGoto ==
  ASSUME TypeOK, AnswerInv, NEW s \in Senders, NEW label, pc[s] \notin {"wait", "done"},
         label \notin {"wait", "done"}, goto(s, label),
         \A u \in Senders : u # s => target'[u] = target[u],
         UNCHANGED <<verdict, inbox, outbox, held, result, stopPc>>
  PROVE  AnswerInv'
<1>0. pc \in [Senders -> {"idle", "lookup", "register", "recheck", "write", "wait", "done"}]
      /\ inbox \in [Incs -> Seq(Senders)]
  BY Zenon DEF TypeOK, SenderTypeOK, PipeTypeOK
<1>1. \A u \in Senders : pc'[u] \notin {"wait", "done"} => pc[u] \notin {"wait", "done"}
  BY <1>0, Zenon DEF goto
<1>2. unsent(s)
  BY Zenon DEF AnswerInv, SentInv
<1>3. \A i \in Incs : \A n \in DOMAIN inbox[i] : inbox[i][n] \in Senders /\ inbox[i][n] # s
  BY <1>0, <1>2 DEF unsent
<1>4. SentInv'
  BY <1>1, <1>3 DEF AnswerInv, SentInv, unsent, goto
<1> QED
  BY <1>4 DEF AnswerInv, ResultInv, AnswerFaithful, goto, stopFlag

(* A sender is told what the worker decided, or that nothing was sent. *)
LEMMA AnswerReturn ==
  ASSUME TypeOK, AnswerInv, NEW s \in Senders, NEW r, return(s, r),
         r \in Statuses => verdict[s] = r,
         r = "worker_unavailable" => unsent(s) \/ stopFlag,
         UNCHANGED <<target, verdict, inbox, outbox, held, result, stopPc>>
  PROVE  AnswerInv'
<1>0. pc \in [Senders -> {"idle", "lookup", "register", "recheck", "write", "wait", "done"}]
      /\ answer \in [Senders -> Results \cup {"none"}]
  BY Zenon DEF TypeOK, SenderTypeOK
<1>1. \A u \in Senders :
        pc'[u] \notin {"wait", "done"} => u # s /\ pc[u] \notin {"wait", "done"}
  BY <1>0, Zenon DEF return
<1>2. answer'[s] = r /\ \A u \in Senders : u # s => answer'[u] = answer[u]
  BY <1>0, Zenon DEF return
<1>3. SentInv'
  BY <1>1, <1>2, SentFrame, Zenon DEF AnswerInv
<1>4. AnswerFaithful'
  BY <1>2 DEF AnswerInv, AnswerFaithful, unsent, stopFlag
<1> QED
  BY <1>3, <1>4, Zenon DEF AnswerInv, ResultInv, stopFlag

(* An entry is fulfilled with what the worker decided; only stop() says    *)
(* unavailable.                                                            *)
LEMMA AnswerFulfill ==
  ASSUME TypeOK, AnswerInv, NEW s \in Senders, NEW r, fulfill(s, r),
         r \in Statuses => verdict[s] = r, r = "worker_unavailable" => stopFlag,
         \A i \in Incs : held'[i] \in {held[i], None},
         UNCHANGED <<sendVars, verdict, inbox, outbox, stopPc>>
  PROVE  AnswerInv'
<1>1. \A u \in Senders : result'[u] = result[u] \/ (u = s /\ result'[u] = r)
  BY Zenon DEF TypeOK, SenderTypeOK, fulfill
<1>2. ResultInv'
  BY <1>1 DEF AnswerInv, ResultInv, stopFlag
<1>3. SentInv'
  BY SentFrame, Zenon DEF AnswerInv, sendVars
<1>4. AnswerFaithful'
  BY Zenon DEF AnswerInv, AnswerFaithful, sendVars, stopFlag
<1> QED
  BY <1>2, <1>3, <1>4, Zenon DEF AnswerInv

(* A pipe whose reader is gone loses the commands in it. *)
LEMMA AnswerLost ==
  ASSUME TypeOK, AnswerInv, NEW i \in Incs, inbox' = [inbox EXCEPT ![i] = <<>>],
         UNCHANGED <<sendVars, verdict, outbox, held, result, stopPc>>
  PROVE  AnswerInv'
<1>1. inbox'[i] = <<>> /\ \A j \in Incs : j # i => inbox'[j] = inbox[j]
  BY Zenon DEF TypeOK, PipeTypeOK
<1>2. \A j \in Incs : \A n \in DOMAIN inbox'[j] :
        n \in DOMAIN inbox[j] /\ inbox'[j][n] = inbox[j][n]
  BY <1>1
<1>3. \A s \in Senders : unsent(s) => unsent(s)'
  BY <1>2 DEF unsent
<1>4. SentInv'
  BY <1>2, <1>3 DEF AnswerInv, SentInv, sendVars
<1>5. AnswerFaithful'
  BY <1>2 DEF AnswerInv, AnswerFaithful, sendVars, stopFlag
<1> QED
  BY <1>4, <1>5, Zenon DEF AnswerInv, ResultInv, stopFlag

(* The command is written, for the first time. *)
LEMMA AnswerWrite ==
  ASSUME IInv, AnswerInv, NEW s \in Senders, SendWrite(s)
  PROVE  AnswerInv'
<1>1. CASE ~(stdinOpen[target[s]] /\ life[target[s]] = "alive")
  <2>1. return(s, "worker_unavailable") /\ unsent(s)
        /\ UNCHANGED <<target, verdict, inbox, outbox, held, result, stopPc>>
    BY <1>1, Zenon DEF SendWrite, AnswerInv, SentInv, cmdVars, histVars, stopVars
  <2>2. "worker_unavailable" \notin Statuses
    BY Zenon DEF Statuses
  <2> QED
    BY <2>1, <2>2, AnswerReturn, Zenon DEF IInv
<1>2. CASE stdinOpen[target[s]] /\ life[target[s]] = "alive"
  <2>1. /\ pc[s] = "write" /\ goto(s, "wait")
        /\ inbox' = [inbox EXCEPT ![target[s]] = Append(@, s)]
        /\ UNCHANGED <<target, answer, verdict, outbox, held, result, stopPc>>
    BY <1>2, Zenon DEF SendWrite, goto, cmdVars, histVars, stopVars
  <2>2. /\ pc \in [Senders -> {"idle", "lookup", "register", "recheck", "write", "wait", "done"}]
        /\ inbox \in [Incs -> Seq(Senders)] /\ target[s] \in Incs
    BY <2>1, Zenon DEF IInv, TypeOK, SenderTypeOK, PipeTypeOK, TargetInv
  <2>3. unsent(s)
    BY <2>1, Zenon DEF AnswerInv, SentInv
  <2>4. PICK q : q = inbox[target[s]]
    BY Zenon
  <2>5. q \in Seq(Senders) /\ Len(q) \in Nat
    BY <2>2, <2>4
  <2>6. /\ inbox'[target[s]] = Append(q, s)
        /\ \A j \in Incs : j # target[s] => inbox'[j] = inbox[j]
    BY <2>1, <2>2, <2>4, Zenon
  <2>7. /\ DOMAIN Append(q, s) = 1..Len(q) + 1 /\ DOMAIN q = 1..Len(q)
        /\ Append(q, s)[Len(q) + 1] = s
        /\ \A n \in 1..Len(q) : Append(q, s)[n] = q[n]
    BY <2>5
  <2>8. \A j \in Incs : \A n \in DOMAIN inbox'[j] :
          \/ n \in DOMAIN inbox[j] /\ inbox'[j][n] = inbox[j][n]
          \/ j = target[s] /\ n = Len(q) + 1 /\ inbox'[j][n] = s
    <3>1. \A n \in DOMAIN inbox'[target[s]] :
            \/ n \in DOMAIN q /\ inbox'[target[s]][n] = q[n]
            \/ n = Len(q) + 1 /\ inbox'[target[s]][n] = s
      <4>1. \A n \in 1..Len(q) + 1 : n \in 1..Len(q) \/ n = Len(q) + 1
        BY <2>5
      <4> QED BY <4>1, <2>6, <2>7, Zenon
    <3> QED BY <3>1, <2>4, <2>6, Zenon
  <2>9. \A u \in Senders : u # s /\ unsent(u) => unsent(u)'
    BY <2>1, <2>8 DEF unsent
  <2>10. \A u \in Senders : pc'[u] \notin {"wait", "done"} => u # s /\ pc[u] \notin {"wait", "done"}
    BY <2>1, <2>2, Zenon DEF goto
  <2>11. SentInv'
    <3>1. \A u \in Senders : pc'[u] \notin {"wait", "done"} => unsent(u)' /\ answer'[u] = "none"
      BY <2>1, <2>9, <2>10, Zenon DEF AnswerInv, SentInv
    <3>2. \A j \in Incs : \A n \in DOMAIN inbox'[j] :
            verdict'[inbox'[j][n]] = "none" /\ target'[inbox'[j][n]] = j
      BY <2>1, <2>3, <2>8 DEF AnswerInv, SentInv, unsent
    <3>3. \A i, j \in Incs : \A n \in DOMAIN inbox'[i], m \in DOMAIN inbox'[j] :
            inbox'[i][n] = inbox'[j][m] => i = j /\ n = m
      BY <2>3, <2>8 DEF AnswerInv, SentInv, unsent
    <3> QED
      BY <3>1, <3>2, <3>3, Zenon DEF SentInv
  <2>12. AnswerFaithful'
    <3> SUFFICES ASSUME NEW u \in Senders
        PROVE  /\ answer[u] \in Statuses => verdict[u] = answer[u]
               /\ answer[u] = "worker_unavailable" /\ ~stopFlag => unsent(u)'
      BY <2>1, Zenon DEF AnswerFaithful, unsent, stopFlag
    <3>1. answer[s] = "none"
      BY <2>1, Zenon DEF AnswerInv, SentInv
    <3> QED
      BY <2>9, <3>1, Zenon DEF AnswerInv, AnswerFaithful, unsent
  <2> QED
    BY <2>1, <2>11, <2>12, Zenon DEF AnswerInv, ResultInv, stopFlag
<1> QED
  BY <1>1, <1>2, Zenon

(* The worker decides on the first command in its pipe and may say so. *)
LEMMA AnswerHandle ==
  ASSUME IInv, AnswerInv, NEW i \in Incs, WorkerHandle(i)
  PROVE  AnswerInv'
<1>0. /\ inbox \in [Incs -> Seq(Senders)] /\ outbox \in [Incs -> Seq(Line)]
      /\ held \in [Incs -> Line \cup {None}] /\ verdict \in [Senders -> Statuses \cup {"none"}]
  BY Zenon DEF IInv, TypeOK, PipeTypeOK, SenderTypeOK
<1> DEFINE h == Head(inbox[i])
<1>a. PICK s : s = h
  BY Zenon
<1>1. PICK status \in Statuses, emitted \in BOOLEAN :
        /\ s = Head(inbox[i])
        /\ verdict' = [verdict EXCEPT ![s] = status]
        /\ outbox' = IF emitted THEN [outbox EXCEPT ![i] = Append(@, <<s, status>>)] ELSE outbox
  BY <1>a, Zenon DEF WorkerHandle
<1>2. /\ inbox[i] # <<>> /\ inbox' = [inbox EXCEPT ![i] = Tail(@)]
      /\ UNCHANGED <<pc, target, answer, held, result, stopPc>>
  BY Zenon DEF WorkerHandle, sendVars, cmdVars, stopVars
<1>3. PICK q : q = inbox[i]
  BY Zenon
<1>4. /\ q \in Seq(Senders) /\ q # <<>> /\ Len(q) \in Nat /\ 1 \in DOMAIN q /\ s = q[1]
      /\ s \in Senders
      /\ \A n \in DOMAIN Tail(q) : n + 1 \in DOMAIN q /\ n + 1 # 1 /\ Tail(q)[n] = q[n + 1]
  BY <1>0, <1>1, <1>2, <1>3
<1>5. inbox'[i] = Tail(q) /\ \A j \in Incs : j # i => inbox'[j] = inbox[j]
  BY <1>0, <1>2, <1>3, Zenon
<1>6. /\ verdict[s] = "none"
      /\ \A j \in Incs : \A n \in DOMAIN inbox[j] : inbox[j][n] = s => j = i /\ n = 1
  BY <1>3, <1>4 DEF AnswerInv, SentInv
<1>7. /\ verdict'[s] = status /\ \A u \in Senders : u # s => verdict'[u] = verdict[u]
  BY <1>0, <1>1, <1>4, Zenon
<1>8. \A j \in Incs : \A n \in DOMAIN inbox'[j] :
        \E m \in DOMAIN inbox[j] :
          /\ inbox'[j][n] = inbox[j][m] /\ inbox'[j][n] \in Senders
          /\ m = IF j = i THEN n + 1 ELSE n
          /\ inbox'[j][n] # s
  <2> SUFFICES ASSUME NEW j \in Incs, NEW n \in DOMAIN inbox'[j]
      PROVE  \E m \in DOMAIN inbox[j] :
               /\ inbox'[j][n] = inbox[j][m] /\ inbox'[j][n] \in Senders
               /\ m = IF j = i THEN n + 1 ELSE n
               /\ inbox'[j][n] # s
    BY Zenon
  <2>1. CASE j = i
    <3>1. n + 1 \in DOMAIN q /\ n + 1 # 1 /\ inbox'[j][n] = q[n + 1] /\ q[n + 1] \in Senders
      BY <1>4, <1>5, <2>1
    <3>2. q[n + 1] # s
      BY <1>3, <1>6, <3>1, Zenon
    <3> QED BY <1>3, <2>1, <3>1, <3>2, Zenon
  <2>2. CASE j # i
    <3>1. inbox'[j] = inbox[j] /\ inbox[j][n] \in Senders
      BY <1>0, <1>5, <2>2
    <3>2. inbox[j][n] # s
      BY <1>6, <2>2, <3>1, Zenon
    <3> QED BY <2>2, <3>1, <3>2, Zenon
  <2> QED BY <2>1, <2>2, Zenon
<1>9. \A u \in Senders : u # s /\ unsent(u) => unsent(u)'
  BY <1>7, <1>8 DEF unsent
<1>10. ~unsent(s) /\ pc[s] \in {"wait", "done"}
  <2>1. ~unsent(s)
    BY <1>3, <1>4, Zenon DEF unsent
  <2> QED BY <1>4, <2>1, Zenon DEF AnswerInv, SentInv
<1>11. SentInv'
  <2>1. \A u \in Senders : pc'[u] \notin {"wait", "done"} => unsent(u)' /\ answer'[u] = "none"
    BY <1>2, <1>9, <1>10, Zenon DEF AnswerInv, SentInv
  <2>2. \A j \in Incs : \A n \in DOMAIN inbox'[j] :
          verdict'[inbox'[j][n]] = "none" /\ target'[inbox'[j][n]] = j
    BY <1>2, <1>7, <1>8 DEF AnswerInv, SentInv
  <2>3. \A k, j \in Incs : \A n \in DOMAIN inbox'[k], m \in DOMAIN inbox'[j] :
          inbox'[k][n] = inbox'[j][m] => k = j /\ n = m
    <3> SUFFICES ASSUME NEW k \in Incs, NEW j \in Incs,
                        NEW n \in DOMAIN inbox'[k], NEW m \in DOMAIN inbox'[j],
                        inbox'[k][n] = inbox'[j][m]
                 PROVE  k = j /\ n = m
      BY Zenon
    <3>1. PICK a \in DOMAIN inbox[k] :
            inbox'[k][n] = inbox[k][a] /\ a = IF k = i THEN n + 1 ELSE n
      BY <1>8, Zenon
    <3>2. PICK b \in DOMAIN inbox[j] :
            inbox'[j][m] = inbox[j][b] /\ b = IF j = i THEN m + 1 ELSE m
      BY <1>8, Zenon
    <3>3. k = j /\ a = b
      <4>1. inbox[k][a] = inbox[j][b]
        BY <3>1, <3>2, Zenon
      <4> QED BY <4>1 DEF AnswerInv, SentInv
    <3>4. n \in Nat /\ m \in Nat
      <4>1. Tail(q) \in Seq(Senders)
        BY <1>4
      <4>2. \A l \in Incs : inbox'[l] \in Seq(Senders)
        BY <1>0, <1>5, <4>1, Zenon
      <4>3. \A l \in Incs : DOMAIN inbox'[l] = 1..Len(inbox'[l])
        BY <4>2
      <4> QED BY <4>3
    <3> QED
      BY <3>1, <3>2, <3>3, <3>4
  <2> QED
    BY <2>1, <2>2, <2>3, Zenon DEF SentInv
<1>12. \A u \in Senders, r \in Statuses : verdict[u] = r => verdict'[u] = r
  BY <1>6, <1>7, Zenon DEF Statuses
<1>13. ResultInv'
  <2>1. \A j \in Incs : \A n \in DOMAIN outbox'[j] :
          \/ n \in DOMAIN outbox[j] /\ outbox'[j][n] = outbox[j][n]
          \/ outbox'[j][n] = <<s, status>>
    BY <1>0, <1>1
  <2>2. \A j \in Incs : \A n \in DOMAIN outbox[j] :
          outbox[j][n][1] \in Senders /\ outbox[j][n][2] \in Statuses
    BY <1>0 DEF Line
  <2>3. \A j \in Incs : held[j] # None => held[j][1] \in Senders /\ held[j][2] \in Statuses
    BY <1>0, Zenon DEF Line
  <2>4. \A j \in Incs : \A n \in DOMAIN outbox'[j] : verdict'[outbox'[j][n][1]] = outbox'[j][n][2]
    BY <1>7, <1>12, <2>1, <2>2 DEF AnswerInv, ResultInv
  <2>5. \A j \in Incs : held'[j] # None => verdict'[held'[j][1]] = held'[j][2]
    BY <1>2, <1>12, <2>3 DEF AnswerInv, ResultInv
  <2>6. \A u \in Senders : /\ result'[u] \in Statuses => verdict'[u] = result'[u]
                           /\ result'[u] = "worker_unavailable" => stopFlag'
    BY <1>2, <1>12, Zenon DEF AnswerInv, ResultInv, stopFlag
  <2> QED
    BY <2>4, <2>5, <2>6, Zenon DEF ResultInv
<1>14. AnswerFaithful'
  <2> SUFFICES ASSUME NEW u \in Senders
      PROVE  /\ answer[u] \in Statuses => verdict'[u] = answer[u]
             /\ answer[u] = "worker_unavailable" /\ ~stopFlag => unsent(u)'
    BY <1>2, Zenon DEF AnswerFaithful, unsent, stopFlag
  <2>1. answer[u] \in Statuses => verdict'[u] = answer[u]
    BY <1>12, Zenon DEF AnswerInv, AnswerFaithful
  <2>2. answer[u] = "worker_unavailable" /\ ~stopFlag => unsent(u)
    BY Zenon DEF AnswerInv, AnswerFaithful, unsent
  <2> QED
    BY <1>9, <1>10, <2>1, <2>2, Zenon
<1> QED
  BY <1>11, <1>13, <1>14, Zenon DEF AnswerInv

(* The reader takes the next line, or throws away what is left. *)
LEMMA AnswerTake ==
  ASSUME IInv, AnswerInv, NEW i \in Incs, ReaderTake(i)
  PROVE  AnswerInv'
<1>0. outbox \in [Incs -> Seq(Line)] /\ held \in [Incs -> Line \cup {None}]
  BY Zenon DEF IInv, TypeOK, PipeTypeOK
<1>1. /\ outbox[i] # <<>>
      /\ outbox' = [outbox EXCEPT ![i] = IF stopFlag THEN <<>> ELSE Tail(@)]
      /\ \A j \in Incs : held'[j] = held[j] \/ held'[j] = None
                         \/ (j = i /\ held'[j] = Head(outbox[i]))
      /\ UNCHANGED <<sendVars, verdict, inbox, result, stopPc>>
  BY <1>0, Zenon DEF ReaderTake, cmdVars, histVars, stopVars
<1>2. PICK q : q = outbox[i]
  BY Zenon
<1>3. /\ q \in Seq(Line) /\ q # <<>> /\ 1 \in DOMAIN q /\ Head(q) = q[1]
      /\ \A n \in DOMAIN Tail(q) : n + 1 \in DOMAIN q /\ Tail(q)[n] = q[n + 1]
  BY <1>0, <1>1, <1>2
<1>4. /\ outbox'[i] = <<>> \/ outbox'[i] = Tail(q)
      /\ \A j \in Incs : j # i => outbox'[j] = outbox[j]
  BY <1>0, <1>1, <1>2, Zenon
<1>5. \A j \in Incs : \A n \in DOMAIN outbox'[j] :
        \E m \in DOMAIN outbox[j] : outbox'[j][n] = outbox[j][m]
  <2> SUFFICES ASSUME NEW j \in Incs, NEW n \in DOMAIN outbox'[j]
               PROVE  \E m \in DOMAIN outbox[j] : outbox'[j][n] = outbox[j][m]
    BY Zenon
  <2>1. CASE j # i
    BY <1>4, <2>1, Zenon
  <2>2. CASE j = i
    <3>1. outbox'[j] = Tail(q)
      BY <1>4, <2>2
    <3> QED BY <1>2, <1>3, <2>2, <3>1, Zenon
  <2> QED BY <2>1, <2>2, Zenon
<1>6. ResultInv'
  <2>1. \A j \in Incs : \A n \in DOMAIN outbox'[j] :
          verdict'[outbox'[j][n][1]] = outbox'[j][n][2]
    BY <1>1, <1>5 DEF AnswerInv, ResultInv
  <2>2. \A j \in Incs : held'[j] # None => verdict'[held'[j][1]] = held'[j][2]
    <3>1. verdict[Head(q)[1]] = Head(q)[2]
      BY <1>2, <1>3 DEF AnswerInv, ResultInv
    <3> QED BY <1>1, <1>2, <3>1, Zenon DEF AnswerInv, ResultInv
  <2> QED
    BY <1>1, <2>1, <2>2, Zenon DEF AnswerInv, ResultInv, stopFlag
<1> QED
  BY <1>1, <1>6 DEF AnswerInv, SentInv, unsent, AnswerFaithful, sendVars, stopFlag

(* Every step preserves what is known of the answers. *)
LEMMA AnswerNext == IInv /\ AnswerInv /\ [Next]_vars => AnswerInv'
<1> SUFFICES ASSUME IInv, AnswerInv, [Next]_vars PROVE AnswerInv'
  BY Zenon
<1>0. TypeOK /\ "worker_unavailable" \notin Statuses /\ "worker_died" \notin Statuses
      /\ "worker_died" # "worker_unavailable"
  BY Zenon DEF IInv, Statuses
<1>1. ASSUME NEW s \in Senders, Send(s) PROVE AnswerInv'
  <2> USE DEF pipeVars, cmdVars, histVars, stopVars
  <2>1. pc[s] \notin {"wait", "done"} => unsent(s)
    BY Zenon DEF AnswerInv, SentInv
  <2>2. CASE SendCheckStop(s)
    BY <1>0, <2>1, <2>2, AnswerGoto, AnswerReturn, Zenon DEF SendCheckStop
  <2>3. CASE \E w \in Workers : SendLookup(s, w)
    <3>1. /\ pc[s] = "lookup" /\ goto(s, "register")
          /\ \A u \in Senders : u # s => target'[u] = target[u]
          /\ UNCHANGED <<verdict, inbox, outbox, held, result, stopPc>>
      BY <1>0, <2>3, Zenon DEF SendLookup, TypeOK, SenderTypeOK
    <3> QED BY <1>0, <3>1, AnswerGoto, Zenon
  <2>4. CASE SendUnknown(s)
    BY <1>0, <2>1, <2>4, AnswerReturn, Zenon DEF SendUnknown
  <2>5. CASE SendRegister(s)
    BY <1>0, <2>1, <2>5, AnswerGoto, AnswerReturn, Zenon DEF SendRegister
  <2>6. CASE SendRecheck(s)
    BY <1>0, <2>1, <2>6, AnswerGoto, AnswerReturn, Zenon DEF SendRecheck
  <2>7. CASE SendWrite(s)
    BY <2>7, AnswerWrite, Zenon
  <2>8. CASE SendReturn(s)
    <3>1. /\ return(s, result[s])
          /\ UNCHANGED <<target, verdict, inbox, outbox, held, result, stopPc>>
      BY <2>8, Zenon DEF SendReturn
    <3>2. /\ result[s] \in Statuses => verdict[s] = result[s]
          /\ result[s] = "worker_unavailable" => stopFlag
      BY Zenon DEF AnswerInv, ResultInv
    <3> QED BY <1>0, <3>1, <3>2, AnswerReturn, Zenon
  <2> QED
    BY <1>1, <2>2, <2>3, <2>4, <2>5, <2>6, <2>7, <2>8, Zenon DEF Send
<1>2. ASSUME NEW i \in Incs, WorkerHandle(i) \/ WorkerExit(i) \/ Reader(i) PROVE AnswerInv'
  <2>1. CASE WorkerExit(i)
    BY <1>0, <2>1, AnswerLost, Zenon DEF WorkerExit, cmdVars, histVars, stopVars
  <2>2. CASE ReaderFulfill(i)
    <3>1. /\ held[i] # None /\ fulfill(held[i][1], held[i][2])
          /\ held' = [held EXCEPT ![i] = None]
          /\ UNCHANGED <<sendVars, verdict, inbox, outbox, stopPc>>
      BY <2>2, Zenon DEF ReaderFulfill, histVars, stopVars
    <3>2. /\ held[i][1] \in Senders /\ held[i][2] \in Statuses
          /\ \A j \in Incs : held'[j] \in {held[j], None}
      BY <1>0, <3>1, Zenon DEF TypeOK, PipeTypeOK, Line
    <3>3. verdict[held[i][1]] = held[i][2]
      BY <3>1, Zenon DEF AnswerInv, ResultInv
    <3> QED BY <1>0, <3>1, <3>2, <3>3, AnswerFulfill, Zenon
  <2> QED
    BY <1>2, <2>1, <2>2, AnswerHandle, AnswerTake, Zenon DEF Reader
<1>3. CASE \E w \in Workers : MonHealthy(w) \/ MonVisitDead(w)
  BY <1>3, AnswerQuiet, Zenon DEF MonHealthy, MonVisitDead, pipeVars, cmdVars, histVars, stopVars,
    stopFlag
<1>4. ASSUME NEW s \in Senders, MonFulfill(s) PROVE AnswerInv'
  <2>1. /\ fulfill(s, "worker_died")
        /\ UNCHANGED <<sendVars, verdict, inbox, outbox, held, stopPc>>
    BY <1>4, Zenon DEF MonFulfill, pipeVars, histVars, stopVars
  <2> QED BY <1>0, <2>1, AnswerFulfill, Zenon
<1>5. CASE \/ \E joined \in BOOLEAN : MonReap(joined)
           \/ MonFailTake \/ MonFulfilled \/ MonExhausted \/ MonBackoff \/ MonRespawn
           \/ MonLock \/ MonSpawn \/ MonSpawnFailed \/ MonInstall \/ MonConfirm
  <2>1. UNCHANGED <<sendVars, verdict, inbox, outbox, held, result, stopPc>>
    BY <1>5, Zenon DEF MonReap, MonFailTake, MonFulfilled, MonExhausted, MonBackoff, MonRespawn,
       MonLock, MonSpawn, MonSpawnFailed, MonInstall, MonConfirm, pipeVars, cmdVars, histVars,
       stopVars
  <2> QED BY <2>1, AnswerQuiet, Zenon DEF stopFlag
<1>6. ASSUME NEW s \in Senders, StopFulfill(s) PROVE AnswerInv'
  <2>1. /\ fulfill(s, "worker_unavailable") /\ stopFlag
        /\ UNCHANGED <<sendVars, verdict, inbox, outbox, held, stopPc>>
    BY <1>6, Zenon DEF StopFulfill, pipeVars, histVars, stopFlag
  <2> QED BY <1>0, <2>1, AnswerFulfill, Zenon
<1>7. ASSUME NEW i \in Incs, StopWait(i) PROVE AnswerInv'
  BY <1>0, <1>7, AnswerLost, Zenon DEF StopWait, cmdVars, histVars
<1>8. CASE \/ StopSet \/ StopList \/ \E i \in Incs : StopSweep(i)
           \/ StopJoin \/ StopSnapshot \/ StopTerminate \/ StopDone
  <2>1. UNCHANGED <<sendVars, verdict, inbox, outbox, held, result>> /\ stopPc' # "run"
    BY <1>8, Zenon DEF StopSet, StopList, StopSweep, StopJoin, StopSnapshot, StopTerminate,
       StopDone, stopGoto, pipeVars, cmdVars, histVars
  <2> QED BY <2>1, AnswerQuiet, Zenon DEF stopFlag
<1>9. CASE UNCHANGED vars
  BY <1>9, AnswerQuiet, Zenon DEF vars, pipeVars, cmdVars, histVars, stopVars, stopFlag
<1> QED
  BY <1>1, <1>2, <1>3, <1>4, <1>5, <1>6, <1>7, <1>8, <1>9, Zenon DEF Next, MonitorStep, StopStep

(* Nothing is sent or answered at the start. *)
LEMMA AnswerInit == Init => AnswerInv
<1> SUFFICES ASSUME Init PROVE AnswerInv
  BY Zenon
<1>1. \A i \in Incs : DOMAIN inbox[i] = {} /\ DOMAIN outbox[i] = {} /\ held[i] = None
  BY DEF Init
<1>2. \A s \in Senders : verdict[s] = "none" /\ answer[s] = "none" /\ result[s] = "timeout"
  BY Zenon DEF Init
<1> QED
  BY <1>1, <1>2, Zenon DEF AnswerInv, SentInv, unsent, ResultInv, AnswerFaithful, Statuses

-----------------------------------------------------------------------------
(* The initial states satisfy the invariant. *)
LEMMA InitInv == Init => IInv
<1> SUFFICES ASSUME Init PROVE IInv
  BY Zenon
<1>1. TypeOK
  BY DEF Init, TypeOK, WorkerTypeOK, PipeTypeOK, SenderTypeOK, ThreadTypeOK,
     Line, None, Results, Statuses
<1> QED
  BY <1>1 DEF Init, IInv, MonitorInv, IncarnationInv, StopInv, TargetInv,
     EntryInv, MapInv, DeadInv, SweepInv, OrphanInv, Incs, swept,
     declaredDead

(* StopSet preserves the invariant. *)
LEMMA StopSetInv ==
  ASSUME IInv, StopSet
  PROVE  IInv'
<1> USE DEF StopSet, stopGoto, listVars, retryVars, pipeVars, sendVars,
            cmdVars, histVars, monVars
<1>0. /\ TypeOK /\ MonitorInv /\ IncarnationInv /\ StopInv
      /\ TargetInv /\ EntryInv /\ MapInv /\ DeadInv /\ SweepInv /\ OrphanInv
  BY Zenon DEF IInv
<1>1. ThreadTypeOK'
  BY <1>0, Zenon DEF TypeOK, ThreadTypeOK
<1>2. StopInv'
  BY <1>0, Zenon DEF StopInv
<1>3. EntryInv'
  BY <1>0, Zenon DEF EntryInv
<1>4. SweepInv'
  BY <1>0, Zenon DEF WorkerTypeOK, SweepInv, swept, MapInv
<1>5. OrphanInv'
  BY <1>0, Zenon DEF OrphanInv, current, next
<1>6. /\ WorkerTypeOK' /\ PipeTypeOK' /\ SenderTypeOK' /\ MonitorInv'
      /\ IncarnationInv' /\ TargetInv' /\ MapInv' /\ DeadInv'
  BY <1>0, Zenon DEF TypeOK, WorkerTypeOK, PipeTypeOK, SenderTypeOK, MonitorInv,
     IncarnationInv, TargetInv, MapInv, DeadInv, current, declaredDead
<1> QED
  BY <1>1, <1>2, <1>3, <1>4, <1>5, <1>6, Zenon DEF IInv, TypeOK

(* StopList preserves the invariant. *)
LEMMA StopListInv ==
  ASSUME IInv, StopList
  PROVE  IInv'
<1> USE DEF StopList, listVars, retryVars, pipeVars, sendVars, cmdVars,
            histVars, monVars
<1>0. /\ TypeOK /\ MonitorInv /\ IncarnationInv /\ StopInv
      /\ TargetInv /\ EntryInv /\ MapInv /\ DeadInv /\ SweepInv /\ OrphanInv
  BY Zenon DEF IInv
<1>1. ThreadTypeOK'
  <2>1. Installed \subseteq Incs
    BY <1>0 DEF TypeOK, WorkerTypeOK, Installed, current, Incs
  <2> QED
    BY <1>0, <2>1, Zenon DEF TypeOK, ThreadTypeOK
<1>2. StopInv'
  BY <1>0, Zenon DEF StopInv
<1>3. SweepInv'
  <2> SUFFICES ASSUME NEW i \in Incs, NEW s \in pending[i], pc[s] = "wait" \/
                      pc[s] = "write", i \notin Installed
               PROVE  declaredDead(i)
    BY <1>0, Zenon DEF SweepInv, swept, declaredDead
  <2>1. target[s] = i
    BY <1>0, Zenon DEF MapInv
  <2>2. s \in Senders
    BY <1>0, Zenon DEF TypeOK, PipeTypeOK
  <2>3. i[2] <= procs[i[1]]
    BY <1>0, <2>1, <2>2, Zenon DEF TargetInv
  <2>4. PICK w \in Workers, k \in 1..MaxSpawns : i = <<w, k>>
    BY <1>0 DEF Incs
  <2>5. k < procs[w]
    BY <1>0, <2>3, <2>4 DEF Installed, current, TypeOK, WorkerTypeOK
  <2> QED
    BY <1>0, <2>4, <2>5, Zenon DEF IncarnationInv
<1>4. OrphanInv'
  BY <1>0, Zenon DEF OrphanInv, Incs, current, next, declaredDead
<1>5. /\ WorkerTypeOK' /\ PipeTypeOK' /\ SenderTypeOK' /\ MonitorInv'
      /\ IncarnationInv' /\ TargetInv' /\ EntryInv' /\ MapInv' /\ DeadInv'
  BY <1>0, Zenon DEF TypeOK, WorkerTypeOK, PipeTypeOK, SenderTypeOK, MonitorInv,
     IncarnationInv, TargetInv, EntryInv, MapInv, DeadInv, current,
     declaredDead
<1> QED
  BY <1>1, <1>2, <1>3, <1>4, <1>5, Zenon DEF IInv, TypeOK

(* StopSweep preserves the invariant. *)
LEMMA StopSweepInv ==
  ASSUME NEW i \in Incs, IInv, StopSweep(i)
  PROVE  IInv'
<1> USE DEF StopSweep, listVars, retryVars, pipeVars, sendVars, cmdVars,
            histVars, monVars
<1>0. /\ TypeOK /\ MonitorInv /\ IncarnationInv /\ StopInv
      /\ TargetInv /\ EntryInv /\ MapInv /\ DeadInv /\ SweepInv /\ OrphanInv
  BY Zenon DEF IInv
<1>1. PipeTypeOK'
  BY <1>0, Zenon DEF TypeOK, PipeTypeOK
<1>2. ThreadTypeOK'
  BY <1>0, Zenon DEF TypeOK, ThreadTypeOK, PipeTypeOK, None
<1>3. StopInv'
  BY <1>0, Zenon DEF StopInv
<1>4. EntryInv'
  <2>1. stopFailing = {} /\ stopFailing' = pending[i]
    BY <1>0, Zenon
  <2>2. \A j \in Incs : j = i \/ pending'[j] = pending[j]
    BY <1>0 DEF PipeTypeOK
  <2>3. UNCHANGED <<pc, target, fulfilled, monFailing>>
    BY <1>0, Zenon
  <2> HIDE DEF StopSweep
  <2> QED
    BY <1>0, <2>1, <2>2, <2>3, Zenon DEF EntryInv, TargetInv
<1>5. MapInv'
  <2>1. \A j \in Incs : pending'[j] \subseteq pending[j]
    BY <1>0 DEF PipeTypeOK
  <2>2. UNCHANGED <<pc, target, monFailing, monInc>>
    BY <1>0, Zenon
  <2> HIDE DEF StopSweep
  <2> QED
    BY <1>0, <2>1, <2>2, Zenon DEF MapInv
<1>6. DeadInv'
  BY <1>0 DEF WorkerTypeOK, DeadInv, MapInv, current, declaredDead
<1>7. SweepInv'
  BY <1>0, Zenon DEF TypeOK, PipeTypeOK, SenderTypeOK, SweepInv, swept, declaredDead
<1>8. OrphanInv'
  BY <1>0, Zenon DEF OrphanInv, declaredDead
<1>9. /\ WorkerTypeOK' /\ SenderTypeOK' /\ MonitorInv' /\ IncarnationInv'
      /\ TargetInv'
  BY <1>0, Zenon DEF TypeOK, WorkerTypeOK, SenderTypeOK, MonitorInv, IncarnationInv,
     TargetInv, current, declaredDead
<1> QED
  BY <1>1, <1>2, <1>3, <1>4, <1>5, <1>6, <1>7, <1>8, <1>9, Zenon DEF IInv, TypeOK

(* StopFulfill preserves the invariant. *)
LEMMA StopFulfillInv ==
  ASSUME NEW s \in Senders, IInv, StopFulfill(s)
  PROVE  IInv'
<1> USE DEF StopFulfill, fulfill, listVars, retryVars, pipeVars, sendVars,
            histVars, monVars
<1>0. /\ TypeOK /\ MonitorInv /\ IncarnationInv /\ StopInv
      /\ TargetInv /\ EntryInv /\ MapInv /\ DeadInv /\ SweepInv /\ OrphanInv
  BY Zenon DEF IInv
<1>1. SenderTypeOK'
  BY <1>0, Zenon DEF TypeOK, SenderTypeOK, Results, current, Line, None
<1>2. ThreadTypeOK'
  BY <1>0, Zenon DEF TypeOK, ThreadTypeOK
<1>3. StopInv'
  BY <1>0, Zenon DEF StopInv
<1>4. EntryInv'
  BY <1>0, Zenon DEF TypeOK, SenderTypeOK, EntryInv
<1>5. /\ WorkerTypeOK' /\ PipeTypeOK' /\ MonitorInv' /\ IncarnationInv'
      /\ TargetInv' /\ MapInv' /\ DeadInv' /\ SweepInv' /\ OrphanInv'
  BY <1>0, Zenon DEF TypeOK, WorkerTypeOK, PipeTypeOK, MonitorInv, IncarnationInv,
     TargetInv, MapInv, DeadInv, SweepInv, OrphanInv, current, swept,
     declaredDead
<1> QED
  BY <1>1, <1>2, <1>3, <1>4, <1>5, Zenon DEF IInv, TypeOK

(* StopJoin preserves the invariant. *)
LEMMA StopJoinInv ==
  ASSUME IInv, StopJoin
  PROVE  IInv'
<1> USE DEF StopJoin, stopGoto, listVars, retryVars, pipeVars, sendVars,
            cmdVars, histVars, monVars
<1>0. /\ TypeOK /\ MonitorInv /\ IncarnationInv /\ StopInv
      /\ TargetInv /\ EntryInv /\ MapInv /\ DeadInv /\ SweepInv /\ OrphanInv
  BY Zenon DEF IInv
<1>1. ThreadTypeOK'
  BY <1>0, Zenon DEF TypeOK, ThreadTypeOK
<1>2. StopInv'
  BY <1>0, Zenon DEF StopInv
<1>3. EntryInv'
  BY <1>0, Zenon DEF EntryInv
<1>4. SweepInv'
  BY <1>0, Zenon DEF SenderTypeOK, WorkerTypeOK, SweepInv, swept, current,
     declaredDead
<1>5. OrphanInv'
  BY <1>0, Zenon DEF OrphanInv
<1>6. /\ WorkerTypeOK' /\ PipeTypeOK' /\ SenderTypeOK' /\ MonitorInv'
      /\ IncarnationInv' /\ TargetInv' /\ MapInv' /\ DeadInv'
  BY <1>0, Zenon DEF TypeOK, WorkerTypeOK, PipeTypeOK, SenderTypeOK, MonitorInv,
     IncarnationInv, TargetInv, MapInv, DeadInv, current, declaredDead
<1> QED
  BY <1>1, <1>2, <1>3, <1>4, <1>5, <1>6, Zenon DEF IInv, TypeOK

(* StopSnapshot preserves the invariant. *)
LEMMA StopSnapshotInv ==
  ASSUME IInv, StopSnapshot
  PROVE  IInv'
<1> USE DEF StopSnapshot, listVars, retryVars, pipeVars, sendVars, cmdVars,
            histVars, monVars
<1>0. /\ TypeOK /\ MonitorInv /\ IncarnationInv /\ StopInv
      /\ TargetInv /\ EntryInv /\ MapInv /\ DeadInv /\ SweepInv /\ OrphanInv
  BY Zenon DEF IInv
<1>1. ThreadTypeOK'
  <2>1. Installed \subseteq Incs
    BY <1>0 DEF TypeOK, WorkerTypeOK, Installed, current, Incs
  <2> QED
    BY <1>0, <2>1, Zenon DEF TypeOK, ThreadTypeOK
<1>2. StopInv'
  BY <1>0, Zenon DEF StopInv
<1>3. SweepInv'
  BY <1>0, Zenon DEF SweepInv, swept, TargetInv, Installed, current, declaredDead
<1>4. OrphanInv'
  BY <1>0, Zenon DEF WorkerTypeOK, OrphanInv, current, Installed
<1>5. /\ WorkerTypeOK' /\ PipeTypeOK' /\ SenderTypeOK' /\ MonitorInv'
      /\ IncarnationInv' /\ TargetInv' /\ EntryInv' /\ MapInv' /\ DeadInv'
  BY <1>0, Zenon DEF TypeOK, WorkerTypeOK, PipeTypeOK, SenderTypeOK, MonitorInv,
     IncarnationInv, TargetInv, EntryInv, MapInv, DeadInv, current,
     declaredDead
<1> QED
  BY <1>1, <1>2, <1>3, <1>4, <1>5, Zenon DEF IInv, TypeOK

(* StopTerminate preserves the invariant. *)
LEMMA StopTerminateInv ==
  ASSUME IInv, StopTerminate
  PROVE  IInv'
<1> USE DEF StopTerminate, stopGoto, listVars, retryVars, pipeVars,
            sendVars, cmdVars, histVars, monVars
<1>0. /\ TypeOK /\ MonitorInv /\ IncarnationInv /\ StopInv
      /\ TargetInv /\ EntryInv /\ MapInv /\ DeadInv /\ SweepInv /\ OrphanInv
  BY Zenon DEF IInv
<1>1. WorkerTypeOK'
  BY <1>0, Zenon DEF TypeOK, WorkerTypeOK, ThreadTypeOK, Incs, MonitorInv, next,
     None, declaredDead
<1>2. ThreadTypeOK'
  BY <1>0, Zenon DEF TypeOK, ThreadTypeOK, Installed
<1>3. StopInv'
  BY <1>0, Zenon DEF StopInv
<1>4. EntryInv'
  BY <1>0, Zenon DEF SenderTypeOK, EntryInv, MapInv, TargetInv
<1>5. SweepInv'
  BY <1>0, Zenon DEF SweepInv, swept, Installed, current, declaredDead
<1>6. OrphanInv'
  BY <1>0, Zenon DEF TypeOK, WorkerTypeOK, OrphanInv, Incs, current
<1>7. /\ PipeTypeOK' /\ SenderTypeOK' /\ MonitorInv' /\ IncarnationInv'
      /\ TargetInv' /\ MapInv' /\ DeadInv'
  BY <1>0, Zenon DEF TypeOK, PipeTypeOK, SenderTypeOK, MonitorInv, IncarnationInv,
     TargetInv, MapInv, DeadInv, current, declaredDead
<1> QED
  BY <1>1, <1>2, <1>3, <1>4, <1>5, <1>6, <1>7, Zenon DEF IInv, TypeOK

(* StopWait preserves the invariant. *)
LEMMA StopWaitInv ==
  ASSUME NEW i \in Incs, IInv, StopWait(i)
  PROVE  IInv'
<1> USE DEF StopWait, listVars, retryVars, sendVars, cmdVars, histVars,
            monVars
<1>0. /\ TypeOK /\ MonitorInv /\ IncarnationInv /\ StopInv
      /\ TargetInv /\ EntryInv /\ MapInv /\ DeadInv /\ SweepInv /\ OrphanInv
  BY Zenon DEF IInv
<1>1. WorkerTypeOK'
  BY <1>0, Zenon DEF TypeOK, WorkerTypeOK, ThreadTypeOK, Incs, current
<1>2. PipeTypeOK'
  BY <1>0 DEF TypeOK, PipeTypeOK, None
<1>3. ThreadTypeOK'
  BY <1>0, Zenon DEF TypeOK, ThreadTypeOK
<1>4. MonitorInv'
  BY <1>0 DEF MonitorInv, current, next, declaredDead
<1>5. IncarnationInv'
  BY <1>0, Zenon DEF TypeOK, WorkerTypeOK, IncarnationInv, Incs, declaredDead
<1>6. DeadInv'
  BY <1>0 DEF PipeTypeOK, SenderTypeOK, DeadInv, declaredDead
<1>7. SweepInv'
  BY <1>0 DEF SweepInv, swept, declaredDead
<1>8. OrphanInv'
  BY <1>0 DEF OrphanInv, current
<1>9. /\ SenderTypeOK' /\ StopInv' /\ TargetInv' /\ EntryInv'
      /\ MapInv'
  BY <1>0, Zenon DEF TypeOK, SenderTypeOK, StopInv, TargetInv, EntryInv, MapInv
<1> QED
  BY <1>1, <1>2, <1>3, <1>4, <1>5, <1>6, <1>7, <1>8, <1>9, Zenon DEF IInv, TypeOK

(* StopDone preserves the invariant. *)
LEMMA StopDoneInv ==
  ASSUME IInv, StopDone
  PROVE  IInv'
<1> USE DEF StopDone, stopGoto, listVars, retryVars, pipeVars, sendVars,
            cmdVars, histVars, monVars
<1>0. /\ TypeOK /\ MonitorInv /\ IncarnationInv /\ StopInv
      /\ TargetInv /\ EntryInv /\ MapInv /\ DeadInv /\ SweepInv /\ OrphanInv
  BY Zenon DEF IInv
<1>1. ThreadTypeOK'
  BY <1>0, Zenon DEF TypeOK, ThreadTypeOK
<1>2. StopInv'
  BY <1>0, Zenon DEF StopInv
<1>3. EntryInv'
  BY <1>0, Zenon DEF EntryInv, MapInv, TargetInv
<1>4. SweepInv'
  BY <1>0, Zenon DEF SweepInv, swept, declaredDead
<1>5. OrphanInv'
  BY <1>0, Zenon DEF ThreadTypeOK, OrphanInv, current
<1>6. /\ WorkerTypeOK' /\ PipeTypeOK' /\ SenderTypeOK' /\ MonitorInv'
      /\ IncarnationInv' /\ TargetInv' /\ MapInv' /\ DeadInv'
  BY <1>0, Zenon DEF TypeOK, WorkerTypeOK, PipeTypeOK, SenderTypeOK, MonitorInv,
     IncarnationInv, TargetInv, MapInv, DeadInv, current, declaredDead
<1> QED
  BY <1>1, <1>2, <1>3, <1>4, <1>5, <1>6, Zenon DEF IInv, TypeOK

-----------------------------------------------------------------------------
(* The bound on a crash loop *)

(* Only the monitor counts attempts, resets them and installs processes. *)
LEMMA LoopQuiet ==
  ASSUME LoopInv, UNCHANGED <<procs, restarts, heals, monPc, monInc>>
  PROVE  LoopInv'
BY Zenon DEF LoopInv, current, next

(* A reset of the backoff forgets the attempts of one entry, at most       *)
(* restart_max_attempts, and counts itself.                                *)
LEMMA LoopHealthy ==
  ASSUME IInv, LoopInv, NEW w \in Workers, MonHealthy(w)
  PROVE  LoopInv'
<1>1. /\ procs \in [Workers -> 1..MaxSpawns] /\ restarts \in [Incs -> 0..MaxRestarts]
      /\ heals \in Nat /\ current(w) \in Incs
  BY DEF IInv, TypeOK, WorkerTypeOK, current, Incs
<1>2. /\ heals' = heals + 1 /\ restarts' = [restarts EXCEPT ![current(w)] = 0]
      /\ UNCHANGED <<procs, monPc, monInc>> /\ monPc = "idle"
  BY Zenon DEF MonHealthy, listVars, monVars
<1>3. MaxRestarts * heals \in Nat /\ MaxRestarts * (heals + 1) = MaxRestarts * heals + MaxRestarts
  BY <1>1
<1> DEFINE paid == MaxRestarts * heals
           more == MaxRestarts * (heals + 1)
<1>4. \A v \in Workers : procs[v] \in Nat /\ restarts[current(v)] \in 0..MaxRestarts
                         /\ procs[v] <= 1 + restarts[current(v)] + paid
  BY <1>1 DEF LoopInv, current, Incs
<1>5. \A v \in Workers : current(v)' = current(v) /\ restarts'[current(v)] \in 0..MaxRestarts
  BY <1>1, <1>2 DEF current, Incs
<1>6. paid \in Nat /\ more = paid + MaxRestarts
  BY <1>3, Zenon
<1>7. \A v \in Workers : procs[v] <= 1 + restarts'[current(v)] + more
  <2> HIDE DEF paid, more
  <2> QED BY <1>4, <1>5, <1>6
<1> QED
  BY <1>2, <1>5, <1>7, Zenon DEF LoopInv

(* The monitor counts an attempt before it starts the process of it. *)
LEMMA LoopRespawn ==
  ASSUME IInv, LoopInv, MonRespawn
  PROVE  LoopInv'
<1>1. /\ procs \in [Workers -> 1..MaxSpawns] /\ restarts \in [Incs -> 0..MaxRestarts]
      /\ heals \in Nat /\ monInc \in Incs /\ monInc[1] \in Workers
      /\ monInc = current(monInc[1])
  BY DEF IInv, TypeOK, WorkerTypeOK, ThreadTypeOK, MonitorInv, MonRespawn, Incs
<1>2. /\ restarts' = [restarts EXCEPT ![monInc] = @ + 1]
      /\ UNCHANGED <<procs, heals, monInc>> /\ monPc' = "lock"
  BY Zenon DEF MonRespawn, listVars, monGoto
<1> DEFINE paid == MaxRestarts * heals
<1>3. paid \in Nat /\ paid' = paid
  BY <1>1, <1>2
<1>4. \A v \in Workers : procs[v] \in Nat /\ restarts[current(v)] \in Nat
                         /\ procs[v] <= 1 + restarts[current(v)] + paid
  BY <1>1 DEF LoopInv, current, Incs
<1>5. \A v \in Workers : /\ current(v)' = current(v)
                         /\ restarts'[current(v)] \in Nat
                         /\ restarts'[current(v)] >= restarts[current(v)]
  BY <1>1, <1>2 DEF current, Incs
<1>6. restarts'[monInc] = restarts[monInc] + 1
  BY <1>1, <1>2, Zenon
<1>7. /\ \A v \in Workers : procs[v] <= 1 + restarts'[current(v)] + paid
      /\ procs[monInc[1]] <= restarts'[monInc] + paid
  <2> HIDE DEF paid
  <2> QED BY <1>1, <1>3, <1>4, <1>5, <1>6
<1> QED
  BY <1>2, <1>5, <1>7, Zenon DEF LoopInv

(* The new process inherits the count of the old entry. *)
LEMMA LoopSpawn ==
  ASSUME IInv, LoopInv, MonSpawn
  PROVE  LoopInv'
<1>1. /\ procs \in [Workers -> 1..MaxSpawns] /\ restarts \in [Incs -> 0..MaxRestarts]
      /\ monInc \in Incs /\ monInc[1] \in Workers /\ monInc[2] \in Nat
      /\ monInc = current(monInc[1]) /\ next(monInc) \in Incs /\ next(monInc) # monInc
  BY DEF IInv, TypeOK, WorkerTypeOK, ThreadTypeOK, MonitorInv, MonSpawn, Incs, next
<1>2. /\ restarts' = [restarts EXCEPT ![next(monInc)] = restarts[monInc]]
      /\ UNCHANGED <<procs, heals, monInc>> /\ monPc = "spawn" /\ monPc' = "install"
  BY Zenon DEF MonSpawn, listVars, monGoto, inherited
<1>3. \A v \in Workers : next(monInc) # current(v)
  BY <1>1, Zenon DEF current, next
<1>4. /\ \A v \in Workers : current(v) \in Incs /\ current(v)' = current(v)
                            /\ restarts'[current(v)] = restarts[current(v)]
      /\ restarts'[monInc] = restarts[monInc] /\ restarts'[next(monInc)] = restarts[monInc]
      /\ next(monInc)' = next(monInc)
  BY <1>1, <1>2, <1>3, Zenon DEF current, Incs, next
<1> QED
  BY <1>2, <1>4, Zenon DEF LoopInv

(* The process that is installed was counted when it was started. *)
LEMMA LoopInstall ==
  ASSUME IInv, LoopInv, MonInstall
  PROVE  LoopInv'
<1>1. /\ procs \in [Workers -> 1..MaxSpawns] /\ restarts \in [Incs -> 0..MaxRestarts]
      /\ monInc \in Incs /\ monInc[1] \in Workers /\ heals \in Nat
      /\ monInc = current(monInc[1])
  BY DEF IInv, TypeOK, WorkerTypeOK, ThreadTypeOK, MonitorInv, MonInstall, Incs
<1>2. /\ procs' = [procs EXCEPT ![monInc[1]] = @ + 1]
      /\ UNCHANGED <<restarts, heals, monInc>> /\ monPc = "install" /\ monPc' = "confirm"
  BY Zenon DEF MonInstall, retryVars, monGoto
<1> DEFINE paid == MaxRestarts * heals
<1>3. paid \in Nat /\ paid' = paid
  BY <1>1, <1>2
<1>4. \A v \in Workers : v # monInc[1] => procs'[v] = procs[v] /\ current(v)' = current(v)
  BY <1>1, <1>2, Zenon DEF current
<1>5. /\ procs'[monInc[1]] = procs[monInc[1]] + 1
      /\ \A v \in Workers : v = monInc[1] => current(v)' = next(monInc)
  BY <1>1, <1>2 DEF current, next
<1>6. /\ procs[monInc[1]] \in Nat /\ restarts[monInc] \in Nat
      /\ procs[monInc[1]] <= restarts[monInc] + paid
      /\ restarts[next(monInc)] = restarts[monInc]
  BY <1>1, <1>2 DEF LoopInv
<1>7. procs'[monInc[1]] <= 1 + restarts[next(monInc)] + paid
  <2> HIDE DEF paid
  <2> QED BY <1>3, <1>5, <1>6
<1>8. \A v \in Workers : procs'[v] <= 1 + restarts'[current(v)'] + paid'
  BY <1>2, <1>3, <1>4, <1>5, <1>7, Zenon DEF LoopInv
<1> QED
  BY <1>2, <1>8, Zenon DEF LoopInv

(* Every step preserves the count. *)
LEMMA LoopNext == IInv /\ LoopInv /\ [Next]_vars => LoopInv'
<1> SUFFICES ASSUME IInv, LoopInv, [Next]_vars PROVE LoopInv'
  BY Zenon
<1>1. CASE \E s \in Senders : Send(s)
  BY <1>1, LoopQuiet, Zenon DEF Send, SendCheckStop, SendLookup, SendUnknown, SendRegister,
     SendRecheck, SendWrite, SendReturn, listVars, retryVars, monVars
<1>2. CASE \E i \in Incs : WorkerHandle(i) \/ WorkerExit(i) \/ Reader(i)
  BY <1>2, LoopQuiet, Zenon DEF WorkerHandle, WorkerExit, Reader, ReaderTake, ReaderFulfill,
     listVars, retryVars, monVars
<1>3. CASE \E w \in Workers : MonHealthy(w)
  BY <1>3, LoopHealthy, Zenon
<1>4. CASE \E w \in Workers : MonVisitDead(w)
  <2>1. /\ UNCHANGED <<procs, restarts, heals>> /\ monPc' \in {"decide", "reap"}
    BY <1>4, Zenon DEF MonVisitDead, listVars, retryVars
  <2> QED BY <2>1, Zenon DEF LoopInv, current
<1>5. CASE \/ \E joined \in BOOLEAN : MonReap(joined)
           \/ MonFailTake \/ \E s \in Senders : MonFulfill(s)
           \/ MonFulfilled \/ MonExhausted \/ MonBackoff \/ MonSpawnFailed \/ MonConfirm
  <2>1. /\ UNCHANGED <<procs, restarts, heals>>
        /\ monPc' \in {"fail", "fulfill", "decide", "idle"}
    BY <1>5, Zenon DEF MonReap, MonFailTake, MonFulfill, MonFulfilled, MonExhausted, MonBackoff,
       MonSpawnFailed, MonConfirm, listVars, retryVars, monGoto, monIdle
  <2> QED BY <2>1, Zenon DEF LoopInv, current
<1>6. CASE MonRespawn
  BY <1>6, LoopRespawn, Zenon
<1>7. CASE MonLock
  <2>1. /\ UNCHANGED <<procs, restarts, heals>> /\ monPc = "lock"
        /\ monPc' = "idle" \/ (monPc' = "spawn" /\ monInc' = monInc)
    BY <1>7, Zenon DEF MonLock, retryVars, monGoto, monIdle
  <2> QED BY <2>1, Zenon DEF LoopInv, current
<1>8. CASE MonSpawn
  BY <1>8, LoopSpawn, Zenon
<1>9. CASE MonInstall
  BY <1>9, LoopInstall, Zenon
<1>10. CASE StopSet \/ StopStep
  BY <1>10, LoopQuiet, Zenon DEF StopSet, StopStep, StopList, StopSweep, StopFulfill, StopJoin,
     StopSnapshot, StopTerminate, StopWait, StopDone, listVars, retryVars, monVars
<1>11. CASE UNCHANGED vars
  BY <1>11, LoopQuiet, Zenon DEF vars, listVars, retryVars, monVars
<1> QED
  BY <1>1, <1>2, <1>3, <1>4, <1>5, <1>6, <1>7, <1>8, <1>9, <1>10, <1>11, Zenon DEF Next, MonitorStep

-----------------------------------------------------------------------------
(* The last word of a worker *)

(* Where a sender is once it has registered. *)
Registered == {"recheck", "write", "wait", "done"}

(* A step that neither speaks nor listens, nor takes entries from a map to *)
(* fail them: a sender may go on, a process may die, the monitor may turn  *)
(* to an incarnation that is not reported yet.                             *)
LEMMA HeardQuiet ==
  ASSUME HeardInv, spoken \subseteq Senders, stopFlag => stopFlag',
         \A i \in Incs : /\ pending'[i] \subseteq pending[i]
                         /\ declaredDead(i) => declaredDead(i)'
                         /\ life'[i] = "alive" => life[i] = "alive",
         \A s \in monFailing' : s \in monFailing /\ monInc' = monInc,
         monPc' = "reap" => \/ monPc = "reap" /\ monInc' = monInc
                            \/ life[monInc'] = "dead",
         \A s \in Senders : pc[s] \in Registered => pc'[s] \in Registered,
         UNCHANGED <<stdinOpen, outbox, held, spoken, verdict, target, fulfilled, result>>
  PROVE  HeardInv'
<1>1. ReapInv'
  BY Zenon DEF HeardInv, ReapInv, drained
<1>2. SpokenInv'
  BY Zenon DEF HeardInv, SpokenInv
<1>3. DiedInv'
  <2> SUFFICES ASSUME NEW s \in Senders, result[s] = "worker_died"
      PROVE  /\ pc'[s] \in Registered
             /\ target[s] \in Incs /\ life'[target[s]] \in {"reported", "exhausted"}
             /\ ~(monInc' = target[s] /\ monPc' = "reap")
    BY Zenon DEF DiedInv, Registered, declaredDead
  <2>1. /\ pc[s] \in Registered /\ target[s] \in Incs /\ declaredDead(target[s])
        /\ ~(monInc = target[s] /\ monPc = "reap")
    BY Zenon DEF HeardInv, DiedInv, Registered
  <2>2. life'[target[s]] \in {"reported", "exhausted"}
    BY <2>1, Zenon DEF declaredDead
  <2> QED BY <2>1, <2>2, Zenon DEF declaredDead
<1>4. LastWordHeard'
  BY Zenon DEF HeardInv, LastWordHeard
<1> QED
  BY <1>1, <1>2, <1>3, <1>4, Zenon DEF HeardInv

(* An entry is fulfilled: worker_died is said of a dead incarnation, and   *)
(* not of one that was drained after it had answered.                      *)
LEMMA HeardFulfill ==
  ASSUME TypeOK, HeardInv, NEW s \in Senders, NEW r, fulfill(s, r),
         \A i \in Incs : held'[i] = held[i] \/ (held'[i] = None /\ held[i][1] = s),
         r = "worker_died" /\ ~fulfilled[s] =>
           /\ pc[s] \in Registered
           /\ target[s] \in Incs /\ declaredDead(target[s]) /\ monPc # "reap"
           /\ s \in spoken => stdinOpen[target[s]] \/ stopFlag,
         monFailing' \subseteq monFailing,
         UNCHANGED <<stdinOpen, outbox, life, spoken, verdict, stopPc, pending, target, pc,
                     monPc, monInc>>
  PROVE  HeardInv'
<1>0. /\ fulfilled \in [Senders -> BOOLEAN] /\ result \in [Senders -> Results]
      /\ spoken \subseteq Senders
  BY Zenon DEF TypeOK, SenderTypeOK
<1>1. /\ fulfilled'[s] /\ \A u \in Senders : fulfilled[u] => fulfilled'[u]
      /\ \A u \in Senders : result'[u] = result[u] \/ (u = s /\ ~fulfilled[s] /\ result'[u] = r)
  BY <1>0, Zenon DEF fulfill
<1>2. ReapInv'
  BY Zenon DEF HeardInv, ReapInv, drained
<1>3. SpokenInv'
  <2> SUFFICES ASSUME NEW u \in spoken
      PROVE  /\ verdict[u] # "none" /\ target[u] \in Incs
             /\ ~stopFlag /\ u \in pending[target[u]] =>
                  \/ fulfilled'[u]
                  \/ held'[target[u]] # None /\ held'[target[u]][1] = u
                  \/ \E n \in DOMAIN outbox[target[u]] : outbox[target[u]][n][1] = u
             /\ ~stopFlag /\ u \in monFailing' /\ ~stdinOpen[monInc] => fulfilled'[u]
    BY Zenon DEF SpokenInv, stopFlag
  <2>1. verdict[u] # "none" /\ target[u] \in Incs /\ u \in Senders
    BY <1>0, Zenon DEF HeardInv, SpokenInv
  <2>2. ~stopFlag /\ u \in monFailing' /\ ~stdinOpen[monInc] => fulfilled'[u]
    BY <1>1, <2>1, Zenon DEF HeardInv, SpokenInv
  <2>3. held'[target[u]] = held[target[u]] \/ held[target[u]][1] = s
    BY <2>1, Zenon
  <2>4. ~stopFlag /\ u \in pending[target[u]] =>
          \/ fulfilled[u]
          \/ held[target[u]] # None /\ held[target[u]][1] = u
          \/ \E n \in DOMAIN outbox[target[u]] : outbox[target[u]][n][1] = u
    BY Zenon DEF HeardInv, SpokenInv
  <2> QED
    BY <1>1, <2>1, <2>2, <2>3, <2>4, Zenon
<1>4. DiedInv'
  BY <1>1 DEF HeardInv, DiedInv, declaredDead, Registered
<1>5. LastWordHeard'
  BY <1>1, Zenon DEF HeardInv, LastWordHeard, stopFlag
<1> QED
  BY <1>2, <1>3, <1>4, <1>5, Zenon DEF HeardInv

(* A sender that looks up its worker or registers has not been answered.   *)
LEMMA HeardRegister ==
  ASSUME IInv, AnswerInv, HeardInv, NEW s \in Senders,
         SendRegister(s) \/ \E w \in Workers : SendLookup(s, w)
  PROVE  HeardInv'
<1>0. /\ pc \in [Senders -> {"idle", "lookup", "register", "recheck", "write", "wait", "done"}]
      /\ target \in [Senders -> Incs \cup {None}] /\ pending \in [Incs -> SUBSET Senders]
      /\ spoken \subseteq Senders
  BY Zenon DEF IInv, TypeOK, SenderTypeOK, PipeTypeOK
<1>1. pc[s] \in {"lookup", "register"}
  BY Zenon DEF SendRegister, SendLookup
<1>2. s \notin spoken /\ result[s] # "worker_died"
  BY <1>1, Zenon DEF AnswerInv, SentInv, unsent, HeardInv, SpokenInv, DiedInv
<1>3. /\ \A u \in Senders \ {s} : target'[u] = target[u] /\ pc'[u] = pc[u]
      /\ \A i \in Incs : \A u \in Senders \ {s} : u \in pending'[i] <=> u \in pending[i]
      /\ UNCHANGED <<stdinOpen, outbox, held, life, spoken, verdict, stopPc, fulfilled, result,
                     monVars>>
  <2>1. CASE SendRegister(s)
    BY <1>0, <2>1 DEF SendRegister, return, goto, pipeVars, histVars, cmdVars, stopVars
  <2>2. CASE \E w \in Workers : SendLookup(s, w)
    BY <1>0, <2>2, Zenon DEF SendLookup, return, goto, pipeVars, histVars, cmdVars, stopVars
  <2> QED BY <2>1, <2>2, Zenon
<1>4. ReapInv'
  BY <1>3, Zenon DEF HeardInv, ReapInv, drained
<1>5. SpokenInv'
  <2>1. \A u \in spoken : /\ u \in Senders \ {s} /\ target'[u] = target[u] /\ target[u] \in Incs
                          /\ u \in pending'[target[u]] <=> u \in pending[target[u]]
    BY <1>0, <1>2, <1>3, Zenon DEF HeardInv, SpokenInv
  <2> QED
    BY <1>3, <2>1 DEF HeardInv, SpokenInv, stopFlag, monVars
<1>6. DiedInv'
  BY <1>2, <1>3, Zenon DEF HeardInv, DiedInv, declaredDead, monVars
<1>7. LastWordHeard'
  BY <1>2, <1>3, Zenon DEF HeardInv, LastWordHeard, stopFlag
<1> QED
  BY <1>4, <1>5, <1>6, <1>7, Zenon DEF HeardInv

(* A live worker answers into a pipe that nobody has closed. *)
LEMMA HeardHandle ==
  ASSUME IInv, AnswerInv, HeardInv, NEW i \in Incs, WorkerHandle(i)
  PROVE  HeardInv'
<1>0. /\ inbox \in [Incs -> Seq(Senders)] /\ outbox \in [Incs -> Seq(Line)]
      /\ verdict \in [Senders -> Statuses \cup {"none"}] /\ spoken \subseteq Senders
      /\ monFailing \subseteq Senders
  BY Zenon DEF IInv, TypeOK, PipeTypeOK, SenderTypeOK, ThreadTypeOK
<1> DEFINE h == Head(inbox[i])
<1>a. PICK s : s = h
  BY Zenon
<1>1. PICK status \in Statuses, emitted \in BOOLEAN :
        /\ verdict' = [verdict EXCEPT ![s] = status]
        /\ spoken' = IF emitted THEN spoken \cup {s} ELSE spoken
        /\ outbox' = IF emitted THEN [outbox EXCEPT ![i] = Append(@, <<s, status>>)] ELSE outbox
  BY <1>a, Zenon DEF WorkerHandle
<1>2. /\ life[i] = "alive" /\ inbox[i] # <<>>
      /\ UNCHANGED <<life, stdinOpen, held, pending, pc, target, fulfilled, result, monPc, monInc,
                     monFailing, stopPc>>
  BY Zenon DEF WorkerHandle, sendVars, cmdVars, stopVars, monVars
<1>3. s \in Senders /\ target[s] = i
  <2>1. inbox[i] \in Seq(Senders) /\ 1 \in DOMAIN inbox[i] /\ inbox[i][1] = s /\ s \in Senders
    BY <1>0, <1>2, <1>a
  <2> QED BY <2>1, Zenon DEF AnswerInv, SentInv
<1>4. \A u \in Senders : verdict'[u] # "none" <=> u = s \/ verdict[u] # "none"
  BY <1>0, <1>1, <1>3, Zenon DEF Statuses
<1>5. stdinOpen[i] /\ ~declaredDead(i)
  BY <1>2, Zenon DEF HeardInv, ReapInv, declaredDead
<1>6. s \notin monFailing
  <2>1. s \in monFailing => target[s] = monInc /\ monPc = "fulfill"
    BY Zenon DEF IInv, MapInv, MonitorInv
  <2>2. monPc = "fulfill" => declaredDead(monInc)
    BY Zenon DEF IInv, MonitorInv
  <2> QED BY <1>3, <1>5, <2>1, <2>2, Zenon
<1>7. result[s] # "worker_died"
  BY <1>3, <1>5, Zenon DEF HeardInv, DiedInv
<1>8. \A j \in Incs : j # i => outbox'[j] = outbox[j]
  BY <1>0, <1>1, Zenon
<1>9. \A n \in DOMAIN outbox[i] : n \in DOMAIN outbox'[i] /\ outbox'[i][n] = outbox[i][n]
  BY <1>0, <1>1
<1>10. emitted => \E n \in DOMAIN outbox'[i] : outbox'[i][n][1] = s
  <2>1. PICK q : q = outbox[i]
    BY Zenon
  <2>2. /\ q \in Seq(Line) /\ Len(q) + 1 \in DOMAIN Append(q, <<s, status>>)
        /\ Append(q, <<s, status>>)[Len(q) + 1] = <<s, status>>
    BY <1>0, <2>1
  <2>3. emitted => outbox'[i] = Append(q, <<s, status>>)
    BY <1>0, <1>1, <2>1, Zenon
  <2> QED BY <2>2, <2>3
<1>11. ReapInv'
  BY <1>2, <1>5, <1>8, Zenon DEF HeardInv, ReapInv, drained
<1>12. SpokenInv'
  <2> SUFFICES ASSUME NEW u \in spoken'
      PROVE  /\ verdict'[u] # "none" /\ target[u] \in Incs
             /\ ~stopFlag /\ u \in pending[target[u]] =>
                  \/ fulfilled[u]
                  \/ held[target[u]] # None /\ held[target[u]][1] = u
                  \/ \E n \in DOMAIN outbox'[target[u]] : outbox'[target[u]][n][1] = u
             /\ ~stopFlag /\ u \in monFailing /\ ~stdinOpen[monInc] => fulfilled[u]
    BY <1>2, Zenon DEF SpokenInv, stopFlag
  <2>1. CASE u \in spoken
    <3>1. /\ verdict[u] # "none" /\ target[u] \in Incs /\ u \in Senders
          /\ ~stopFlag /\ u \in pending[target[u]] =>
               \/ fulfilled[u]
               \/ held[target[u]] # None /\ held[target[u]][1] = u
               \/ \E n \in DOMAIN outbox[target[u]] : outbox[target[u]][n][1] = u
          /\ ~stopFlag /\ u \in monFailing /\ ~stdinOpen[monInc] => fulfilled[u]
      BY <1>0, <2>1, Zenon DEF HeardInv, SpokenInv
    <3>2. \A n \in DOMAIN outbox[target[u]] :
            n \in DOMAIN outbox'[target[u]] /\ outbox'[target[u]][n] = outbox[target[u]][n]
      BY <1>8, <1>9, <3>1, Zenon
    <3> QED BY <1>4, <3>1, <3>2, Zenon
  <2>2. CASE u \notin spoken
    <3>1. u = s /\ emitted
      BY <1>1, <2>2, Zenon
    <3> QED BY <1>3, <1>4, <1>6, <1>10, <3>1, Zenon
  <2> QED BY <2>1, <2>2, Zenon
<1>13. DiedInv'
  BY <1>2, Zenon DEF HeardInv, DiedInv, declaredDead
<1>14. LastWordHeard'
  BY <1>1, <1>2, <1>7, Zenon DEF HeardInv, LastWordHeard, stopFlag
<1> QED
  BY <1>11, <1>12, <1>13, <1>14, Zenon DEF HeardInv

(* While nobody stops, the reader drops the line of no entry in its map. *)
LEMMA HeardTake ==
  ASSUME IInv, HeardInv, NEW i \in Incs, ReaderTake(i)
  PROVE  HeardInv'
<1>0. outbox \in [Incs -> Seq(Line)] /\ held \in [Incs -> Line \cup {None}] /\ None \notin Line
  BY DEF IInv, TypeOK, PipeTypeOK, Line, None
<1>1. /\ held[i] = None /\ outbox[i] # <<>>
      /\ outbox' = [outbox EXCEPT ![i] = IF stopFlag THEN <<>> ELSE Tail(@)]
      /\ held' = [held EXCEPT ![i] = IF ~stopFlag /\ Head(outbox[i])[1] \in pending[i]
                                       THEN Head(outbox[i]) ELSE None]
      /\ UNCHANGED <<life, stdinOpen, spoken, verdict, stopPc, pending, pc, target, fulfilled,
                     result, monPc, monInc, monFailing>>
  BY Zenon DEF ReaderTake, sendVars, cmdVars, histVars, stopVars, monVars
<1>2. \A j \in Incs : j # i => outbox'[j] = outbox[j] /\ held'[j] = held[j]
  BY <1>0, <1>1, Zenon
<1>3. stdinOpen[i]
  BY <1>1, Zenon DEF HeardInv, ReapInv, drained
<1>4. ReapInv'
  BY <1>1, <1>2, <1>3, Zenon DEF HeardInv, ReapInv, drained
<1>5. SpokenInv'
  <2> SUFFICES ASSUME NEW u \in spoken, ~stopFlag, u \in pending[target[u]], ~fulfilled[u],
                      target[u] = i
      PROVE  \/ held'[i] # None /\ held'[i][1] = u
             \/ \E n \in DOMAIN outbox'[i] : outbox'[i][n][1] = u
    BY <1>1, <1>2 DEF HeardInv, SpokenInv, stopFlag
  <2>1. PICK q : q = outbox[i]
    BY Zenon
  <2>2. /\ q \in Seq(Line) /\ q # <<>> /\ Len(q) \in Nat /\ Head(q) = q[1] /\ Head(q) \in Line
        /\ DOMAIN q = 1..Len(q) /\ DOMAIN Tail(q) = 1..Len(q) - 1
        /\ \A n \in 1..Len(q) - 1 : Tail(q)[n] = q[n + 1]
    BY <1>0, <1>1, <2>1
  <2>3. /\ outbox'[i] = Tail(q)
        /\ held'[i] = IF Head(q)[1] \in pending[i] THEN Head(q) ELSE None
    BY <1>0, <1>1, <2>1, Zenon
  <2>4. PICK n \in 1..Len(q) : q[n][1] = u
    BY <1>1, <2>1, <2>2 DEF HeardInv, SpokenInv
  <2>5. CASE n = 1
    BY <1>0, <2>2, <2>3, <2>4, <2>5, Zenon
  <2>6. CASE n # 1
    <3>1. n - 1 \in 1..Len(q) - 1 /\ (n - 1) + 1 = n
      BY <2>2, <2>6
    <3>2. Tail(q)[n - 1] = q[n]
      BY <2>2, <3>1, Zenon
    <3> QED BY <2>2, <2>3, <2>4, <3>1, <3>2, Zenon
  <2> QED BY <2>5, <2>6, Zenon
<1>6. DiedInv'
  BY <1>1, Zenon DEF HeardInv, DiedInv, declaredDead
<1>7. LastWordHeard'
  BY <1>1, Zenon DEF HeardInv, LastWordHeard, stopFlag
<1> QED
  BY <1>4, <1>5, <1>6, <1>7, Zenon DEF HeardInv

(* _reap closes the pipes before any entry of the incarnation is failed. *)
LEMMA HeardReap ==
  ASSUME IInv, HeardInv, NEW joined \in BOOLEAN, MonReap(joined)
  PROVE  HeardInv'
<1>1. /\ monPc = "reap" /\ monPc' = "fail"
      /\ joined => drained(monInc)
      /\ stdinOpen' = IF joined THEN [stdinOpen EXCEPT ![monInc] = FALSE] ELSE stdinOpen
      /\ UNCHANGED <<life, outbox, held, spoken, verdict, stopPc, pending, pc, target, fulfilled,
                     result, monInc, monFailing>>
  BY Zenon DEF MonReap, monGoto, sendVars, cmdVars, histVars, stopVars
<1>2. /\ stdinOpen \in [Incs -> BOOLEAN] /\ monInc \in Incs /\ declaredDead(monInc)
      /\ monFailing = {}
  BY <1>1, Zenon DEF IInv, TypeOK, PipeTypeOK, ThreadTypeOK, MonitorInv, None
<1>3. /\ \A i \in Incs : i # monInc => stdinOpen'[i] = stdinOpen[i]
      /\ ~stdinOpen'[monInc] => ~stdinOpen[monInc] \/ drained(monInc)
  BY <1>1, <1>2, Zenon
<1>4. ReapInv'
  BY <1>1, <1>2, <1>3, Zenon DEF HeardInv, ReapInv, drained, declaredDead
<1>5. SpokenInv'
  BY <1>1, <1>2, Zenon DEF HeardInv, SpokenInv, stopFlag
<1>6. DiedInv'
  BY <1>1, Zenon DEF HeardInv, DiedInv, declaredDead
<1>7. LastWordHeard'
  <2>1. \A s \in Senders : result[s] = "worker_died" => target[s] \in Incs /\ target[s] # monInc
    BY <1>1, Zenon DEF HeardInv, DiedInv
  <2> QED
    BY <1>1, <1>3, <2>1, Zenon DEF HeardInv, LastWordHeard, stopFlag
<1> QED
  BY <1>4, <1>5, <1>6, <1>7, Zenon DEF HeardInv

(* An entry taken from a drained incarnation that had an answer has it. *)
LEMMA HeardFailTake ==
  ASSUME IInv, HeardInv, MonFailTake
  PROVE  HeardInv'
<1>1. /\ monPc = "fail" /\ monPc' = "fulfill" /\ monFailing' = pending[monInc]
      /\ pending' = [pending EXCEPT ![monInc] = {}]
      /\ UNCHANGED <<life, stdinOpen, outbox, held, spoken, verdict, stopPc, pc, target, fulfilled,
                     result, monInc>>
  BY Zenon DEF MonFailTake, pipeVars, sendVars, cmdVars, histVars, stopVars
<1>2. /\ monInc \in Incs /\ pending \in [Incs -> SUBSET Senders] /\ spoken \subseteq Senders
  BY <1>1, Zenon DEF IInv, TypeOK, PipeTypeOK, ThreadTypeOK, SenderTypeOK, MonitorInv, None
<1>3. \A i \in Incs : pending'[i] \subseteq pending[i]
  BY <1>1, <1>2, Zenon
<1>4. SpokenInv'
  <2> SUFFICES ASSUME NEW s \in spoken
      PROVE  /\ verdict[s] # "none" /\ target[s] \in Incs
             /\ ~stopFlag /\ s \in pending'[target[s]] =>
                  \/ fulfilled[s]
                  \/ held[target[s]] # None /\ held[target[s]][1] = s
                  \/ \E n \in DOMAIN outbox[target[s]] : outbox[target[s]][n][1] = s
             /\ ~stopFlag /\ s \in pending[monInc] /\ ~stdinOpen[monInc] => fulfilled[s]
    BY <1>1, Zenon DEF SpokenInv, stopFlag
  <2>1. /\ verdict[s] # "none" /\ target[s] \in Incs
        /\ ~stopFlag /\ s \in pending[target[s]] =>
             \/ fulfilled[s]
             \/ held[target[s]] # None /\ held[target[s]][1] = s
             \/ \E n \in DOMAIN outbox[target[s]] : outbox[target[s]][n][1] = s
    BY Zenon DEF HeardInv, SpokenInv
  <2>2. s \in pending[monInc] => target[s] = monInc
    BY <1>2, Zenon DEF IInv, MapInv
  <2>3. ~stdinOpen[monInc] => held[monInc] = None /\ DOMAIN outbox[monInc] = {}
    BY <1>2 DEF HeardInv, ReapInv, drained
  <2> QED
    BY <1>3, <2>1, <2>2, <2>3, Zenon
<1>5. ReapInv' /\ DiedInv' /\ LastWordHeard'
  BY <1>1, Zenon DEF HeardInv, ReapInv, DiedInv, LastWordHeard, drained, declaredDead, stopFlag
<1> QED
  BY <1>4, <1>5, Zenon DEF HeardInv

(* A new process has its pipes open and is nobody's target yet. *)
LEMMA HeardSpawn ==
  ASSUME IInv, HeardInv, MonSpawn
  PROVE  HeardInv'
<1>1. /\ monPc = "spawn" /\ monPc' = "install" /\ monInc[2] < MaxSpawns
      /\ life' = [life EXCEPT ![next(monInc)] = "alive"]
      /\ stdinOpen' = [stdinOpen EXCEPT ![next(monInc)] = TRUE]
      /\ UNCHANGED <<outbox, held, spoken, verdict, stopPc, pending, pc, target, fulfilled,
                     result, monInc, monFailing>>
  BY Zenon DEF MonSpawn, monGoto, sendVars, cmdVars, histVars, stopVars
<1>2. /\ monInc \in Incs /\ monInc = current(monInc[1]) /\ monFailing = {}
      /\ life \in [Incs -> {"unborn", "alive", "dead", "reported", "exhausted"}]
      /\ stdinOpen \in [Incs -> BOOLEAN] /\ procs \in [Workers -> 1..MaxSpawns]
  BY <1>1, Zenon DEF IInv, TypeOK, WorkerTypeOK, PipeTypeOK, ThreadTypeOK, MonitorInv, None
<1>3. next(monInc) \in Incs /\ ~declaredDead(next(monInc))
  <2>1. /\ monInc[1] \in Workers /\ monInc[2] \in 1..MaxSpawns /\ monInc[2] = procs[monInc[1]]
        /\ monInc[2] + 1 \in 1..MaxSpawns /\ monInc[2] + 1 > procs[monInc[1]]
    BY <1>1, <1>2 DEF Incs, current
  <2> QED
    BY <2>1, Zenon DEF IInv, IncarnationInv, Incs, next
<1>4. \A i \in Incs : IF i = next(monInc) THEN stdinOpen'[i]
                      ELSE stdinOpen'[i] = stdinOpen[i] /\ life'[i] = life[i]
  BY <1>1, <1>2, <1>3, Zenon
<1>5. ReapInv'
  BY <1>1, <1>4, Zenon DEF HeardInv, ReapInv, drained
<1>6. SpokenInv'
  BY <1>1, <1>2, Zenon DEF HeardInv, SpokenInv, stopFlag
<1>7. DiedInv'
  BY <1>1, <1>3, <1>4 DEF HeardInv, DiedInv, declaredDead
<1>8. LastWordHeard'
  <2>1. \A s \in Senders : result[s] = "worker_died" => target[s] \in Incs
    BY Zenon DEF HeardInv, DiedInv
  <2> QED
    BY <1>1, <1>4, <2>1 DEF HeardInv, LastWordHeard, stopFlag
<1> QED
  BY <1>5, <1>6, <1>7, <1>8, Zenon DEF HeardInv

(* Every step preserves what is known of the last words. *)
LEMMA HeardNext == IInv /\ AnswerInv /\ HeardInv /\ [Next]_vars => HeardInv'
<1> SUFFICES ASSUME IInv, AnswerInv, HeardInv, [Next]_vars PROVE HeardInv'
  BY Zenon
<1>0. TypeOK /\ spoken \subseteq Senders /\ "worker_died" \notin Statuses
  BY Zenon DEF IInv, TypeOK, SenderTypeOK, Statuses
<1>1. ASSUME NEW s \in Senders, Send(s) PROVE HeardInv'
  <2>1. CASE SendRegister(s) \/ \E w \in Workers : SendLookup(s, w)
    BY <2>1, HeardRegister, Zenon
  <2>2. CASE SendCheckStop(s) \/ SendUnknown(s) \/ SendRecheck(s) \/ SendWrite(s) \/ SendReturn(s)
    <3>1. /\ pending \in [Incs -> SUBSET Senders]
          /\ pc \in [Senders -> {"idle", "lookup", "register", "recheck", "write", "wait", "done"}]
      BY <1>0, Zenon DEF TypeOK, PipeTypeOK, SenderTypeOK
    <3>2. \A i \in Incs : pending'[i] \subseteq pending[i]
      BY <2>2, <3>1, Zenon DEF SendCheckStop, SendUnknown, SendRecheck, SendWrite, SendReturn, pop
    <3>3. \A u \in Senders : pc[u] \in Registered => pc'[u] \in Registered
      BY <2>2, <3>1, Zenon DEF SendCheckStop, SendUnknown, SendRecheck, SendWrite, SendReturn, goto,
         return, Registered
    <3>4. UNCHANGED <<life, stdinOpen, outbox, held, spoken, verdict, target, fulfilled, result,
                      monPc, monInc, monFailing, stopPc>>
      BY <2>2, Zenon DEF SendCheckStop, SendUnknown, SendRecheck, SendWrite, SendReturn, pipeVars,
         cmdVars, histVars, monVars, stopVars
    <3> QED BY <1>0, <3>2, <3>3, <3>4, HeardQuiet, Zenon DEF declaredDead, stopFlag
  <2> QED
    BY <1>1, <2>1, <2>2, Zenon DEF Send
<1>2. ASSUME NEW i \in Incs, WorkerExit(i) \/ StopWait(i) PROVE HeardInv'
  <2>1. /\ \A j \in Incs : life'[j] = life[j] \/ (life[j] = "alive" /\ life'[j] = "dead")
        /\ UNCHANGED <<stdinOpen, outbox, held, spoken, verdict, pending, pc, target, fulfilled,
                       result, monPc, monInc, monFailing, stopPc>>
    BY <1>0, <1>2, Zenon DEF WorkerExit, StopWait, TypeOK, WorkerTypeOK, sendVars, cmdVars,
       histVars, monVars, stopVars
  <2> QED BY <1>0, <2>1, HeardQuiet, Zenon DEF declaredDead, stopFlag
<1>3. ASSUME NEW i \in Incs, ReaderFulfill(i) PROVE HeardInv'
  <2>1. /\ held[i] # None /\ fulfill(held[i][1], held[i][2])
        /\ held' = [held EXCEPT ![i] = None]
        /\ UNCHANGED <<stdinOpen, outbox, life, spoken, verdict, stopPc, pending, target, pc,
                       monPc, monInc, monFailing>>
    BY <1>3, Zenon DEF ReaderFulfill, sendVars, histVars, monVars, stopVars
  <2>2. /\ held[i][1] \in Senders /\ held[i][2] \in Statuses
        /\ \A j \in Incs : held'[j] = held[j] \/ (held'[j] = None /\ held[j][1] = held[i][1])
    BY <1>0, <2>1, Zenon DEF TypeOK, PipeTypeOK, Line
  <2> QED BY <1>0, <2>1, <2>2, HeardFulfill, Zenon
<1>4. ASSUME NEW w \in Workers, MonHealthy(w) \/ MonVisitDead(w) PROVE HeardInv'
  <2>1. /\ UNCHANGED <<stdinOpen, outbox, held, spoken, verdict, pending, pc, target, fulfilled,
                       result, monFailing, stopPc>>
        /\ monFailing = {}
    BY <1>4, Zenon DEF MonHealthy, MonVisitDead, pipeVars, sendVars, cmdVars, histVars, monVars,
       stopVars, IInv, MonitorInv
  <2>2. CASE MonHealthy(w)
    BY <1>0, <2>1, <2>2, HeardQuiet, Zenon DEF MonHealthy, monVars, declaredDead, stopFlag
  <2>3. CASE MonVisitDead(w)
    <3>1. /\ \A i \in Incs : life'[i] = life[i] \/ life'[i] = "reported"
          /\ monInc' = current(w) /\ monInc' \in Incs
          /\ monPc' = "reap" => life[monInc'] = "dead"
      BY <1>0, <2>3, Zenon DEF MonVisitDead, TypeOK, WorkerTypeOK, current, Incs
    <3> QED BY <1>0, <2>1, <3>1, HeardQuiet, Zenon DEF declaredDead, stopFlag
  <2> QED BY <1>4, <2>2, <2>3, Zenon
<1>5. ASSUME NEW s \in Senders, MonFulfill(s) PROVE HeardInv'
  <2>1. /\ monPc = "fulfill" /\ s \in monFailing /\ fulfill(s, "worker_died")
        /\ monFailing' = monFailing \ {s}
        /\ UNCHANGED <<stdinOpen, outbox, held, life, spoken, verdict, stopPc, pending, target, pc,
                       monPc, monInc>>
    BY <1>5, Zenon DEF MonFulfill, pipeVars, sendVars, histVars, stopVars
  <2>2. target[s] = monInc /\ pc[s] \in Registered /\ monInc \in Incs /\ declaredDead(monInc)
    BY <2>1, Zenon DEF IInv, MapInv, MonitorInv, TypeOK, ThreadTypeOK, None, Registered
  <2>3. s \in spoken /\ ~fulfilled[s] => stdinOpen[target[s]] \/ stopFlag
    BY <2>1, <2>2, Zenon DEF HeardInv, SpokenInv
  <2> QED BY <1>0, <2>1, <2>2, <2>3, HeardFulfill, Zenon
<1>6. CASE \/ MonFulfilled \/ MonExhausted \/ MonBackoff \/ MonRespawn
           \/ MonLock \/ MonSpawnFailed \/ MonInstall \/ MonConfirm
  <2>1. /\ \A i \in Incs : life'[i] = life[i] \/ (life'[i] = "exhausted" /\ life[i] # "alive")
        /\ UNCHANGED <<stdinOpen, outbox, held, spoken, verdict, pending, pc, target, fulfilled,
                       result, monFailing, stopPc>>
        /\ monPc' # "reap"
    <3>1. MonExhausted => life[monInc] # "alive" /\ monInc \in Incs
      BY Zenon DEF MonExhausted, IInv, MonitorInv, declaredDead, TypeOK, ThreadTypeOK, None
    <3> QED
      BY <1>0, <1>6, <3>1, Zenon DEF MonFulfilled, MonExhausted, MonBackoff, MonRespawn, MonLock,
         MonSpawnFailed, MonInstall, MonConfirm, monGoto, monIdle, pipeVars, sendVars, cmdVars,
         histVars, stopVars, TypeOK, WorkerTypeOK
  <2>2. monFailing = {}
    BY <1>6, Zenon DEF MonFulfilled, MonExhausted, MonBackoff, MonRespawn, MonLock,
       MonSpawnFailed, MonInstall, MonConfirm, IInv, MonitorInv
  <2> QED BY <1>0, <2>1, <2>2, HeardQuiet, Zenon DEF declaredDead, stopFlag
<1>7. ASSUME NEW s \in Senders, StopFulfill(s) PROVE HeardInv'
  <2>1. /\ fulfill(s, "worker_unavailable")
        /\ UNCHANGED <<stdinOpen, outbox, held, life, spoken, verdict, stopPc, pending, target, pc,
                       monPc, monInc, monFailing>>
    BY <1>7, Zenon DEF StopFulfill, pipeVars, sendVars, histVars, monVars
  <2> QED BY <1>0, <2>1, HeardFulfill, Zenon
<1>8. CASE \/ StopSet \/ StopList \/ \E i \in Incs : StopSweep(i)
           \/ StopJoin \/ StopSnapshot \/ StopTerminate \/ StopDone
  <2>1. UNCHANGED <<life, stdinOpen, outbox, held, spoken, verdict, pc, target, fulfilled,
                    result, monPc, monInc, monFailing>> /\ stopPc' # "run"
    BY <1>8, Zenon DEF StopSet, StopList, StopSweep, StopJoin, StopSnapshot, StopTerminate,
       StopDone, stopGoto, pipeVars, sendVars, cmdVars, histVars, monVars
  <2>2. \A j \in Incs : pending'[j] \subseteq pending[j]
    BY <1>0, <1>8, Zenon DEF StopSet, StopList, StopSweep, StopJoin, StopSnapshot, StopTerminate,
       StopDone, TypeOK, PipeTypeOK
  <2> QED BY <1>0, <2>1, <2>2, HeardQuiet, Zenon DEF declaredDead, stopFlag
<1>9. CASE UNCHANGED vars
  BY <1>0, <1>9, HeardQuiet, Zenon DEF vars, pipeVars, sendVars, cmdVars, histVars, monVars,
     stopVars, declaredDead, stopFlag
<1> QED
  BY <1>1, <1>2, <1>3, <1>4, <1>5, <1>6, <1>7, <1>8, <1>9, HeardHandle, HeardTake, HeardReap,
     HeardFailTake, HeardSpawn, Zenon DEF Next, Reader, MonitorStep, StopStep

-----------------------------------------------------------------------------
(* Every step preserves the invariant. *)
LEMMA NextInv == IInv /\ [Next]_vars => IInv'
<1> SUFFICES ASSUME IInv, [Next]_vars PROVE IInv'
  BY Zenon
<1>1. CASE \E s \in Senders : Send(s)
  BY <1>1, SendCheckStopInv, SendLookupInv, SendUnknownInv, SendRegisterInv,
     SendRecheckInv, SendWriteInv, SendReturnInv, Zenon DEF Send
<1>2. CASE \E i \in Incs : WorkerHandle(i) \/ WorkerExit(i) \/ Reader(i)
  BY <1>2, WorkerHandleInv, WorkerExitInv, ReaderTakeInv, ReaderFulfillInv, Zenon
  DEF Reader
<1>3. CASE \E w \in Workers : MonHealthy(w) \/ MonVisitDead(w)
  BY <1>3, MonHealthyInv, MonVisitDeadInv, Zenon
<1>4. CASE MonitorStep \/ MonRespawn
  BY <1>4, MonReapInv, MonFailTakeInv, MonFulfillInv, MonFulfilledInv,
     MonExhaustedInv, MonBackoffInv, MonRespawnInv, MonLockInv, MonSpawnInv,
     MonSpawnFailedInv, MonInstallInv, MonConfirmInv, Zenon DEF MonitorStep
<1>5. CASE StopSet \/ StopStep
  BY <1>5, StopSetInv, StopListInv, StopSweepInv, StopFulfillInv, StopJoinInv,
     StopSnapshotInv, StopTerminateInv, StopWaitInv, StopDoneInv, Zenon DEF StopStep
<1>6. CASE UNCHANGED vars
  <2> USE <1>6 DEF vars, listVars, retryVars, pipeVars, sendVars, cmdVars,
          histVars, monVars, stopVars
  <2>1. TypeOK'
    BY DEF IInv, TypeOK, WorkerTypeOK, PipeTypeOK, SenderTypeOK, ThreadTypeOK
  <2>2. MonitorInv' /\ IncarnationInv' /\ StopInv' /\ TargetInv' /\ EntryInv'
    BY Zenon DEF IInv, MonitorInv, IncarnationInv, StopInv, TargetInv, EntryInv,
       current, declaredDead
  <2>3. MapInv' /\ DeadInv' /\ SweepInv' /\ OrphanInv'
    BY Zenon DEF IInv, MapInv, DeadInv, SweepInv, OrphanInv, swept, current,
       declaredDead
  <2> QED
    BY <2>1, <2>2, <2>3, Zenon DEF IInv
<1> QED
  BY <1>1, <1>2, <1>3, <1>4, <1>5, <1>6, Zenon DEF Next

(* The invariant holds in every reachable state. *)
THEOREM Invariance == Spec => []IInv
BY InitInv, NextInv, PTL DEF Spec

(* Type correctness of the supervisor, its worker list and its threads. *)
THEOREM TypeCorrect == Spec => []TypeOK
<1>1. IInv => TypeOK
  BY Zenon DEF IInv
<1> QED
  BY <1>1, Invariance, PTL

(* No call of send_worker_command sits out its timeout on a dead worker or *)
(* on a stopping supervisor, for any number of workers and callers.        *)
THEOREM SendersAnswered == Spec => []NoStrandedWaiter
<1>1. IInv => NoStrandedWaiter
  <2> SUFFICES ASSUME IInv, NEW s \in Senders, waiting(s)
               PROVE  /\ declaredDead(target[s]) =>
                           beingFailed(target[s]) \/ s \in stopFailing
                      /\ stopPc \in {"snapshot", "terminate", "wait", "done"} =>
                           beingFailed(target[s])
    BY Zenon DEF NoStrandedWaiter
  <2>1. pc[s] = "wait" /\ target[s] \in Incs
    BY Zenon DEF waiting, IInv, TargetInv
  <2>2. s \in pending[target[s]] \/ s \in monFailing \/ s \in stopFailing
    BY <2>1, Zenon DEF waiting, IInv, EntryInv
  <2>3. CASE s \in pending[target[s]]
    <3>1. declaredDead(target[s]) => beingFailed(target[s])
      BY <2>1, <2>3, Zenon DEF IInv, DeadInv, beingFailed
    <3>2. swept(target[s]) => declaredDead(target[s])
      BY <2>1, <2>3, Zenon DEF IInv, SweepInv
    <3> QED
      BY <3>1, <3>2, Zenon DEF swept
  <2>4. CASE s \in monFailing
    BY <2>4, Zenon DEF IInv, MapInv, MonitorInv, beingFailed
  <2>5. CASE s \in stopFailing
    BY <2>5, Zenon DEF IInv, StopInv
  <2> QED
    BY <2>2, <2>3, <2>4, <2>5, Zenon
<1> QED
  BY <1>1, Invariance, PTL

(* At most one process of a worker is alive, through every restart. *)
THEOREM SingleIncarnation == Spec => []OneLiveIncarnation
<1>1. IInv => OneLiveIncarnation
  <2> SUFFICES ASSUME IInv, NEW w \in Workers, NEW j \in 1..MaxSpawns,
                      life[<<w, j>>] = "alive"
               PROVE  \/ j = procs[w]
                      \/ /\ j = procs[w] + 1
                         /\ life[<<w, procs[w]>>] # "alive"
    BY Zenon DEF OneLiveIncarnation, IInv, TypeOK, WorkerTypeOK
  <2>1. procs[w] \in 1..MaxSpawns
    BY Zenon DEF IInv, TypeOK, WorkerTypeOK
  <2>2. ~(j < procs[w])
    BY Zenon DEF IInv, IncarnationInv, declaredDead
  <2>3. CASE j > procs[w]
    <3>1. monPc = "install" /\ <<w, j>> = next(monInc)
      BY <2>3, Zenon DEF IInv, IncarnationInv
    <3>2. monInc = current(monInc[1]) /\ declaredDead(monInc)
      BY <3>1, Zenon DEF IInv, MonitorInv
    <3>3. monInc = <<w, procs[w]>> /\ j = procs[w] + 1
      BY <3>1, <3>2 DEF next, current
    <3> QED
      BY <3>2, <3>3, Zenon DEF declaredDead
  <2> QED
    BY <2>1, <2>2, <2>3
<1> QED
  BY <1>1, Invariance, PTL

(* A stop() that is through, with a monitor that is through, leaves no     *)
(* live worker without its signal.                                         *)
THEOREM NoOrphans == Spec => []NoOrphanWorker
<1>1. IInv => NoOrphanWorker
  <2> SUFFICES ASSUME IInv, stopPc = "done", monPc = "idle",
                      NEW w \in Workers, NEW k \in 1..MaxSpawns,
                      life[<<w, k>>] = "alive"
               PROVE  termSent[<<w, k>>]
    BY DEF NoOrphanWorker, Incs
  <2>1. k = procs[w]
    BY DEF IInv, IncarnationInv, declaredDead, TypeOK, WorkerTypeOK
  <2> QED
    BY <2>1, Zenon DEF IInv, OrphanInv, current
<1> QED
  BY <1>1, Invariance, PTL

(* Whatever thread fulfils a command first, its result is the one that     *)
(* stays: no step overwrites the result of a fulfilled command.            *)
THEOREM FirstFulfilment == Spec => FirstFulfilmentStands
<1>1. ASSUME IInv, [Next]_vars
      PROVE  [\A s \in Senders : fulfilled[s] => result'[s] = result[s]]_vars
  <2> SUFFICES ASSUME NEW s \in Senders, fulfilled[s]
               PROVE  result'[s] = result[s]
    BY Zenon
  <2>0. result \in [Senders -> Results]
    BY <1>1, Zenon DEF IInv, TypeOK, SenderTypeOK
  <2>1. ASSUME NEW t, NEW r, fulfill(t, r) PROVE result'[s] = result[s]
    BY <2>0, <2>1, Zenon DEF fulfill
  <2>2. CASE \E t \in Senders : Send(t)
    BY <2>2, Zenon DEF Send, SendCheckStop, SendLookup, SendUnknown, SendRegister,
       SendRecheck, SendWrite, SendReturn, cmdVars
  <2>3. CASE \E i \in Incs : WorkerHandle(i) \/ WorkerExit(i) \/ Reader(i)
    BY <2>1, <2>3, Zenon DEF WorkerHandle, WorkerExit, Reader, ReaderTake,
       ReaderFulfill, cmdVars
  <2>4. CASE \E w \in Workers : MonHealthy(w) \/ MonVisitDead(w)
    BY <2>4, Zenon DEF MonHealthy, MonVisitDead, cmdVars
  <2>5. CASE MonitorStep \/ MonRespawn
    BY <2>1, <2>5, Zenon DEF MonitorStep, MonReap, MonFailTake, MonFulfill,
       MonFulfilled, MonExhausted, MonBackoff, MonRespawn, MonLock, MonSpawn,
       MonSpawnFailed, MonInstall, MonConfirm, cmdVars
  <2>6. CASE StopSet \/ StopStep
    BY <2>1, <2>6, Zenon DEF StopSet, StopStep, StopList, StopSweep, StopFulfill,
       StopJoin, StopSnapshot, StopTerminate, StopWait, StopDone, cmdVars
  <2>7. CASE UNCHANGED vars
    BY <2>7, Zenon DEF vars, cmdVars
  <2> QED
    BY <1>1, <2>2, <2>3, <2>4, <2>5, <2>6, <2>7, Zenon DEF Next
<1> QED
  BY <1>1, Invariance, PTL DEF Spec, FirstFulfilmentStands

(* Without healthy periods a worker is started restart_max_attempts times  *)
(* after the first, and each healthy period buys as many, for any number   *)
(* of workers and any bounds.                                              *)
THEOREM CrashLoopsEnd == Spec => []CrashLoopBounded
<1>1. Init => LoopInv
  <2> SUFFICES ASSUME Init PROVE LoopInv
    BY Zenon
  <2>1. \A w \in Workers : procs[w] = 1 /\ restarts[current(w)] = 0
    BY DEF Init, current, Incs
  <2>2. heals = 0 /\ MaxRestarts * heals = 0 /\ monPc = "idle"
    BY DEF Init
  <2> QED BY <2>1, <2>2 DEF LoopInv
<1>2. IInv /\ LoopInv => CrashLoopBounded
  <2> SUFFICES ASSUME IInv, LoopInv, NEW w \in Workers
               PROVE  procs[w] <= 1 + MaxRestarts * (1 + heals)
    BY Zenon DEF CrashLoopBounded
  <2>1. /\ procs[w] \in Nat /\ restarts[current(w)] \in 0..MaxRestarts /\ heals \in Nat
        /\ procs[w] <= 1 + restarts[current(w)] + MaxRestarts * heals
    BY DEF IInv, TypeOK, WorkerTypeOK, LoopInv, current, Incs
  <2> DEFINE paid == MaxRestarts * heals
             more == MaxRestarts * (1 + heals)
  <2>2. paid \in Nat /\ more = paid + MaxRestarts
    BY <2>1
  <2>3. procs[w] <= 1 + restarts[current(w)] + paid
    BY <2>1, Zenon
  <2>4. procs[w] <= 1 + more
    <3> HIDE DEF paid, more
    <3> QED BY <2>1, <2>2, <2>3
  <2> QED BY <2>4, Zenon
<1> QED
  BY <1>1, <1>2, LoopNext, Invariance, PTL DEF Spec

(* A sender is told accepted or rejected only as the worker decided on its *)
(* own command, and unavailable, while nobody stops, only of a command     *)
(* that had no effect, for any number of senders and workers.              *)
THEOREM AnswersFaithful == Spec => []AnswerFaithful
<1>1. AnswerInv => AnswerFaithful
  BY Zenon DEF AnswerInv
<1> QED
  BY <1>1, AnswerInit, AnswerNext, Invariance, PTL DEF Spec

(* A sender whose worker wrote a result before it died is told so, unless  *)
(* the reader outlived the join of _reap or the supervisor is stopping.    *)
THEOREM LastWordsHeard == Spec => []LastWordHeard
<1>1. Init => AnswerInv /\ HeardInv
  <2> SUFFICES ASSUME Init PROVE AnswerInv /\ HeardInv
    BY Zenon
  <2>1. \A i \in Incs : outbox[i] = <<>> /\ held[i] = None /\ (life[i] = "alive" <=> stdinOpen[i])
    BY Zenon DEF Init
  <2>2. spoken = {} /\ \A s \in Senders : result[s] = "timeout"
    BY Zenon DEF Init
  <2> QED
    BY <2>1, <2>2, AnswerInit, Zenon DEF HeardInv, ReapInv, drained, SpokenInv, DiedInv,
      LastWordHeard
<1>2. HeardInv => LastWordHeard
  BY Zenon DEF HeardInv
<1> QED
  BY <1>1, <1>2, AnswerNext, HeardNext, Invariance, PTL DEF Spec
=============================================================================
