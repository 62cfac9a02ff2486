-------------------------- MODULE EventStoreProofs --------------------------
(***************************************************************************)
(* The journal's chain, the order of the two stores and the accounting of  *)
(* the persistence_failing reports, for any number of events, days, faults *)
(* and restarts, any window and any threshold.                             *)
(***************************************************************************)
EXTENDS EventStore, FiniteSetTheorems, SequenceTheorems, TLAPS

(* The digest a chain goes on from: of its last line, or ZERO_HASH. *)
endHash(lines) == IF lines = <<>> THEN 0 ELSE hash(Last(lines))

(* The files: none exists for a day to come, one that was never opened has *)
(* no lines, and only the open one has a member under way.                 *)
FilesInv ==
  /\ \A d \in Days : d > day => ~exists[d]
  /\ \A d \in Days : ~exists[d] => file[d] = <<>> /\ ~torn[d]
  /\ handle # 0 => handle <= day /\ exists[handle]
  /\ handle = 0 => tail = <<>>
  /\ closed => handle = 0
  /\ life = "crashed" => tail = <<>>

(* _prev_hash is what the open chain goes on from; without a handle it is  *)
(* still ZERO_HASH when today's file turns out to be there but empty.  A   *)
(* dead process remembers nothing.                                         *)
PrevInv ==
  life # "crashed" =>
    /\ handle # 0 => prevHash = endHash(linesOf(handle))
    /\ handle # day /\ exists[day] /\ file[day] = <<>> /\ ~torn[day] /\ ~closed => prevHash = 0

(* A process that is gone has no drain thread; one past stop() has closed  *)
(* its journal.                                                            *)
LifeInv ==
  /\ life \in {"down", "crashed"} => pc = "gone"
  /\ life \in {"closed", "down"} => closed

(* The event between the two stores is in the first of them. *)
HeldInv == pc \in {"database", "project"} => ev \in Journaled \cup lost

(* A process is silent about an outage only after it reported one. *)
CoolInv == cooling => reports > 0

JournalInv == JournalTypeOK /\ FilesInv /\ PrevInv /\ ChainValid
DrainInv   == DrainTypeOK /\ LifeInv /\ HeldInv /\ RowsJournaled
HealthInv  == HealthTypeOK /\ CoolInv /\ ReportsPaid /\ OutageReported
IInv       == JournalInv /\ DrainInv /\ HealthInv

-----------------------------------------------------------------------------
(* The window of outcomes: how a new outcome changes its failures. *)

(* The failures of a window can be counted. *)
LEMMA FailuresCounted ==
  ASSUME NEW w \in Seq(BOOLEAN)
  PROVE  IsFiniteSet({i \in DOMAIN w : w[i]}) /\ failures(w) \in Nat
<1>1. IsFiniteSet(1..Len(w))
  BY FS_Interval
<1>2. {i \in DOMAIN w : w[i]} \in SUBSET (1..Len(w))
  OBVIOUS
<1>3. IsFiniteSet({i \in DOMAIN w : w[i]})
  BY <1>1, <1>2, FS_Subset, Zenon
<1>. QED BY <1>3, FS_CardinalityType, Zenon DEF failures

(* A new window is empty. *)
LEMMA EmptyWindow ==
  /\ <<>> \in Seq(BOOLEAN) /\ Len(<<>>) = 0 /\ 0 <= Window
  /\ failures(<<>>) = 0
<1>1. {i \in DOMAIN <<>> : <<>>[i]} = {}
  OBVIOUS
<1>2. failures(<<>>) = 0
  BY <1>1, FS_EmptySet, Zenon DEF failures
<1>3. 0 <= Window
  BY EventStoreAssumption
<1>. QED BY <1>2, <1>3

(* An outcome at the end counts if it is a failure. *)
LEMMA FailuresAppend ==
  ASSUME NEW w \in Seq(BOOLEAN), NEW b \in BOOLEAN
  PROVE  failures(Append(w, b)) = failures(w) + (IF b THEN 1 ELSE 0)
<1> DEFINE S == {i \in DOMAIN w : w[i]}
           n == Len(w) + 1
<1>1. IsFiniteSet(S) /\ n \notin S /\ failures(w) \in Nat
  BY FailuresCounted
<1>2. CASE b
  <2>1. {i \in DOMAIN Append(w, b) : Append(w, b)[i]} = S \cup {n}
    BY <1>2
  <2>2. Cardinality(S \cup {n}) = Cardinality(S) + 1
    BY <1>1, FS_AddElement, Zenon
  <2>. QED BY <1>2, <2>1, <2>2, Zenon DEF failures
<1>3. CASE ~b
  <2>1. {i \in DOMAIN Append(w, b) : Append(w, b)[i]} = S
    BY <1>3
  <2>2. failures(Append(w, b)) = failures(w)
    BY <2>1, Zenon DEF failures
  <2>. QED BY <1>1, <1>3, <2>2
<1>. QED BY <1>2, <1>3, Zenon

(* The outcome that leaves at the front takes at most its own failure. *)
LEMMA FailuresTail ==
  ASSUME NEW w \in Seq(BOOLEAN), w # <<>>
  PROVE  failures(Tail(w)) <= failures(w)
<1> DEFINE S == {i \in DOMAIN Tail(w) : Tail(w)[i]}
           T == {i \in DOMAIN w : w[i]}
           f == [i \in S |-> i + 1]
<1>1. IsFiniteSet(T)
  BY FailuresCounted, Zenon
<1>2. \A i \in S : i \in Nat /\ i + 1 \in T
  OBVIOUS
<1>3. f \in [S -> T] /\ \A i, j \in S : f[i] = f[j] => i = j
  BY <1>2
<1>4. f \in Injection(S, T)
  BY <1>3, Zenon DEF Injection, IsInjective
<1>5. Cardinality(S) <= Cardinality(T)
  BY <1>1, <1>4, FS_Injection, Zenon
<1>. QED BY <1>5, Zenon DEF failures

(* recorded: the deque keeps its maxlen, and a success adds no failure. *)
LEMMA Recorded ==
  ASSUME HealthTypeOK, NEW b \in BOOLEAN
  PROVE  /\ recorded(b) \in Seq(BOOLEAN) /\ Len(recorded(b)) <= Window
         /\ failures(recorded(b)) \in Nat
         /\ failures(recorded(b)) <= failures(outcomes) + (IF b THEN 1 ELSE 0)
<1> DEFINE w == Append(outcomes, b)
<1>1. outcomes \in Seq(BOOLEAN) /\ Len(outcomes) <= Window /\ failures(outcomes) \in Nat
  BY FailuresCounted, Zenon DEF HealthTypeOK
<1>2. w \in Seq(BOOLEAN) /\ w # <<>> /\ Len(w) = Len(outcomes) + 1
  BY <1>1, AppendProperties
<1>3. failures(w) = failures(outcomes) + (IF b THEN 1 ELSE 0)
  BY <1>1, FailuresAppend, Zenon
<1>4. recorded(b) = IF Len(w) > Window THEN Tail(w) ELSE w
  BY Zenon DEF recorded
<1> HIDE DEF w
<1>5. Tail(w) \in Seq(BOOLEAN) /\ Len(Tail(w)) = Len(outcomes)
  BY <1>1, <1>2, HeadTailProperties
<1>6. failures(Tail(w)) <= failures(w) /\ failures(w) \in Nat /\ failures(Tail(w)) \in Nat
  BY <1>2, <1>5, FailuresTail, FailuresCounted, Zenon
<1>7. CASE Len(w) > Window
  BY <1>1, <1>3, <1>4, <1>5, <1>6, <1>7
<1>8. CASE ~(Len(w) > Window)
  BY <1>1, <1>2, <1>3, <1>4, <1>6, <1>8, EventStoreAssumption
<1>. QED BY <1>7, <1>8, Zenon

-----------------------------------------------------------------------------
(* The lines of the files under the journal's operations. *)

(* A chain that verifies does so up to any line of it. *)
LEMMA ChainPrefix ==
  ASSUME NEW s \in Seq(Nat \X Nat), NEW t \in Seq(Nat \X Nat), verifyChain(s \o t)
  PROVE  verifyChain(s)
<1>1. DOMAIN s = 1..Len(s) /\ Len(s) \in Nat /\ Len(t) \in Nat
  BY LenProperties, Zenon
<1>2. DOMAIN (s \o t) = 1..(Len(s) + Len(t))
  BY ConcatProperties, LenProperties
<1>3. \A i \in 1..Len(s) : (s \o t)[i] = s[i]
  BY <1>1, ConcatProperties
<1>4. \A i \in 1..Len(s) : i \in DOMAIN (s \o t) /\ (i # 1 => i - 1 \in 1..Len(s))
  BY <1>1, <1>2
<1>. QED BY <1>1, <1>3, <1>4 DEF verifyChain

(* append: a line that carries the digest of the one before extends the    *)
(* chain, and the chain then goes on from that line.                       *)
LEMMA ChainAppend ==
  ASSUME NEW s \in Seq(Nat \X Nat), NEW n \in Nat, verifyChain(s)
  PROVE  LET t == Append(s, <<n, endHash(s)>>)
         IN  t \in Seq(Nat \X Nat) /\ verifyChain(t) /\ endHash(t) = n
<1> DEFINE t == Append(s, <<n, endHash(s)>>)
<1>1. endHash(s) \in Nat
  BY LenProperties, EmptySeq, ElementOfSeq DEF endHash, hash, Last
<1>2. /\ t \in Seq(Nat \X Nat) /\ t # <<>> /\ Len(t) = Len(s) + 1
      /\ \A i \in 1..Len(s) : t[i] = s[i]
      /\ t[Len(s) + 1] = <<n, endHash(s)>>
  BY <1>1, AppendProperties
<1>3. Len(s) \in Nat /\ DOMAIN t = 1..(Len(s) + 1) /\ DOMAIN s = 1..Len(s)
  BY <1>2, LenProperties, Zenon
<1> HIDE DEF t
<1>4. ASSUME NEW i \in DOMAIN t
      PROVE  t[i][2] = IF i = 1 THEN 0 ELSE hash(t[i - 1])
  <2>0. i \in 1..Len(s) \/ i = Len(s) + 1
    BY <1>3
  <2>1. CASE i \in 1..Len(s)
    <3>1. i # 1 => i - 1 \in 1..Len(s)
      BY <1>3, <2>1
    <3>. QED BY <1>2, <1>3, <2>1, <3>1, Zenon DEF verifyChain
  <2>2. CASE i = Len(s) + 1 /\ s = <<>>
    BY <1>2, <2>2, EmptySeq DEF endHash
  <2>3. CASE i = Len(s) + 1 /\ s # <<>>
    <3>1. i # 1 /\ i - 1 \in 1..Len(s) /\ i - 1 = Len(s)
      BY <1>3, <2>3, EmptySeq
    <3>2. t[i][2] = hash(s[Len(s)])
      BY <1>2, <2>3 DEF endHash, Last
    <3>3. t[i - 1] = s[Len(s)]
      BY <1>2, <3>1, Zenon
    <3>. QED BY <3>1, <3>2, <3>3, Zenon
  <2>. QED BY <2>0, <2>1, <2>2, <2>3, Zenon
<1>5. endHash(t) = n
  BY <1>2, <1>3 DEF endHash, hash, Last
<1>6. verifyChain(t)
  BY <1>4, Zenon DEF verifyChain
<1>. QED BY <1>2, <1>5, <1>6, Zenon DEF t
(* The ids of a file's lines; the journal has those of all its files. *)
hashes(lines) == {hash(lines[i]) : i \in DOMAIN lines}

LEMMA JournaledHashes ==
  /\ \A x : x \in Journaled <=> \E d \in Days : x \in hashes(linesOf(d))
  /\ \A x : x \in Journaled' <=> \E d \in Days : x \in hashes(linesOf(d)')
<1>1. \A x : x \in Journaled <=> \E d \in Days : x \in hashes(linesOf(d))
  BY Zenon DEF Journaled, hashes
<1>2. \A x : x \in Journaled' <=> \E d \in Days : x \in hashes(linesOf(d)')
  BY Zenon DEF Journaled, hashes, hash
<1>. QED BY <1>1, <1>2, Zenon

LEMMA AppendConcat ==
  ASSUME NEW S, NEW s \in Seq(S), NEW t \in Seq(S), NEW x \in S
  PROVE  s \o Append(t, x) = Append(s \o t, x)
OBVIOUS

(* The lines of each file, and what closing the handle makes of the files. *)
LEMMA LinesType ==
  ASSUME JournalTypeOK, FilesInv
  PROVE  /\ \A d \in Days : linesOf(d) \in Seq(Nat \X Nat) /\ d # 0
         /\ settled \in [Days -> Seq(Nat \X Nat)]
         /\ \A d \in Days : settled[d] = linesOf(d)
<1>1. \A d \in Days : d # 0
  BY JournalAssumption DEF Days
<1>2. \A d \in Days : file[d] \in Seq(Nat \X Nat) /\ file[d] \o tail \in Seq(Nat \X Nat)
  BY ConcatProperties, Zenon DEF JournalTypeOK
<1>3. \A d \in Days : linesOf(d) \in Seq(Nat \X Nat)
  BY <1>2, Zenon DEF linesOf
<1>4. CASE handle = 0
  BY <1>1, <1>3, <1>4 DEF settled, linesOf, JournalTypeOK
<1>5. CASE handle # 0
  <2>1. handle \in Days
    BY <1>5 DEF JournalTypeOK
  <2>2. settled = [file EXCEPT ![handle] = file[handle] \o tail]
    BY <1>5, Zenon DEF settled
  <2>3. settled \in [Days -> Seq(Nat \X Nat)]
    BY <1>2, <2>1, <2>2, Zenon DEF JournalTypeOK
  <2>4. \A d \in Days : settled[d] = linesOf(d)
    BY <2>1, <2>2 DEF linesOf, JournalTypeOK
  <2>. QED BY <1>1, <1>3, <2>3, <2>4, Zenon
<1>. QED BY <1>4, <1>5, Zenon

(* _open_for_today finds the digest that today's chain goes on from. *)
LEMMA Resumed ==
  ASSUME JournalTypeOK, FilesInv, PrevInv, life # "crashed", canAppend
  PROVE  resumedHash = endHash(linesOf(day)) /\ resumedHash \in Nat
<1>1. day \in Days /\ day # 0 /\ linesOf(day) \in Seq(Nat \X Nat)
  BY LinesType, Zenon DEF JournalTypeOK
<1>2. CASE handle = day
  BY <1>1, <1>2 DEF PrevInv, resumedHash, JournalTypeOK
<1>3. CASE handle # day
  <2>1. linesOf(day) = file[day] /\ ~torn[day] /\ ~closed
    BY <1>3, Zenon DEF linesOf, canAppend
  <2>2. CASE file[day] = <<>>
    BY <1>1, <1>3, <2>1, <2>2 DEF resumedHash, endHash, PrevInv
  <2>3. CASE file[day] # <<>>
    <3>1. Last(file[day]) \in Nat \X Nat
      BY <1>1, <2>1, <2>3, EmptySeq, LenProperties, ElementOfSeq DEF Last
    <3>. QED BY <1>1, <1>3, <2>1, <2>3, <3>1 DEF resumedHash, endHash, FilesInv, hash
  <2>. QED BY <2>2, <2>3, Zenon
<1>. QED BY <1>2, <1>3, Zenon

(* Where no line changes, the chains stay valid and nothing leaves or      *)
(* joins the journal.                                                      *)
LEMMA SameLines ==
  ASSUME \A d \in Days : linesOf(d)' = linesOf(d), ChainValid
  PROVE  ChainValid' /\ Journaled' = Journaled
<1>1. ChainValid'
  BY DEF ChainValid, verifyChain, hash
<1>2. Journaled' = Journaled
  BY DEF Journaled
<1>. QED BY <1>1, <1>2, Zenon
(* append and a failing append leave a handle on today's file, with the    *)
(* lines of every file as they were.                                       *)
LEMMA OpenForToday ==
  ASSUME JournalTypeOK, FilesInv, openForToday, UNCHANGED <<day, closed, torn, lost>>, canAppend
  PROVE  /\ handle' = day /\ day' = day
         /\ file' \in [Days -> Seq(Nat \X Nat)]
         /\ exists' = [exists EXCEPT ![day] = TRUE] /\ exists' \in [Days -> BOOLEAN]
         /\ openTail \in Seq(Nat \X Nat)
         /\ file'[day] \o openTail = linesOf(day)
         /\ \A d \in Days : d # day => file'[d] = linesOf(d)
         /\ \A d \in Days : ~exists'[d] => file'[d] = <<>> /\ ~torn'[d]
<1>0. /\ day \in Days /\ exists \in [Days -> BOOLEAN] /\ file \in [Days -> Seq(Nat \X Nat)]
      /\ tail \in Seq(Nat \X Nat)
  BY Zenon DEF JournalTypeOK
<1>1. /\ handle' = day /\ day' = day /\ exists' = [exists EXCEPT ![day] = TRUE]
      /\ exists' \in [Days -> BOOLEAN]
  BY <1>0, Zenon DEF openForToday
<1>2. CASE handle = day
  <2>1. file' = file /\ openTail = tail
    BY <1>2, Zenon DEF openForToday, openTail
  <2>. QED BY <1>0, <1>1, <1>2, <2>1, Zenon DEF linesOf, FilesInv
<1>3. CASE handle # day
  <2>1. file' = settled /\ openTail = <<>>
    BY <1>3 DEF openForToday, openTail
  <2>2. file' \in [Days -> Seq(Nat \X Nat)] /\ \A d \in Days : file'[d] = linesOf(d)
    BY <2>1, LinesType, Zenon
  <2>3. file'[day] \o openTail = linesOf(day) /\ openTail \in Seq(Nat \X Nat)
    BY <1>0, <2>1, <2>2, ConcatEmptySeq, EmptySeq, Zenon
  <2>4. \A d \in Days : ~exists'[d] => file'[d] = <<>> /\ ~torn'[d]
    <3>. SUFFICES ASSUME NEW d \in Days, ~exists'[d] PROVE file'[d] = <<>> /\ ~torn'[d]
      BY Zenon
    <3>1. ~exists[d]
      BY <1>0, <1>1, Zenon
    <3>2. d # handle
      BY <3>1, LinesType DEF FilesInv
    <3>. QED BY <2>2, <3>1, <3>2 DEF linesOf, FilesInv
  <2>. QED BY <1>1, <2>2, <2>3, <2>4, Zenon
<1>. QED BY <1>2, <1>3, Zenon

LEMMA AppendKeeps ==
  ASSUME JournalInv, life # "crashed", life' = life, NEW id \in Nat, append(id)
  PROVE  JournalInv' /\ lost' = lost /\ Journaled' = Journaled \cup {id}
<1>0. JournalTypeOK /\ FilesInv /\ PrevInv /\ ChainValid
  BY DEF JournalInv
<1>1. /\ canAppend /\ openForToday /\ UNCHANGED <<day, closed, torn, lost>>
      /\ tail' = Append(openTail, <<id, resumedHash>>) /\ prevHash' = id
  BY DEF append
<1> DEFINE old == linesOf(day)
           line == <<id, endHash(old)>>
<1>2. resumedHash = endHash(old) /\ resumedHash \in Nat /\ day \in Days /\ old \in Seq(Nat \X Nat)
  BY <1>0, <1>1, Resumed, LinesType, Zenon DEF JournalTypeOK
<1>3. /\ handle' = day /\ day' = day
      /\ file' \in [Days -> Seq(Nat \X Nat)]
      /\ exists' = [exists EXCEPT ![day] = TRUE] /\ exists' \in [Days -> BOOLEAN]
      /\ openTail \in Seq(Nat \X Nat)
      /\ file'[day] \o openTail = old
      /\ \A d \in Days : d # day => file'[d] = linesOf(d)
      /\ \A d \in Days : ~exists'[d] => file'[d] = <<>> /\ ~torn'[d]
  BY <1>0, <1>1, OpenForToday
<1>4. tail' \in Seq(Nat \X Nat)
  BY <1>1, <1>2, <1>3, AppendProperties, Zenon
<1>5. ASSUME NEW d \in Days, d = day PROVE linesOf(d)' = Append(old, line)
  <2>0. line \in Nat \X Nat /\ <<line>> \in Seq(Nat \X Nat)
    BY <1>2
  <2>1. linesOf(d)' = file'[day] \o Append(openTail, line)
    BY <1>1, <1>2, <1>3, <1>5, Zenon DEF linesOf
  <2> HIDE DEF old, line
  <2>2. file'[day] \in Seq(Nat \X Nat) /\ openTail \in Seq(Nat \X Nat)
    BY <1>2, <1>3
  <2>3. file'[day] \o Append(openTail, line) = Append(file'[day] \o openTail, line)
    <3> DEFINE L == Nat \X Nat
    <3>1. line \in L /\ file'[day] \in Seq(L) /\ openTail \in Seq(L)
      BY <2>0, <2>2
    <3> HIDE DEF L
    <3>2. \A f, g \in Seq(L), x \in L : f \o Append(g, x) = Append(f \o g, x)
      BY AppendConcat
    <3>3. \A x \in L : file'[day] \o Append(openTail, x) = Append(file'[day] \o openTail, x)
      BY <3>1, <3>2, Zenon
    <3>. QED BY <3>1, <3>3, Zenon
  <2>. QED BY <1>3, <2>1, <2>3
<1>6. \A d \in Days : d # day => linesOf(d)' = linesOf(d)
  BY <1>3, Zenon DEF linesOf
<1>7. /\ Append(old, line) \in Seq(Nat \X Nat) /\ verifyChain(Append(old, line))
      /\ endHash(Append(old, line)) = id
  BY <1>0, <1>2, ChainAppend DEF ChainValid
<1>8. JournalTypeOK'
  BY <1>0, <1>1, <1>3, <1>4, Zenon DEF JournalTypeOK
<1>9. FilesInv'
  BY <1>0, <1>1, <1>2, <1>3, LinesType DEF FilesInv, JournalTypeOK, canAppend, Days
<1>10. PrevInv'
  BY <1>1, <1>2, <1>3, <1>5, <1>7, Zenon DEF PrevInv
<1>11. ChainValid'
  <2>. SUFFICES ASSUME NEW d \in Days PROVE verifyChain(linesOf(d)')
    BY Zenon DEF ChainValid, verifyChain, hash
  <2>. QED BY <1>0, <1>5, <1>6, <1>7, Zenon DEF ChainValid
<1>12. Journaled' = Journaled \cup {id}
  <2>0. line \in Nat \X Nat /\ hash(line) = id
    BY <1>2, Zenon DEF hash
  <2> HIDE DEF old, line
  <2> DEFINE new == Append(old, line)
  <2>1. /\ DOMAIN old = 1..Len(old) /\ Len(old) \in Nat /\ DOMAIN new = 1..(Len(old) + 1)
        /\ \A i \in 1..Len(old) : new[i] = old[i]
        /\ new[Len(old) + 1] = line
    BY <1>2, <1>7, <2>0, AppendProperties, LenProperties
  <2> HIDE DEF new
  <2>2. \A i \in DOMAIN new : (i \in DOMAIN old /\ new[i] = old[i]) \/ new[i] = line
    BY <2>1
  <2>3. \A i \in DOMAIN old : i \in DOMAIN new /\ new[i] = old[i]
    BY <2>1
  <2>4. \E i \in DOMAIN new : new[i] = line
    BY <2>1
  <2>5. {hash(new[i]) : i \in DOMAIN new} = {hash(old[i]) : i \in DOMAIN old} \cup {id}
    BY <2>0, <2>2, <2>3, <2>4
  <2>6. \A d \in Days : hashes(linesOf(d)') = hashes(linesOf(d)) \cup (IF d = day THEN {id} ELSE {})
    BY <1>5, <1>6, <2>5, Zenon DEF new, old, hashes
  <2>. QED BY <1>2, <2>6, JournaledHashes
<1>. QED BY <1>1, <1>8, <1>9, <1>10, <1>11, <1>12, Zenon DEF JournalInv

(* A failing append leaves no line, and _prev_hash where it was found. *)
LEMMA AppendFailsKeeps ==
  ASSUME JournalInv, life # "crashed", life' = life, appendFails
  PROVE  JournalInv' /\ lost' = lost /\ Journaled' = Journaled
<1>0. JournalTypeOK /\ FilesInv /\ PrevInv /\ ChainValid
  BY Zenon DEF JournalInv
<1>1. /\ canAppend /\ openForToday /\ UNCHANGED <<day, closed, torn, lost>>
      /\ tail' = openTail /\ prevHash' = resumedHash
  BY Zenon DEF appendFails
<1>2. resumedHash = endHash(linesOf(day)) /\ resumedHash \in Nat /\ day \in Days
  BY <1>0, <1>1, Resumed, Zenon DEF JournalTypeOK
<1>3. /\ handle' = day /\ day' = day
      /\ file' \in [Days -> Seq(Nat \X Nat)]
      /\ exists' = [exists EXCEPT ![day] = TRUE] /\ exists' \in [Days -> BOOLEAN]
      /\ openTail \in Seq(Nat \X Nat)
      /\ file'[day] \o openTail = linesOf(day)
      /\ \A d \in Days : d # day => file'[d] = linesOf(d)
      /\ \A d \in Days : ~exists'[d] => file'[d] = <<>> /\ ~torn'[d]
  BY <1>0, <1>1, OpenForToday
<1>4. \A d \in Days : linesOf(d)' = linesOf(d)
  BY <1>1, <1>2, <1>3, Zenon DEF linesOf
<1>5. JournalTypeOK'
  BY <1>0, <1>1, <1>2, <1>3 DEF JournalTypeOK
<1>6. FilesInv'
  BY <1>0, <1>1, <1>2, <1>3, LinesType DEF FilesInv, JournalTypeOK, canAppend, Days
<1>7. PrevInv'
  BY <1>1, <1>2, <1>3, <1>4, Zenon DEF PrevInv
<1>. QED BY <1>0, <1>1, <1>4, <1>5, <1>6, <1>7, SameLines DEF JournalInv

(* Closing the handle moves the lines of its member to the file. *)
LEMMA Closes ==
  ASSUME JournalTypeOK, FilesInv, UNCHANGED <<day, torn, exists, lost>>,
         file' = settled, tail' = <<>>, handle' = 0, prevHash' \in Nat, closed' \in BOOLEAN
  PROVE  /\ JournalTypeOK'
         /\ life' # "crashed" => FilesInv'
         /\ \A d \in Days : linesOf(d)' = linesOf(d)
<1>1. /\ settled \in [Days -> Seq(Nat \X Nat)]
      /\ \A d \in Days : settled[d] = linesOf(d) /\ d # 0
  BY LinesType, Zenon
<1>2. JournalTypeOK'
  BY <1>1, EmptySeq, Zenon DEF JournalTypeOK
<1>3. \A d \in Days : linesOf(d)' = linesOf(d)
  BY <1>1, Zenon DEF linesOf
<1>4. \A d \in Days : ~exists[d] => settled[d] = <<>>
  BY <1>1, Zenon DEF linesOf, FilesInv
<1>5. life' # "crashed" => FilesInv'
  BY <1>4 DEF FilesInv
<1>. QED BY <1>2, <1>3, <1>5

(* An append that raises has closed the handle of another day; it left     *)
(* _prev_hash anywhere, but today's file can no longer be opened.          *)
LEMMA AppendRefusedKeeps ==
  ASSUME JournalInv, life # "crashed", life' = life, appendRefused
  PROVE  JournalInv' /\ lost' = lost /\ Journaled' = Journaled
<1>0. JournalTypeOK /\ FilesInv /\ PrevInv /\ ChainValid /\ lost' = lost /\ day' = day
  BY Zenon DEF JournalInv, appendRefused
<1>1. CASE closed
  <2>1. UNCHANGED journalVars
    BY <1>1, Zenon DEF appendRefused, journalVars, handleVars, fileVars
  <2>2. JournalTypeOK' /\ FilesInv' /\ \A d \in Days : linesOf(d)' = linesOf(d)
    BY <1>0, <2>1 DEF journalVars, handleVars, fileVars, JournalTypeOK, FilesInv, linesOf
  <2>3. PrevInv'
    BY <1>0, <1>1, <2>1, <2>2, Zenon DEF journalVars, handleVars, fileVars, PrevInv, FilesInv
  <2>. QED BY <1>0, <2>2, <2>3, SameLines DEF JournalInv
<1>2. CASE ~closed
  <2>1. /\ file' = settled /\ tail' = <<>> /\ handle' = 0 /\ UNCHANGED <<closed, torn, exists>>
        /\ prevHash' \in {resumedHash} \cup lost /\ torn[day]
    BY <1>2, Zenon DEF appendRefused, canAppend
  <2>2. resumedHash \in Nat
    BY <1>0, EmptySeq, LenProperties, ElementOfSeq DEF resumedHash, hash, Last, JournalTypeOK
  <2>3. JournalTypeOK' /\ FilesInv' /\ \A d \in Days : linesOf(d)' = linesOf(d)
    BY <1>0, <2>1, <2>2, Closes DEF JournalTypeOK
  <2>4. PrevInv'
    BY <1>0, <2>1, Zenon DEF PrevInv
  <2>. QED BY <1>0, <2>3, <2>4, SameLines DEF JournalInv
<1>. QED BY <1>1, <1>2, Zenon

(* Journal.close *)
LEMMA CloseKeeps ==
  ASSUME JournalInv, life' # "crashed", close
  PROVE  JournalInv' /\ lost' = lost /\ Journaled' = Journaled
<1>0. JournalTypeOK /\ FilesInv /\ ChainValid
  BY DEF JournalInv
<1>1. /\ file' = settled /\ tail' = <<>> /\ handle' = 0 /\ closed' = TRUE
      /\ UNCHANGED <<day, torn, exists, lost>> /\ prevHash' = prevHash
  BY Zenon DEF close
<1>2. JournalTypeOK' /\ FilesInv' /\ \A d \in Days : linesOf(d)' = linesOf(d)
  BY <1>0, <1>1, Closes, Zenon DEF JournalTypeOK
<1>3. PrevInv'
  BY <1>1 DEF PrevInv
<1>. QED BY <1>0, <1>1, <1>2, <1>3, SameLines, Zenon DEF JournalInv

(* A crash takes the lines of the member under way, and only those. *)
LEMMA CrashKeeps ==
  ASSUME JournalInv, life' = "crashed", crash
  PROVE  JournalInv' /\ lost \subseteq lost' /\ Journaled \subseteq Journaled' \cup lost'
<1>0. JournalTypeOK /\ FilesInv /\ ChainValid
  BY Zenon DEF JournalInv
<1>1. /\ tail' = <<>> /\ UNCHANGED <<day, handle, prevHash, closed, file, exists>>
      /\ lost' = lost \cup hashes(tail)
      /\ torn' = torn \/ (tail # <<>> /\ torn' = [torn EXCEPT ![handle] = TRUE])
  BY Zenon DEF crash, handleVars, hashes
<1>2. tail # <<>> => handle \in Days /\ exists[handle]
  BY <1>0, Zenon DEF FilesInv, JournalTypeOK
<1>3. hashes(tail) \subseteq Nat
  BY <1>0, LenProperties, ElementOfSeq DEF hashes, hash, JournalTypeOK
<1>4. JournalTypeOK'
  BY <1>0, <1>1, <1>2, <1>3, EmptySeq, Zenon DEF JournalTypeOK
<1>5. FilesInv'
  BY <1>0, <1>1, <1>2, Zenon DEF FilesInv, JournalTypeOK
<1>6. \A d \in Days : linesOf(d)' = file[d] /\ file[d] \in Seq(Nat \X Nat)
  BY <1>0, <1>1, ConcatEmptySeq, Zenon DEF linesOf, JournalTypeOK
<1>7. \A d \in Days : linesOf(d) = file[d] \/ linesOf(d) = file[d] \o tail
  BY Zenon DEF linesOf
<1>8. ChainValid'
  <2>1. \A d \in Days : verifyChain(file[d])
    BY <1>0, <1>6, <1>7, ChainPrefix, Zenon DEF ChainValid, JournalTypeOK
  <2>. QED BY <1>6, <2>1 DEF ChainValid, verifyChain, hash
<1>9. \A d \in Days : hashes(linesOf(d)) \subseteq hashes(linesOf(d)') \cup lost'
  <2>. SUFFICES ASSUME NEW d \in Days, linesOf(d) = file[d] \o tail
       PROVE  hashes(linesOf(d)) \subseteq hashes(file[d]) \cup hashes(tail)
    BY <1>1, <1>6, <1>7
  <2>1. ASSUME NEW i \in DOMAIN (file[d] \o tail)
        PROVE  \/ i \in DOMAIN file[d] /\ (file[d] \o tail)[i] = file[d][i]
               \/ i - Len(file[d]) \in DOMAIN tail /\ (file[d] \o tail)[i] = tail[i - Len(file[d])]
    <3>1. file[d] \in Seq(Nat \X Nat) /\ tail \in Seq(Nat \X Nat)
      BY <1>0, <1>6, Zenon DEF JournalTypeOK
    <3>. QED BY <3>1
  <2>. QED BY <2>1, Zenon DEF hashes
<1>10. Journaled \subseteq Journaled' \cup lost'
  BY <1>9, JournaledHashes, Zenon
<1>. QED BY <1>1, <1>4, <1>5, <1>8, <1>10, Zenon DEF JournalInv, PrevInv

(* A new process finds the files as the last one left them. *)
LEMMA ReopenKeeps ==
  ASSUME JournalInv, tail = <<>>, life' # "crashed", reopen
  PROVE  JournalInv' /\ lost' = lost /\ Journaled' = Journaled
<1>0. JournalTypeOK /\ FilesInv /\ ChainValid
  BY Zenon DEF JournalInv
<1>1. /\ handle' = 0 /\ prevHash' = 0 /\ closed' = FALSE
      /\ UNCHANGED <<day, file, tail, torn, exists, lost>>
  BY DEF reopen, fileVars
<1>2. JournalTypeOK' /\ FilesInv'
  BY <1>0, <1>1, Zenon DEF JournalTypeOK, FilesInv
<1>3. \A d \in Days : file[d] \o <<>> = file[d] /\ d # 0
  BY <1>0, LinesType, ConcatEmptySeq, Zenon DEF JournalTypeOK
<1>4. \A d \in Days : linesOf(d)' = linesOf(d)
  BY <1>1, <1>3 DEF linesOf
<1>5. PrevInv'
  BY <1>1, Zenon DEF PrevInv
<1>. QED BY <1>0, <1>1, <1>2, <1>4, <1>5, SameLines DEF JournalInv

(* At midnight today's file does not exist yet. *)
LEMMA MidnightKeeps ==
  ASSUME JournalInv, life' = life, day < MaxDays, day' = day + 1,
         UNCHANGED <<handleVars, fileVars, lost>>
  PROVE  JournalInv' /\ Journaled' = Journaled
<1>0. JournalTypeOK /\ FilesInv /\ PrevInv /\ ChainValid
  BY Zenon DEF JournalInv
<1>1. UNCHANGED <<handle, prevHash, closed, file, tail, torn, exists, lost>>
  BY Zenon DEF handleVars, fileVars
<1>2. day \in Days /\ day + 1 \in Days /\ day + 1 > day
  BY <1>0, JournalAssumption DEF JournalTypeOK, Days
<1>3. \A d \in Days : linesOf(d)' = linesOf(d)
  BY <1>1, Zenon DEF linesOf
<1>4. JournalTypeOK'
  BY <1>0, <1>1, <1>2, Zenon DEF JournalTypeOK
<1>5. FilesInv'
  BY <1>0, <1>1, <1>2 DEF FilesInv, JournalTypeOK, Days
<1>6. PrevInv'
  <2>1. ~exists[day + 1]
    BY <1>0, <1>2, Zenon DEF FilesInv
  <2>2. handle # 0 => handle \in Days
    BY <1>0, Zenon DEF JournalTypeOK
  <2>. QED BY <1>0, <1>1, <1>3, <2>1, <2>2, Zenon DEF PrevInv
<1>. QED BY <1>0, <1>3, <1>4, <1>5, <1>6, SameLines, Zenon DEF JournalInv

(* The steps that are not the journal's. *)
LEMMA JournalRests ==
  ASSUME JournalInv, UNCHANGED journalVars, life' = "crashed" <=> life = "crashed"
  PROVE  JournalInv' /\ lost' = lost /\ Journaled' = Journaled
<1>0. JournalTypeOK /\ FilesInv /\ PrevInv /\ ChainValid
  BY Zenon DEF JournalInv
<1>1. UNCHANGED <<day, handle, prevHash, closed, file, tail, torn, exists, lost>>
  BY Zenon DEF journalVars, handleVars, fileVars
<1>2. \A d \in Days : linesOf(d)' = linesOf(d)
  BY <1>1, Zenon DEF linesOf
<1>3. JournalTypeOK' /\ FilesInv'
  BY <1>0, <1>1 DEF JournalTypeOK, FilesInv
<1>4. PrevInv'
  BY <1>0, <1>1, <1>2, Zenon DEF PrevInv, JournalTypeOK
<1>. QED BY <1>0, <1>1, <1>2, <1>3, <1>4, SameLines DEF JournalInv

-----------------------------------------------------------------------------
(* The window and the reports, through each way an event ends. *)

(* A stored event moves the window on and can only lower its failures. *)
LEMMA SuccessCounts ==
  ASSUME HealthInv, outcomes' = recorded(FALSE), UNCHANGED <<cooling, failed, reports>>
  PROVE  HealthInv'
<1>0. HealthTypeOK /\ CoolInv /\ ReportsPaid /\ OutageReported
  BY Zenon DEF HealthInv
<1> DEFINE r == recorded(FALSE)
           paid == reports * Threshold
<1>1. /\ r \in Seq(BOOLEAN) /\ Len(r) <= Window
      /\ failures(r) \in Nat /\ failures(outcomes) \in Nat
      /\ failures(r) <= failures(outcomes) + (IF FALSE THEN 1 ELSE 0)
  BY <1>0, Recorded, FailuresCounted, Zenon DEF HealthTypeOK
<1>2. outcomes' = r /\ paid \in Nat /\ failed \in Nat /\ paid + failures(outcomes) <= failed
  BY <1>0, EventStoreAssumption DEF HealthTypeOK, ReportsPaid
<1> HIDE DEF r, paid
<1>3. failures(r) <= failures(outcomes)
  BY <1>1
<1>4. HealthTypeOK'
  BY <1>0, <1>1, <1>2, Zenon DEF HealthTypeOK
<1>5. CoolInv'
  BY <1>0 DEF CoolInv
<1>6. ReportsPaid'
  <2>1. paid + failures(r) <= failed
    BY <1>1, <1>2, <1>3
  <2>. QED BY <1>2, <2>1, Zenon DEF ReportsPaid, failures, paid
<1>7. OutageReported'
  <2>1. failures(r) >= Threshold => failures(outcomes) >= Threshold
    BY <1>1, <1>3, EventStoreAssumption
  <2>. QED BY <1>0, <1>2, <2>1, Zenon DEF OutageReported, failures
<1>. QED BY <1>4, <1>5, <1>6, <1>7 DEF HealthInv

(* A failure is paid into the window; a report takes Threshold of them out *)
(* and starts the cooldown, during which a full window is not reported.    *)
LEMMA FailureCounts ==
  ASSUME HealthInv, DrainTypeOK, persistFailed
  PROVE  HealthInv' /\ queue' \in Seq(Nat) /\ ids' \in Nat
<1>0. HealthTypeOK /\ CoolInv /\ ReportsPaid /\ OutageReported
  BY Zenon DEF HealthInv
<1> DEFINE r == recorded(TRUE)
           full == failures(r) >= Threshold
           paid == reports * Threshold
<1>1. /\ r \in Seq(BOOLEAN) /\ Len(r) <= Window
      /\ failures(r) \in Nat /\ failures(outcomes) \in Nat
      /\ failures(r) <= failures(outcomes) + (IF TRUE THEN 1 ELSE 0)
  BY <1>0, Recorded, FailuresCounted, Zenon DEF HealthTypeOK
<1>2. /\ failed' = failed + 1
      /\ full /\ ~cooling =>
           /\ outcomes' = <<>> /\ cooling' = TRUE /\ reports' = reports + 1
           /\ ids' = ids + 1 /\ queue' = Append(queue, ids + 1)
      /\ ~(full /\ ~cooling) =>
           outcomes' = r /\ UNCHANGED <<cooling, reports, ids, queue>>
  BY Zenon DEF persistFailed
<1>3. /\ Threshold \in Nat /\ 1 <= Threshold /\ Window \in Nat
      /\ paid \in Nat /\ failed \in Nat /\ reports \in Nat
      /\ paid + failures(outcomes) <= failed
      /\ (reports + 1) * Threshold = paid + Threshold
  BY <1>0, EventStoreAssumption DEF HealthTypeOK, ReportsPaid
<1> HIDE DEF r, paid
<1>4. failures(r) <= failures(outcomes) + 1 /\ paid + failures(r) <= failed + 1
  BY <1>1, <1>3
<1>5. CASE full /\ ~cooling
  <2>1. /\ outcomes' = <<>> /\ cooling' = TRUE /\ reports' = reports + 1
        /\ ids' = ids + 1 /\ queue' = Append(queue, ids + 1)
    BY <1>2, <1>5
  <2>2. failures(<<>>) = 0
    BY EmptyWindow, Zenon
  <2>3. HealthTypeOK'
    BY <1>2, <1>3, <2>1, EmptyWindow DEF HealthTypeOK
  <2>4. CoolInv'
    BY <1>3, <2>1 DEF CoolInv
  <2>5. ReportsPaid'
    <3>1. paid + Threshold + 0 <= failed + 1
      BY <1>1, <1>3, <1>4, <1>5
    <3>2. reports' * Threshold + failures(outcomes') <= failed'
      BY <1>2, <1>3, <2>1, <2>2, <3>1, Zenon
    <3>. QED BY <3>2, Zenon DEF ReportsPaid, failures
  <2>6. OutageReported'
    BY <1>3, <2>1 DEF OutageReported
  <2>7. queue' \in Seq(Nat) /\ ids' \in Nat
    BY <2>1, AppendProperties DEF DrainTypeOK
  <2>. QED BY <2>3, <2>4, <2>5, <2>6, <2>7, Zenon DEF HealthInv
<1>6. CASE ~(full /\ ~cooling)
  <2>1. outcomes' = r /\ UNCHANGED <<cooling, reports, ids, queue>>
    BY <1>2, <1>6
  <2>2. HealthTypeOK'
    BY <1>0, <1>1, <1>2, <1>3, <2>1 DEF HealthTypeOK
  <2>3. CoolInv'
    BY <1>0, <2>1, Zenon DEF CoolInv
  <2>4. ReportsPaid'
    BY <1>2, <1>4, <2>1, Zenon DEF ReportsPaid, failures, paid
  <2>5. OutageReported'
    <3>1. failures(r) >= Threshold => reports > 0
      BY <1>0, <1>6, Zenon DEF CoolInv
    <3>. QED BY <2>1, <3>1 DEF OutageReported, failures
  <2>. QED BY <2>1, <2>2, <2>3, <2>4, <2>5, Zenon DEF HealthInv, DrainTypeOK
<1>. QED BY <1>5, <1>6, Zenon

(* An event that moves nothing of the window. *)
LEMMA HealthRests ==
  ASSUME HealthInv, UNCHANGED <<outcomes, failed, reports>>,
         cooling' \in BOOLEAN, cooling' => cooling
  PROVE  HealthInv'
<1>1. HealthTypeOK' /\ CoolInv'
  BY Zenon DEF HealthInv, HealthTypeOK, CoolInv
<1>2. ReportsPaid' /\ OutageReported'
  BY Zenon DEF HealthInv, ReportsPaid, OutageReported, failures
<1>. QED BY <1>1, <1>2, Zenon DEF HealthInv

-----------------------------------------------------------------------------
(* The two stores, when the journal keeps what it has. *)
LEMMA StoresRest ==
  ASSUME HeldInv, RowsJournaled, Journaled \cup lost \subseteq (Journaled \cup lost)',
         rows' = rows, pc' \in {"top", "gone"} \/ UNCHANGED <<pc, ev>>
  PROVE  HeldInv' /\ RowsJournaled'
<1>1. HeldInv'
  BY DEF HeldInv
<1>2. RowsJournaled'
  BY DEF RowsJournaled
<1>. QED BY <1>1, <1>2, Zenon

(* The invariant holds in a new daemon on an empty directory. *)
LEMMA InitInv == Init => IInv
<1>. SUFFICES ASSUME Init PROVE IInv
  BY Zenon
<1>1. \A d \in Days : linesOf(d) = <<>> /\ d # 0 /\ d \in Nat
  BY JournalAssumption DEF Init, JournalInit, linesOf, Days
<1>2. JournalTypeOK
  <2>1. <<>> \in Seq(Nat \X Nat) /\ 1 \in Days
    BY JournalAssumption DEF Days
  <2>. QED BY <2>1, Zenon DEF Init, JournalInit, JournalTypeOK
<1>3. FilesInv /\ PrevInv
  BY <1>1, JournalAssumption, Zenon DEF Init, JournalInit, FilesInv, PrevInv, Days
<1>4. ChainValid
  BY <1>1 DEF ChainValid, verifyChain
<1>5. DrainInv
  BY DEF Init, JournalInit, DrainInv, DrainTypeOK, LifeInv, HeldInv, RowsJournaled
<1>6. HealthTypeOK /\ CoolInv
  BY EmptyWindow, Zenon DEF Init, HealthTypeOK, CoolInv
<1>7. ReportsPaid /\ OutageReported
  BY EmptyWindow, EventStoreAssumption DEF Init, ReportsPaid, OutageReported
<1>. QED BY <1>2, <1>3, <1>4, <1>5, <1>6, <1>7, Zenon DEF IInv, JournalInv, HealthInv

(* The steps of the drain thread. *)
LEMMA DrainStep ==
  ASSUME IInv, Drain
  PROVE  IInv'
<1>0. /\ JournalInv /\ DrainInv /\ HealthInv
      /\ DrainTypeOK /\ LifeInv /\ HeldInv /\ RowsJournaled
      /\ cooling \in BOOLEAN /\ ev \in Nat
  BY DEF IInv, DrainInv, HealthInv, HealthTypeOK, DrainTypeOK
<1>1. CASE DrainTake
  <2>1. JournalInv' /\ lost' = lost /\ Journaled' = Journaled
    BY <1>0, <1>1, JournalRests, Zenon DEF DrainTake
  <2>2. ev' \in Nat /\ queue' \in Seq(Nat)
    BY <1>0, <1>1, HeadTailProperties DEF DrainTake, DrainTypeOK
  <2>3. DrainTypeOK' /\ LifeInv'
    BY <1>0, <1>1, <2>1, <2>2, Zenon DEF DrainTake, DrainTypeOK, LifeInv, journalVars, handleVars
  <2>4. HeldInv' /\ RowsJournaled'
    BY <1>0, <1>1, <2>1 DEF DrainTake, HeldInv, RowsJournaled
  <2>5. HealthInv'
    BY <1>0, <1>1, HealthRests, Zenon DEF DrainTake, healthVars
  <2>. QED BY <2>1, <2>3, <2>4, <2>5, Zenon DEF IInv, DrainInv
<1>2. CASE PersistJournal
  <2>1. life # "crashed" /\ life' = life
    BY <1>0, <1>2 DEF PersistJournal, LifeInv
  <2>2. JournalInv' /\ lost' = lost /\ Journaled' = Journaled \cup {ev}
    BY <1>0, <1>2, <2>1, AppendKeeps, Zenon DEF PersistJournal
  <2>3. DrainTypeOK' /\ LifeInv'
    BY <1>0, <1>2, Zenon DEF PersistJournal, append, DrainTypeOK, LifeInv
  <2>4. HeldInv' /\ RowsJournaled'
    BY <1>0, <1>2, <2>2 DEF PersistJournal, HeldInv, RowsJournaled
  <2>5. HealthInv'
    BY <1>0, <1>2, HealthRests, Zenon DEF PersistJournal, healthVars
  <2>. QED BY <2>2, <2>3, <2>4, <2>5, Zenon DEF IInv, DrainInv
<1>3. CASE PersistJournalFails
  <2>1. life # "crashed" /\ life' = life /\ pc' = "top" /\ rows' = rows /\ closed' = closed
        /\ ev' = ev /\ starts' = starts /\ faults' \in Nat
    BY <1>0, <1>3 DEF PersistJournalFails, LifeInv, persistFailed, appendFails, appendRefused,
                      fault, DrainTypeOK, handleVars
  <2>2. JournalInv' /\ lost' = lost /\ Journaled' = Journaled
    BY <1>0, <1>3, <2>1, AppendFailsKeeps, AppendRefusedKeeps, Zenon DEF PersistJournalFails
  <2>3. HealthInv' /\ queue' \in Seq(Nat) /\ ids' \in Nat
    BY <1>0, <1>3, FailureCounts DEF PersistJournalFails
  <2>4. DrainTypeOK' /\ LifeInv'
    BY <1>0, <2>1, <2>3, <1>3, Zenon DEF DrainTypeOK, LifeInv, PersistJournalFails
  <2>5. HeldInv' /\ RowsJournaled'
    BY <1>0, <2>1, <2>2, StoresRest
  <2>. QED BY <2>2, <2>3, <2>4, <2>5, Zenon DEF IInv, DrainInv
<1>4. CASE PersistInsert
  <2>1. JournalInv' /\ lost' = lost /\ Journaled' = Journaled
    BY <1>0, <1>4, JournalRests DEF PersistInsert
  <2>2. DrainTypeOK' /\ LifeInv'
    BY <1>0, <1>4, Zenon DEF PersistInsert, DrainTypeOK, LifeInv, journalVars, handleVars
  <2>3. HeldInv' /\ RowsJournaled'
    BY <1>0, <1>4, <2>1, Zenon DEF PersistInsert, HeldInv, RowsJournaled
  <2>4. HealthInv'
    BY <1>0, <1>4, HealthRests DEF PersistInsert, healthVars
  <2>. QED BY <2>1, <2>2, <2>3, <2>4, Zenon DEF IInv, DrainInv
<1>5. CASE PersistProject
  <2>1. JournalInv' /\ lost' = lost /\ Journaled' = Journaled
    BY <1>0, <1>5, JournalRests DEF PersistProject
  <2>2. DrainTypeOK' /\ LifeInv'
    BY <1>0, <1>5, Zenon DEF PersistProject, DrainTypeOK, LifeInv, journalVars, handleVars
  <2>3. HeldInv' /\ RowsJournaled'
    BY <1>0, <1>5, <2>1, StoresRest, Zenon DEF PersistProject
  <2>4. HealthInv'
    BY <1>0, <1>5, SuccessCounts DEF PersistProject
  <2>. QED BY <2>1, <2>2, <2>3, <2>4, Zenon DEF IInv, DrainInv
<1>6. CASE PersistDatabaseFails
  <2>1. life' = life /\ pc' = "top" /\ rows' = rows /\ ev' = ev /\ starts' = starts
        /\ faults' \in Nat /\ UNCHANGED journalVars
    BY <1>0, <1>6 DEF PersistDatabaseFails, persistFailed, fault, DrainTypeOK
  <2>2. JournalInv' /\ lost' = lost /\ Journaled' = Journaled
    BY <1>0, <2>1, JournalRests, Zenon
  <2>3. HealthInv' /\ queue' \in Seq(Nat) /\ ids' \in Nat
    BY <1>0, <1>6, FailureCounts, Zenon DEF PersistDatabaseFails
  <2>4. DrainTypeOK' /\ LifeInv'
    BY <1>0, <1>6, <2>1, <2>3 DEF PersistDatabaseFails, DrainTypeOK, LifeInv,
                                       journalVars, handleVars
  <2>5. HeldInv' /\ RowsJournaled'
    BY <1>0, <2>1, <2>2, StoresRest, Zenon
  <2>. QED BY <2>2, <2>3, <2>4, <2>5, Zenon DEF IInv, DrainInv
<1>. QED BY <1>1, <1>2, <1>3, <1>4, <1>5, <1>6, Zenon DEF Drain

(* Every other step: events that arrive, the end of a cooldown, the life   *)
(* of the process, midnight.                                               *)
LEMMA NextInv == IInv /\ [Next]_vars => IInv'
<1>. SUFFICES ASSUME IInv, [Next]_vars PROVE IInv'
  BY Zenon
<1>0. /\ JournalInv /\ DrainInv /\ HealthInv
      /\ DrainTypeOK /\ LifeInv /\ HeldInv /\ RowsJournaled
      /\ cooling \in BOOLEAN
  BY Zenon DEF IInv, DrainInv, HealthInv, HealthTypeOK
<1>1. CASE Routed
  <2>1. JournalInv' /\ lost' = lost /\ Journaled' = Journaled
    BY <1>0, <1>1, JournalRests DEF Routed
  <2>2. queue' \in Seq(Nat) /\ ids' \in Nat
    BY <1>0, <1>1, AppendProperties DEF Routed, DrainTypeOK
  <2>3. DrainTypeOK' /\ LifeInv'
    BY <1>0, <1>1, <2>2, Zenon DEF Routed, DrainTypeOK, LifeInv, drainVars, journalVars, handleVars
  <2>4. HeldInv' /\ RowsJournaled'
    BY <1>0, <1>1, <2>1, StoresRest DEF Routed, drainVars
  <2>5. HealthInv'
    BY <1>0, <1>1, HealthRests, Zenon DEF Routed, healthVars
  <2>. QED BY <2>1, <2>3, <2>4, <2>5, Zenon DEF IInv, DrainInv
<1>2. CASE Drain
  BY <1>2, DrainStep, Zenon
<1>3. CASE CooldownEnds
  <2>1. JournalInv' /\ lost' = lost /\ Journaled' = Journaled
    BY <1>0, <1>3, JournalRests, Zenon DEF CooldownEnds
  <2>2. DrainTypeOK' /\ LifeInv'
    BY <1>0, <1>3 DEF CooldownEnds, DrainTypeOK, LifeInv, drainVars, journalVars, handleVars
  <2>3. HeldInv' /\ RowsJournaled'
    BY <1>0, <1>3, <2>1, StoresRest, Zenon DEF CooldownEnds, drainVars
  <2>4. HealthInv'
    BY <1>0, <1>3, HealthRests, Zenon DEF CooldownEnds
  <2>. QED BY <2>1, <2>2, <2>3, <2>4 DEF IInv, DrainInv
<1>4. CASE StopSet
  <2>1. JournalInv' /\ lost' = lost /\ Journaled' = Journaled
    BY <1>0, <1>4, JournalRests DEF StopSet
  <2>2. DrainTypeOK' /\ LifeInv'
    BY <1>0, <1>4, Zenon DEF StopSet, DrainTypeOK, LifeInv, drainVars, journalVars, handleVars
  <2>3. HeldInv' /\ RowsJournaled'
    BY <1>0, <1>4, <2>1, StoresRest DEF StopSet, drainVars
  <2>4. HealthInv'
    BY <1>0, <1>4, HealthRests, Zenon DEF StopSet, healthVars
  <2>. QED BY <2>1, <2>2, <2>3, <2>4, Zenon DEF IInv, DrainInv
<1>5. CASE StopClose
  <2>1. JournalInv' /\ lost' = lost /\ Journaled' = Journaled
    BY <1>0, <1>5, CloseKeeps, Zenon DEF StopClose
  <2>2. DrainTypeOK' /\ LifeInv'
    BY <1>0, <1>5 DEF StopClose, close, DrainTypeOK, LifeInv, drainVars
  <2>3. HeldInv' /\ RowsJournaled'
    BY <1>0, <1>5, <2>1, StoresRest, Zenon DEF StopClose, drainVars
  <2>4. HealthInv'
    BY <1>0, <1>5, HealthRests DEF StopClose, healthVars
  <2>. QED BY <2>1, <2>2, <2>3, <2>4 DEF IInv, DrainInv
<1>6. CASE Exit
  <2>1. JournalInv' /\ lost' = lost /\ Journaled' = Journaled
    BY <1>0, <1>6, JournalRests DEF Exit
  <2>2. DrainTypeOK' /\ LifeInv'
    BY <1>0, <1>6, Zenon DEF Exit, DrainTypeOK, LifeInv, journalVars, handleVars
  <2>3. HeldInv' /\ RowsJournaled'
    BY <1>0, <1>6, <2>1, StoresRest DEF Exit
  <2>4. HealthInv'
    BY <1>0, <1>6, HealthRests, Zenon DEF Exit, healthVars
  <2>. QED BY <2>1, <2>2, <2>3, <2>4, Zenon DEF IInv, DrainInv
<1>7. CASE Crash
  <2>1. JournalInv' /\ lost \subseteq lost' /\ Journaled \subseteq Journaled' \cup lost'
    BY <1>0, <1>7, CrashKeeps, Zenon DEF Crash
  <2>2. DrainTypeOK' /\ LifeInv'
    BY <1>0, <1>7 DEF Crash, DrainTypeOK, LifeInv
  <2>3. HeldInv' /\ RowsJournaled'
    BY <1>0, <1>7, <2>1, StoresRest, Zenon DEF Crash
  <2>4. HealthInv'
    BY <1>0, <1>7, HealthRests DEF Crash, healthVars
  <2>. QED BY <2>1, <2>2, <2>3, <2>4 DEF IInv, DrainInv
<1>8. CASE Start
  <2>0. tail = <<>>
    BY <1>0, <1>8 DEF Start, running, DrainTypeOK, LifeInv, JournalInv, FilesInv
  <2>1. JournalInv' /\ lost' = lost /\ Journaled' = Journaled
    BY <1>0, <1>8, <2>0, ReopenKeeps, Zenon DEF Start
  <2>2. DrainTypeOK' /\ LifeInv'
    BY <1>0, <1>8 DEF Start, DrainTypeOK, LifeInv
  <2>3. HeldInv' /\ RowsJournaled'
    BY <1>0, <1>8, <2>1, StoresRest, Zenon DEF Start
  <2>4. HealthTypeOK' /\ CoolInv'
    BY <1>8, EmptyWindow, Zenon DEF Start, HealthTypeOK, CoolInv
  <2>5. failures(outcomes') = 0
    BY <1>8, EmptyWindow, Zenon DEF Start
  <2>6. ReportsPaid' /\ OutageReported'
    BY <1>8, <2>5, EventStoreAssumption DEF Start, ReportsPaid, OutageReported, failures
  <2>. QED BY <2>1, <2>2, <2>3, <2>4, <2>6, Zenon DEF IInv, DrainInv, HealthInv
<1>9. CASE Midnight
  <2>1. JournalInv' /\ lost' = lost /\ Journaled' = Journaled
    BY <1>0, <1>9, MidnightKeeps DEF Midnight
  <2>2. DrainTypeOK' /\ LifeInv'
    BY <1>0, <1>9, Zenon DEF Midnight, DrainTypeOK, LifeInv, drainVars, handleVars
  <2>3. HeldInv' /\ RowsJournaled'
    BY <1>0, <1>9, <2>1, StoresRest DEF Midnight, drainVars
  <2>4. HealthInv'
    BY <1>0, <1>9, HealthRests, Zenon DEF Midnight, healthVars
  <2>. QED BY <2>1, <2>2, <2>3, <2>4, Zenon DEF IInv, DrainInv
<1>10. CASE UNCHANGED vars
  <2>1. JournalInv' /\ lost' = lost /\ Journaled' = Journaled
    BY <1>0, <1>10, JournalRests, Zenon DEF vars
  <2>2. DrainTypeOK' /\ LifeInv'
    BY <1>0, <1>10 DEF vars, DrainTypeOK, LifeInv, drainVars, journalVars, handleVars
  <2>3. HeldInv' /\ RowsJournaled'
    BY <1>0, <1>10, <2>1, StoresRest, Zenon DEF vars, drainVars
  <2>4. HealthInv'
    BY <1>0, <1>10, HealthRests DEF vars, healthVars
  <2>. QED BY <2>1, <2>2, <2>3, <2>4 DEF IInv, DrainInv
<1>. QED
  BY <1>1, <1>2, <1>3, <1>4, <1>5, <1>6, <1>7, <1>8, <1>9, <1>10, Zenon DEF Next

-----------------------------------------------------------------------------
(* The invariant of the journal, the drain thread and its window holds in  *)
(* every reachable state.                                                  *)
THEOREM Invariance == Spec => []IInv
<1>. QED BY InitInv, NextInv, PTL DEF Spec

(* Files, handle, queue, stores and window keep their shapes; the window   *)
(* never holds more than PERSIST_FAILURE_WINDOW outcomes.                  *)
THEOREM TypeCorrect == Spec => []TypeOK
<1>1. IInv => TypeOK
  BY Zenon DEF IInv, JournalInv, DrainInv, HealthInv, TypeOK
<1>. QED BY Invariance, <1>1, PTL

(* verify_chain accepts every daily file after any interleaving of         *)
(* appends, failed appends, closes, crashes, restarts and midnights.       *)
THEOREM ChainsValid == Spec => []ChainValid
<1>1. IInv => ChainValid
  BY Zenon DEF IInv, JournalInv
<1>. QED BY Invariance, <1>1, PTL

(* _persist writes the journal before the database: a row without a line   *)
(* in a file is one whose line a crash took with the open gzip member.     *)
THEOREM StagesOrdered == Spec => []RowsJournaled
<1>1. IInv => RowsJournaled
  BY Zenon DEF IInv, DrainInv
<1>. QED BY Invariance, <1>1, PTL

(* The persistence_failing reports match the failures of the process:      *)
(* each is paid for by Threshold failures of its own, and no window full   *)
(* of failures stays unreported.                                           *)
THEOREM ReportsHonest == Spec => []ReportsMatchFailures
<1>1. IInv => ReportsMatchFailures
  BY Zenon DEF IInv, HealthInv, ReportsMatchFailures
<1>. QED BY Invariance, <1>1, PTL
=============================================================================
