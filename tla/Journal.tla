------------------------------- MODULE Journal -------------------------------
(***************************************************************************)
(* The hash-chained daily journal (inspectord/journal.py): its state and   *)
(* its operations, for a specification that owns a journal to compose.     *)
(* A line is <<id, prev_hash>>.  Lines are distinct, so the digest of a    *)
(* line is represented by its id and ZERO_HASH by 0.                       *)
(***************************************************************************)
EXTENDS Naturals, Sequences, SequencesExt

CONSTANT MaxDays    \* model bound: the dates the clock may show

ASSUME JournalAssumption == MaxDays \in Nat \ {0}

VARIABLES
  day,        \* today's date (UTC)
  handle,     \* the date of the open file _fh, 0 when there is none
  prevHash,   \* _prev_hash
  closed,     \* _closed
  file,       \* each file: the lines of its complete gzip members
  tail,       \* lines of the member being written, not yet on disk
  torn,       \* each file: its last member is cut short
  exists,     \* each file: path.exists()
  lost        \* history: lines of members that a crash cut short

handleVars  == <<handle, prevHash, closed>>
fileVars    == <<file, tail, torn, exists>>
journalVars == <<day, handleVars, fileVars, lost>>

Days == 1..MaxDays
hash(line) == line[1]

JournalInit ==
  /\ day = 1
  /\ handle = 0 /\ prevHash = 0 /\ closed = FALSE
  /\ file = [d \in Days |-> <<>>] /\ tail = <<>>
  /\ torn = [d \in Days |-> FALSE]
  /\ exists = [d \in Days |-> FALSE]
  /\ lost = {}

(* Closing _fh completes its gzip member. *)
settled ==
  IF handle = 0 THEN file ELSE [file EXCEPT ![handle] = @ \o tail]

\* mutation: a file that exists is continued with a fresh chain
resumedHash_Fresh == IF handle = day THEN prevHash ELSE 0

(* _open_for_today: keep the handle of today; resume the chain of a file   *)
(* that exists, from its last line if it has one; or start a new chain.    *)
resumedHash ==
  IF handle = day THEN prevHash
  ELSE IF ~exists[day] THEN 0
  ELSE IF file[day] = <<>> THEN prevHash ELSE hash(Last(file[day]))

openForToday ==
  /\ handle' = day
  /\ exists' = [exists EXCEPT ![day] = TRUE]
  /\ file' = IF handle = day THEN file ELSE settled

openTail == IF handle = day THEN tail ELSE <<>>

(* Reading a truncated member raises, and so does append to a closed one.  *)
canAppend == ~closed /\ (handle = day \/ ~torn[day])

append(id) ==
  /\ canAppend
  /\ openForToday
  /\ tail' = Append(openTail, <<id, resumedHash>>)
  /\ prevHash' = id
  /\ UNCHANGED <<day, closed, torn, lost>>

(* The write of the line fails after _open_for_today. *)
appendFails ==
  /\ canAppend
  /\ openForToday
  /\ tail' = openTail
  /\ prevHash' = resumedHash
  /\ UNCHANGED <<day, closed, torn, lost>>

(* append raises before it writes: the journal is closed, or today's file  *)
(* cannot be read back.  The lines decoded before the error moved          *)
(* _prev_hash; the handle of another day has been closed.                  *)
appendRefused ==
  /\ ~canAppend
  /\ IF closed THEN UNCHANGED <<handleVars, fileVars>>
     ELSE /\ file' = settled /\ tail' = <<>> /\ handle' = 0
          /\ prevHash' \in {resumedHash} \cup lost
          /\ UNCHANGED <<closed, torn, exists>>
  /\ UNCHANGED <<day, lost>>

close ==
  /\ file' = settled /\ tail' = <<>> /\ handle' = 0
  /\ closed' = TRUE
  /\ UNCHANGED <<day, prevHash, torn, exists, lost>>

(* The process dies.  Of the open member nothing is on disk yet, or a part *)
(* of it without its end.                                                  *)
crash ==
  /\ torn' \in {torn} \cup
       (IF tail = <<>> THEN {} ELSE {[torn EXCEPT ![handle] = TRUE]})
  /\ lost' = lost \cup {hash(tail[i]) : i \in DOMAIN tail}
  /\ tail' = <<>>
  /\ UNCHANGED <<day, handleVars, file, exists>>

(* A new process makes a new Journal. *)
reopen ==
  /\ handle' = 0 /\ prevHash' = 0 /\ closed' = FALSE
  /\ UNCHANGED <<day, fileVars, lost>>

(* verify_chain over the lines of a file. *)
verifyChain(lines) ==
  \A i \in DOMAIN lines :
    lines[i][2] = IF i = 1 THEN 0 ELSE hash(lines[i - 1])

linesOf(d) == IF handle = d THEN file[d] \o tail ELSE file[d]
Journaled  == UNION {{hash(linesOf(d)[i]) : i \in DOMAIN linesOf(d)} : d \in Days}
=============================================================================
