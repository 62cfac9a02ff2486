----------------------------- MODULE UdevStream -----------------------------
(* The udev_monitor worker: the process it is, the udevadm child it reads,  *)
(* the stream it cuts into lines and blocks whatever way the chunks fall,   *)
(* and the device rows that come of it.                                     *)
EXTENDS Naturals, SequencesExt, Projector

CONSTANTS Devices,        \* device paths
          Ids,            \* vendor, product and serial of a device, or Null
          MaxBlockLines,  \* _MAX_BLOCK_LINES (500)
          MaxLineBuf,     \* _MAX_LINEBUF_CHARS (1 MiB), in pieces of text
          MaxChunk,       \* one read (65536 bytes, well under the cap)
          MaxBlocks       \* blocks the child prints

ASSUME ChunkUnderCap == MaxChunk <= MaxLineBuf

VARIABLES monitor,        \* where main() of the worker is
          stopping,       \* the event its signal handlers set
          child,          \* udevadm: none, up, stuck (ignores SIGTERM), dead
          pipe,           \* printed and not yet read
          linebuf, block, \* _linebuf, _block
          devrows,        \* table device_state
          printed,        \* blocks printed
          mixed,          \* history: records made of lines of two blocks
          truth, dropped  \* history: the last event of a key; a cap cut something

monvars == <<monitor, stopping, child>>

streamvars == <<pipe, linebuf, block, devrows, printed, mixed, truth, dropped>>

udevvars == <<monvars, streamvars>>

NewLine == [line |-> "end", dev |-> Null, n |-> 0]

Text(line, d, n) == [line |-> line, dev |-> d, n |-> n]

\* The blocks udevadm prints: lines and the empty line that ends them.  A long
\* block has more lines than the cap, a long line more text.
BlockOf(shape, action, d, n) ==
  CASE shape = "plain" ->
         <<Text(action, d, n), NewLine, Text("device", d, n), NewLine, NewLine>>
    [] shape = "long block" ->
         <<Text(action, d, n), NewLine, Text("other", d, n), NewLine, Text("other", d, n), NewLine,
           Text("other", d, n), NewLine, Text("device", d, n), NewLine, NewLine>>
    [] shape = "long line" ->
         <<Text(action, d, n), NewLine, Text("other", d, n), Text("rest", d, n), Text("rest", d, n), NewLine,
           Text("device", d, n), NewLine, NewLine>>

\* parse_event_block: nothing without an ACTION; the last line of a name counts.
Lines(lines, names) == SelectSeq(lines, LAMBDA l : l.line \in names)

parse_event_block(lines) ==
  LET acts == Lines(lines, {"add", "remove", "change"})
      devs == Lines(lines, {"device"})
  IN  IF acts = <<>> THEN <<>>
      ELSE <<[action |-> Last(acts).line, n |-> Last(acts).n,
              devpath |-> IF devs = <<>> THEN Null ELSE Last(devs).dev,
              ids |-> IF devs = <<>> THEN Null ELSE Ids[Last(devs).dev],
              blocks |-> {l.n : l \in ToSet(lines)}]>>

\* _record_to_event: anything but add and remove is a change.
device_event(r) ==
  [module |-> "udev_monitor", ids |-> r.ids, devpath |-> r.devpath, name |-> Null,
   action |-> CASE r.action = "add" -> "device_added"
                [] r.action = "remove" -> "device_removed"
                [] OTHER -> "device_changed"]

\* One piece of the text: a newline ends the line, an empty line the block; a
\* block over the cap is dropped, and reading goes on after it.
Piece(s, t) ==
  IF t # NewLine THEN [s EXCEPT !.linebuf = Append(@, t)]
  ELSE IF s.linebuf = <<>>
       THEN [s EXCEPT !.records = @ \o parse_event_block(s.block), !.block = <<>>]
       ELSE LET b == Append(s.block, Head(s.linebuf))
                over == Len(b) > MaxBlockLines
            IN  [s EXCEPT !.linebuf = <<>>, !.block = IF over THEN <<>> ELSE b, !.cut = @ \/ over]

\* poll, once a chunk was read: text without a newline over the cap goes, and
\* the block it is in with it.
Chunk_KeepBlock(buf, blk, chunk) ==
  LET text == buf \o chunk
  IN  IF Len(text) > MaxLineBuf
      THEN [linebuf |-> <<>>, block |-> blk, records |-> <<>>, cut |-> TRUE]
      ELSE FoldLeft(Piece, [linebuf |-> <<>>, block |-> blk, records |-> <<>>, cut |-> FALSE], text)

Chunk(buf, blk, chunk) ==
  LET text == buf \o chunk
  IN  IF NewLine \notin ToSet(text) /\ Len(text) > MaxLineBuf
      THEN [linebuf |-> <<>>, block |-> <<>>, records |-> <<>>, cut |-> TRUE]
      ELSE FoldLeft(Piece, [linebuf |-> <<>>, block |-> blk, records |-> <<>>, cut |-> FALSE], text)

UdevOff ==
  /\ monitor = "off" /\ stopping = FALSE /\ child = "none" /\ pipe = <<>> /\ linebuf = <<>>
  /\ block = <<>> /\ devrows = EmptyTable /\ printed = 0 /\ mixed = {} /\ truth = EmptyTable
  /\ dropped = FALSE

UdevInit ==
  /\ monitor = "main" /\ stopping = FALSE /\ child = "none" /\ pipe = <<>> /\ linebuf = <<>>
  /\ block = <<>> /\ devrows = EmptyTable /\ printed = 0 /\ mixed = {} /\ truth = EmptyTable
  /\ dropped = FALSE

\* main: the handlers first, then start() spawns the child.
Enter ==
  /\ \/ monitor = "main" /\ monitor' = "handled" /\ child' = child
     \/ monitor = "handled" /\ monitor' = "loop" /\ child' = "up"
  /\ UNCHANGED <<stopping, streamvars>>

\* SIGTERM: fatal before the handlers are in, a flag after.
Terminate ==
  /\ monitor \in {"main", "handled", "loop"} /\ ~stopping
  /\ IF monitor = "main"
     THEN monitor' = "exited" /\ UNCHANGED stopping
     ELSE stopping' = TRUE /\ UNCHANGED monitor
  /\ UNCHANGED <<child, streamvars>>

\* The child prints a block, dies, or stops heeding signals.
ChildPrints ==
  /\ child \in {"up", "stuck"} /\ printed < MaxBlocks
  /\ \E shape \in {"plain", "long block", "long line"}, a \in {"add", "remove", "change"}, d \in Devices :
       pipe' = pipe \o BlockOf(shape, a, d, printed + 1)
  /\ printed' = printed + 1
  /\ UNCHANGED <<monvars, linebuf, block, devrows, mixed, truth, dropped>>

ChildFails ==
  /\ \/ child = "up" /\ child' \in {"dead", "stuck"}
     \/ child = "stuck" /\ child' = "dead"
  /\ UNCHANGED <<monitor, stopping, streamvars>>

\* One step of the loop with something to read: a chunk of any length, the
\* records of it as events, and each event projected.
Poll ==
  /\ monitor = "loop" /\ ~stopping /\ pipe # <<>>
  /\ \E n \in 1..Min({MaxChunk, Len(pipe)}) :
       LET s == Chunk(linebuf, block, SubSeq(pipe, 1, n))
           events == [i \in DOMAIN s.records |-> device_event(s.records[i])]
           named == SelectSeq(events, LAMBDA ev : ev.devpath # Null)
       IN  /\ pipe' = SubSeq(pipe, n + 1, Len(pipe))
           /\ linebuf' = s.linebuf /\ block' = s.block
           /\ devrows' = FoldLeft(LAMBDA t, ev : project(ev, t, Null), devrows, events)
           /\ mixed' = mixed \cup {r \in ToSet(s.records) : r.blocks # {r.n}}
           /\ truth' = FoldLeft(LAMBDA t, ev : (ev.devpath :> ev.action) @@ t, truth, named)
           /\ dropped' = (dropped \/ s.cut)
  /\ UNCHANGED <<monvars, printed>>

\* The loop ends on the flag, or when the pipe is at its end.
LeaveLoop ==
  /\ monitor = "loop" /\ (stopping \/ (pipe = <<>> /\ child = "dead"))
  /\ monitor' = "closing" /\ UNCHANGED <<stopping, child, streamvars>>

\* close: terminate and wait, and kill a child that does not go.
Close ==
  /\ monitor = "closing"
  /\ child' = "dead" /\ monitor' = "exited"
  /\ UNCHANGED <<stopping, streamvars>>

UdevNext ==
  \/ Enter \/ Terminate \/ ChildPrints \/ ChildFails \/ Poll \/ LeaveLoop \/ Close

(* ------------------------------ properties ------------------------------ *)

UdevTypeOK ==
  /\ monitor \in {"off", "main", "handled", "loop", "closing", "exited"}
  /\ child \in {"none", "up", "stuck", "dead"} /\ stopping \in BOOLEAN
  /\ printed \in 0..MaxBlocks /\ \A k \in DOMAIN devrows : devrows[k].status \in {"present", "removed"}

\* No record is put together from the lines of two blocks, wherever the chunks
\* end and whatever the two caps drop.
NoMixedRecord == mixed = {}

\* What an endless line or block can hold of the worker's memory is bounded by
\* the two caps.
StreamBounded == Len(block) <= MaxBlockLines /\ Len(linebuf) <= MaxLineBuf

\* A worker that ends by itself or by SIGTERM, at any moment of its start, takes
\* its udevadm with it.
NoOrphan == monitor = "exited" => child \in {"none", "dead"}

\* The rows are what the stream said: a device's row is present or removed as
\* its last event was, when no other device shares its ids and no cap cut in.
DeviceRowTrue ==
  ~dropped => \A d \in DOMAIN truth :
    LET k == IF Ids[d] = Null THEN d ELSE Ids[d]
        shared == \E e \in DOMAIN truth \ {d} : Ids[e] = Ids[d] /\ Ids[d] # Null
    IN  shared \/ IF truth[d] = "device_removed"
                  THEN k \in DOMAIN devrows => devrows[k].status = "removed"
                  ELSE k \in DOMAIN devrows /\ devrows[k].status = "present"

\* The device rows are what the kernel said, block by block, however the pipe cuts
\* the stream, within the caps, and no udevadm outlives its worker.
DevicesHonest == UdevTypeOK /\ NoMixedRecord /\ DeviceRowTrue /\ StreamBounded /\ NoOrphan
=============================================================================
