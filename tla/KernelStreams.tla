---------------------------- MODULE KernelStreams ----------------------------
(* The kernel collectors at work: what the kernel does, on any CPU and at   *)
(* any moment of a collector's load; the rings; the workers' pipes; and the *)
(* daemon, which takes the pipes in any order, enriches what it reads with  *)
(* what /proc says by then and projects it.  The collectors of one run are  *)
(* the ones that write the same table.                                      *)
EXTENDS NativeCollectors

CONSTANTS Programs,       \* process images
          RingSize,       \* records a ring holds (64 or 256 KiB)
          MaxActs,        \* what the kernel does, at most, by group
          MaxDowns        \* deaths of a worker or of the daemon, and reboots

VARIABLES group,          \* the collectors of this run, or "off"
          col,            \* a collector: the steps done, its probes, whether it runs
          ring, pipes,    \* records not polled; events not read by the daemon
          image,          \* the program the process runs, or Null
          boot, boot_id,  \* the boot of the host; what the daemon could read of it
          table,          \* process_state or connection_state
          acts,           \* what the kernel did, counted
          noise, clean,   \* history: acts no collector is for; exits with code zero
          owed,           \* history: the acts a running collector had to tell
          told, again,    \* history: the acts the daemon read once, or twice
          excused,        \* history: acts lost with a full ring or a death
          astray,         \* history: rows that a lost or overtaken event left wrong
          downs

kernvars == <<group, col, ring, pipes, image, boot, boot_id, table, acts, noise, clean, owed, told, again,
              excused, astray, downs>>

Groups ==
  [process |-> {"process_collector", "process_collector_exit"},
   connections |-> {"outbound_connection_tracker", "outbound_connection_tracker6"},
   ptrace |-> {"process_collector_ptrace"},
   modules |-> {"process_collector_module_load"},
   sockets |-> {"process_collector_raw_socket"}]

Collectors == IF group = "off" THEN {} ELSE Groups[group]

\* One process id: what it is called does not matter, that it is used again does.
ThePid == "pid"

\* The boot ids of the host, one after the other.
Boots == <<"boot1", "boot2", "boot3">>

\* What the kernel may do next.
Acts(n) ==
  CASE group = "process" ->
         {[tp |-> "sched_process_exec", cpu |-> 0, n |-> n, pid |-> ThePid, exe |-> e] : e \in Programs}
         \cup IF image = Null THEN {}
              ELSE {[tp |-> "sched_process_exit", cpu |-> 0, n |-> n, pid |-> ThePid, code |-> e[1],
                     thread |-> e[2]] : e \in {<<0, FALSE>>, <<256, FALSE>>, <<139, FALSE>>, <<0, TRUE>>}}
    [] group = "connections" ->
         [tp : {"inet_sock_set_state"}, cpu : {0}, n : {n}, pid : {ThePid},
          from : {SynSent, Established}, to : {Established, 7}, family : {2, 10},
          daddr : {"remote", "loopback"}]
    [] group = "ptrace" ->
         [tp : {"sys_enter_ptrace"}, cpu : Cpus, n : {n}, pid : {ThePid},
          request : {3, 4, 16, 16902}, target : {ThePid, "other"}]
    [] group = "modules" ->
         [tp : {"sys_enter_finit_module"}, cpu : Cpus, n : {n}, pid : {ThePid}, fd : {5}]
         \cup [tp : {"sys_enter_init_module"}, cpu : Cpus, n : {n}, pid : {ThePid}]
    [] group = "sockets" ->
         [tp : {"sys_enter_socket"}, cpu : Cpus, n : {n}, pid : {ThePid},
          family : {2, 10, 16, 17}, type : {1, 3, 524291}]

\* What the collectors are for: the acts one of them has to tell, and which.
Teller(a) ==
  CASE a.tp = "sched_process_exec" -> {"process_collector"}
    [] a.tp = "sched_process_exit" -> {"process_collector_exit"}
    [] a.tp = "inet_sock_set_state" ->
         IF a.from = SynSent /\ a.to = Established /\ a.daddr # "loopback"
         THEN IF a.family = 2 THEN {"outbound_connection_tracker"}
              ELSE {"outbound_connection_tracker6"}
         ELSE {}
    [] a.tp = "sys_enter_ptrace" ->
         IF a.request # 3 /\ a.target # a.pid THEN {"process_collector_ptrace"} ELSE {}
    [] a.tp \in {"sys_enter_finit_module", "sys_enter_init_module"} -> {"process_collector_module_load"}
    [] a.tp = "sys_enter_socket" ->
         IF a.family = 17 \/ (a.family # 16 /\ a.type \in {3, 524291})
         THEN {"process_collector_raw_socket"} ELSE {}

Idle == [done |-> 0, offsets |-> FALSE, attached |-> {}, cpus |-> {}, running |-> FALSE]

KernRest(g) ==
  /\ group = g
  /\ col = [c \in Collectors |-> Idle]
  /\ ring = [c \in Collectors |-> <<>>] /\ pipes = [c \in Collectors |-> <<>>]
  /\ image = Null /\ boot = 1 /\ boot_id = Boots[1] /\ table = EmptyTable /\ acts = 0 /\ noise = {} /\ clean = {}
  /\ owed = {} /\ told = {} /\ again = {} /\ excused = {} /\ astray = {} /\ downs = 0

KernOff == KernRest("off")

KernInit == \E g \in DOMAIN Groups : KernRest(g)

\* The next step of a collector's load; the last one enters its loop.  The loads of
\* two collectors touch nothing in common, so they are taken one after the other.
Load(c) ==
  LET steps == load_and_attach[c]
      step == steps[col[c].done + 1]
  IN  /\ ~col[c].running
      /\ \A d \in Collectors \ {c} : col[d].running \/ col[d] = Idle
      /\ col' = [col EXCEPT ![c] =
           [done |-> @.done + 1,
            offsets |-> @.offsets \/ step[1] = "offsets",
            attached |-> IF step[1] = "attach" THEN @.attached \cup {step[2]} ELSE @.attached,
            cpus |-> CASE step[1] = "attach" -> @.cpus \cup {<<step[2], 0>>}
                       [] step[1] = "cpu" -> @.cpus \cup {<<step[2], step[3]>>}
                       [] OTHER -> @.cpus,
            running |-> step[1] = "ring"]]
      /\ UNCHANGED <<group, ring, pipes, image, boot, boot_id, table, acts, noise, clean, owed, told, again,
                     excused, astray, downs>>

\* A tracepoint that copies a string from user space fires only on a CPU with a
\* perf event of its own.
Faultable(tp) == tp \in {"sys_enter_finit_module", "sys_enter_init_module"}

Fires(c, a) ==
  /\ a.tp \in col[c].attached
  /\ Faultable(a.tp) => <<a.tp, a.cpu>> \in col[c].cpus

\* The kernel acts: each probe records it, or drops it when its ring is full.
KernelActs ==
  LET n == acts + 1
      after(a) == CASE a.tp = "sched_process_exec" -> a.exe
                    [] a.tp = "sched_process_exit" -> IF a.thread THEN image ELSE Null
                    [] OTHER -> image
  IN  /\ n <= MaxActs[group]
      /\ \E a \in Acts(n) :
           LET recs == [c \in Collectors |->
                          IF Fires(c, a) THEN Probe(c, a, col[c].offsets) ELSE <<>>]
               full == {c \in Collectors : recs[c] # <<>> /\ Len(ring[c]) = RingSize}
               due == Teller(a)
               heard == \A c \in due : col[c].running
           IN  /\ acts' = n /\ image' = after(a)
               /\ noise' = IF due = {} THEN noise \cup {n} ELSE noise
               /\ clean' = IF a.tp = "sched_process_exit" /\ a.code = 0 THEN clean \cup {n} ELSE clean
               /\ ring' = [c \in Collectors |-> IF c \in full THEN ring[c] ELSE ring[c] \o recs[c]]
               /\ owed' = IF due # {} /\ heard THEN owed \cup {n} ELSE owed
               /\ excused' = IF due \cap full # {} THEN excused \cup {n} ELSE excused
               /\ astray' = IF group = "process"
                               /\ (~heard \/ due \cap full # {}
                                   \/ (a.tp = "sched_process_exit" /\ a.thread))
                            THEN astray \cup {boot} ELSE astray
      /\ UNCHANGED <<group, col, pipes, boot, boot_id, table, told, again, downs>>

\* One turn of a worker's loop: the ring is drained, its records become events
\* and are written one by one; a worker killed on the way wrote the first ones.
Turn(c) ==
  LET events == FoldLeft(LAMBDA es, r : es \o EventsOf(c, r), <<>>, ring[c])
  IN  /\ col[c].running /\ ring[c] # <<>>
      /\ \E k \in 0..Len(events) :
           /\ \/ k = Len(events) /\ UNCHANGED <<col, excused, astray, downs>>
              \/ /\ k < Len(events) /\ downs < MaxDowns /\ downs' = downs + 1
                 /\ col' = [col EXCEPT ![c] = Idle]
                 /\ excused' = excused \cup {events[i].n : i \in (k + 1)..Len(events)}
                 /\ astray' = astray \cup {boot}
           /\ pipes' = [pipes EXCEPT ![c] = @ \o SubSeq(events, 1, k)]
      /\ ring' = [ring EXCEPT ![c] = <<>>]
      /\ UNCHANGED <<group, image, boot, boot_id, table, acts, noise, clean, owed, told, again>>

\* A load step fails or the worker is killed: its programs are detached, its
\* ring is gone, and the supervisor starts it anew.  The pipe is read out.
WorkerDies(c) ==
  /\ col[c] # Idle /\ downs < MaxDowns /\ downs' = downs + 1
  /\ col' = [col EXCEPT ![c] = Idle] /\ ring' = [ring EXCEPT ![c] = <<>>]
  /\ excused' = excused \cup {r.n : r \in ToSet(ring[c])}
  /\ astray' = IF ring[c] # <<>> THEN astray \cup {boot} ELSE astray
  /\ UNCHANGED <<group, pipes, image, boot, boot_id, table, acts, noise, clean, owed, told, again>>

\* The enricher fills in what /proc says now; a process that is gone adds nothing.
enrich_process(ev) ==
  IF ev.action = "process_start" THEN [ev EXCEPT !.exe = image] ELSE ev

\* A reader thread reads an event, enriches it, and it is projected.  An exit
\* read while a start that came before it waits in the other pipe overtakes it.
Read(c) ==
  /\ pipes[c] # <<>>
  /\ LET ev == enrich_process(Head(pipes[c]))
         waiting == UNION {ToSet(ring[d]) \cup ToSet(pipes[d]) : d \in Collectors \ {c}}
     IN  /\ table' = project(ev, table, boot_id)
         /\ told' = told \cup {ev.n}
         /\ again' = IF ev.n \in told THEN again \cup {ev.n} ELSE again
         /\ astray' = IF group = "process" /\ (boot_id = Null \/ \E r \in waiting : r.n < ev.n)
                      THEN astray \cup {boot} ELSE astray
  /\ pipes' = [pipes EXCEPT ![c] = Tail(@)]
  /\ UNCHANGED <<group, col, ring, image, boot, boot_id, acts, noise, clean, owed, excused, downs>>

\* The daemon goes down with its workers and comes back, over a reboot or not:
\* it reads the boot id, or fails to, and closes the rows of another boot.
Restart(rebooted) ==
  LET lost == UNION {ToSet(ring[c]) \cup ToSet(pipes[c]) : c \in Collectors}
      now == IF rebooted THEN boot + 1 ELSE boot
  IN  /\ group # "off" /\ downs < MaxDowns /\ downs' = downs + 1
      /\ col' = [c \in Collectors |-> Idle]
      /\ ring' = [c \in Collectors |-> <<>>] /\ pipes' = [c \in Collectors |-> <<>>]
      /\ boot' = now /\ image' = IF rebooted THEN Null ELSE image
      /\ \/ boot_id' = Null /\ table' = table
         \/ boot_id' = Boots[now]
            /\ table' = IF group = "process" THEN reconcile_processes(table, Boots[now]) ELSE table
      /\ excused' = excused \cup {r.n : r \in lost}
      /\ astray' = IF lost # {} THEN astray \cup {boot} ELSE astray
      /\ UNCHANGED <<group, acts, noise, clean, owed, told, again>>

KernNext ==
  \/ \E c \in Collectors : Load(c) \/ Turn(c) \/ WorkerDies(c) \/ Read(c)
  \/ group # "off" /\ KernelActs
  \/ \E rebooted \in BOOLEAN : Restart(rebooted)

(* ------------------------------ properties ------------------------------ *)

KernTypeOK ==
  /\ group \in DOMAIN Groups \cup {"off"} /\ boot \in 1..(MaxDowns + 1)
  /\ \A c \in Collectors : Len(ring[c]) <= RingSize
  /\ \A k \in DOMAIN table : group = "process" => table[k].status \in {"running", "exited"}

\* Whatever the kernel did while the collector concerned was running is told or
\* on its way, whichever CPU it was done on, unless a full ring or a death lost
\* it: load_and_attach leaves no blind spot behind it.
EachSeen ==
  \A n \in owed :
    \/ n \in told \cup excused
    \/ \E c \in Collectors : n \in {r.n : r \in ToSet(ring[c]) \cup ToSet(pipes[c])}

\* Two probes share a tracepoint and one ring has two probes, and still no act
\* is told twice, nor one told that is not what the collectors are for.
OnceAndOnlyOwn == again = {} /\ told \cap noise = {}

\* A process ends well only when its code is zero: a signal, with a core or
\* without, is a failure.
OutcomeTrue ==
  \A c \in Collectors : \A ev \in ToSet(pipes[c]) :
    ev.action = "process_exit" => (ev.outcome = "success" <=> ev.n \in clean)

\* When all is read, the row of a process says whether it runs and what, unless
\* in this boot an event was lost, overtook an older one, or was the exit of one
\* thread only: these are the only ways to a wrong row.
RowTrue ==
  group = "process" /\ boot \notin astray
  /\ (\A c \in Collectors : ring[c] = <<>> /\ pipes[c] = <<>>) =>
    LET k == <<ThePid, Boots[boot]>>
        row == IF k \in DOMAIN table THEN table[k] ELSE [status |-> "exited", exe_path |-> Null]
    IN  /\ row.status = "running" <=> image # Null
        /\ image # Null => row.exe_path = image

\* A daemon that read its boot id shows no process of an earlier boot as running.
OtherBootsClosed ==
  group = "process" /\ boot_id # Null =>
    \A k \in DOMAIN table : k[2] # boot_id => table[k].status = "exited"

\* What the probes saw is told once, with its true outcome, and the process rows are
\* what was told, over lost events, deaths of collectors and reboots.
KernelHonest ==
  KernTypeOK /\ EachSeen /\ OnceAndOnlyOwn /\ OutcomeTrue /\ RowTrue /\ OtherBootsClosed
=============================================================================
