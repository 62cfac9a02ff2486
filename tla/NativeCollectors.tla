-------------------------- MODULE NativeCollectors --------------------------
(* The native side of the seven kernel collectors: how each is loaded and   *)
(* attached, what its probe records of what the kernel does, how a record   *)
(* is decoded, and the event its worker makes of it.  An act of the kernel  *)
(* has a tracepoint, the CPU it runs on, a number (its timestamp) and the   *)
(* arguments of the tracepoint.  Every operator is a function.              *)
EXTENDS Integers, SequencesExt, Projector

CONSTANTS Cpus    \* the CPUs that are online

(* ------------------------------- loading -------------------------------- *)

\* A load is a sequence of steps, any of which may fail and end the worker.
load_and_populate_offsets == <<<<"load">>, <<"offsets">>>>

load_bpf == <<<<"load">>>>

attach_btf_tracepoint(tp) == <<<<"attach", tp>>>>

\* Attaching opens a perf event on CPU 0; the others are opened one by one.
enable_tracepoint_on_all_cpus(tp) ==
  LET cpus == SetToSeq(Cpus) IN [i \in DOMAIN cpus |-> <<"cpu", tp, cpus[i]>>]

attach_tracepoint_OneCpu(tp) == <<<<"attach", tp>>>>

attach_tracepoint(tp) == <<<<"attach", tp>>>> \o enable_tracepoint_on_all_cpus(tp)

take_ring == <<<<"ring">>>>

LoadedProgram ==
  load_and_populate_offsets \o attach_btf_tracepoint("sched_process_exec") \o take_ring

LoadedExitProgram ==
  load_and_populate_offsets \o attach_btf_tracepoint("sched_process_exit") \o take_ring

LoadedConnectProgram ==
  load_and_populate_offsets \o attach_btf_tracepoint("inet_sock_set_state") \o take_ring

LoadedConnect6Program ==
  load_and_populate_offsets \o attach_btf_tracepoint("inet_sock_set_state") \o take_ring

LoadedPtraceProgram == load_bpf \o attach_tracepoint("sys_enter_ptrace") \o take_ring

\* Both ways to load a module, into one ring.
LoadedModuleLoadProgram ==
  load_bpf \o attach_tracepoint("sys_enter_finit_module")
    \o attach_tracepoint("sys_enter_init_module") \o take_ring

LoadedRawSocketProgram == load_bpf \o attach_tracepoint("sys_enter_socket") \o take_ring

load_and_attach ==
  [process_collector |-> LoadedProgram, process_collector_exit |-> LoadedExitProgram,
   outbound_connection_tracker |-> LoadedConnectProgram,
   outbound_connection_tracker6 |-> LoadedConnect6Program,
   process_collector_ptrace |-> LoadedPtraceProgram,
   process_collector_module_load |-> LoadedModuleLoadProgram,
   process_collector_raw_socket |-> LoadedRawSocketProgram]

(* -------------------------------- probes -------------------------------- *)

\* What a probe puts in its ring: one record or none.  Without the offsets the
\* struct-reading probes record nothing rather than garbage.
try_process_exec(a, offsets) ==
  IF ~offsets THEN <<>> ELSE <<[n |-> a.n, pid |-> a.pid, comm |-> a.exe]>>

try_process_exit(a, offsets) ==
  IF ~offsets THEN <<>> ELSE <<[n |-> a.n, pid |-> a.pid, exit_code |-> a.code]>>

SynSent == 2

Established == 1

try_outbound_connection(a, offsets) ==
  IF a.from # SynSent \/ a.to # Established \/ ~offsets \/ a.family # 2 THEN <<>>
  ELSE <<[n |-> a.n, pid |-> a.pid, daddr |-> a.daddr]>>

try_outbound_connection6(a, offsets) ==
  IF a.from # SynSent \/ a.to # Established \/ ~offsets \/ a.family # 10 THEN <<>>
  ELSE <<[n |-> a.n, pid |-> a.pid, daddr |-> a.daddr]>>

\* The requests that write to the target, of another process than the caller.
Interesting == {4, 5, 6, 13, 16, 16901, 16902}

try_ptrace_syscall(a) ==
  IF a.request \notin Interesting \/ a.target = a.pid THEN <<>>
  ELSE <<[n |-> a.n, pid |-> a.pid, request |-> a.request, target |-> a.target]>>

try_finit_module_syscall(a) == <<[n |-> a.n, pid |-> a.pid, variant |-> 0, fd |-> a.fd]>>

try_init_module_syscall(a) == <<[n |-> a.n, pid |-> a.pid, variant |-> 1, fd |-> -1]>>

\* AF_PACKET of any type, and SOCK_RAW of the two inet families; the type is
\* told under its flags and recorded with them.
try_socket_syscall(a) ==
  IF a.family # 17 /\ ~(a.family \in {2, 10} /\ a.type % 16 = 3) THEN <<>>
  ELSE <<[n |-> a.n, pid |-> a.pid, family |-> a.family, type |-> a.type]>>

Probe(c, a, offsets) ==
  CASE c = "process_collector" -> try_process_exec(a, offsets)
    [] c = "process_collector_exit" -> try_process_exit(a, offsets)
    [] c = "outbound_connection_tracker" -> try_outbound_connection(a, offsets)
    [] c = "outbound_connection_tracker6" -> try_outbound_connection6(a, offsets)
    [] c = "process_collector_ptrace" -> try_ptrace_syscall(a)
    [] c = "process_collector_module_load" /\ a.tp = "sys_enter_finit_module" ->
         try_finit_module_syscall(a)
    [] c = "process_collector_module_load" -> try_init_module_syscall(a)
    [] c = "process_collector_raw_socket" -> try_socket_syscall(a)

(* ------------------------------- decoding ------------------------------- *)

\* The wait status: the low seven bits are a signal, the second byte a status.
exit_status(r) == IF r.exit_code % 128 = 0 THEN (r.exit_code \div 256) % 256 ELSE -1

killed_by_signal(r) == IF r.exit_code % 128 # 0 THEN r.exit_code % 128 ELSE -1

is_loopback(r) == r.daddr = "loopback"

is_loopback6(r) == r.daddr = "loopback"

variant_str(r) == IF r.variant = 0 THEN "finit_module" ELSE "init_module"

family_str(r) == CASE r.family = 2 -> "AF_INET" [] r.family = 10 -> "AF_INET6" [] r.family = 17 -> "AF_PACKET"

request_str(r) ==
  CASE r.request = 4 -> "POKETEXT" [] r.request = 5 -> "POKEDATA" [] r.request = 6 -> "POKEUSR"
    [] r.request = 13 -> "SETREGS" [] r.request = 16 -> "ATTACH"
    [] r.request = 16901 -> "SETREGSET" [] r.request = 16902 -> "SEIZE"

(* ------------------------------- streams -------------------------------- *)

\* poll(): what Python gets of a drained record, the connections to the host
\* itself left out.
ProcessExecStream(r) == <<[n |-> r.n, pid |-> r.pid, comm |-> r.comm]>>

ProcessExitStream(r) ==
  <<[n |-> r.n, pid |-> r.pid, exit_status |-> exit_status(r), killed_by_signal |-> killed_by_signal(r)]>>

ProcessConnectStream(r) == IF is_loopback(r) THEN <<>> ELSE <<r>>

ProcessConnectStream6(r) == IF is_loopback6(r) THEN <<>> ELSE <<r>>

ProcessPtraceStream(r) == <<r @@ [request_name |-> request_str(r)]>>

ProcessModuleLoadStream(r) == <<r @@ [variant_name |-> variant_str(r)]>>

ProcessRawSocketStream(r) == <<r @@ [family_name |-> family_str(r)]>>

(* ------------------------------- workers -------------------------------- *)

\* The event a worker makes of a record; the path of the program is not in it.
ProcessCollectorWorker(r) ==
  [module |-> "process_collector", action |-> "process_start", n |-> r.n, pid |-> r.pid,
   comm |-> r.comm, exe |-> Null]

ProcessCollectorExitWorker(r) ==
  [module |-> "process_collector_exit", action |-> "process_exit", n |-> r.n, pid |-> r.pid,
   outcome |-> IF r.exit_status = 0 THEN "success"
               ELSE IF r.exit_status > 0 \/ r.killed_by_signal # -1 THEN "failure"
               ELSE "unknown"]

ProcessCollectorPtraceWorker(r) ==
  [module |-> "process_collector_ptrace", action |-> "ptrace_call", n |-> r.n, pid |-> r.pid,
   ptrace_request |-> r.request_name]

ProcessCollectorRawSocketWorker(r) ==
  [module |-> "process_collector_raw_socket", action |-> "raw_socket_created", n |-> r.n,
   pid |-> r.pid, socket_family |-> r.family_name, socket_type |-> r.type]

ProcessCollectorModuleLoadWorker(r) ==
  [module |-> "process_collector_module_load", action |-> "module_load_attempt", n |-> r.n,
   pid |-> r.pid, module_load_variant |-> r.variant_name, module_load_fd |-> r.fd]

OutboundConnectionTrackerWorker(r) ==
  [module |-> "outbound_connection_tracker", action |-> "outbound_connection", n |-> r.n,
   ts |-> r.n, pid |-> r.pid, daddr |-> r.daddr, dport |-> 443]

OutboundConnectionTracker6Worker(r) ==
  [module |-> "outbound_connection_tracker6", action |-> "outbound_connection", n |-> r.n,
   ts |-> r.n, pid |-> r.pid, daddr |-> r.daddr, dport |-> 443]

Stream(c, r) ==
  CASE c = "process_collector" -> ProcessExecStream(r)
    [] c = "process_collector_exit" -> ProcessExitStream(r)
    [] c = "outbound_connection_tracker" -> ProcessConnectStream(r)
    [] c = "outbound_connection_tracker6" -> ProcessConnectStream6(r)
    [] c = "process_collector_ptrace" -> ProcessPtraceStream(r)
    [] c = "process_collector_module_load" -> ProcessModuleLoadStream(r)
    [] c = "process_collector_raw_socket" -> ProcessRawSocketStream(r)

record_event(c, r) ==
  CASE c = "process_collector" -> ProcessCollectorWorker(r)
    [] c = "process_collector_exit" -> ProcessCollectorExitWorker(r)
    [] c = "outbound_connection_tracker" -> OutboundConnectionTrackerWorker(r)
    [] c = "outbound_connection_tracker6" -> OutboundConnectionTracker6Worker(r)
    [] c = "process_collector_ptrace" -> ProcessCollectorPtraceWorker(r)
    [] c = "process_collector_module_load" -> ProcessCollectorModuleLoadWorker(r)
    [] c = "process_collector_raw_socket" -> ProcessCollectorRawSocketWorker(r)

\* A worker's step on a drained record: nothing, or one event.
EventsOf(c, r) ==
  LET records == Stream(c, r) IN [i \in DOMAIN records |-> record_event(c, records[i])]
=============================================================================
