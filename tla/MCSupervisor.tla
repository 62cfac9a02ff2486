---------------------------- MODULE MCSupervisor ----------------------------
(* Finite instances of Supervisor for TLC. *)
EXTENDS Supervisor, TLC

\* Sound for the safety run: calls are interchangeable.
SenderSymmetry == Permutations(Senders)
=============================================================================
