---------------------------- MODULE MCQuarantine ----------------------------
(* Model values and symmetry for the model checking of Quarantine. *)
EXTENDS Quarantine, TLC

CallSymmetry == Permutations(Calls)
=============================================================================
