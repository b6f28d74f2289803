---------------------------- MODULE MCRuntimeCore ----------------------------
(* Model checking of RuntimeCore: two instances on one database. *)
EXTENDS RuntimeCore, TLC

Symmetry == Permutations(Sessions) \cup Permutations(Turns) \cup Permutations(Runtimes)
=============================================================================
