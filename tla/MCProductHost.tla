---------------------------- MODULE MCProductHost ----------------------------
(* Model checking of ProductHost: two processes that compete for one state   *)
(* directory.                                                                *)
EXTENDS ProductHost, TLC

Symmetry == Permutations(Sessions) \cup Permutations(Turns) \cup Permutations(Runtimes)
=============================================================================
