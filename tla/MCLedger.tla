------------------------------- MODULE MCLedger -------------------------------
(* Model checking of Ledger: three requests on one project, with a history   *)
(* of two versions that the first change overflows.                          *)
EXTENDS Ledger, TLC

Symmetry == Permutations(Requests) \cup Permutations(Documents)
=============================================================================
