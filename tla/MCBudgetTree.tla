----------------------------- MODULE MCBudgetTree -----------------------------
(* Model checking of BudgetTree: a root and its children, two requests in    *)
(* flight.                                                                   *)
EXTENDS BudgetTree, TLC

Symmetry == Permutations(Slots) \cup Permutations(Tasks \ {Root})
=============================================================================
