--------------------------- MODULE MCPackingConfirm ---------------------------
(* Model checking of PackingConfirm: two requests for Team B behind one      *)
(* waiting place, and a third request that revises, cancels or edits.        *)
EXTENDS PackingConfirm, TLC
=============================================================================
