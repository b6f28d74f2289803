----------------------------- MODULE MCLiveTurns -----------------------------
(* Model checking of LiveTurns: two turns, of one session or of two that     *)
(* compete for the one entry of the table, and a status request.             *)
EXTENDS LiveTurns

(* Sessions and turns are interchangeable, so it is enough to look at the    *)
(* behaviours in which a given turn comes first and takes a given session.   *)
(* Symmetry sets would say the same, but not for liveness.  No step that the *)
(* fairness asks for leaves the constraint: each is of a turn that came.     *)
FirstTurn    == CHOOSE t \in Turns : TRUE
FirstSession == CHOOSE s \in Sessions : TRUE
InOrder ==
    /\ sessionOf[FirstTurn] \in {FirstSession, None}
    /\ (\E t \in Turns : pc[t] # "none") => pc[FirstTurn] # "none"
=============================================================================
