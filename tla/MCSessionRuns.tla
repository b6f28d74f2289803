---------------------------- MODULE MCSessionRuns ----------------------------
(* Model checking of SessionRuns: a default turn, which uses the scheduler   *)
(* without the watch, next to two agent runs that share a post, or to an     *)
(* agent run and an expert turn.                                             *)
EXTENDS SessionRuns

(* Agent runs and sessions are interchangeable, so a given one of each comes *)
(* first.  The bounds are that the first request is an agent run, that a     *)
(* second agent run and the expert turn do not both come, and that one run   *)
(* at a time is cancelled: a cancellation reaches its own run only.  What is *)
(* cut off is arrivals and cancellations, which no fairness asks for.        *)
FirstAgent   == CHOOSE r \in AgentRuns : TRUE
FirstSession == CHOOSE s \in Sessions : TRUE
Came(r)      == pc[r] # "none"

InOrder ==
    /\ sessionOf[FirstAgent] \in {FirstSession, None}
    /\ (\E r \in Runs : Came(r)) => Came(FirstAgent)

FewRuns ==
    \A r \in AgentRuns \ {FirstAgent}, x \in ExpertTurns : ~(Came(r) /\ Came(x))

OneStopped ==
    \A r, q \in Runs : CancelRequested(r) /\ CancelRequested(q) => r = q
=============================================================================
