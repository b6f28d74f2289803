---------------------------- MODULE TurnLifecycle ----------------------------
(***************************************************************************)
(* What the runtime core promises to the clients of a session: a session   *)
(* serves one turn at a time, a turn ends once, and a turn whose stop was  *)
(* asked while it was being served never ends as completed.                *)
(***************************************************************************)
CONSTANTS Sessions, Turns, None

VARIABLES
    current,    \* the turn that each session is serving, or None
    stopping,   \* the turns whose stop was asked while they were served
    outcome     \* how each turn ended; "none" before, "absent" before it began

lifecycleVars == <<current, stopping, outcome>>

Outcome == {"completed", "failed", "cancelled", "interrupted"}

Served(t) == \E s \in Sessions : current[s] = t

Init ==
    /\ current  = [s \in Sessions |-> None]
    /\ stopping = {}
    /\ outcome  = [t \in Turns |-> "absent"]

Begin(s, t) ==
    /\ current[s] = None
    /\ outcome[t] = "absent"
    /\ current' = [current EXCEPT ![s] = t]
    /\ outcome' = [outcome EXCEPT ![t] = "none"]
    /\ UNCHANGED stopping

AskStop(t) ==
    /\ Served(t)
    /\ stopping' = stopping \cup {t}
    /\ UNCHANGED <<current, outcome>>

End(s, o) ==
    /\ current[s] # None
    /\ o = "completed" => current[s] \notin stopping
    /\ outcome' = [outcome EXCEPT ![current[s]] = o]
    /\ current' = [current EXCEPT ![s] = None]
    /\ UNCHANGED stopping

(* A restart interrupts whatever was being served, in every session at once. *)
InterruptAll ==
    /\ outcome' = [t \in Turns |-> IF Served(t) THEN "interrupted" ELSE outcome[t]]
    /\ current' = [s \in Sessions |-> None]
    /\ UNCHANGED stopping

Next ==
    \/ \E s \in Sessions, t \in Turns : Begin(s, t)
    \/ \E t \in Turns : AskStop(t)
    \/ \E s \in Sessions, o \in Outcome : End(s, o)
    \/ InterruptAll

Spec == Init /\ [][Next]_lifecycleVars
=============================================================================
