----------------------------- MODULE SessionRuns -----------------------------
(***************************************************************************)
(* Runs of the Python runtime and the leases they hold: the session lock   *)
(* of runtime/scheduler.py, the exclusive resources of runtime/deadlock.py *)
(* and the tool workers of runtime/tool_engine.py, as used by the three    *)
(* entry points that create a run: run_agent (runtime/agent_loop.py),      *)
(* run_expert_turn (expert_turn.py) and run_turn (product_turn.py).  Each  *)
(* request runs on a thread of its own.                                    *)
(*                                                                         *)
(* Abstractions.  Run identifiers are fresh and used once.  What a tool    *)
(* computes is left out: it returns, fails, or outlives its timeout.  The  *)
(* watch's wait edges are left out: begin is its only caller outside the   *)
(* tests and the demo, and a refused begin clears the edges it added in    *)
(* the same critical section, so no cycle ever forms.  A cancel_event and  *)
(* the cancel registry of runtime/cancel.py are one set of requests.  What *)
(* a run answers its caller is left out.                                   *)
(***************************************************************************)
EXTENDS Naturals

CONSTANTS
    Sessions,        \* session ids; session:<sid> is a resource of the watch
    Experts,         \* posts; expert:<eid> is a resource of the watch
    AgentRuns,       \* runs created by run_agent
    ExpertTurns,     \* runs created by run_expert_turn
    DefaultTurns,    \* runs created by run_turn without a post
    None,            \* no session, no post, no holder
    MaxSteps         \* run.max_steps

Runs      == AgentRuns \cup ExpertTurns \cup DefaultTurns
Resources == Sessions \cup Experts

ASSUME RunsAssumption ==
    /\ AgentRuns \cap ExpertTurns = {}
    /\ AgentRuns \cap DefaultTurns = {}
    /\ ExpertTurns \cap DefaultTurns = {}
    /\ Sessions \cap Experts = {}
    /\ None \notin Resources \cup Runs
    /\ MaxSteps \in Nat

VARIABLES
    runState,     \* Run.state, "none" before the run is created
    sessionOf,    \* Run.session_id
    expertOf,     \* Run.expert_id
    steps,        \* Run.steps
    locks,        \* Scheduler._locks
    holds,        \* DeadlockWatch._holds
    runHolds,     \* DeadlockWatch._run_holds
    workers,      \* ToolEngine._workers: runs whose tool thread is alive
    requested,    \* agent runs that were asked to stop; the turns never look
    pc            \* where the thread of a run is

runVars   == <<runState, sessionOf, expertOf, steps>>
leaseVars == <<locks, holds, runHolds>>
vars == <<runVars, leaseVars, workers, requested, pc>>

TerminalState == {"done", "failed", "cancelled"}
OpenState == {"pending", "planning", "acting", "waiting_tool", "waiting_hitl"}

(* LEGAL, without the edges of the reflecting state, which only a tender     *)
(* workflow passes through on its way from acting to its end.                *)
Legal ==
    {<<"pending", "planning">>, <<"planning", "acting">>, <<"planning", "waiting_hitl">>,
     <<"planning", "done">>, <<"waiting_hitl", "acting">>, <<"acting", "waiting_tool">>,
     <<"waiting_tool", "acting">>, <<"acting", "done">>}
    \cup (OpenState \X {"cancelled", "failed"})

TypeOK ==
    /\ runState  \in [Runs -> OpenState \cup TerminalState \cup {"none"}]
    /\ sessionOf \in [Runs -> Sessions \cup {None}]
    /\ expertOf  \in [Runs -> Experts \cup {None}]
    /\ steps     \in [Runs -> 0 .. MaxSteps + 1]
    /\ locks     \in SUBSET Sessions
    /\ holds     \in [Resources -> Runs \cup {None}]
    /\ runHolds  \in [Runs -> SUBSET Resources]
    /\ workers   \in SUBSET Runs
    /\ requested \in SUBSET Runs
    /\ pc        \in [Runs -> {"none", "admitted", "working", "calling", "tool", "closing",
                               "answered", "draining", "idle", "ended", "over"}]

Init ==
    /\ runState  = [r \in Runs |-> "none"]
    /\ sessionOf = [r \in Runs |-> None]
    /\ expertOf  = [r \in Runs |-> None]
    /\ steps     = [r \in Runs |-> 0]
    /\ locks     = {}
    /\ holds     = [x \in Resources |-> None]
    /\ runHolds  = [r \in Runs |-> {}]
    /\ workers   = {}
    /\ requested = {}
    /\ pc        = [r \in Runs |-> "none"]

-----------------------------------------------------------------------------
(* Scheduler.transition: an illegal edge leaves the state and returns False. *)
IsLegal(r, dest) == <<runState[r], dest>> \in Legal
After(r, dest)   == IF IsLegal(r, dest) THEN dest ELSE runState[r]

Transition(r, dest) == runState' = [runState EXCEPT ![r] = After(r, dest)]

CancelRequested(r) == r \in requested \/ runState[r] = "cancelled"

Goes(r, from, to) ==
    /\ pc[r] = from
    /\ pc' = [pc EXCEPT ![r] = to]

(* Scheduler.create_run.  A busy session gives a run that has failed, which  *)
(* run_agent and run_expert_turn answer at once; run_turn does not look.     *)
CreateRun(r, s, e) ==
    /\ pc[r] = "none"
    /\ sessionOf' = [sessionOf EXCEPT ![r] = s]
    /\ expertOf' = [expertOf EXCEPT ![r] = e]
    /\ IF s \in locks
       THEN /\ runState' = [runState EXCEPT ![r] = "failed"]
            /\ IF r \in DefaultTurns
               THEN Goes(r, "none", "admitted")
               ELSE Goes(r, "none", "over")
            /\ UNCHANGED locks
       ELSE /\ locks' = locks \cup {s}
            /\ runState' = [runState EXCEPT ![r] = "pending"]
            /\ Goes(r, "none", "admitted")
    /\ UNCHANGED <<steps, holds, runHolds, workers, requested>>

(* Scheduler.cancel, and the cancel_event of a run. *)
CancelRun(r) ==
    /\ runState[r] \in OpenState
    /\ Transition(r, "cancelled")
    /\ requested' = requested \cup ({r} \cap AgentRuns)
    /\ UNCHANGED <<sessionOf, expertOf, steps, leaseVars, workers, pc>>

SetCancelEvent(r) ==
    /\ r \in AgentRuns
    /\ pc[r] \notin {"none", "over"}
    /\ requested' = requested \cup {r}
    /\ UNCHANGED <<runVars, leaseVars, workers, pc>>

\* Mutant: the lock is released and the end of the watch's holds is skipped.
ReleaseLockOnly(r) ==
    /\ Goes(r, "idle", "over")
    /\ locks' = locks \ {sessionOf[r]}
    /\ requested' = requested \ {r}
    /\ UNCHANGED <<runVars, holds, runHolds, workers>>

(* Scheduler.release does not ask who took the lock. *)
ReleaseLock(r) ==
    /\ Goes(r, "ended", "over")
    /\ locks' = locks \ {sessionOf[r]}
    /\ requested' = requested \ {r}
    /\ UNCHANGED <<runVars, holds, runHolds, workers>>

-----------------------------------------------------------------------------
(* DeadlockWatch.begin: one holder per resource, all of the batch or, after  *)
(* the rollback, nothing of it.                                              *)
Wanted(r) == {x \in {sessionOf[r], expertOf[r]} : x # None}

\* Mutant: a busy post does not refuse the batch.
BeginSessionOnly(r) ==
    /\ r \in AgentRuns
    /\ Goes(r, "admitted", "working")
    /\ holds[sessionOf[r]] \in {None, r}
    /\ holds' = [x \in Resources |-> IF x \in Wanted(r) THEN r ELSE holds[x]]
    /\ runHolds' = [runHolds EXCEPT ![r] = @ \cup Wanted(r)]
    /\ Transition(r, "planning")
    /\ UNCHANGED <<sessionOf, expertOf, steps, locks, workers, requested>>

\* Mutant: a refused batch is not rolled back.
BeginWithoutRollback(r) ==
    LET taken == {x \in Wanted(r) : holds[x] \in {None, r}} IN
    /\ r \in AgentRuns
    /\ holds' = [x \in Resources |-> IF x \in taken THEN r ELSE holds[x]]
    /\ runHolds' = [runHolds EXCEPT ![r] = @ \cup taken]
    /\ Transition(r, IF taken = Wanted(r) THEN "planning" ELSE "failed")
    /\ Goes(r, "admitted", IF taken = Wanted(r) THEN "working" ELSE "ended")
    /\ UNCHANGED <<sessionOf, expertOf, steps, locks, workers, requested>>

BeginHolds(r) ==
    /\ r \in AgentRuns
    /\ IF \A x \in Wanted(r) : holds[x] \in {None, r}
       THEN /\ holds' = [x \in Resources |-> IF x \in Wanted(r) THEN r ELSE holds[x]]
            /\ runHolds' = [runHolds EXCEPT ![r] = @ \cup Wanted(r)]
            /\ Transition(r, "planning")
            /\ Goes(r, "admitted", "working")
       ELSE /\ Transition(r, "failed")
            /\ Goes(r, "admitted", "ended")
            /\ UNCHANGED <<holds, runHolds>>
    /\ UNCHANGED <<sessionOf, expertOf, steps, locks, workers, requested>>

(* DeadlockWatch.end *)
EndHolds(r) ==
    /\ Goes(r, "idle", "ended")
    /\ holds' = [x \in Resources |->
                    IF x \in runHolds[r] /\ holds[x] = r THEN None ELSE holds[x]]
    /\ runHolds' = [runHolds EXCEPT ![r] = {}]
    /\ UNCHANGED <<runVars, locks, workers, requested>>

\* Mutant: the resources are released whoever still works with them.
WhenAnswered(r) ==
    /\ r \in AgentRuns
    /\ Goes(r, "answered", "idle")
    /\ UNCHANGED <<runVars, leaseVars, workers, requested>>

(* ToolEngine.when_idle: the workers still alive are awaited by a thread. *)
WhenIdle(r) ==
    /\ r \in AgentRuns
    /\ Goes(r, "answered", IF r \in workers THEN "draining" ELSE "idle")
    /\ UNCHANGED <<runVars, leaseVars, workers, requested>>

Drained(r) ==
    /\ r \notin workers
    /\ Goes(r, "draining", "idle")
    /\ UNCHANGED <<runVars, leaseVars, workers, requested>>

-----------------------------------------------------------------------------
(* The run ends not ok: as cancelled when that was asked, or as failed. *)
Fails(r, from) ==
    /\ r \in AgentRuns
    /\ Goes(r, from, "answered")
    /\ \/ CancelRequested(r) /\ Transition(r, "cancelled")
       \/ Transition(r, "failed")
    /\ UNCHANGED <<sessionOf, expertOf, steps, leaseVars, requested>>

(* run_agent checks for a cancellation between its steps.  An exception ends *)
(* it at any of them.                                                        *)
StopsEarly(r) ==
    /\ \/ Fails(r, "working")
       \/ Fails(r, "closing")
    /\ UNCHANGED workers

Act(r) ==
    /\ r \in AgentRuns
    /\ pc[r] = "working"
    /\ runState[r] = "planning"
    /\ ~CancelRequested(r)
    /\ Transition(r, "acting")
    /\ UNCHANGED <<sessionOf, expertOf, steps, leaseVars, workers, requested, pc>>

\* Mutant: the scheduler counts the tool calls and refuses none.
CallToolUncounted(r) ==
    /\ r \in AgentRuns
    /\ runState[r] = "acting"
    /\ ~CancelRequested(r)
    /\ steps' = [steps EXCEPT ![r] = @ + 1]
    /\ Transition(r, "waiting_tool")
    /\ Goes(r, "working", "calling")
    /\ UNCHANGED <<sessionOf, expertOf, leaseVars, workers, requested>>

CallTool(r) ==
    /\ r \in AgentRuns
    /\ runState[r] = "acting"
    /\ ~CancelRequested(r)
    /\ steps' = [steps EXCEPT ![r] = @ + 1]
    /\ IF steps[r] < MaxSteps
       THEN /\ Transition(r, "waiting_tool")
            /\ Goes(r, "working", "calling")
       ELSE /\ Transition(r, "failed")
            /\ Goes(r, "working", "answered")
    /\ UNCHANGED <<sessionOf, expertOf, leaseVars, workers, requested>>

(* execute: the worker checks for a cancellation before it calls the tool. *)
StartTool(r) ==
    /\ ~CancelRequested(r)
    /\ Goes(r, "calling", "tool")
    /\ workers' = workers \cup {r}
    /\ UNCHANGED <<runVars, leaseVars, requested>>

ToolRefused(r) ==
    /\ Fails(r, "calling")
    /\ UNCHANGED workers

ToolReturns(r) ==
    /\ Goes(r, "tool", "working")
    /\ workers' = workers \ {r}
    /\ Transition(r, "acting")
    /\ UNCHANGED <<sessionOf, expertOf, steps, leaseVars, requested>>

ToolFails(r) ==
    /\ Fails(r, "tool")
    /\ workers' = workers \ {r}

ToolTimesOut(r) ==
    /\ Fails(r, "tool")
    /\ UNCHANGED workers

(* The worker of a timed out tool stops when it gets to it. *)
WorkerExits(r) ==
    /\ r \in workers
    /\ pc[r] # "tool"
    /\ workers' = workers \ {r}
    /\ UNCHANGED <<runVars, leaseVars, requested, pc>>

(* The last check has passed and the reply is composed; then the transition  *)
(* to done, or to waiting_hitl when nothing was done yet, is tried, and what *)
(* it returns is ignored.                                                    *)
Close(r) ==
    /\ r \in AgentRuns
    /\ runState[r] \in {"planning", "acting"}
    /\ ~CancelRequested(r)
    /\ Goes(r, "working", "closing")
    /\ UNCHANGED <<runVars, leaseVars, workers, requested>>

AnswerOk(r, dest) ==
    /\ r \in AgentRuns
    /\ Goes(r, "closing", "answered")
    /\ dest = "waiting_hitl" => runState[r] # "acting"
    /\ Transition(r, dest)
    /\ UNCHANGED <<sessionOf, expertOf, steps, leaseVars, workers, requested>>

-----------------------------------------------------------------------------
(* run_expert_turn and run_turn work on the request's own thread. *)
BeginTurn(r) ==
    /\ r \notin AgentRuns
    /\ Goes(r, "admitted", "working")
    /\ Transition(r, "planning")
    /\ UNCHANGED <<sessionOf, expertOf, steps, leaseVars, workers, requested>>

(* How a turn's work may end.  Only run_expert_turn asks for confirmations   *)
(* and reports a failure as such; a cancelled run stays cancelled.           *)
EndTurn(r, dest) ==
    /\ Goes(r, "working", "ended")
    /\ Transition(r, dest)
    /\ UNCHANGED <<sessionOf, expertOf, steps, leaseVars, workers, requested>>

ExpertTurnEnds(r) ==
    /\ r \in ExpertTurns
    /\ \E dest \in {"done", "waiting_hitl", "failed"} : EndTurn(r, dest)

DefaultTurnEnds(r) ==
    /\ r \in DefaultTurns
    /\ EndTurn(r, "done")

\* Mutant: run_expert_turn has no finally either.
AnyTurnRaises(r) ==
    /\ r \notin AgentRuns
    /\ Goes(r, "working", "over")
    /\ UNCHANGED <<runVars, leaseVars, workers, requested>>

(* run_turn has no finally: when its pipeline raises, nothing is released. *)
DefaultTurnRaises(r) ==
    /\ r \in DefaultTurns
    /\ Goes(r, "working", "over")
    /\ UNCHANGED <<runVars, leaseVars, workers, requested>>

-----------------------------------------------------------------------------
AgentStep(r) ==
    \/ BeginHolds(r)
    \/ Act(r)
    \/ CallTool(r)
    \/ StartTool(r)
    \/ ToolRefused(r)
    \/ ToolReturns(r)
    \/ ToolFails(r)
    \/ ToolTimesOut(r)
    \/ Close(r)
    \/ \E dest \in {"done", "waiting_hitl"} : AnswerOk(r, dest)
    \/ StopsEarly(r)
    \/ WhenIdle(r)
    \/ Drained(r)
    \/ EndHolds(r)

TurnStep(r) ==
    \/ BeginTurn(r)
    \/ ExpertTurnEnds(r)
    \/ DefaultTurnEnds(r)
    \/ DefaultTurnRaises(r)

RunStep(r) == AgentStep(r) \/ TurnStep(r) \/ ReleaseLock(r)

(* run_turn hands a request for a known post over to run_expert_turn. *)
Posts(r) == IF r \in DefaultTurns THEN {None}
            ELSE IF r \in ExpertTurns THEN Experts
            ELSE Experts \cup {None}

ClientStep(r) ==
    \/ \E s \in Sessions, e \in Posts(r) : CreateRun(r, s, e)
    \/ CancelRun(r)
    \/ SetCancelEvent(r)

Next == \E r \in Runs : RunStep(r) \/ WorkerExits(r) \/ ClientStep(r)

Spec == Init /\ [][Next]_vars

(* Threads run on, and a worker that was asked to stop does so: while one    *)
(* can take its next step, some step of one is taken.                        *)
FairSpec == Spec /\ WF_vars(\E r \in Runs : RunStep(r) \/ WorkerExits(r))
-----------------------------------------------------------------------------
(* A run is at work from the moment it may act for its session until its     *)
(* thread has answered and its last tool worker is gone.                     *)
AtWork(r) ==
    pc[r] \in {"working", "calling", "tool", "closing", "answered", "draining"}
        \/ r \in workers

(* "Only the owner may release after its actual work has exited"             *)
(* (scheduler.py): while a run that was admitted is at work, or a tool of    *)
(* it that timed out still runs, its session stays locked.                   *)
WorkIsLocked ==
    \A r \in AgentRuns \cup ExpertTurns : AtWork(r) => sessionOf[r] \in locks

(* "Same session stays serial in-process" (scheduler.py), for the sessions   *)
(* that run_turn has not been used on: two runs of one session are never at  *)
(* work together, a tool of the first one that outlived its timeout          *)
(* included.                                                                 *)
Guarded(s) == \A d \in DefaultTurns : sessionOf[d] # s

SerialWhenGuarded ==
    \A r, q \in Runs :
        r # q /\ AtWork(r) /\ AtWork(q) /\ sessionOf[r] = sessionOf[q]
            => ~Guarded(sessionOf[r])

(* One agent run at a time works as a given post, whatever the sessions and  *)
(* even when a tool outlives its timeout or run_turn unlocks a session: the  *)
(* watch is a second guard that does not depend on the first.                *)
OneRunPerExpert ==
    \A r, q \in AgentRuns :
        r # q /\ AtWork(r) /\ AtWork(q) /\ expertOf[r] # None
            => expertOf[r] # expertOf[q]

(* The two maps of the watch agree, and no resource stays with a run whose   *)
(* thread and worker are gone: a batch that was refused, a timeout and a     *)
(* cancellation leave nothing behind.                                        *)
NoHoldLeaks ==
    \A r \in Runs, x \in Resources :
        /\ x \in runHolds[r] <=> holds[x] = r
        /\ holds[x] = r => AtWork(r) \/ pc[r] = "idle"

(* The session's resource is given back before its lock, so a run that was   *)
(* admitted to a session is never turned away by the session's own resource. *)
HeldSessionIsLocked ==
    \A s \in Sessions : Guarded(s) /\ holds[s] # None => s \in locks

(* A busy session becomes free again: timeouts, failures, cancellations and  *)
(* exceptions all lead to the release.                                       *)
LocksComeFree == \A s \in Sessions : []<>(s \notin locks \/ ~Guarded(s))
=============================================================================
