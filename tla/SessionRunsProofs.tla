-------------------------- MODULE SessionRunsProofs --------------------------
(***************************************************************************)
(* Proofs about SessionRuns, for any number of sessions, posts and runs:   *)
(* type correctness, the exclusion of runs from a session and from a post, *)
(* the agreement of the watch with itself and with the session locks, who  *)
(* owns a lock, where a run can stand, and that its thread moves forward.  *)
(***************************************************************************)
EXTENDS SessionRuns, TLAPS

USE RunsAssumption

-----------------------------------------------------------------------------
(* Type correctness, action by action. *)
PcState == {"none", "admitted", "working", "calling", "tool", "closing",
            "answered", "draining", "idle", "ended", "over"}

(* A run that has exceeded its steps has failed, and calls no further tool. *)
StepsFit(r) ==
    /\ pc[r] = "none" => runState[r] = "none"
    /\ steps[r] > MaxSteps => runState[r] = "failed"

StepsInv == TypeOK /\ \A r \in Runs : StepsFit(r)

LEMMA AfterType ==
    ASSUME TypeOK, NEW r \in Runs, NEW dest \in OpenState \cup TerminalState
    PROVE  After(r, dest) \in OpenState \cup TerminalState \cup {"none"}
BY DEF TypeOK, After

LEMMA TransitionType ==
    ASSUME TypeOK, NEW r \in Runs, NEW dest \in OpenState \cup TerminalState,
           Transition(r, dest)
    PROVE  runState' \in [Runs -> OpenState \cup TerminalState \cup {"none"}]
BY AfterType DEF TypeOK, Transition

LEMMA GoesType ==
    ASSUME TypeOK, NEW r \in Runs, NEW from, NEW to \in PcState, Goes(r, from, to)
    PROVE  pc' \in [Runs -> PcState]
BY DEF TypeOK, Goes, PcState

LEMMA FailsType ==
    ASSUME TypeOK, NEW r \in Runs, NEW from, Fails(r, from), workers' \in SUBSET Runs
    PROVE  TypeOK'
<1>1. runState' \in [Runs -> OpenState \cup TerminalState \cup {"none"}]
  BY TransitionType DEF Fails, TerminalState
<1>2. pc' \in [Runs -> PcState]
  BY GoesType DEF Fails, PcState
<1> QED
  BY <1>1, <1>2 DEF TypeOK, Fails, leaseVars, PcState

LEMMA WantedType ==
    ASSUME TypeOK, NEW r \in Runs
    PROVE  Wanted(r) \in SUBSET Resources
BY DEF TypeOK, Wanted, Resources

LEMMA TypeStep ==
    ASSUME StepsInv, [Next]_vars
    PROVE  TypeOK'
<1> USE DEF StepsInv
<1>1. CASE UNCHANGED vars
  BY <1>1 DEF TypeOK, vars, runVars, leaseVars
<1>2. ASSUME NEW r \in Runs, ClientStep(r)
      PROVE  TypeOK'
  <2>1. ASSUME NEW s \in Sessions, NEW e \in Posts(r), CreateRun(r, s, e)
        PROVE  TypeOK'
    <3>1. e \in Experts \cup {None}
      BY DEF Posts
    <3>2. pc' \in [Runs -> PcState]
      BY <2>1, GoesType DEF CreateRun, PcState
    <3>3. runState' \in [Runs -> OpenState \cup TerminalState \cup {"none"}]
      BY <2>1 DEF CreateRun, TypeOK, OpenState, TerminalState
    <3> QED
      BY <2>1, <3>1, <3>2, <3>3 DEF CreateRun, TypeOK, PcState
  <2>2. CASE CancelRun(r)
    <3>1. runState' \in [Runs -> OpenState \cup TerminalState \cup {"none"}]
      BY <2>2, TransitionType DEF CancelRun, TerminalState
    <3> QED
      BY <2>2, <3>1 DEF CancelRun, TypeOK, leaseVars
  <2>3. CASE SetCancelEvent(r)
    BY <2>3 DEF SetCancelEvent, TypeOK, runVars, leaseVars
  <2> QED
    BY <1>2, <2>1, <2>2, <2>3 DEF ClientStep
<1>3. ASSUME NEW r \in Runs, AgentStep(r)
      PROVE  TypeOK'
  <2>1. CASE BeginHolds(r)
    <3>1. runState' \in [Runs -> OpenState \cup TerminalState \cup {"none"}]
      BY <2>1, TransitionType DEF BeginHolds, OpenState, TerminalState
    <3>2. pc' \in [Runs -> PcState]
      BY <2>1, GoesType DEF BeginHolds, PcState
    <3>3. holds' \in [Resources -> Runs \cup {None}]
      BY <2>1 DEF BeginHolds, TypeOK
    <3>4. runHolds' \in [Runs -> SUBSET Resources]
      BY <2>1, WantedType DEF BeginHolds, TypeOK
    <3> QED
      BY <2>1, <3>1, <3>2, <3>3, <3>4 DEF BeginHolds, TypeOK, PcState
  <2>2. CASE Act(r)
    <3>1. runState' \in [Runs -> OpenState \cup TerminalState \cup {"none"}]
      BY <2>2, TransitionType DEF Act, OpenState
    <3> QED
      BY <2>2, <3>1 DEF Act, TypeOK, leaseVars
  <2>3. CASE CallTool(r)
    <3>1. runState' \in [Runs -> OpenState \cup TerminalState \cup {"none"}]
      BY <2>3, TransitionType DEF CallTool, OpenState, TerminalState
    <3>2. pc' \in [Runs -> PcState]
      BY <2>3, GoesType DEF CallTool, PcState
    <3>3. steps' \in [Runs -> 0 .. MaxSteps + 1]
      BY <2>3 DEF CallTool, TypeOK, StepsFit
    <3> QED
      BY <2>3, <3>1, <3>2, <3>3 DEF CallTool, TypeOK, leaseVars, PcState
  <2>4. CASE StartTool(r)
    <3>1. pc' \in [Runs -> PcState]
      BY <2>4, GoesType DEF StartTool, PcState
    <3> QED
      BY <2>4, <3>1 DEF StartTool, TypeOK, runVars, leaseVars, PcState
  <2>5. CASE ToolRefused(r) \/ ToolFails(r) \/ ToolTimesOut(r) \/ StopsEarly(r)
    <3>1. workers' \in SUBSET Runs
      BY <2>5 DEF ToolRefused, ToolFails, ToolTimesOut, StopsEarly, TypeOK
    <3> QED
      BY <2>5, <3>1, FailsType DEF ToolRefused, ToolFails, ToolTimesOut, StopsEarly
  <2>6. CASE ToolReturns(r)
    <3>1. runState' \in [Runs -> OpenState \cup TerminalState \cup {"none"}]
      BY <2>6, TransitionType DEF ToolReturns, OpenState
    <3>2. pc' \in [Runs -> PcState]
      BY <2>6, GoesType DEF ToolReturns, PcState
    <3> QED
      BY <2>6, <3>1, <3>2 DEF ToolReturns, TypeOK, leaseVars, PcState
  <2>7. CASE Close(r)
    <3>1. pc' \in [Runs -> PcState]
      BY <2>7, GoesType DEF Close, PcState
    <3> QED
      BY <2>7, <3>1 DEF Close, TypeOK, runVars, leaseVars, PcState
  <2>8. ASSUME NEW dest \in {"done", "waiting_hitl"}, AnswerOk(r, dest)
        PROVE  TypeOK'
    <3>1. runState' \in [Runs -> OpenState \cup TerminalState \cup {"none"}]
      BY <2>8, TransitionType DEF AnswerOk, OpenState, TerminalState
    <3>2. pc' \in [Runs -> PcState]
      BY <2>8, GoesType DEF AnswerOk, PcState
    <3> QED
      BY <2>8, <3>1, <3>2 DEF AnswerOk, TypeOK, leaseVars, PcState
  <2>9. CASE WhenIdle(r) \/ Drained(r)
    <3>1. pc' \in [Runs -> PcState]
      BY <2>9, GoesType DEF WhenIdle, Drained, PcState
    <3> QED
      BY <2>9, <3>1 DEF WhenIdle, Drained, TypeOK, runVars, leaseVars, PcState
  <2>10. CASE EndHolds(r)
    <3>1. pc' \in [Runs -> PcState]
      BY <2>10, GoesType DEF EndHolds, PcState
    <3>2. /\ holds' \in [Resources -> Runs \cup {None}]
          /\ runHolds' \in [Runs -> SUBSET Resources]
      BY <2>10 DEF EndHolds, TypeOK
    <3> QED
      BY <2>10, <3>1, <3>2 DEF EndHolds, TypeOK, runVars, PcState
  <2> QED
    BY <1>3, <2>1, <2>2, <2>3, <2>4, <2>5, <2>6, <2>7, <2>8, <2>9, <2>10 DEF AgentStep
<1>4. ASSUME NEW r \in Runs, TurnStep(r) \/ ReleaseLock(r) \/ WorkerExits(r)
      PROVE  TypeOK'
  <2>1. CASE BeginTurn(r)
    <3>1. runState' \in [Runs -> OpenState \cup TerminalState \cup {"none"}]
      BY <2>1, TransitionType DEF BeginTurn, OpenState
    <3>2. pc' \in [Runs -> PcState]
      BY <2>1, GoesType DEF BeginTurn, PcState
    <3> QED
      BY <2>1, <3>1, <3>2 DEF BeginTurn, TypeOK, leaseVars, PcState
  <2>2. ASSUME NEW dest \in {"done", "waiting_hitl", "failed"}, EndTurn(r, dest)
        PROVE  TypeOK'
    <3>1. runState' \in [Runs -> OpenState \cup TerminalState \cup {"none"}]
      BY <2>2, TransitionType DEF EndTurn, OpenState, TerminalState
    <3>2. pc' \in [Runs -> PcState]
      BY <2>2, GoesType DEF EndTurn, PcState
    <3> QED
      BY <2>2, <3>1, <3>2 DEF EndTurn, TypeOK, leaseVars, PcState
  <2>3. CASE DefaultTurnRaises(r)
    <3>1. pc' \in [Runs -> PcState]
      BY <2>3, GoesType DEF DefaultTurnRaises, PcState
    <3> QED
      BY <2>3, <3>1 DEF DefaultTurnRaises, TypeOK, runVars, leaseVars, PcState
  <2>4. CASE ReleaseLock(r)
    <3>1. pc' \in [Runs -> PcState]
      BY <2>4, GoesType DEF ReleaseLock, PcState
    <3> QED
      BY <2>4, <3>1 DEF ReleaseLock, TypeOK, runVars, PcState
  <2>5. CASE WorkerExits(r)
    BY <2>5 DEF WorkerExits, TypeOK, runVars, leaseVars
  <2> QED
    BY <1>4, <2>1, <2>2, <2>3, <2>4, <2>5 DEF TurnStep, ExpertTurnEnds, DefaultTurnEnds
<1> QED
  BY <1>1, <1>2, <1>3, <1>4 DEF Next, RunStep

-----------------------------------------------------------------------------
(* A thread that moves on from a failed run leaves the run failed. *)
LEMMA StepsKeep ==
    ASSUME StepsInv, NEW r \in Runs, NEW q \in Runs,
           RunStep(r) \/ WorkerExits(r) \/ ClientStep(r)
    PROVE  StepsFit(q)'
<1> USE DEF StepsInv, StepsFit, TypeOK, Goes
<1>1. ASSUME NEW dest, Transition(r, dest)
      PROVE  /\ runState[r] = "failed" => runState'[r] = "failed"
             /\ r # q => runState'[q] = runState[q]
  BY <1>1 DEF Transition, After, IsLegal, Legal, OpenState
<1>2. CASE Act(r) \/ CancelRun(r)
  BY <1>1, <1>2 DEF Act, CancelRun, OpenState
<1>3. CASE CallTool(r)
  <2>1. CASE q = r
    BY <1>3, <2>1 DEF CallTool, Transition, After, IsLegal, Legal, OpenState
  <2>2. CASE q # r
    BY <1>3, <1>1, <2>2 DEF CallTool
  <2> QED
    BY <2>1, <2>2
<1>4. CASE StartTool(r) \/ Close(r) \/ WhenIdle(r) \/ Drained(r) \/ EndHolds(r)
  BY <1>4 DEF StartTool, Close, WhenIdle, Drained, EndHolds, runVars
<1>5. CASE ToolRefused(r) \/ ToolFails(r) \/ ToolTimesOut(r) \/ StopsEarly(r)
  BY <1>1, <1>5 DEF ToolRefused, ToolFails, ToolTimesOut, StopsEarly, Fails
<1>6. CASE ToolReturns(r) \/ (\E dest \in {"done", "waiting_hitl"} : AnswerOk(r, dest))
  BY <1>1, <1>6 DEF ToolReturns, AnswerOk
<1>7. CASE BeginHolds(r)
  BY <1>1, <1>7 DEF BeginHolds
<1>8. CASE BeginTurn(r) \/ ExpertTurnEnds(r) \/ DefaultTurnEnds(r)
  BY <1>1, <1>8 DEF BeginTurn, ExpertTurnEnds, DefaultTurnEnds, EndTurn
<1>9. CASE DefaultTurnRaises(r) \/ ReleaseLock(r) \/ WorkerExits(r) \/ SetCancelEvent(r)
  BY <1>9 DEF DefaultTurnRaises, ReleaseLock, WorkerExits, SetCancelEvent, runVars
<1>10. ASSUME NEW s \in Sessions, NEW e \in Posts(r), CreateRun(r, s, e)
       PROVE  StepsFit(q)'
  BY <1>10 DEF CreateRun
<1> QED
  BY <1>2, <1>3, <1>4, <1>5, <1>6, <1>7, <1>8, <1>9, <1>10
     DEF RunStep, AgentStep, TurnStep, ClientStep

LEMMA StepsInvariant == Spec => []StepsInv
<1>1. Init => StepsInv
  BY DEF Init, StepsInv, StepsFit, TypeOK
<1>2. StepsInv /\ [Next]_vars => StepsInv'
  <2> SUFFICES ASSUME StepsInv, [Next]_vars PROVE StepsInv'
    OBVIOUS
  <2>1. CASE UNCHANGED vars
    BY <2>1, TypeStep DEF StepsInv, StepsFit, vars, runVars
  <2>2. CASE Next
    BY <2>2, TypeStep, StepsKeep DEF StepsInv, Next
  <2> QED
    BY <2>1, <2>2
<1> QED
  BY <1>1, <1>2, PTL DEF Spec

-----------------------------------------------------------------------------
(* The inductive invariant.  Every step but four is a Move of one thread: it *)
(* leaves the leases alone, and the thread goes neither into nor out of the  *)
(* states in which it owns a session or holds its resources.  Only the end   *)
(* of a default turn whose pipeline raised gives up a session that way.      *)
Owns(r)    == pc[r] \notin {"none", "over"}
Holding(r) == /\ r \in AgentRuns
              /\ pc[r] \in {"working", "calling", "tool", "closing",
                            "answered", "draining", "idle"}

PcFits(r) ==
    /\ pc[r] = "none" <=> sessionOf[r] = None
    /\ pc[r] = "none" <=> runState[r] = "none"
    /\ pc[r] \in {"calling", "tool", "closing", "answered", "draining", "idle"}
         => r \in AgentRuns
    /\ r \in workers => r \in AgentRuns /\ pc[r] \in {"tool", "answered", "draining"}

WatchFits ==
    \A r \in Runs, x \in Resources :
        /\ x \in runHolds[r] <=> holds[x] = r
        /\ holds[x] = r <=> Holding(r) /\ x \in Wanted(r)

OwnersLock == \A r \in Runs : Owns(r) /\ Guarded(sessionOf[r]) => sessionOf[r] \in locks

OwnersExclude ==
    \A r, q \in Runs :
        r # q /\ Owns(r) /\ Owns(q) /\ sessionOf[r] = sessionOf[q]
            => ~Guarded(sessionOf[r])

RunsInv ==
    /\ TypeOK
    /\ \A r \in Runs : PcFits(r)
    /\ WatchFits
    /\ OwnersLock
    /\ OwnersExclude

Move(r) ==
    /\ UNCHANGED <<sessionOf, expertOf, leaseVars>>
    /\ \A q \in Runs \ {r} :
          /\ pc'[q] = pc[q] /\ runState'[q] = runState[q]
          /\ q \in workers' <=> q \in workers
    /\ pc[r] # "none" /\ pc'[r] # "none"
    /\ Owns(r)' => Owns(r)
    /\ Holding(r)' <=> Holding(r)
    /\ PcFits(r)'

LEMMA AgentMoves ==
    ASSUME RunsInv, NEW r \in Runs, AgentStep(r), ~BeginHolds(r), ~EndHolds(r)
    PROVE  Move(r)
<1> USE DEF RunsInv, PcFits, TypeOK, Owns, Holding, Move, Goes, Transition, After
<1>1. CASE Act(r) \/ CallTool(r)
  BY <1>1 DEF Act, CallTool, leaseVars
<1>2. CASE StartTool(r) \/ ToolReturns(r)
  BY <1>2 DEF StartTool, ToolReturns, runVars, leaseVars
<1>3. CASE ToolRefused(r) \/ ToolFails(r) \/ ToolTimesOut(r) \/ StopsEarly(r)
  BY <1>3 DEF ToolRefused, ToolFails, ToolTimesOut, StopsEarly, Fails, leaseVars
<1>4. CASE Close(r) \/ (\E dest \in {"done", "waiting_hitl"} : AnswerOk(r, dest))
  BY <1>4 DEF Close, AnswerOk, runVars, leaseVars
<1>5. CASE WhenIdle(r) \/ Drained(r)
  BY <1>5 DEF WhenIdle, Drained, runVars, leaseVars
<1> QED
  BY <1>1, <1>2, <1>3, <1>4, <1>5 DEF AgentStep

LEMMA OtherMoves ==
    ASSUME RunsInv, NEW r \in Runs,
           TurnStep(r) \/ WorkerExits(r) \/ CancelRun(r) \/ SetCancelEvent(r)
    PROVE  Move(r)
<1> USE DEF RunsInv, PcFits, TypeOK, Owns, Holding, Move, Goes, Transition, After
<1>1. CASE BeginTurn(r)
  BY <1>1 DEF BeginTurn, leaseVars
<1>2. CASE ExpertTurnEnds(r) \/ DefaultTurnEnds(r)
  BY <1>2 DEF ExpertTurnEnds, DefaultTurnEnds, EndTurn, leaseVars
<1>3. CASE DefaultTurnRaises(r)
  BY <1>3 DEF DefaultTurnRaises, runVars, leaseVars
<1>4. CASE WorkerExits(r)
  BY <1>4 DEF WorkerExits, runVars, leaseVars
<1>5. CASE CancelRun(r)
  BY <1>5 DEF CancelRun, OpenState, leaseVars
<1>6. CASE SetCancelEvent(r)
  BY <1>6 DEF SetCancelEvent, runVars, leaseVars
<1> QED
  BY <1>1, <1>2, <1>3, <1>4, <1>5, <1>6 DEF TurnStep

LEMMA MoveKeeps ==
    ASSUME RunsInv, TypeOK', NEW r \in Runs, Move(r)
    PROVE  RunsInv'
<1>1. ASSUME NEW q \in Runs
      PROVE  PcFits(q)' /\ (Owns(q)' => Owns(q)) /\ (Holding(q)' <=> Holding(q))
  BY <1>1 DEF RunsInv, PcFits, Move, Owns, Holding
<1>2. WatchFits'
  BY <1>1 DEF RunsInv, WatchFits, Move, Wanted, leaseVars
<1>3. OwnersLock' /\ OwnersExclude'
  BY <1>1 DEF RunsInv, OwnersLock, OwnersExclude, Guarded, Move, leaseVars
<1> QED
  BY <1>1, <1>2, <1>3 DEF RunsInv

(* A run enters a session: the lock was free, or the session is given up as  *)
(* unguarded.                                                                *)
LEMMA CreateKeeps ==
    ASSUME RunsInv, TypeOK', NEW r \in Runs, NEW s \in Sessions, NEW e \in Posts(r),
           CreateRun(r, s, e)
    PROVE  RunsInv'
<1>0. s # None /\ pc[r] = "none" /\ sessionOf[r] = None /\ r \notin workers
  BY DEF RunsInv, PcFits, CreateRun, Resources
<1>1. /\ \A q \in Runs \ {r} : /\ pc'[q] = pc[q] /\ runState'[q] = runState[q]
                               /\ sessionOf'[q] = sessionOf[q]
                               /\ expertOf'[q] = expertOf[q]
      /\ sessionOf'[r] = s
      /\ pc'[r] \in {"admitted", "over"} /\ runState'[r] # "none"
      /\ workers' = workers /\ holds' = holds /\ runHolds' = runHolds
      /\ locks' = locks \cup {s}
  BY DEF RunsInv, TypeOK, CreateRun, Goes
<1>2. pc'[r] = "admitted" => s \notin locks \/ r \in DefaultTurns
  BY DEF RunsInv, TypeOK, CreateRun, Goes
<1>3. \A q \in Runs : PcFits(q)'
  BY <1>0, <1>1 DEF RunsInv, PcFits
<1>4. \A x \in Sessions : Guarded(x)' => Guarded(x)
  BY <1>0, <1>1 DEF Guarded, Resources, Runs
<1>5. r \in DefaultTurns => ~Guarded(s)'
  BY <1>1 DEF Guarded
<1>6. WatchFits'
  <2>1. ~Holding(r) /\ ~Holding(r)'
    BY <1>0, <1>1 DEF Holding
  <2>2. \A q \in Runs \ {r} : (Holding(q)' <=> Holding(q)) /\ Wanted(q)' = Wanted(q)
    BY <1>1 DEF Holding, Wanted
  <2> QED
    BY <1>1, <2>1, <2>2 DEF RunsInv, WatchFits
<1>7. \A q \in Runs : Owns(q)' => q = r \/ Owns(q)
  BY <1>1 DEF Owns
<1>8. \A q \in Runs : Owns(q) => sessionOf[q] \in Sessions
  BY DEF RunsInv, TypeOK, PcFits, Owns
<1>9. OwnersLock'
  BY <1>1, <1>4, <1>7, <1>8 DEF RunsInv, OwnersLock
<1>10. \A q \in Runs \ {r} : Owns(q)' /\ Owns(r)' /\ sessionOf'[q] = s => ~Guarded(s)'
  <2> SUFFICES ASSUME NEW q \in Runs \ {r}, Owns(q)', Owns(r)', sessionOf'[q] = s,
                      Guarded(s)'
               PROVE  FALSE
    OBVIOUS
  <2>1. Owns(q) /\ sessionOf[q] = s /\ Guarded(s)
    BY <1>1, <1>4, <1>7
  <2>2. s \in locks
    BY <2>1 DEF RunsInv, OwnersLock
  <2>3. pc'[r] = "admitted"
    BY <1>1 DEF Owns
  <2> QED
    BY <1>2, <1>5, <2>2, <2>3
<1>11. OwnersExclude'
  <2> SUFFICES ASSUME NEW p \in Runs, NEW q \in Runs, p # q, Owns(p)', Owns(q)',
                      (sessionOf[p] = sessionOf[q])', Guarded(sessionOf[p])'
               PROVE  FALSE
    BY DEF OwnersExclude
  <2>1. CASE p = r
    BY <2>1, <1>1, <1>10
  <2>2. CASE q = r
    BY <2>2, <1>1, <1>10
  <2>3. CASE p # r /\ q # r
    <3>1. Owns(p) /\ Owns(q) /\ sessionOf[p] = sessionOf[q]
      BY <2>3, <1>1, <1>7
    <3>2. Guarded(sessionOf[p])
      BY <2>3, <3>1, <1>1, <1>4, <1>8
    <3> QED
      BY <3>1, <3>2 DEF RunsInv, OwnersExclude
  <2> QED
    BY <2>1, <2>2, <2>3
<1> QED
  BY <1>3, <1>6, <1>9, <1>11 DEF RunsInv

LEMMA BeginKeeps ==
    ASSUME RunsInv, TypeOK', NEW r \in Runs, BeginHolds(r)
    PROVE  RunsInv'
<1>1. /\ pc[r] = "admitted" /\ r \in AgentRuns
      /\ pc'[r] \in {"working", "ended"} /\ runState'[r] # "none" /\ runState[r] # "none"
      /\ \A q \in Runs \ {r} : pc'[q] = pc[q] /\ runState'[q] = runState[q]
      /\ workers' = workers /\ locks' = locks
      /\ sessionOf' = sessionOf /\ expertOf' = expertOf
  BY DEF RunsInv, PcFits, TypeOK, BeginHolds, Goes, Transition, After
<1>2. \A q \in Runs : PcFits(q)' /\ (Owns(q)' <=> Owns(q))
  BY <1>1 DEF RunsInv, PcFits, Owns
<1>3. \A q \in Runs : Wanted(q)' = Wanted(q) /\ Wanted(q) \in SUBSET Resources
  BY <1>1, WantedType DEF RunsInv, Wanted
<1>4. \A q \in Runs \ {r} : Holding(q)' <=> Holding(q)
  BY <1>1 DEF Holding
<1>5. ~Holding(r)
  BY <1>1 DEF Holding
<1>6. CASE pc'[r] = "working"
  <2>1. /\ holds' = [x \in Resources |-> IF x \in Wanted(r) THEN r ELSE holds[x]]
        /\ runHolds' = [runHolds EXCEPT ![r] = @ \cup Wanted(r)]
        /\ \A x \in Wanted(r) : holds[x] \in {None, r}
    BY <1>6 DEF RunsInv, TypeOK, BeginHolds, Goes
  <2>2. Holding(r)'
    BY <1>1, <1>6 DEF Holding
  <2>3. ASSUME NEW q \in Runs, NEW x \in Resources
        PROVE  /\ x \in runHolds'[q] <=> holds'[x] = q
               /\ holds'[x] = q <=> Holding(q)' /\ x \in Wanted(q)'
    <3>1. /\ x \in runHolds[q] <=> holds[x] = q
          /\ holds[x] = q <=> Holding(q) /\ x \in Wanted(q)
      BY DEF RunsInv, WatchFits
    <3>2. CASE q = r
      BY <2>1, <2>2, <3>1, <3>2, <1>3, <1>5 DEF RunsInv, TypeOK
    <3>3. CASE q # r
      BY <2>1, <3>1, <3>3, <1>3, <1>4 DEF RunsInv, TypeOK
    <3> QED
      BY <3>2, <3>3
  <2> QED
    BY <1>1, <1>2, <2>3 DEF RunsInv, WatchFits, OwnersLock, OwnersExclude, Guarded
<1>7. CASE pc'[r] = "ended"
  <2>1. holds' = holds /\ runHolds' = runHolds
    BY <1>7 DEF RunsInv, TypeOK, BeginHolds, Goes
  <2>2. ~Holding(r)'
    BY <1>7 DEF Holding
  <2>3. WatchFits'
    BY <2>1, <2>2, <1>3, <1>4, <1>5 DEF RunsInv, WatchFits
  <2> QED
    BY <1>1, <1>2, <2>3 DEF RunsInv, OwnersLock, OwnersExclude, Guarded
<1> QED
  BY <1>1, <1>6, <1>7

LEMMA EndKeeps ==
    ASSUME RunsInv, TypeOK', NEW r \in Runs, EndHolds(r)
    PROVE  RunsInv'
<1>1. /\ pc[r] = "idle" /\ pc'[r] = "ended" /\ r \in AgentRuns
      /\ \A q \in Runs \ {r} : pc'[q] = pc[q]
      /\ runState' = runState /\ workers' = workers /\ locks' = locks
      /\ sessionOf' = sessionOf /\ expertOf' = expertOf
      /\ holds' = [x \in Resources |->
                      IF x \in runHolds[r] /\ holds[x] = r THEN None ELSE holds[x]]
      /\ runHolds' = [runHolds EXCEPT ![r] = {}]
  BY DEF RunsInv, PcFits, TypeOK, EndHolds, Goes, runVars
<1>2. \A q \in Runs : PcFits(q)' /\ (Owns(q)' <=> Owns(q))
  BY <1>1 DEF RunsInv, PcFits, Owns
<1>3. Holding(r) /\ ~Holding(r)' /\ \A q \in Runs \ {r} : Holding(q)' <=> Holding(q)
  BY <1>1 DEF Holding
<1>4. ASSUME NEW q \in Runs, NEW x \in Resources
      PROVE  /\ x \in runHolds'[q] <=> holds'[x] = q
             /\ holds'[x] = q <=> Holding(q)' /\ x \in Wanted(q)'
  <2>1. /\ x \in runHolds[q] <=> holds[x] = q
        /\ holds[x] = q <=> Holding(q) /\ x \in Wanted(q)
        /\ x \in runHolds[r] <=> holds[x] = r
    BY DEF RunsInv, WatchFits
  <2>2. Wanted(q)' = Wanted(q) /\ q # None
    BY <1>1 DEF Wanted
  <2> QED
    BY <2>1, <2>2, <1>1, <1>3 DEF RunsInv, TypeOK
<1> QED
  BY <1>1, <1>2, <1>4 DEF RunsInv, WatchFits, OwnersLock, OwnersExclude, Guarded

(* The owner of a guarded session is the only one, so what it unlocks is its *)
(* own; a default turn's session is not guarded.                             *)
LEMMA ReleaseKeeps ==
    ASSUME RunsInv, TypeOK', NEW r \in Runs, ReleaseLock(r)
    PROVE  RunsInv'
<1>1. /\ pc[r] = "ended" /\ pc'[r] = "over"
      /\ \A q \in Runs \ {r} : pc'[q] = pc[q]
      /\ runState' = runState /\ workers' = workers /\ locks' = locks \ {sessionOf[r]}
      /\ sessionOf' = sessionOf /\ expertOf' = expertOf
      /\ holds' = holds /\ runHolds' = runHolds
  BY DEF RunsInv, PcFits, TypeOK, ReleaseLock, Goes, runVars
<1>2. \A q \in Runs : PcFits(q)' /\ (Owns(q)' => Owns(q)) /\ (Holding(q)' <=> Holding(q))
  BY <1>1 DEF RunsInv, PcFits, Owns, Holding
<1>3. Owns(r) /\ ~Owns(r)'
  BY <1>1 DEF Owns
<1>4. WatchFits'
  BY <1>1, <1>2 DEF RunsInv, WatchFits, Wanted
<1>5. OwnersLock'
  BY <1>1, <1>2, <1>3 DEF RunsInv, OwnersLock, OwnersExclude, Guarded
<1>6. OwnersExclude'
  BY <1>1, <1>2 DEF RunsInv, OwnersExclude, Guarded
<1> QED
  BY <1>2, <1>4, <1>5, <1>6 DEF RunsInv

LEMMA RunsInvStep ==
    ASSUME RunsInv, StepsInv, [Next]_vars
    PROVE  RunsInv'
<1>1. TypeOK'
  BY TypeStep
<1>2. CASE UNCHANGED vars
  BY <1>1, <1>2 DEF RunsInv, PcFits, WatchFits, OwnersLock, OwnersExclude, Owns, Holding,
                    Wanted, Guarded, vars, runVars, leaseVars
<1>3. ASSUME NEW r \in Runs, AgentStep(r)
      PROVE  RunsInv'
  BY <1>1, <1>3, BeginKeeps, EndKeeps, AgentMoves, MoveKeeps
<1>4. ASSUME NEW r \in Runs, TurnStep(r) \/ WorkerExits(r) \/ ReleaseLock(r)
      PROVE  RunsInv'
  BY <1>1, <1>4, ReleaseKeeps, OtherMoves, MoveKeeps
<1>5. ASSUME NEW r \in Runs, ClientStep(r)
      PROVE  RunsInv'
  BY <1>1, <1>5, CreateKeeps, OtherMoves, MoveKeeps DEF ClientStep
<1> QED
  BY <1>2, <1>3, <1>4, <1>5 DEF Next, RunStep

LEMMA RunsInvariant == Spec => []RunsInv
<1>1. Init => RunsInv
  <2> SUFFICES ASSUME Init PROVE RunsInv
    OBVIOUS
  <2>1. TypeOK
    BY DEF Init, TypeOK
  <2>2. \A r \in Runs : PcFits(r) /\ ~Owns(r) /\ ~Holding(r)
    BY DEF Init, PcFits, Owns, Holding, Runs
  <2>3. WatchFits
    BY <2>2 DEF Init, WatchFits
  <2> QED
    BY <2>1, <2>2, <2>3 DEF RunsInv, OwnersLock, OwnersExclude
<1> QED
  BY <1>1, RunsInvStep, StepsInvariant, PTL DEF Spec

-----------------------------------------------------------------------------
(* The state of every run, lease and worker stays in its range. *)
THEOREM RunsTypeCorrect == Spec => []TypeOK
<1>1. RunsInv => TypeOK
  BY DEF RunsInv
<1> QED
  BY <1>1, RunsInvariant, PTL

LEMMA WorkersOwn ==
    ASSUME RunsInv, NEW r \in Runs, AtWork(r)
    PROVE  Owns(r) /\ (r \in AgentRuns => Holding(r))
BY DEF RunsInv, PcFits, AtWork, Owns, Holding

(* On a session that run_turn has not touched, two runs are never at work    *)
(* together, tools that outlived their timeout included.                     *)
THEOREM SessionsAreSerial == Spec => []SerialWhenGuarded
<1>1. RunsInv => SerialWhenGuarded
  BY WorkersOwn DEF SerialWhenGuarded, RunsInv, OwnersExclude
<1> QED
  BY <1>1, RunsInvariant, PTL

(* The watch lets one agent run at a time work as a post, with no help from  *)
(* the session locks.                                                        *)
THEOREM PostsAreExclusive == Spec => []OneRunPerExpert
<1>1. ASSUME RunsInv, NEW r \in AgentRuns, NEW q \in AgentRuns, r # q,
             AtWork(r), AtWork(q), expertOf[r] # None
      PROVE  expertOf[r] # expertOf[q]
  <2>1. r \in Runs /\ q \in Runs
    BY DEF Runs
  <2>2. Holding(r) /\ Holding(q)
    BY <1>1, <2>1, WorkersOwn
  <2>3. expertOf[r] \in Resources /\ expertOf[r] \in Wanted(r)
    BY <1>1, <2>1 DEF RunsInv, TypeOK, Wanted, Resources
  <2>4. holds[expertOf[r]] = r
    BY <1>1, <2>1, <2>2, <2>3 DEF RunsInv, WatchFits
  <2>5. expertOf[q] = expertOf[r] => holds[expertOf[r]] = q
    BY <1>1, <2>1, <2>2, <2>3 DEF RunsInv, WatchFits, Wanted
  <2> QED
    BY <1>1, <2>4, <2>5
<1>2. RunsInv => OneRunPerExpert
  BY <1>1 DEF OneRunPerExpert
<1> QED
  BY <1>2, RunsInvariant, PTL

(* No refused batch, timeout or cancellation leaves a resource behind. *)
THEOREM HoldsDoNotLeak == Spec => []NoHoldLeaks
<1>1. RunsInv => NoHoldLeaks
  BY DEF RunsInv, WatchFits, NoHoldLeaks, Holding, AtWork
<1> QED
  BY <1>1, RunsInvariant, PTL

(* A session's resource is never held without its lock. *)
THEOREM HeldSessionsAreLocked == Spec => []HeldSessionIsLocked
<1>1. ASSUME RunsInv, NEW s \in Sessions, Guarded(s), holds[s] # None
      PROVE  s \in locks
  <2>1. s \in Resources
    BY DEF Resources
  <2>2. PICK r \in Runs : holds[s] = r
    BY <1>1, <2>1 DEF RunsInv, TypeOK
  <2>3. Holding(r) /\ s \in Wanted(r)
    BY <1>1, <2>1, <2>2 DEF RunsInv, WatchFits
  <2>4. s = sessionOf[r]
    BY <1>1, <2>3 DEF RunsInv, TypeOK, Wanted
  <2>5. Owns(r)
    BY <2>3 DEF Holding, Owns
  <2> QED
    BY <1>1, <2>4, <2>5 DEF RunsInv, OwnersLock
<1>2. RunsInv => HeldSessionIsLocked
  BY <1>1 DEF HeldSessionIsLocked
<1> QED
  BY <1>2, RunsInvariant, PTL
-----------------------------------------------------------------------------
(* WorkIsLocked, for the sessions that run_turn has not been used on. *)
WorkIsLockedWhenGuarded ==
    \A r \in AgentRuns \cup ExpertTurns :
        AtWork(r) /\ Guarded(sessionOf[r]) => sessionOf[r] \in locks

(* A session that run_turn has been used on may lose its lock under a run    *)
(* that still works for it.  That is the only way: on every other session    *)
(* the lock stays until the last tool worker of the run has gone.            *)
THEOREM GuardedWorkIsLocked == Spec => []WorkIsLockedWhenGuarded
<1>1. RunsInv => WorkIsLockedWhenGuarded
  BY WorkersOwn DEF RunsInv, OwnersLock, WorkIsLockedWhenGuarded, Runs
<1> QED
  BY <1>1, RunsInvariant, PTL

-----------------------------------------------------------------------------
(* The safety half of LocksComeFree: a lock always has a run that will give  *)
(* it back, and that run only moves forward.                                 *)
LocksOwned ==
    \A s \in locks : Guarded(s) => \E r \in Runs : Owns(r) /\ sessionOf[r] = s

LEMMA MoveOwned ==
    ASSUME RunsInv, LocksOwned, NEW r \in Runs, Move(r), pc'[r] # "over" \/ r \in DefaultTurns
    PROVE  LocksOwned'
<1> SUFFICES ASSUME NEW s \in locks', Guarded(s)'
             PROVE  \E q \in Runs : Owns(q)' /\ sessionOf'[q] = s
  BY DEF LocksOwned
<1>1. s \in locks /\ Guarded(s)
  BY DEF Move, leaseVars, Guarded
<1>2. PICK q \in Runs : Owns(q) /\ sessionOf[q] = s
  BY <1>1 DEF LocksOwned
<1>3. q \notin DefaultTurns
  BY <1>1, <1>2 DEF Guarded
<1> QED
  BY <1>2, <1>3 DEF Move, Owns

(* A run takes a lock and owns it; while others own theirs. *)
LEMMA CreateOwned ==
    ASSUME RunsInv, LocksOwned, NEW r \in Runs, NEW s \in Sessions, NEW e \in Posts(r),
           CreateRun(r, s, e)
    PROVE  LocksOwned'
<1>1. s # None /\ pc[r] = "none" /\ sessionOf[r] = None
  BY DEF RunsInv, PcFits, CreateRun, Resources
<1>2. /\ \A q \in Runs \ {r} : pc'[q] = pc[q] /\ sessionOf'[q] = sessionOf[q]
      /\ sessionOf'[r] = s
      /\ locks' = locks \cup {s}
      /\ s \notin locks => pc'[r] = "admitted"
  BY DEF RunsInv, TypeOK, CreateRun, Goes
<1>3. SUFFICES ASSUME NEW t \in locks', Guarded(t)'
               PROVE  \E q \in Runs : Owns(q)' /\ sessionOf'[q] = t
  BY DEF LocksOwned
<1>4. CASE t = s /\ s \notin locks
  BY <1>2, <1>4 DEF Owns
<1>5. CASE t \in locks
  <2>1. Guarded(t)
    BY <1>1, <1>2, <1>3, <1>5 DEF RunsInv, TypeOK, Guarded, Resources, Runs
  <2>2. PICK q \in Runs : Owns(q) /\ sessionOf[q] = t
    BY <1>5, <2>1 DEF LocksOwned
  <2>3. q # r
    BY <1>1, <2>2 DEF Owns
  <2> QED
    BY <1>2, <2>2, <2>3 DEF Owns
<1> QED
  BY <1>2, <1>4, <1>5

LEMMA OwnedStep ==
    ASSUME RunsInv, LocksOwned, [Next]_vars
    PROVE  LocksOwned'
<1>1. CASE UNCHANGED vars
  BY <1>1 DEF LocksOwned, Guarded, Owns, vars, runVars, leaseVars
<1>2. ASSUME NEW r \in Runs, BeginHolds(r) \/ EndHolds(r)
      PROVE  LocksOwned'
  <2>1. /\ locks' = locks /\ sessionOf' = sessionOf
        /\ Owns(r)' /\ \A q \in Runs \ {r} : pc'[q] = pc[q]
    BY <1>2 DEF RunsInv, TypeOK, BeginHolds, EndHolds, Goes, Owns, runVars
  <2> QED
    BY <2>1 DEF LocksOwned, Owns, Guarded
<1>3. ASSUME NEW r \in Runs, AgentStep(r), ~BeginHolds(r), ~EndHolds(r)
      PROVE  LocksOwned'
  <2>1. pc'[r] # "over"
    BY <1>3 DEF RunsInv, TypeOK, AgentStep, Act, CallTool, StartTool, ToolRefused, ToolReturns,
                ToolFails, ToolTimesOut, Close, AnswerOk, StopsEarly, Fails, WhenIdle, Drained,
                Goes
  <2> QED
    BY <1>3, <2>1, AgentMoves, MoveOwned
<1>4. ASSUME NEW r \in Runs, TurnStep(r) \/ WorkerExits(r) \/ SetCancelEvent(r)
      PROVE  LocksOwned'
  <2>1. pc'[r] # "over" \/ r \in DefaultTurns
    BY <1>4 DEF RunsInv, PcFits, TypeOK, TurnStep, BeginTurn, ExpertTurnEnds, DefaultTurnEnds,
                EndTurn, DefaultTurnRaises, WorkerExits, SetCancelEvent, Goes
  <2> QED
    BY <1>4, <2>1, OtherMoves, MoveOwned
<1>5. ASSUME NEW r \in Runs, CancelRun(r)
      PROVE  LocksOwned'
  BY <1>5 DEF CancelRun, LocksOwned, Owns, Guarded, leaseVars
<1>6. ASSUME NEW r \in Runs, NEW s \in Sessions, NEW e \in Posts(r), CreateRun(r, s, e)
      PROVE  LocksOwned'
  BY <1>6, CreateOwned
<1>7. ASSUME NEW r \in Runs, ReleaseLock(r)
      PROVE  LocksOwned'
  <2>1. /\ locks' = locks \ {sessionOf[r]} /\ sessionOf' = sessionOf
        /\ \A q \in Runs \ {r} : pc'[q] = pc[q]
    BY <1>7 DEF RunsInv, TypeOK, ReleaseLock, Goes, runVars
  <2> QED
    BY <2>1 DEF LocksOwned, Owns, Guarded
<1> QED
  BY <1>1, <1>2, <1>3, <1>4, <1>5, <1>6, <1>7 DEF Next, RunStep, ClientStep

(* A session is never left locked by a run that is gone: whatever fails,     *)
(* times out or is cancelled, a guarded lock is owned by a run that is still *)
(* on its way to the release.                                                *)
THEOREM LocksHaveOwners == Spec => []LocksOwned
<1>1. Init => LocksOwned
  BY DEF Init, LocksOwned
<1> QED
  BY <1>1, OwnedStep, RunsInvariant, PTL DEF Spec

-----------------------------------------------------------------------------
(* What the state of an agent run or an expert turn can be where its thread  *)
(* is.  A transition whose result the code ignores is legal there, or the    *)
(* run was cancelled before.                                                 *)
StateFits(r) ==
    /\ pc[r] = "admitted" => runState[r] \in {"pending", "cancelled"}
    /\ pc[r] \in {"working", "closing"} =>
          \/ runState[r] \in {"planning", "cancelled"}
          \/ runState[r] = "acting" /\ r \in AgentRuns
    /\ pc[r] \in {"calling", "tool"} => runState[r] \in {"waiting_tool", "cancelled"}
    /\ pc[r] \in {"answered", "draining", "idle", "ended", "over"} =>
          runState[r] \in TerminalState \cup {"waiting_hitl"}

StatesFit == \A r \in AgentRuns \cup ExpertTurns : StateFits(r)

LEMMA AgentStateKeeps ==
    ASSUME RunsInv, NEW r \in Runs, r \notin DefaultTurns, StateFits(r), AgentStep(r)
    PROVE  StateFits(r)'
<1> USE DEF RunsInv, TypeOK, StateFits, Goes, Transition, After, IsLegal, Legal, OpenState,
            TerminalState
<1>1. CASE BeginHolds(r)
  BY <1>1 DEF BeginHolds
<1>2. CASE Act(r) \/ CallTool(r) \/ StartTool(r)
  BY <1>2 DEF Act, CallTool, StartTool, runVars
<1>3. CASE ToolRefused(r) \/ ToolFails(r) \/ ToolTimesOut(r) \/ StopsEarly(r)
  BY <1>3 DEF ToolRefused, ToolFails, ToolTimesOut, StopsEarly, Fails
<1>4. CASE ToolReturns(r)
  BY <1>4 DEF ToolReturns, PcFits
<1>5. CASE Close(r) \/ (\E dest \in {"done", "waiting_hitl"} : AnswerOk(r, dest))
  BY <1>5 DEF Close, AnswerOk, runVars
<1>6. CASE WhenIdle(r) \/ Drained(r) \/ EndHolds(r)
  BY <1>6 DEF WhenIdle, Drained, EndHolds, runVars
<1> QED
  BY <1>1, <1>2, <1>3, <1>4, <1>5, <1>6 DEF AgentStep

LEMMA OtherStateKeeps ==
    ASSUME RunsInv, NEW r \in Runs, r \notin DefaultTurns, StateFits(r),
           TurnStep(r) \/ ReleaseLock(r) \/ WorkerExits(r) \/ ClientStep(r)
    PROVE  StateFits(r)'
<1> USE DEF RunsInv, TypeOK, StateFits, Goes, Transition, After, IsLegal, Legal, OpenState,
            TerminalState
<1>1. CASE BeginTurn(r) \/ ExpertTurnEnds(r)
  BY <1>1 DEF BeginTurn, ExpertTurnEnds, EndTurn, RunsAssumption
<1>2. CASE DefaultTurnEnds(r) \/ DefaultTurnRaises(r)
  BY <1>2 DEF DefaultTurnEnds, DefaultTurnRaises
<1>3. CASE ReleaseLock(r) \/ WorkerExits(r) \/ SetCancelEvent(r)
  BY <1>3 DEF ReleaseLock, WorkerExits, SetCancelEvent, runVars
<1>4. CASE CancelRun(r)
  BY <1>4 DEF CancelRun
<1>5. ASSUME NEW s \in Sessions, NEW e \in Posts(r), CreateRun(r, s, e)
      PROVE  StateFits(r)'
  BY <1>5 DEF CreateRun
<1> QED
  BY <1>1, <1>2, <1>3, <1>4, <1>5 DEF TurnStep, ClientStep

LEMMA StepIsItsOwn ==
    ASSUME RunsInv, NEW r \in Runs, RunStep(r) \/ WorkerExits(r) \/ ClientStep(r),
           NEW q \in Runs, q # r
    PROVE  pc'[q] = pc[q] /\ runState'[q] = runState[q] /\ steps'[q] = steps[q]
<1> USE DEF RunsInv, TypeOK, Goes, Transition
<1>1. CASE AgentStep(r)
  BY <1>1 DEF AgentStep, BeginHolds, Act, CallTool, StartTool, ToolRefused, ToolReturns, ToolFails,
              ToolTimesOut, Close, AnswerOk, StopsEarly, Fails, WhenIdle, Drained, EndHolds, runVars
<1>2. CASE TurnStep(r) \/ ReleaseLock(r) \/ WorkerExits(r)
  BY <1>2 DEF TurnStep, BeginTurn, ExpertTurnEnds, DefaultTurnEnds, EndTurn, DefaultTurnRaises,
              ReleaseLock, WorkerExits, runVars
<1>3. CASE ClientStep(r)
  BY <1>3 DEF ClientStep, CreateRun, CancelRun, SetCancelEvent, runVars
<1> QED
  BY <1>1, <1>2, <1>3 DEF RunStep

LEMMA StatesFitInvariant == Spec => []StatesFit
<1>1. Init => StatesFit
  BY DEF Init, StatesFit, StateFits, Runs
<1>2. RunsInv /\ StatesFit /\ [Next]_vars => StatesFit'
  <2> SUFFICES ASSUME RunsInv, StatesFit, [Next]_vars,
                      NEW q \in AgentRuns \cup ExpertTurns
               PROVE  StateFits(q)'
    BY DEF StatesFit
  <2>1. CASE UNCHANGED vars
    BY <2>1 DEF StatesFit, StateFits, vars, runVars
  <2>2. ASSUME NEW r \in Runs, RunStep(r) \/ WorkerExits(r) \/ ClientStep(r)
        PROVE  StateFits(q)'
    <3>1. CASE q = r
      BY <2>2, <3>1, AgentStateKeeps, OtherStateKeeps DEF StatesFit, RunStep, Runs
    <3>2. CASE q # r
      BY <2>2, <3>2, StepIsItsOwn DEF StatesFit, StateFits, Runs
    <3> QED
      BY <3>1, <3>2
  <2> QED
    BY <2>1, <2>2 DEF Next
<1> QED
  BY <1>1, <1>2, RunsInvariant, PTL DEF Spec

AnsweredIsClosed ==
    \A r \in AgentRuns \cup ExpertTurns :
        pc[r] \in {"answered", "draining", "idle", "ended", "over"} =>
            runState[r] \in TerminalState \cup {"waiting_hitl"}

(* No agent run or expert turn answers, drains or ends with its state left   *)
(* open, though run_agent and run_expert_turn ignore what the last           *)
(* transition returns.                                                       *)
THEOREM AnsweredRunsAreClosed == Spec => []AnsweredIsClosed
<1>1. StatesFit => AnsweredIsClosed
  BY DEF StatesFit, StateFits, AnsweredIsClosed
<1> QED
  BY <1>1, StatesFitInvariant, PTL

-----------------------------------------------------------------------------
(* How far a run is on its way: within one step of its budget from the tool  *)
(* call to the decision on the next one.                                     *)
Order == [none |-> 0, admitted |-> 1, calling |-> 3, tool |-> 4, working |-> 5, closing |-> 6,
          answered |-> 7, draining |-> 8, idle |-> 9, ended |-> 10, over |-> 11]
Fresh(r) == pc[r] = "working" /\ runState[r] = "planning"
Stage(r) == 12 * steps[r] + (IF Fresh(r) THEN 2 ELSE Order[pc[r]])

Onward == \A r \in Runs : Stage(r)' >= Stage(r) /\ (RunStep(r) => Stage(r)' > Stage(r))

LEMMA AgentOnward ==
    ASSUME RunsInv, StatesFit, NEW r \in Runs, AgentStep(r)
    PROVE  Stage(r)' > Stage(r)
<1>0. StateFits(r) \/ r \in DefaultTurns
  BY DEF StatesFit, Runs
<1>1. steps[r] \in Nat
  BY DEF RunsInv, TypeOK
<1> USE <1>1 DEF RunsInv, TypeOK, Stage, Fresh, Order, Goes
<1>2. CASE BeginHolds(r)
  BY <1>2 DEF BeginHolds
<1>3. CASE Act(r)
  BY <1>3 DEF Act, Transition, After, IsLegal, Legal, OpenState
<1>4. CASE CallTool(r)
  BY <1>4 DEF CallTool
<1>5. CASE StartTool(r) \/ Close(r) \/ WhenIdle(r) \/ Drained(r) \/ EndHolds(r)
  BY <1>5 DEF StartTool, Close, WhenIdle, Drained, EndHolds, runVars
<1>6. CASE ToolRefused(r) \/ ToolFails(r) \/ ToolTimesOut(r) \/ StopsEarly(r)
  BY <1>6 DEF ToolRefused, ToolFails, ToolTimesOut, StopsEarly, Fails
<1>7. CASE ToolReturns(r)
  <2>1. r \in AgentRuns /\ r \notin DefaultTurns
    BY <1>7 DEF ToolReturns, PcFits
  <2>2. runState[r] \in {"waiting_tool", "cancelled"}
    BY <1>0, <1>7, <2>1 DEF ToolReturns, StateFits
  <2> QED
    BY <1>7, <2>2 DEF ToolReturns, Transition, After
<1>8. CASE \E dest \in {"done", "waiting_hitl"} : AnswerOk(r, dest)
  BY <1>8 DEF AnswerOk
<1> QED
  BY <1>2, <1>3, <1>4, <1>5, <1>6, <1>7, <1>8 DEF AgentStep

LEMMA TurnOnward ==
    ASSUME RunsInv, NEW r \in Runs, TurnStep(r) \/ ReleaseLock(r)
    PROVE  Stage(r)' > Stage(r)
<1>1. steps[r] \in Nat
  BY DEF RunsInv, TypeOK
<1> USE <1>1 DEF RunsInv, TypeOK, Stage, Fresh, Order, Goes
<1>2. CASE BeginTurn(r)
  BY <1>2 DEF BeginTurn
<1>3. CASE ExpertTurnEnds(r) \/ DefaultTurnEnds(r)
  BY <1>3 DEF ExpertTurnEnds, DefaultTurnEnds, EndTurn
<1>4. CASE DefaultTurnRaises(r) \/ ReleaseLock(r)
  BY <1>4 DEF DefaultTurnRaises, ReleaseLock, runVars
<1> QED
  BY <1>2, <1>3, <1>4 DEF TurnStep

LEMMA OthersDoNotSendBack ==
    ASSUME RunsInv, NEW r \in Runs, WorkerExits(r) \/ ClientStep(r)
    PROVE  Stage(r)' >= Stage(r)
<1>1. steps[r] \in Nat
  BY DEF RunsInv, TypeOK
<1> USE <1>1 DEF RunsInv, TypeOK, Stage, Fresh, Order, Goes
<1>2. CASE WorkerExits(r) \/ SetCancelEvent(r)
  BY <1>2 DEF WorkerExits, SetCancelEvent, runVars
<1>3. CASE CancelRun(r)
  BY <1>3 DEF CancelRun, Transition, After, IsLegal, Legal, OpenState
<1>4. ASSUME NEW s \in Sessions, NEW e \in Posts(r), CreateRun(r, s, e)
      PROVE  Stage(r)' >= Stage(r)
  BY <1>4 DEF CreateRun
<1> QED
  BY <1>2, <1>3, <1>4 DEF ClientStep

LEMMA StageOfOthers ==
    ASSUME RunsInv, NEW r \in Runs, pc'[r] = pc[r], runState'[r] = runState[r],
           steps'[r] = steps[r]
    PROVE  Stage(r)' >= Stage(r)
BY DEF RunsInv, TypeOK, Stage, Fresh, Order

LEMMA StepOnward ==
    ASSUME RunsInv, StepsInv, StatesFit, [Next]_vars
    PROVE  Onward
<1>1. ASSUME NEW r \in Runs, RunStep(r)
      PROVE  Stage(r)' > Stage(r)
  BY <1>1, AgentOnward, TurnOnward DEF RunStep
<1>2. ASSUME NEW r \in Runs
      PROVE  Stage(r) \in Nat /\ Stage(r)' \in Nat
  <2>1. TypeOK /\ TypeOK'
    BY TypeStep DEF RunsInv
  <2> QED
    BY <2>1 DEF TypeOK, Stage, Order, Fresh
<1>3. ASSUME NEW r \in Runs
      PROVE  Stage(r)' >= Stage(r)
  <2>1. CASE UNCHANGED vars
    BY <2>1, StageOfOthers DEF vars, runVars
  <2>2. ASSUME NEW q \in Runs, RunStep(q) \/ WorkerExits(q) \/ ClientStep(q)
        PROVE  Stage(r)' >= Stage(r)
    <3>1. CASE q = r
      BY <2>2, <3>1, <1>1, <1>2, OthersDoNotSendBack
    <3>2. CASE q # r
      BY <2>2, <3>2, StepIsItsOwn, StageOfOthers
    <3> QED
      BY <3>1, <3>2
  <2> QED
    BY <2>1, <2>2 DEF Next
<1> QED
  BY <1>1, <1>3 DEF Onward

WithinBound == \A r \in Runs : Stage(r) \in 0 .. 12 * MaxSteps + 23

(* No run ever goes back, and each step of its thread takes it further: with *)
(* its tool calls counted, a thread ends after at most 12 * MaxSteps + 23    *)
(* steps, whoever else runs and however its tools fail or are cancelled.     *)
THEOREM RunsGoOnward == Spec => [][Onward]_vars /\ []WithinBound
<1>1. RunsInv => WithinBound
  BY DEF RunsInv, TypeOK, WithinBound, Stage, Fresh, Order
<1>2. RunsInv /\ StepsInv /\ StatesFit /\ [Next]_vars => Onward
  BY StepOnward
<1> QED
  BY <1>1, <1>2, RunsInvariant, StepsInvariant, StatesFitInvariant, PTL DEF Spec
=============================================================================
