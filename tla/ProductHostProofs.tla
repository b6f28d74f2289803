-------------------------- MODULE ProductHostProofs --------------------------
(***************************************************************************)
(* Proofs about ProductHost, for any number of processes, sessions and     *)
(* turns.  Every step of the host is a step of RuntimeCore or leaves it    *)
(* alone, so what RuntimeCoreProofs proves of the core holds of the host;  *)
(* the owner lock and the way workers use their lease do the rest, in the  *)
(* inductive invariant HostInv; and every turn moves forward, with its     *)
(* token registered until it is settled.                                   *)
(***************************************************************************)
EXTENDS ProductHost, RuntimeCoreProofs

(* Each step of a host or of a worker is a step of the core or a stutter. *)
LEMMA HostStepIsCoreStep ==
    ASSUME HostTypeOK, HostInv, [HostNext]_productVars
    PROVE  [Next]_coreVars
<1>1. ASSUME NEW h \in Runtimes, HostStep(h) PROVE [Next]_coreVars
  BY <1>1 DEF HostStep, OpenHost, RecoverOnOpen, HostStops, StartTurn, RequestCancel,
              Next, RuntimeStep
<1>2. ASSUME NEW t \in Turns, WorkerStep(t) PROVE [Next]_coreVars
  <2>1. CASE FinishTurn(t)
    <3>1. wanted[t] \in TerminalStatus
      BY <2>1 DEF FinishTurn, Goes, HostInv, LeaseIsLive, HostTypeOK, TerminalStatus
    <3>2. QED
      BY <2>1, <3>1 DEF FinishTurn, Next, LeaseStep
  <2>2. CASE ~FinishTurn(t)
    BY <1>2, <2>2 DEF WorkerStep, OwedStep, Authorize, TimerFires, Reaped, ReportError, DropRuns,
                      Progress, ReturnsOk, ReturnsErr, WorkerFails, DropWriteFails, Next, LeaseStep
  <2>3. QED
    BY <2>1, <2>2
<1>3. CASE UNCHANGED productVars
  BY <1>3 DEF productVars
<1>4. QED
  BY <1>1, <1>2, <1>3 DEF HostNext

LEMMA HostTypeStep ==
    ASSUME HostTypeOK, TypeOK', [HostNext]_productVars
    PROVE  HostTypeOK'
<1> USE DEF HostTypeOK, WorkerState
<1>1. ASSUME NEW h \in Runtimes, HostStep(h) PROVE HostTypeOK'
  BY <1>1 DEF HostStep, OpenHost, RecoverOnOpen, HostStops, StartTurn, RequestCancel,
              Goes, hostVars, workerVars
<1>2. ASSUME NEW t \in Turns, WorkerStep(t) PROVE HostTypeOK'
  BY <1>2 DEF WorkerStep, OwedStep, Authorize, TimerFires, Reaped, ReportError, FinishTurn,
              DropRuns, Progress, ReturnsOk, ReturnsErr, WorkerFails, DropWriteFails,
              Goes, hostVars, workerVars
<1>3. CASE UNCHANGED productVars
  BY <1>3 DEF productVars, hostVars, workerVars
<1>4. QED
  BY <1>1, <1>2, <1>3 DEF HostNext

-----------------------------------------------------------------------------
(* HostInv is preserved: one step per action. *)
LEMMA HostInvStep ==
    ASSUME HostTypeOK, HostInv, [HostNext]_productVars
    PROVE  HostInv'
<1> USE DEF HostTypeOK, TypeOK, HostInv, OwnerIsUp, LeaseIsLive, OneFailureNeverStrands,
            CancelReachesWorker, Leased, Serving, Active, ActiveStatus, TerminalStatus,
            hostVars, workerVars, dbVars, memVars, Goes
<1>1. ASSUME NEW h \in Runtimes, OpenHost(h) PROVE HostInv'
  BY <1>1, CoreAssumption DEF OpenHost, coreVars
<1>2. ASSUME NEW h \in Runtimes, RecoverOnOpen(h) PROVE HostInv'
  <2>1. \A t \in Turns : ~Leased(t)
    <3>1. host[h] = "opened" /\ owner = h
      BY <1>2 DEF RecoverOnOpen
    <3>2. \A g \in Runtimes : host[g] = "serving" => owner = g
      OBVIOUS
    <3>3. ASSUME NEW t \in Turns, Leased(t) PROVE FALSE
      <4>1. holder[t] \in Runtimes /\ host[holder[t]] = "serving"
        BY <3>3
      <4>2. QED
        BY <3>1, <3>2, <4>1
    <3>4. QED
      BY <3>3
  <2>2. QED
    BY <1>2, <2>1 DEF RecoverOnOpen, RecoverInterrupted
<1>3. ASSUME NEW h \in Runtimes, HostStops(h) PROVE HostInv'
  BY <1>3, CoreAssumption DEF HostStops, Crash
<1>4. ASSUME NEW h \in Runtimes, NEW s \in Sessions, NEW t \in Turns, StartTurn(h, s, t)
      PROVE  HostInv'
  BY <1>4 DEF StartTurn, BeginTurn
<1>5. ASSUME NEW h \in Runtimes, NEW t \in Turns, RequestCancel(h, t) PROVE HostInv'
  <2>1. Active(t) /\ host[h] = "serving" /\ owner = h
    BY <1>5 DEF RequestCancel, CancelTurn
  <2>2. Leased(t) => t \in registry[h]
    <3>1. Leased(t) => host[holder[t]] = "serving" /\ holder[t] \in Runtimes
      OBVIOUS
    <3>2. Leased(t) => owner = holder[t]
      BY <3>1
    <3>3. QED
      BY <2>1, <3>2
  <2>3. /\ status' = [status EXCEPT ![t] = "cancelling"]
        /\ token' = [token EXCEPT ![t] = @ \/ t \in registry[h]]
        /\ UNCHANGED <<lease, holder, registry, failures, hostVars, workerVars>>
    BY <1>5 DEF RequestCancel, CancelTurn
  <2>4. \A u \in Turns : Active(u)' <=> Active(u)
    BY <2>1, <2>3
  <2>5. CancelReachesWorker'
    <3>1. \A u \in Turns : u # t => token'[u] = token[u] /\ status'[u] = status[u]
      BY <2>3
    <3>2. Leased(t) => token'[t]
      <4>1. t \in DOMAIN token
        OBVIOUS
      <4>2. token'[t] = (token[t] \/ t \in registry[h])
        BY <2>3, <4>1, Zenon
      <4>3. QED
        BY <2>2, <4>2, Zenon
    <3>3. lease' = lease
      BY <2>3
    <3>4. ASSUME NEW u \in Turns, status'[u] = "cancelling", Leased(u)'
          PROVE  token'[u]
      <4>1. Leased(u)
        BY <3>3, <3>4
      <4>2. CASE u = t
        BY <3>2, <4>1, <4>2
      <4>3. CASE u # t
        <5>1. status[u] = "cancelling"
          BY <3>1, <3>4, <4>3
        <5>2. token[u] = TRUE
          BY <4>1, <5>1
        <5>3. token'[u] = TRUE
          BY <3>1, <4>3, <5>2
        <5>4. QED
          BY <5>3
      <4>4. QED
        BY <4>2, <4>3
    <3>5. QED
      BY <3>4
  <2>6. OneFailureNeverStrands'
    BY <2>3, <2>4
  <2>7. ASSUME NEW u \in Turns PROVE LeaseIsLive(u)'
    <3>1. LeaseIsLive(u) /\ (Active(u) => Active(u)')
      BY <2>4
    <3>2. UNCHANGED <<lease, holder, registry, failures, host, worker, wanted>>
      BY <2>3
    <3>3. QED
      BY <3>1, <3>2
  <2>8. QED
    BY <2>3, <2>5, <2>6, <2>7
<1>6. ASSUME NEW t \in Turns, Authorize(t) \/ Progress(t) PROVE HostInv'
  BY <1>6 DEF Authorize, Progress, Emit
<1>7. ASSUME NEW t \in Turns, ReturnsOk(t) \/ ReturnsErr(t) \/ Reaped(t) PROVE HostInv'
  BY <1>7 DEF ReturnsOk, ReturnsErr, Reaped, coreVars
<1>8. ASSUME NEW t \in Turns, TimerFires(t) PROVE HostInv'
  BY <1>8 DEF TimerFires, CancelToken
<1>9. ASSUME NEW t \in Turns, ReportError(t) PROVE HostInv'
  BY <1>9 DEF ReportError, Emit, coreVars
<1>10. ASSUME NEW t \in Turns, FinishTurn(t) PROVE HostInv'
  <2>1. /\ lease[t] = "held" /\ Active(t) /\ wanted[t] \in TerminalStatus
    BY <1>10 DEF FinishTurn, Finish
  <2> DEFINE final == Resolved(t, wanted[t], TRUE)
  <2>2. final \in TerminalStatus
    BY <2>1 DEF Resolved, Terminal
  <2> HIDE DEF final
  <2>3. /\ status' = [status EXCEPT ![t] = final]
        /\ lease' = [lease EXCEPT ![t] = "none"]
        /\ registry' = [registry EXCEPT ![holder[t]] = @ \ {t}]
        /\ worker' = [worker EXCEPT ![t] = "none"]
        /\ UNCHANGED <<holder, token, failures, hostVars, wanted>>
    BY <1>10 DEF FinishTurn, Finish, Settle, final
  <2>4. QED
    BY <2>1, <2>2, <2>3
<1>11. ASSUME NEW t \in Turns, WorkerFails(t) PROVE HostInv'
  <2>1. /\ lease[t] = "held" /\ failures[t] \in Nat
        /\ lease' = [lease EXCEPT ![t] = "dropping"]
        /\ token' = [token EXCEPT ![t] = TRUE]
        /\ worker' = [worker EXCEPT ![t] = "none"]
        /\ failures' = [failures EXCEPT ![t] = @ + 1]
        /\ UNCHANGED <<status, holder, registry, hostVars, wanted>>
    BY <1>11 DEF WorkerFails, LeaseFails, DropLease
  <2>2. \A u \in Turns : failures'[u] >= failures[u]
    BY <2>1
  <2>3. ASSUME NEW u \in Turns PROVE LeaseIsLive(u)'
    <3>1. CASE u = t
      <4>1. failures'[t] >= 1 /\ lease'[t] = "dropping" /\ worker'[t] = "none"
        BY <2>1
      <4>2. LeaseIsLive(t) /\ Leased(t)
        BY <2>1
      <4>3. QED
        BY <2>1, <3>1, <4>1, <4>2
    <3>2. CASE u # t
      BY <2>1, <3>2
    <3>3. QED
      BY <3>1, <3>2
  <2>4. OneFailureNeverStrands'
    BY <2>1, <2>2
  <2>5. CancelReachesWorker' /\ OwnerIsUp'
    BY <2>1
  <2>6. QED
    BY <2>3, <2>4, <2>5
<1>12. ASSUME NEW t \in Turns, DropRuns(t) PROVE HostInv'
  <2>1. lease[t] = "dropping" /\ Active(t)
    BY <1>12 DEF DropRuns, DropSettles
  <2>2. /\ status' = [status EXCEPT ![t] = "interrupted"]
        /\ lease' = [lease EXCEPT ![t] = "none"]
        /\ registry' = [registry EXCEPT ![holder[t]] = @ \ {t}]
        /\ UNCHANGED <<holder, token, failures, hostVars, workerVars>>
    BY <1>12, <2>1 DEF DropRuns, DropSettles, Settle
  <2>3. QED
    BY <2>1, <2>2
<1>13. ASSUME NEW t \in Turns, DropWriteFails(t) PROVE HostInv'
  BY <1>13 DEF DropWriteFails, DropFails
<1>14. CASE UNCHANGED productVars
  BY <1>14 DEF productVars, coreVars
<1>15. QED
  BY <1>1, <1>2, <1>3, <1>4, <1>5, <1>6, <1>7, <1>8, <1>9, <1>10, <1>11, <1>12, <1>13, <1>14
     DEF HostNext, HostStep, WorkerStep, OwedStep

LEMMA HostInvariant == HostSpec => [](HostTypeOK /\ HostInv)
<1>1. HostInit => HostTypeOK /\ HostInv
  <2>1. HostInit => TypeOK
    BY DEF HostInit, Init, TypeOK, ActiveStatus, TerminalStatus, Event
  <2>2. QED
    BY <2>1, CoreAssumption
       DEF HostInit, Init, HostTypeOK, WorkerState, HostInv, OwnerIsUp, LeaseIsLive,
           OneFailureNeverStrands, CancelReachesWorker, Leased, Serving, Active, ActiveStatus
<1>2. HostTypeOK /\ HostInv /\ [HostNext]_productVars => (HostTypeOK /\ HostInv)'
  <2> SUFFICES ASSUME HostTypeOK, HostInv, [HostNext]_productVars
               PROVE  HostTypeOK' /\ HostInv'
    OBVIOUS
  <2>1. TypeOK'
    BY HostStepIsCoreStep, TypeStep DEF HostTypeOK
  <2>2. QED
    BY <2>1, HostTypeStep, HostInvStep
<1>3. QED
  BY <1>1, <1>2, PTL DEF HostSpec

(* Every behaviour of the hosts is a behaviour of the core, so every theorem *)
(* about RuntimeCore is one about the workbench.                             *)
THEOREM HostImplementsCore == HostSpec => Spec
<1>1. HostInit => Init
  BY DEF HostInit
<1>2. HostTypeOK /\ HostInv /\ [HostNext]_productVars => [Next]_coreVars
  BY HostStepIsCoreStep
<1>3. QED
  BY <1>1, <1>2, HostInvariant, PTL DEF HostSpec, Spec

(* The variables of the host keep their types. *)
THEOREM HostTypeCorrect == HostSpec => []HostTypeOK
  BY HostInvariant, PTL

(* It takes two failures on one turn to leave its session busy while a host  *)
(* serves (the Drop of TurnLease after a failed finish or a panic).          *)
THEOREM OneFailureDoesNotStrand == HostSpec => []OneFailureNeverStrands
<1>1. HostInv => OneFailureNeverStrands
  BY DEF HostInv
<1>2. QED
  BY <1>1, HostInvariant, PTL

(* A committed cancel request has reached the token of the live worker. *)
THEOREM CancelsReachWorkers == HostSpec => []CancelReachesWorker
<1>1. HostInv => CancelReachesWorker
  BY DEF HostInv
<1>2. QED
  BY <1>1, HostInvariant, PTL

(* Two workers never run for one session, in one process or in two, through  *)
(* crashes, restarts and recoveries (owner lock and unique active row).      *)
THEOREM WorkersAreExclusive == HostSpec => []OneWorkerPerSession
<1>1. HostInv /\ OneActiveTurn => OneWorkerPerSession
  BY DEF HostInv, LeaseIsLive, OneActiveTurn, OneWorkerPerSession
<1>2. QED
  BY <1>1, HostInvariant, HostImplementsCore, OneTurnPerSession, PTL

(* A turn that a worker holds is settled by that worker: the recovery of a   *)
(* starting host never takes it (open_with_auth holds the owner lock first). *)
THEOREM WorkersSettleTheirTurns == HostSpec => SettledByItsWorker
<1>1. ASSUME HostTypeOK, HostInv, [HostNext]_productVars,
             NEW t \in Turns, Active(t), Leased(t), Terminal(t)'
      PROVE  lease'[t] = "none"
  <2>1. ~Terminal(t) /\ status'[t] # status[t] /\ status'[t] # "cancelling"
    BY <1>1 DEF Active, Terminal, ActiveStatus, TerminalStatus
  <2>2. ASSUME NEW h \in Runtimes, HostStep(h) PROVE lease'[t] = "none"
    <3>1. CASE RecoverOnOpen(h)
      <4>1. holder[t] \in Runtimes /\ host[holder[t]] = "serving" /\ owner = holder[t]
        BY <1>1 DEF HostInv, LeaseIsLive, OwnerIsUp
      <4>2. host[h] = "opened" /\ owner = h
        BY <1>1, <3>1 DEF RecoverOnOpen, HostInv, OwnerIsUp
      <4>3. QED
        BY <4>1, <4>2
    <3>2. CASE ~RecoverOnOpen(h)
      BY <1>1, <2>1, <2>2, <3>2
         DEF HostStep, OpenHost, HostStops, Crash, StartTurn, BeginTurn, RequestCancel,
             CancelTurn, coreVars, dbVars, HostTypeOK, TypeOK, Active, Terminal,
             ActiveStatus, TerminalStatus
    <3>3. QED
      BY <3>1, <3>2
  <2>3. ASSUME NEW u \in Turns, WorkerStep(u) PROVE lease'[t] = "none"
    <3>1. CASE FinishTurn(u) \/ DropRuns(u)
      BY <1>1, <2>1, <3>1 DEF FinishTurn, Finish, DropRuns, DropSettles, Settle, dbVars,
                              HostTypeOK, TypeOK
    <3>2. CASE ~FinishTurn(u) /\ ~DropRuns(u)
      <4>1. status' = status
        BY <2>3, <3>2 DEF WorkerStep, OwedStep, Authorize, TimerFires, Reaped, ReportError,
              Progress, ReturnsOk, ReturnsErr, WorkerFails, DropWriteFails, Emit, CancelToken,
              LeaseFails, DropLease, DropFails, coreVars, dbVars
      <4>2. QED
        BY <2>1, <4>1
    <3>3. QED
      BY <3>1, <3>2
  <2>4. CASE UNCHANGED productVars
    BY <2>1, <2>4 DEF productVars, coreVars
  <2>5. QED
    BY <1>1, <2>2, <2>3, <2>4 DEF HostNext
<1>2. HostTypeOK /\ HostInv /\ [HostNext]_productVars
        => [\A t \in Turns :
              Active(t) /\ Leased(t) /\ Terminal(t)' => lease'[t] = "none"]_productVars
  BY <1>1
<1>3. QED
  BY <1>2, HostInvariant, PTL DEF HostSpec, SettledByItsWorker
-----------------------------------------------------------------------------
(* The tokens that a host keeps registered. *)
TokensFit ==
    \A h \in Runtimes : \A t \in registry[h] :
        /\ host[h] = "serving"
        /\ holder[t] = h /\ Active(t)
        /\ Leased(t) \/ failures[t] >= 2

LEMMA TokensStep ==
    ASSUME HostTypeOK, HostInv, TokensFit, [HostNext]_productVars
    PROVE  TokensFit'
<1> USE DEF HostTypeOK, TypeOK, TokensFit, Leased, Active, hostVars, workerVars, dbVars, memVars
<1>1. ASSUME NEW h \in Runtimes, OpenHost(h) PROVE TokensFit'
  BY <1>1 DEF OpenHost, coreVars
<1>2. ASSUME NEW h \in Runtimes, RecoverOnOpen(h) PROVE TokensFit'
  <2>1. host[h] = "opened" /\ owner = h
    BY <1>2 DEF RecoverOnOpen, HostInv, OwnerIsUp
  <2>2. \A g \in Runtimes : host[g] # "serving"
    BY <2>1 DEF HostInv, OwnerIsUp
  <2>3. \A g \in Runtimes : registry[g] = {}
    BY <2>2
  <2> QED
    BY <1>2, <2>3 DEF RecoverOnOpen, RecoverInterrupted
<1>3. ASSUME NEW h \in Runtimes, HostStops(h) PROVE TokensFit'
  BY <1>3 DEF HostStops, Crash
<1>4. ASSUME NEW h \in Runtimes, NEW s \in Sessions, NEW t \in Turns, StartTurn(h, s, t)
      PROVE  TokensFit'
  BY <1>4 DEF StartTurn, BeginTurn, ActiveStatus
<1>5. ASSUME NEW h \in Runtimes, NEW t \in Turns, RequestCancel(h, t) PROVE TokensFit'
  BY <1>5 DEF RequestCancel, CancelTurn, ActiveStatus
<1>6. ASSUME NEW t \in Turns, \/ Authorize(t) \/ Progress(t) \/ ReturnsOk(t) \/ ReturnsErr(t)
                              \/ TimerFires(t) \/ Reaped(t) \/ ReportError(t)
      PROVE  TokensFit'
  BY <1>6 DEF Authorize, Progress, ReturnsOk, ReturnsErr, TimerFires, Reaped, ReportError,
              Emit, CancelToken, coreVars
<1>7. ASSUME NEW t \in Turns, FinishTurn(t) \/ DropRuns(t) PROVE TokensFit'
  <2>1. Leased(t) /\ Active(t)
    BY <1>7 DEF FinishTurn, Finish, DropRuns, DropSettles, HostInv, LeaseIsLive
  <2>2. PICK final : Settle(t, final) /\ UNCHANGED <<failures, host>>
    BY <1>7, <2>1 DEF FinishTurn, Finish, DropRuns, DropSettles
  <2>3. /\ \A g \in Runtimes : registry'[g] \subseteq registry[g] /\ t \notin registry'[g]
        /\ \A u \in Turns \ {t} : status'[u] = status[u] /\ lease'[u] = lease[u]
    BY <2>2 DEF Settle
  <2> QED
    BY <2>2, <2>3 DEF Settle
<1>8. ASSUME NEW t \in Turns, WorkerFails(t) PROVE TokensFit'
  BY <1>8 DEF WorkerFails, LeaseFails, DropLease
<1>9. ASSUME NEW t \in Turns, DropWriteFails(t) PROVE TokensFit'
  <2>1. failures[t] >= 1
    BY <1>9 DEF DropWriteFails, DropFails, HostInv, LeaseIsLive
  <2> QED
    BY <1>9, <2>1 DEF DropWriteFails, DropFails
<1>10. CASE UNCHANGED productVars
  BY <1>10 DEF productVars, coreVars
<1> QED
  BY <1>1, <1>2, <1>3, <1>4, <1>5, <1>6, <1>7, <1>8, <1>9, <1>10
     DEF HostNext, HostStep, WorkerStep, OwedStep

(* No token outlives its turn: one that is registered belongs to a turn that *)
(* this host runs and has not settled, and without a worker only where the   *)
(* finishing write and then Drop's own write both failed.                    *)
THEOREM TokensDoNotLeak == HostSpec => []TokensFit
<1>1. HostInit => TokensFit
  BY DEF HostInit, Init, TokensFit
<1> QED
  BY <1>1, TokensStep, HostInvariant, PTL DEF HostSpec

-----------------------------------------------------------------------------
(* Where a turn is on its way from its row to its settlement. *)
Place == [starting |-> 1, executing |-> 2, reaping |-> 3, reporting |-> 4, settling |-> 5]

Stage(t) ==
    IF status[t] = "absent" THEN 0
    ELSE IF lease[t] = "held" THEN Place[worker[t]]
    ELSE IF lease[t] = "dropping" THEN 6 ELSE 7

Onward == \A t \in Turns : Stage(t)' >= Stage(t) /\ (OwedStep(t) => Stage(t)' > Stage(t))

StagesFit ==
    \A t \in Turns :
        /\ lease[t] # "none" => status[t] # "absent"
        /\ lease[t] = "held" => worker[t] \in DOMAIN Place
        /\ Stage(t) \in 0 .. 7

LEMMA StageRange == HostTypeOK /\ HostInv => StagesFit
<1> SUFFICES ASSUME HostTypeOK, HostInv, NEW t \in Turns
             PROVE  /\ lease[t] # "none" => status[t] # "absent"
                    /\ lease[t] = "held" => worker[t] \in DOMAIN Place
                    /\ Stage(t) \in 0 .. 7
  BY DEF StagesFit
<1>1. lease[t] # "none" => status[t] # "absent"
  BY DEF HostInv, LeaseIsLive, Leased, Active, ActiveStatus
<1>2. lease[t] = "held" => worker[t] \in DOMAIN Place
  BY DEF HostTypeOK, HostInv, LeaseIsLive, WorkerState, Place
<1> QED
  BY <1>1, <1>2 DEF Stage, Place

LEMMA HostOnward ==
    ASSUME HostTypeOK, HostInv, StagesFit', [HostNext]_productVars
    PROVE  Onward
<1>1. ASSUME NEW t \in Turns
      PROVE  /\ lease[t] # "none" => status[t] # "absent"
             /\ lease[t] = "held" => worker[t] \in DOMAIN Place
             /\ Stage(t) \in 0 .. 7 /\ Stage(t)' \in 0 .. 7
  BY StageRange DEF StagesFit
<1>2. ASSUME NEW t \in Turns, NEW u \in Turns,
              u # t => Stage(u)' = Stage(u), Stage(t)' > Stage(t)
       PROVE  Stage(u)' >= Stage(u)
  BY <1>1, <1>2
<1> USE <1>1 DEF HostTypeOK, TypeOK, Stage, Place, Goes, hostVars, workerVars, dbVars, memVars
<1>3. ASSUME NEW t \in Turns, Authorize(t) \/ TimerFires(t) \/ Reaped(t) \/ ReportError(t)
      PROVE  Stage(t)' > Stage(t)
  BY <1>3 DEF Authorize, TimerFires, Reaped, ReportError, Emit, CancelToken, coreVars, HostInv,
              LeaseIsLive
<1>4. ASSUME NEW t \in Turns, FinishTurn(t) \/ DropRuns(t)
      PROVE  Stage(t)' > Stage(t)
  <2>1. Active(t) /\ lease[t] # "none"
    BY <1>4 DEF FinishTurn, Finish, DropRuns, DropSettles, HostInv, LeaseIsLive, Leased
  <2>2. status'[t] # "absent" /\ lease'[t] = "none"
    BY <1>4, <2>1 DEF FinishTurn, Finish, Resolved, CancelSeen, DropRuns, DropSettles, Settle,
                      HostInv, LeaseIsLive
  <2> QED
    BY <2>1, <2>2
<1>5. ASSUME NEW t \in Turns, OwedStep(t)
      PROVE  Stage(t)' > Stage(t)
  BY <1>3, <1>4, <1>5 DEF OwedStep
<1>6. ASSUME NEW u \in Turns, NEW h \in Runtimes, HostStep(h)
      PROVE  Stage(u)' >= Stage(u)
  <2>1. CASE OpenHost(h)
    BY <2>1 DEF OpenHost, coreVars
  <2>2. CASE RecoverOnOpen(h)
    BY <2>2 DEF RecoverOnOpen, RecoverInterrupted, Active, ActiveStatus
  <2>3. CASE HostStops(h)
    BY <2>3 DEF HostStops, Crash
  <2>4. ASSUME NEW s \in Sessions, NEW t \in Turns, StartTurn(h, s, t)
        PROVE  Stage(u)' >= Stage(u)
    BY <2>4 DEF StartTurn, BeginTurn
  <2>5. ASSUME NEW t \in Turns, RequestCancel(h, t)
        PROVE  Stage(u)' >= Stage(u)
    BY <2>5 DEF RequestCancel, CancelTurn, Active, ActiveStatus
  <2> QED
    BY <1>6, <2>1, <2>2, <2>3, <2>4, <2>5 DEF HostStep
<1>7. ASSUME NEW u \in Turns, NEW t \in Turns, WorkerStep(t)
      PROVE  Stage(u)' >= Stage(u)
  <2>1. CASE Authorize(t) \/ TimerFires(t) \/ Reaped(t) \/ ReportError(t)
    <3>1. u # t => Stage(u)' = Stage(u)
      BY <2>1 DEF Authorize, TimerFires, Reaped, ReportError, Emit, CancelToken, coreVars
    <3>2. Stage(t)' > Stage(t)
      BY <2>1, <1>3
    <3> QED
      BY <3>1, <3>2, <1>2
  <2>2. CASE FinishTurn(t) \/ DropRuns(t)
    <3>1. Active(t)
      BY <2>2 DEF FinishTurn, Finish, DropRuns, DropSettles, HostInv, LeaseIsLive, Leased
    <3>2. PICK final : Settle(t, final)
      BY <2>2, <3>1 DEF FinishTurn, Finish, DropRuns, DropSettles
    <3>3. u # t => worker'[u] = worker[u]
      BY <2>2 DEF FinishTurn, DropRuns
    <3>4. u # t => status'[u] = status[u] /\ lease'[u] = lease[u]
      BY <3>2 DEF Settle
    <3>5. u # t => Stage(u)' = Stage(u)
      BY <3>3, <3>4
    <3> QED
      BY <2>2, <3>5, <1>4, <1>2
  <2>3. CASE Progress(t)
    BY <2>3 DEF Progress, Emit
  <2>4. CASE ReturnsOk(t) \/ ReturnsErr(t)
    BY <2>4 DEF ReturnsOk, ReturnsErr, coreVars
  <2>5. CASE WorkerFails(t)
    <3>1. u # t => Stage(u)' = Stage(u)
      BY <2>5 DEF WorkerFails, LeaseFails, DropLease
    <3>2. lease[t] = "held" /\ Stage(t)' = 6
      BY <2>5 DEF WorkerFails, LeaseFails, DropLease
    <3>3. Stage(t) \in 1 .. 5
      BY <3>2
    <3> QED
      BY <3>1, <3>2, <3>3, <1>2
  <2>6. CASE DropWriteFails(t)
    BY <2>6 DEF DropWriteFails, DropFails
  <2> QED
    BY <1>7, <2>1, <2>2, <2>3, <2>4, <2>5, <2>6 DEF WorkerStep, OwedStep
<1>8. ASSUME NEW u \in Turns, UNCHANGED productVars
      PROVE  Stage(u)' >= Stage(u)
  BY <1>8 DEF productVars, coreVars
<1> QED
  BY <1>5, <1>6, <1>7, <1>8 DEF HostNext, Onward

(* No turn ever goes back, and each step that the scheduler owes to a worker *)
(* takes its turn further: after at most seven of them the turn is settled,  *)
(* whatever crashes, fails or is cancelled meanwhile.                        *)
THEOREM TurnsGoOnward == HostSpec => [][Onward]_productVars
<1>1. HostTypeOK /\ HostInv /\ StagesFit' /\ [HostNext]_productVars => Onward
  BY HostOnward
<1> QED
  BY <1>1, StageRange, HostInvariant, PTL DEF HostSpec
=============================================================================
