----------------------------- MODULE ProductHost -----------------------------
(***************************************************************************)
(* The Rust host around RuntimeCore: workbench/src/product/api.rs opens    *)
(* the state directory and serves start and cancel, and                    *)
(* workbench/src/product/agent.rs runs one worker task per turn.           *)
(*                                                                         *)
(* A host is a process with its own RuntimeCore.  Only the holder of the   *)
(* exclusive lock on runtime-owner.lock recovers and serves; the operating *)
(* system releases the lock when the process ends.  What a worker's        *)
(* operation computes is left out: it emits events and at some point       *)
(* returns Ok or Err, possibly because it saw its token cancelled.         *)
(***************************************************************************)
EXTENDS RuntimeCore

VARIABLES
    host,      \* ProductState of each process: "down", "opened", "serving"
    owner,     \* who holds runtime-owner.lock
    worker,    \* program counter of agent::run for each turn
    wanted     \* the status that agent::run chose, before it finishes

hostVars    == <<host, owner>>
workerVars  == <<worker, wanted>>
productVars == <<coreVars, hostVars, workerVars>>

WorkerState == {"none", "starting", "executing", "reaping", "reporting", "settling"}

HostTypeOK ==
    /\ TypeOK
    /\ host   \in [Runtimes -> {"down", "opened", "serving"}]
    /\ owner  \in Runtimes \cup {None}
    /\ worker \in [Turns -> WorkerState]
    /\ wanted \in [Turns -> {"none", "completed", "cancelled", "failed"}]

HostInit ==
    /\ Init
    /\ host   = [h \in Runtimes |-> "down"]
    /\ owner  = None
    /\ worker = [t \in Turns |-> "none"]
    /\ wanted = [t \in Turns |-> "none"]

Goes(t, from, to) ==
    /\ worker[t] = from
    /\ worker' = [worker EXCEPT ![t] = to]

-----------------------------------------------------------------------------
\* Mutant: the owner lock is not exclusive.
OpenHostShared(h) ==
    /\ host[h] = "down"
    /\ host' = [host EXCEPT ![h] = "opened"]
    /\ owner' = h
    /\ UNCHANGED <<coreVars, workerVars>>

(* open_with_auth: take the lock or fail, then recover once, then serve. *)
OpenHost(h) ==
    /\ host[h] = "down"
    /\ owner = None
    /\ host' = [host EXCEPT ![h] = "opened"]
    /\ owner' = h
    /\ UNCHANGED <<coreVars, workerVars>>

\* Mutant: a host serves without having recovered.
ServeUnrecovered(h) ==
    /\ host[h] = "opened"
    /\ host' = [host EXCEPT ![h] = "serving"]
    /\ UNCHANGED <<coreVars, owner, workerVars>>

RecoverOnOpen(h) ==
    /\ host[h] = "opened"
    /\ RecoverInterrupted(h)
    /\ host' = [host EXCEPT ![h] = "serving"]
    /\ UNCHANGED <<owner, workerVars>>

(* The process ends: it crashes, or a step of open_with_auth returned Err.   *)
HostStops(h) ==
    /\ host[h] # "down"
    /\ worker' = [t \in Turns |-> IF holder[t] = h THEN "none" ELSE worker[t]]
    /\ Crash(h)
    /\ host' = [host EXCEPT ![h] = "down"]
    /\ owner' = IF owner = h THEN None ELSE owner
    /\ UNCHANGED wanted

\* Mutant: turns are accepted before the recovery.
StartTurnEarly(h, s, t) ==
    /\ host[h] # "down"
    /\ BeginTurn(h, s, t)
    /\ Goes(t, "none", "starting")
    /\ UNCHANGED <<hostVars, wanted>>

(* start: a busy session is answered 409; otherwise the lease is taken. *)
StartTurn(h, s, t) ==
    /\ host[h] = "serving"
    /\ BeginTurn(h, s, t)
    /\ Goes(t, "none", "starting")
    /\ UNCHANGED <<hostVars, wanted>>

RequestCancel(h, t) ==
    /\ host[h] = "serving"
    /\ CancelTurn(h, t)
    /\ UNCHANGED <<hostVars, workerVars>>

-----------------------------------------------------------------------------
(* start emits "authorization" and spawns agent::run with the lease. *)
Authorize(t) ==
    /\ Emit(t)
    /\ Goes(t, "starting", "executing")
    /\ UNCHANGED <<hostVars, wanted>>

(* The operation emits; the bound leaves room for the events that follow. *)
Progress(t) ==
    /\ worker[t] \in {"executing", "reaping"}
    /\ Len(log[t]) + 2 < MaxEvents
    /\ Emit(t)
    /\ UNCHANGED <<hostVars, workerVars>>

(* The operation returns before the timer: run reads the token to choose the *)
(* status it will ask for.  An Err is reported in the log before it settles. *)
ReturnsOk(t) ==
    /\ Goes(t, "executing", "settling")
    /\ wanted' = [wanted EXCEPT ![t] = IF token[t] THEN "cancelled" ELSE "completed"]
    /\ UNCHANGED <<coreVars, hostVars>>

ReturnsErr(t) ==
    /\ Goes(t, "executing", "reporting")
    /\ wanted' = [wanted EXCEPT ![t] = IF token[t] THEN "cancelled" ELSE "failed"]
    /\ UNCHANGED <<coreVars, hostVars>>

\* Mutant: the timer only asks the operation to stop.
TimerOnlyAsks(t) ==
    /\ worker[t] = "executing"
    /\ ~token[t]
    /\ CancelToken(t)
    /\ UNCHANGED <<hostVars, workerVars>>

(* The 300 s timer wins the select: it cancels the token, not the row, and   *)
(* run then waits for the operation before it goes on with its own Err.      *)
TimerFires(t) ==
    /\ CancelToken(t)
    /\ Goes(t, "executing", "reaping")
    /\ UNCHANGED <<hostVars, wanted>>

Reaped(t) ==
    /\ Goes(t, "reaping", "reporting")
    /\ wanted' = [wanted EXCEPT ![t] = IF token[t] THEN "cancelled" ELSE "failed"]
    /\ UNCHANGED <<coreVars, hostVars>>

(* The "error" event; whether it could be written is ignored. *)
ReportError(t) ==
    /\ Goes(t, "reporting", "settling")
    /\ Emit(t) \/ UNCHANGED coreVars
    /\ UNCHANGED <<hostVars, wanted>>

(* finish_resolving_cancel commits. *)
FinishTurn(t) ==
    /\ Finish(t, wanted[t], TRUE)
    /\ Goes(t, "settling", "none")
    /\ UNCHANGED <<hostVars, wanted>>

(* The authorization or the finishing write fails, or the task panics: the   *)
(* lease is dropped unfinished.                                              *)
WorkerFails(t) ==
    /\ worker[t] # "none"
    /\ LeaseFails(t)
    /\ worker' = [worker EXCEPT ![t] = "none"]
    /\ UNCHANGED <<hostVars, wanted>>

DropRuns(t) ==
    /\ DropSettles(t)
    /\ UNCHANGED <<hostVars, workerVars>>

DropWriteFails(t) ==
    /\ DropFails(t)
    /\ UNCHANGED <<hostVars, workerVars>>

-----------------------------------------------------------------------------
HostStep(h) ==
    \/ OpenHost(h)
    \/ RecoverOnOpen(h)
    \/ HostStops(h)
    \/ \E s \in Sessions, t \in Turns : StartTurn(h, s, t)
    \/ \E t \in Turns : RequestCancel(h, t)

(* The steps that the scheduler owes to a worker.  A step of the operation   *)
(* itself is not among them: only the timer bounds it.                       *)
OwedStep(t) ==
    \/ Authorize(t)
    \/ TimerFires(t)
    \/ Reaped(t)
    \/ ReportError(t)
    \/ FinishTurn(t)
    \/ DropRuns(t)

WorkerStep(t) ==
    \/ OwedStep(t)
    \/ Progress(t)
    \/ ReturnsOk(t)
    \/ ReturnsErr(t)
    \/ WorkerFails(t)
    \/ DropWriteFails(t)

HostNext ==
    \/ \E h \in Runtimes : HostStep(h)
    \/ \E t \in Turns : WorkerStep(t)

HostSpec == HostInit /\ [][HostNext]_productVars

FairHostSpec ==
    /\ HostSpec
    /\ \A t \in Turns : WF_productVars(OwedStep(t))

-----------------------------------------------------------------------------
Leased(t) == lease[t] # "none"

(* The owner lock, the recovery on opening and the per-session index keep    *)
(* the workers of one session apart: two leases of one session never live    *)
(* at once, in one process or in two, through crashes and restarts.          *)
OneWorkerPerSession ==
    \A t, u \in Turns :
        t # u /\ Leased(t) /\ Leased(u) => sessionOf[t] # sessionOf[u]

(* While a host serves, an active turn has a lease that will settle it; it   *)
(* takes two failures on one turn (the worker's and then Drop's own write)   *)
(* to leave a session busy with nobody working on it.                        *)
Serving == \E h \in Runtimes : host[h] = "serving"

OneFailureNeverStrands ==
    Serving => \A t \in Turns : Active(t) => Leased(t) \/ failures[t] >= 2

(* A cancel request that was answered Ok has reached the worker's token.     *)
CancelReachesWorker ==
    \A t \in Turns : status[t] = "cancelling" /\ Leased(t) => token[t]

(* The inductive strengthening of the three invariants above: the owner lock *)
(* makes the serving host unique, a lease lives in a serving host, belongs   *)
(* to an active turn whose token is registered there, and a lease that is    *)
(* being dropped has met its first failure.                                  *)
OwnerIsUp == \A h \in Runtimes : host[h] # "down" => owner = h

LeaseIsLive(t) ==
    /\ worker[t] # "none" <=> lease[t] = "held"
    /\ wanted[t] = "none" => worker[t] \notin {"reporting", "settling"}
    /\ Leased(t) =>
          /\ Active(t)
          /\ holder[t] \in Runtimes
          /\ host[holder[t]] = "serving"
          /\ t \in registry[holder[t]]
    /\ lease[t] = "dropping" => failures[t] >= 1

HostInv ==
    /\ OwnerIsUp
    /\ \A t \in Turns : LeaseIsLive(t)
    /\ OneFailureNeverStrands
    /\ CancelReachesWorker

(* A turn that a worker holds is settled by that worker only: no recovery    *)
(* and no other host takes it from under it.                                 *)
SettledByItsWorker ==
    [][\A t \in Turns :
          Active(t) /\ Leased(t) /\ Terminal(t)' => lease'[t] = "none"]_productVars

(* Every turn settles while a host stays up, even if its operation never     *)
(* returns by itself, unless two failures hit it.                            *)
TurnsSettle ==
    \A t \in Turns : []<>(Active(t) => ~Serving \/ failures[t] >= 2)
=============================================================================
