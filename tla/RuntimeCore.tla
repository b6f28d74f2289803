----------------------------- MODULE RuntimeCore -----------------------------
(***************************************************************************)
(* The persistence core of the Rust workbench                              *)
(* (workbench/src/runtime_core/persistence.rs): turns and their event log  *)
(* in SQLite, the in-memory registry of cancellation tokens, and the       *)
(* TurnLease that the worker of a turn holds.                              *)
(*                                                                         *)
(* Several RuntimeCore instances may be opened on one database file; each  *)
(* has a registry of its own.  Every operation runs under the connection's *)
(* mutex and in one IMMEDIATE transaction, and takes the registry lock     *)
(* after the database lock, so an operation is one action here.            *)
(*                                                                         *)
(* Abstractions.  A session stands for a (workspace, session) pair.  The   *)
(* `last_seq' counter and the rows of runtime_events change in the same    *)
(* transaction, so the log of a turn is a sequence and last_seq its        *)
(* length.  Every event name that a worker emits is "progress".  The       *)
(* exhaustion of last_seq at 2^63-1 is not modelled.                       *)
(***************************************************************************)
EXTENDS Naturals, Sequences

CONSTANTS
    Sessions,     \* (workspace, session) pairs
    Turns,        \* fresh turn identifiers (uuid)
    Runtimes,     \* opened RuntimeCore instances
    None,         \* no session, no runtime
    MaxEvents,    \* bound: a worker stops emitting when the log is this long
    MaxFailures   \* bound: failures that may hit one turn

ASSUME CoreAssumption ==
    /\ None \notin Sessions
    /\ None \notin Turns
    /\ None \notin Runtimes
    /\ MaxEvents \in Nat
    /\ MaxFailures \in Nat

VARIABLES
    status,       \* runtime_turns.status, "absent" before the row exists
    sessionOf,    \* runtime_turns.(workspace_id, session_id)
    log,          \* runtime_events of a turn, in order of seq
    lease,        \* the TurnLease: "none", "held", or "dropping" (in Drop)
    holder,       \* the runtime the lease was taken from
    token,        \* the flag of the lease's CancellationToken
    registry,     \* Inner.cancellations: the turns with a registered token
    failures      \* failures so far (failed writes, panics), for the bound

dbVars   == <<status, sessionOf, log>>
memVars  == <<lease, holder, token, registry>>
coreVars == <<status, sessionOf, log, lease, holder, token, registry, failures>>

-----------------------------------------------------------------------------
ActiveStatus   == {"running", "cancelling"}
TerminalStatus == {"completed", "failed", "cancelled", "interrupted"}
Event          == TerminalStatus \cup {"started", "cancelling", "progress"}

Active(t)   == status[t] \in ActiveStatus
Terminal(t) == status[t] \in TerminalStatus

\* Turns whose row says that the session is occupied (the partial unique index).
Occupants(s) == {t \in Turns : sessionOf[t] = s /\ Active(t)}

TypeOK ==
    /\ status    \in [Turns -> ActiveStatus \cup TerminalStatus \cup {"absent"}]
    /\ sessionOf \in [Turns -> Sessions \cup {None}]
    /\ log       \in [Turns -> Seq(Event)]
    /\ lease     \in [Turns -> {"none", "held", "dropping"}]
    /\ holder    \in [Turns -> Runtimes \cup {None}]
    /\ token     \in [Turns -> BOOLEAN]
    /\ registry  \in [Runtimes -> SUBSET Turns]
    /\ failures  \in [Turns -> Nat]

Init ==
    /\ status    = [t \in Turns |-> "absent"]
    /\ sessionOf = [t \in Turns |-> None]
    /\ log       = [t \in Turns |-> << >>]
    /\ lease     = [t \in Turns |-> "none"]
    /\ holder    = [t \in Turns |-> None]
    /\ token     = [t \in Turns |-> FALSE]
    /\ registry  = [r \in Runtimes |-> {}]
    /\ failures  = [t \in Turns |-> 0]

-----------------------------------------------------------------------------
(* begin_turn: refused with SessionBusy when a row of the session is active. *)
BeginTurn(r, s, t) ==
    /\ status[t] = "absent"
    /\ Occupants(s) = {}
    /\ status'    = [status EXCEPT ![t] = "running"]
    /\ sessionOf' = [sessionOf EXCEPT ![t] = s]
    /\ log'       = [log EXCEPT ![t] = Append(@, "started")]
    /\ lease'     = [lease EXCEPT ![t] = "held"]
    /\ holder'    = [holder EXCEPT ![t] = r]
    /\ registry'  = [registry EXCEPT ![r] = @ \cup {t}]
    /\ UNCHANGED <<token, failures>>

\* Mutant: only the row is marked, the registered token is not cancelled.
CancelRowOnly(r, t) ==
    /\ status[t] = "running"
    /\ status' = [status EXCEPT ![t] = "cancelling"]
    /\ log'    = [log EXCEPT ![t] = Append(@, "cancelling")]
    /\ UNCHANGED <<sessionOf, memVars, failures>>

(* cancel_turn: a terminal turn answers Ok(false) and nothing changes.  The  *)
(* token is reached only through the registry of the instance asked.         *)
CancelTurn(r, t) ==
    /\ Active(t)
    /\ status' = [status EXCEPT ![t] = "cancelling"]
    /\ log'    = IF status[t] = "cancelling" THEN log
                 ELSE [log EXCEPT ![t] = Append(@, "cancelling")]
    /\ token'  = [token EXCEPT ![t] = @ \/ t \in registry[r]]
    /\ UNCHANGED <<sessionOf, lease, holder, registry, failures>>

\* Mutant: emit does not look whether the turn is still active.
EmitUnchecked(t) ==
    /\ lease[t] = "held"
    /\ Len(log[t]) < MaxEvents
    /\ log' = [log EXCEPT ![t] = Append(@, "progress")]
    /\ UNCHANGED <<status, sessionOf, memVars, failures>>

(* TurnLease::emit: refused on a terminal turn. *)
Emit(t) ==
    /\ lease[t] = "held"
    /\ Active(t)
    /\ Len(log[t]) < MaxEvents
    /\ log' = [log EXCEPT ![t] = Append(@, "progress")]
    /\ UNCHANGED <<status, sessionOf, memVars, failures>>

(* TurnLease::check_cancelled: the token is read first, then the row. *)
CheckCancelled(t) ==
    /\ lease[t] = "held"
    /\ ~token[t]
    /\ status[t] # "running"
    /\ token' = [token EXCEPT ![t] = TRUE]
    /\ UNCHANGED <<dbVars, lease, holder, registry, failures>>

(* A clone of the lease's token is cancelled by its worker. *)
CancelToken(t) ==
    /\ lease[t] = "held"
    /\ token' = [token EXCEPT ![t] = TRUE]
    /\ UNCHANGED <<dbVars, lease, holder, registry, failures>>

-----------------------------------------------------------------------------
(* What finish_transition makes of a wanted status; "refused" is its Err.    *)
CancelSeen(t) == status[t] = "cancelling" \/ token[t]

\* Mutant: the wanted status is taken as it is.
ResolvedAsWanted(t, wanted, resolveCancel) == IF Terminal(t) THEN "refused" ELSE wanted

Resolved(t, wanted, resolveCancel) ==
    IF Terminal(t) THEN "refused"
    ELSE IF wanted = "completed" /\ CancelSeen(t)
    THEN IF resolveCancel THEN "cancelled" ELSE "refused"
    ELSE wanted

(* The transaction that settles turn t, and the registry entry it removes. *)
Settle(t, final) ==
    /\ status'   = [status EXCEPT ![t] = final]
    /\ log'      = [log EXCEPT ![t] = Append(@, final)]
    /\ registry' = [registry EXCEPT ![holder[t]] = @ \ {t}]
    /\ lease'    = [lease EXCEPT ![t] = "none"]
    /\ UNCHANGED <<sessionOf, holder>>

\* Mutant: the refusal is written instead of returned.
FinishUnrefused(t, wanted, resolveCancel) ==
    /\ lease[t] = "held"
    /\ Active(t)
    /\ Settle(t, Resolved(t, wanted, resolveCancel))
    /\ UNCHANGED <<token, failures>>

(* finish and finish_resolving_cancel, when the transaction commits. *)
Finish(t, wanted, resolveCancel) ==
    /\ lease[t] = "held"
    /\ Active(t)
    /\ Resolved(t, wanted, resolveCancel) # "refused"
    /\ Settle(t, Resolved(t, wanted, resolveCancel))
    /\ UNCHANGED <<token, failures>>

(* The lease dies unfinished: Drop first cancels the token. *)
DropLease(t) ==
    /\ lease[t] = "held"
    /\ lease' = [lease EXCEPT ![t] = "dropping"]
    /\ token' = [token EXCEPT ![t] = TRUE]
    /\ UNCHANGED <<dbVars, holder, registry>>

(* Both finish calls consume the lease, so an Err from them drops it. *)
FinishRefused(t, wanted, resolveCancel) ==
    /\ lease[t] = "held"
    /\ Resolved(t, wanted, resolveCancel) = "refused"
    /\ DropLease(t)
    /\ UNCHANGED failures

(* A write that fails, or a panic, while the lease is held. *)
LeaseFails(t) ==
    /\ failures[t] < MaxFailures
    /\ failures' = [failures EXCEPT ![t] = @ + 1]
    /\ DropLease(t)

(* Drop then tries finish(Interrupted) and ignores its error: a turn that is *)
(* already terminal stays as it is, and a failed write leaves it active.     *)
DropSettles(t) ==
    /\ lease[t] = "dropping"
    /\ IF Active(t)
       THEN Settle(t, "interrupted")
       ELSE /\ lease' = [lease EXCEPT ![t] = "none"]
            /\ UNCHANGED <<dbVars, holder, registry>>
    /\ UNCHANGED <<token, failures>>

DropFails(t) ==
    /\ lease[t] = "dropping"
    /\ failures[t] < MaxFailures
    /\ failures' = [failures EXCEPT ![t] = @ + 1]
    /\ lease' = [lease EXCEPT ![t] = "none"]
    /\ UNCHANGED <<dbVars, holder, token, registry>>

-----------------------------------------------------------------------------
(* recover_interrupted: every active row of the database is settled, whoever *)
(* holds its lease; only this instance's tokens are found and cancelled.     *)
RecoverInterrupted(r) ==
    LET found == {t \in Turns : Active(t)} IN
    /\ status'   = [t \in Turns |-> IF t \in found THEN "interrupted" ELSE status[t]]
    /\ log'      = [t \in Turns |-> IF t \in found THEN Append(log[t], "interrupted")
                                                   ELSE log[t]]
    /\ token'    = [t \in Turns |-> token[t] \/ (t \in found /\ t \in registry[r])]
    /\ registry' = [registry EXCEPT ![r] = @ \ found]
    /\ UNCHANGED <<sessionOf, lease, holder, failures>>

(* The process of instance r dies: its leases, tokens and registry go with   *)
(* it and no Drop runs.  The committed rows stay.                            *)
Crash(r) ==
    /\ lease'    = [t \in Turns |-> IF holder[t] = r THEN "none" ELSE lease[t]]
    /\ holder'   = [t \in Turns |-> IF holder[t] = r THEN None ELSE holder[t]]
    /\ token'    = [t \in Turns |-> token[t] /\ holder[t] # r]
    /\ registry' = [registry EXCEPT ![r] = {}]
    /\ UNCHANGED <<dbVars, failures>>

-----------------------------------------------------------------------------
LeaseStep(t) ==
    \/ Emit(t)
    \/ CheckCancelled(t)
    \/ CancelToken(t)
    \/ \E wanted \in TerminalStatus, resolveCancel \in BOOLEAN :
          \/ Finish(t, wanted, resolveCancel)
          \/ FinishRefused(t, wanted, resolveCancel)
    \/ LeaseFails(t)
    \/ DropSettles(t)
    \/ DropFails(t)

RuntimeStep(r) ==
    \/ \E s \in Sessions, t \in Turns : BeginTurn(r, s, t)
    \/ \E t \in Turns : CancelTurn(r, t)
    \/ RecoverInterrupted(r)
    \/ Crash(r)

Next ==
    \/ \E t \in Turns : LeaseStep(t)
    \/ \E r \in Runtimes : RuntimeStep(r)

Spec == Init /\ [][Next]_coreVars

-----------------------------------------------------------------------------
(* At most one turn of a session is running or cancelling, whatever number   *)
(* of runtime instances is open on the database (begin_turn's check and the  *)
(* partial unique index).                                                    *)
OneActiveTurn ==
    \A t, u \in Turns :
        t # u /\ Active(t) /\ Active(u) => sessionOf[t] # sessionOf[u]

(* A consumer that reads the event log sees a whole story: it opens with     *)
(* turn.started, a terminal turn.* event is there exactly when the row is    *)
(* terminal, names that status, is the last event and is the only one.       *)
StartsOnce(t) ==
    \A i \in DOMAIN log[t] : log[t][i] = "started" <=> i = 1

EndsOnce(t) ==
    \A i \in DOMAIN log[t] :
        log[t][i] \in TerminalStatus => i = Len(log[t]) /\ log[t][i] = status[t]

LogTellsStatus ==
    \A t \in Turns :
        /\ StartsOnce(t)
        /\ EndsOnce(t)
        /\ status[t] # "absent" => log[t] # << >>
        /\ Terminal(t) => log[t][Len(log[t])] = status[t]

(* Once the cancellation of a turn is committed (turn.cancelling in its      *)
(* log), no worker can report the turn as completed, however the finishing   *)
(* transaction and the cancelling one are ordered.                           *)
Logged(t, e) == \E i \in DOMAIN log[t] : log[t][i] = e

CancelledNeverCompletes ==
    \A t \in Turns : Logged(t, "cancelling") => status[t] # "completed"

(* A terminal status is final and the event log of a turn only grows, even   *)
(* when several instances recover, cancel and finish the same turn.          *)
TurnIsFinal(t) ==
    /\ Terminal(t) => status'[t] = status[t] /\ log'[t] = log[t]
    /\ SubSeq(log'[t], 1, Len(log[t])) = log[t]

TerminalIsFinal == [][\A t \in Turns : TurnIsFinal(t)]_coreVars

(* A flagged token is enough, even when the row still says running: a turn   *)
(* whose token was cancelled (by a timer, a recovery, a cancel) before it    *)
(* settles is never settled as completed.                                    *)
FlaggedNeverCompletes ==
    [][\A t \in Turns : Active(t) /\ token[t] => status'[t] # "completed"]_coreVars

(* The core implements what TurnLifecycle promises: the active row is the    *)
(* turn a session serves, the logged cancellations are the stops asked.      *)
TheTurn(S) == CHOOSE t \in S : TRUE
CurrentTurn(s) == IF Occupants(s) = {} THEN None ELSE TheTurn(Occupants(s))

servedTurns == [s \in Sessions |-> CurrentTurn(s)]
stopsAsked  == {t \in Turns : Logged(t, "cancelling")}
outcomes    == [t \in Turns |-> IF Active(t) THEN "none" ELSE status[t]]

Lifecycle == INSTANCE TurnLifecycle WITH
    current <- servedTurns, stopping <- stopsAsked, outcome <- outcomes

ImplementsLifecycle == Lifecycle!Spec
=============================================================================
