------------------------------ MODULE BudgetTree ------------------------------
(***************************************************************************)
(* The token and call budget shared by the tasks of one turn               *)
(* (workbench/src/runtime_core/budget.rs).  A model request reserves its   *)
(* estimate before it is sent and settles what it really used; the main    *)
(* task and its delegated children draw on the same tree concurrently.     *)
(* Every operation holds the tree's mutex for one action here.             *)
(*                                                                         *)
(* Abstractions.  Input and output tokens only ever occur as their sum.  A *)
(* slot stands for a live BudgetReservation; ids are never reused in the   *)
(* code, so a freed slot is a new id.  Sums stay below 2^64 (checked_add   *)
(* and saturating_add never saturate at these sizes).  A usage whose own   *)
(* sum overflows is rejected like one that reports too few calls.          *)
(***************************************************************************)
EXTENDS Integers, FiniteSets, Functions

CONSTANTS
    Tasks,            \* task identifiers
    Root,             \* the root task
    Slots,            \* reservations that can be alive at once
    TotalTokens,      \* limits.total_tokens
    TaskTokens,       \* limits.task_tokens
    MaxModelCalls,    \* limits.max_model_calls
    MaxTasks,         \* limits.max_tasks, the root included
    MaxDepth,         \* limits.max_depth
    Estimates,        \* token totals that callers reserve
    Usages,           \* token totals that providers report
    CallCounts,       \* model calls that a usage reports
    MaxSettlements    \* bound: requests are sent while fewer have settled

ASSUME BudgetAssumption ==
    /\ Root \in Tasks /\ IsFiniteSet(Slots)
    /\ TotalTokens \in Nat \ {0} /\ TaskTokens \in 1 .. TotalTokens
    /\ MaxModelCalls \in Nat /\ MaxTasks \in Nat \ {0} /\ MaxDepth \in Nat
    /\ Estimates \subseteq Nat /\ Usages \subseteq Nat /\ CallCounts \subseteq Nat
    /\ MaxSettlements \in Nat

VARIABLES
    depth,         \* tasks: depth of a registered task, -1 before
    taskSpent,     \* tasks: tokens spent by each task
    spent,         \* State.spent
    calls,         \* State.calls
    settlements,   \* length of State.settlements
    reserved,      \* State.reservations, by slot
    handle,        \* the BudgetReservation value: "none", "live", "dropping"
    expired        \* the deadline of the tree has passed

budgetVars == <<depth, taskSpent, spent, calls, settlements, reserved, handle, expired>>

Allocation == [task : Tasks, tokens : Estimates, calls : {1}, started : BOOLEAN]
Free       == [task |-> Root, tokens |-> 0, calls |-> 0, started |-> FALSE]

Known(k)      == depth[k] >= 0
Tokens        == [i \in Slots |-> reserved[i].tokens]
Held(S)       == SumFunctionOnSet(Tokens, S)
HeldCalls     == SumFunctionOnSet([i \in Slots |-> reserved[i].calls], Slots)
HeldBy(k)     == Held({i \in Slots : reserved[i].task = k})
Monus(a, b)   == IF a >= b THEN a - b ELSE 0

(* A reservation is in the tree exactly as long as its BudgetReservation     *)
(* value lives: budget cannot leak through a failed, cancelled or rejected   *)
(* request.                                                                  *)
Owned == \A i \in Slots : handle[i] = "none" <=> reserved[i] = Free

(* Types, with the pairing of the tree's entries and their owners.           *)
TypeOK ==
    /\ depth       \in [Tasks -> -1 .. MaxDepth]
    /\ taskSpent   \in [Tasks -> Nat]
    /\ spent       \in Nat
    /\ calls       \in Nat
    /\ settlements \in Nat
    /\ reserved    \in [Slots -> Allocation \cup {Free}]
    /\ handle      \in [Slots -> {"none", "live", "dropping"}]
    /\ expired     \in BOOLEAN
    /\ Owned

Init ==
    /\ depth       = [k \in Tasks |-> IF k = Root THEN 0 ELSE -1]
    /\ taskSpent   = [k \in Tasks |-> 0]
    /\ spent       = 0
    /\ calls       = 0
    /\ settlements = 0
    /\ reserved    = [i \in Slots |-> Free]
    /\ handle      = [i \in Slots |-> "none"]
    /\ expired     = FALSE

-----------------------------------------------------------------------------
RegisterTask(parent, child) ==
    /\ ~expired
    /\ ~Known(child)
    /\ Known(parent)
    /\ depth[parent] + 1 <= MaxDepth
    /\ Cardinality({k \in Tasks : Known(k)}) < MaxTasks
    /\ depth' = [depth EXCEPT ![child] = depth[parent] + 1]
    /\ UNCHANGED <<taskSpent, spent, calls, settlements, reserved, handle, expired>>

\* Mutant: what others have reserved is not subtracted.
FitsUnreserved(k, n) ==
    /\ spent + n <= TotalTokens
    /\ taskSpent[k] + n <= TaskTokens
    /\ calls + HeldCalls + 1 <= MaxModelCalls

(* The check of reserve.  The subtractions saturate at zero, so an overdrawn *)
(* tree or task is refused by clauses of its own.                            *)
Fits(k, n) ==
    /\ n <= Monus(Monus(TotalTokens, spent), Held(Slots))
    /\ spent <= TotalTokens
    /\ n <= Monus(Monus(TaskTokens, taskSpent[k]), HeldBy(k))
    /\ taskSpent[k] <= TaskTokens
    /\ calls + HeldCalls + 1 <= MaxModelCalls

Reserve(i, k, n) ==
    /\ handle[i] = "none"
    /\ settlements < MaxSettlements
    /\ ~expired
    /\ Known(k)
    /\ Fits(k, n)
    /\ reserved' = [reserved EXCEPT ![i] =
                      [task |-> k, tokens |-> n, calls |-> 1, started |-> FALSE]]
    /\ handle' = [handle EXCEPT ![i] = "live"]
    /\ UNCHANGED <<depth, taskSpent, spent, calls, settlements, expired>>

Start(i) ==
    /\ handle[i] = "live"
    /\ ~expired
    /\ ~reserved[i].started
    /\ reserved' = [reserved EXCEPT ![i].started = TRUE]
    /\ UNCHANGED <<depth, taskSpent, spent, calls, settlements, handle, expired>>

-----------------------------------------------------------------------------
(* The accounting part of settle_inner: the reservation leaves and n tokens  *)
(* and c calls are booked, even when that exceeds a limit.                   *)
Book(i, n, c) ==
    /\ spent' = spent + n
    /\ calls' = calls + c
    /\ taskSpent' = [taskSpent EXCEPT ![reserved[i].task] = @ + n]
    /\ settlements' = settlements + 1
    /\ reserved' = [reserved EXCEPT ![i] = Free]
    /\ handle' = [handle EXCEPT ![i] = "none"]

Refund(i) ==
    /\ reserved' = [reserved EXCEPT ![i] = Free]
    /\ handle' = [handle EXCEPT ![i] = "none"]
    /\ UNCHANGED <<taskSpent, spent, calls, settlements>>

\* Mutant: after an Err nobody cleans the reservation up.
Forget(i) ==
    /\ handle' = [handle EXCEPT ![i] = "none"]
    /\ UNCHANGED <<taskSpent, spent, calls, settlements, reserved>>

(* An Err from settle or release leaves the reservation to its Drop. *)
LeaveToDrop(i) ==
    /\ handle' = [handle EXCEPT ![i] = "dropping"]
    /\ UNCHANGED <<taskSpent, spent, calls, settlements, reserved>>

Settle(i, n, c) ==
    /\ handle[i] = "live"
    /\ IF reserved[i].started /\ c >= reserved[i].calls
       THEN Book(i, n, c)
       ELSE LeaveToDrop(i)
    /\ UNCHANGED <<depth, expired>>

Release(i) ==
    /\ handle[i] = "live"
    /\ IF reserved[i].started THEN LeaveToDrop(i) ELSE Refund(i)
    /\ UNCHANGED <<depth, expired>>

\* Mutant: Drop refunds what was dispatched.
DropRefunds(i) ==
    /\ handle[i] # "none"
    /\ Refund(i)
    /\ UNCHANGED <<depth, expired>>

(* Drop of an unfinished reservation: after an Err, or because the request   *)
(* future was cancelled or failed.  What was dispatched is charged in full.  *)
Drop(i) ==
    /\ handle[i] # "none"
    /\ IF reserved[i].started
       THEN Book(i, reserved[i].tokens, reserved[i].calls)
       ELSE Refund(i)
    /\ UNCHANGED <<depth, expired>>

Expire ==
    /\ ~expired
    /\ expired' = TRUE
    /\ UNCHANGED <<depth, taskSpent, spent, calls, settlements, reserved, handle>>

SlotStep(i) ==
    \/ \E k \in Tasks, n \in Estimates : Reserve(i, k, n)
    \/ Start(i)
    \/ \E n \in Usages, c \in CallCounts : Settle(i, n, c)
    \/ Release(i)
    \/ Drop(i)

Next ==
    \/ \E parent, child \in Tasks : RegisterTask(parent, child)
    \/ \E i \in Slots : SlotStep(i)
    \/ Expire

Spec == Init /\ [][Next]_budgetVars

-----------------------------------------------------------------------------
Committed      == spent + Held(Slots)
CommittedBy(k) == taskSpent[k] + HeldBy(k)
CommittedCalls == calls + HeldCalls

Settles(i) == reserved[i].started /\ reserved'[i] = Free
Overran(i) == Settles(i) /\ spent' - spent > reserved[i].tokens
Overcalled(i) == Settles(i) /\ calls' - calls > reserved[i].calls

TokensKept ==
    /\ Committed' > TotalTokens /\ Committed' > Committed => \E i \in Slots : Overran(i)
    /\ \A k \in Tasks :
         CommittedBy(k)' > TaskTokens /\ CommittedBy(k)' > CommittedBy(k)
           => \E i \in Slots : reserved[i].task = k /\ Overran(i)

CallsKept ==
    CommittedCalls' > MaxModelCalls /\ CommittedCalls' > CommittedCalls
      => \E i \in Slots : Overcalled(i)

NothingFitsOverdrawn ==
    \A i \in Slots :
       reserved[i] = Free /\ reserved'[i] # Free
         => spent <= TotalTokens /\ taskSpent[reserved'[i].task] <= TaskTokens

(* Concurrent tasks cannot commit more tokens or calls than the tree or      *)
(* their own share holds: a commitment passes a limit only in the settlement *)
(* of a request that used more than it had reserved, and after such an       *)
(* overrun nothing more is reserved, not even the empty request that the     *)
(* saturating subtraction would let pass.                                    *)
LimitsHold == [][TokensKept /\ CallsKept /\ NothingFitsOverdrawn]_budgetVars

(* A dispatched request is never free: however its reservation ends (usage   *)
(* settled, usage rejected, release refused, future dropped) its calls stay  *)
(* charged, and its whole estimate unless a usage was accepted.              *)
DispatchIsCharged ==
    [][\A i \in Slots :
          Settles(i)
            => /\ calls' >= calls + reserved[i].calls
               /\ handle[i] = "dropping" => spent' = spent + reserved[i].tokens]_budgetVars
=============================================================================
