---------------------------- MODULE PackingConfirm ----------------------------
(***************************************************************************)
(* The approval gate of one packing session (gateway/app.py): a plan that  *)
(* waits for a person is confirmed, revised or cancelled, and Team B packs *)
(* the shipment of a confirmed one.  Requests run on worker threads; the   *)
(* session lives twice, as an entry of _SESSIONS and as the copy that      *)
(* session_store keeps on disk, and only confirm and revise take its lock. *)
(*                                                                         *)
(* Abstractions.  A copy of the session is its phase and the number of its *)
(* plan; done stands for need_revision too.  The run_id alias is resolved  *)
(* to the session before anything is locked or read.  The saves Team B     *)
(* makes in a row leave one copy and are one step.  A save that fails is a *)
(* fault; a restart sweeps the disk before serving.                        *)
(***************************************************************************)
EXTENDS Naturals, FiniteSets

CONSTANTS
    Packers,       \* requests that ask for Team B
    Others,        \* the other requests about the session
    Operations,    \* what they may ask for
    None,          \* no request, no copy
    MaxWaiters,    \* _CONFIRM_MAX_WAITERS
    MaxPlans,      \* bound: plans Team A makes
    MaxMishaps     \* bound: saves that fail, and restarts

Confirming == {"confirm", "checkpoint"}            \* the two ways into api_confirm
Packing    == Confirming \cup {"resume"}           \* the three doors to Team B
Unlocked   == {"cancel", "edit"}                   \* these never take the lock

Requests == Packers \cup Others
Asks(r)  == Operations \cap (IF r \in Packers THEN Packing ELSE Unlocked \cup {"revise"})

Plans  == 1 .. MaxPlans
Phases == {"await", "running", "done", "interrupted", "cancelled"}
Copy   == [phase : Phases, plan : Plans]

ASSUME ConfirmAssumption ==
    /\ Operations \subseteq Packing \cup Unlocked \cup {"revise"}
    /\ Packers \cap Others = {} /\ None \notin Requests \cup Copy
    /\ MaxWaiters \in Nat /\ MaxPlans \in Nat \ {0} /\ MaxMishaps \in Nat

VARIABLES
    ram,       \* _SESSIONS[session_id]
    disk,      \* the copy session_store saved
    holder,    \* who holds the session's confirm lock
    waiting,   \* the requests counted in _SessionLock.waiters
    pc,        \* where the thread of a request is
    op,        \* what the request asks for
    mine,      \* the copy the request read and is going to store
    seen,      \* the copy it loaded from disk and is going to write back
    outcome,   \* how the request is answered
    newest,    \* the newest plan of the session
    faults, crashes,
    \* history
    packed,    \* plan -> how many times Team B finished it
    cut,       \* <<plan, door>> of each Team B that a crash cut
    swept,     \* plans that the startup sweep marked interrupted
    cutShort,  \* requests whose Team B was running when a cancel landed
    cancelled, \* plans whose cancel was answered
    putBack    \* who wrote an older copy over a newer one

copies  == <<ram, disk>>
lock    == <<holder, waiting>>
locals  == <<op, mine, seen, outcome>>
budget  == <<newest, faults, crashes>>
history == <<packed, cut, swept, cutShort, cancelled, putBack>>
vars    == <<copies, lock, pc, locals, budget, history>>

TypeOK ==
    /\ ram \in Copy \cup {None} /\ disk \in Copy
    /\ holder \in Requests \cup {None} /\ waiting \in SUBSET Requests
    /\ pc \in [Requests -> {"idle", "filling", "door", "waiting", "locked",
                            "loading", "marking", "starting", "packing", "packed", "failed",
                            "storing", "saving", "echoing", "leaving", "over"}]
    /\ op \in [Requests -> Operations \cup {None}]
    /\ mine \in [Requests -> Copy \cup {None}] /\ seen \in [Requests -> Copy \cup {None}]
    /\ outcome \in [Requests -> {"none", "ok", "packed", "stopped", "failed", "refused"}]
    /\ newest \in Plans /\ faults \in 0 .. MaxMishaps /\ crashes \in 0 .. MaxMishaps
    /\ packed \in [Plans -> Nat] /\ cut \in SUBSET (Plans \X Operations)
    /\ swept \in SUBSET Plans /\ cancelled \in SUBSET Plans
    /\ cutShort \in SUBSET Requests
    /\ putBack \in SUBSET (Operations \cup {"load"})

-----------------------------------------------------------------------------
(* Team A has left a plan for approval; the gateway may just have restarted. *)
Init ==
    /\ disk = [phase |-> "await", plan |-> 1] /\ ram \in {disk, None}
    /\ holder = None /\ waiting = {}
    /\ pc = [r \in Requests |-> "idle"] /\ op = [r \in Requests |-> None]
    /\ mine = [r \in Requests |-> None] /\ seen = [r \in Requests |-> None]
    /\ outcome = [r \in Requests |-> "none"]
    /\ newest = 1 /\ faults = 0 /\ crashes = 0
    /\ packed = [p \in Plans |-> 0] /\ cut = {} /\ swept = {}
    /\ cutShort = {} /\ cancelled = {} /\ putBack = {}

Goes(r, from, to) == pc[r] = from /\ pc' = [pc EXCEPT ![r] = to]
Says(r, what)     == outcome' = [outcome EXCEPT ![r] = what]
Keeps(r, copy)    == mine' = [mine EXCEPT ![r] = copy]
Loads(r, copy)    == seen' = [seen EXCEPT ![r] = copy]
Moved(copy, phase) == [copy EXCEPT !.phase = phase]

(* A phase that is final, or further on, is behind nothing that precedes it. *)
Rank == [await |-> 0, running |-> 1, done |-> 2, interrupted |-> 2, cancelled |-> 3]
Behind(new, old) ==
    /\ old # None
    /\ \/ new.plan < old.plan
       \/ new.plan = old.plan /\ Rank[new.phase] < Rank[old.phase]

(* What the request overwrites when it stores its copy: an edit, anything    *)
(* but what it read; the others, something further on.  Only the session put *)
(* back to await_user_confirm because Team B failed is meant to go back.     *)
Overwrites(r, old) ==
    IF op[r] = "edit" THEN old # mine[r]
    ELSE Behind(mine[r], old) /\ ~(outcome[r] = "failed" /\ old.phase = "running")

Notes(who, overwrites) == putBack' = IF overwrites THEN putBack \cup {who} ELSE putBack

(* save_session: stored, or not, and then the disk keeps what it had.        *)
Save(copy) == disk' = copy /\ faults' = faults
Refused    == faults + crashes < MaxMishaps /\ faults' = faults + 1 /\ disk' = disk

-----------------------------------------------------------------------------
(* A request arrives.  _get_session reads the entry in memory, or else the   *)
(* copy on disk; the checkpoint door loads the disk whatever memory holds.   *)
Arrive(r, o) ==
    /\ op' = [op EXCEPT ![r] = o]
    /\ \/ /\ o # "checkpoint" /\ ram # None
          /\ Goes(r, "idle", "door")
          /\ UNCHANGED seen
       \/ /\ o = "checkpoint" \/ ram = None
          /\ Goes(r, "idle", "filling")
          /\ Loads(r, disk)
    /\ UNCHANGED <<copies, lock, mine, outcome, budget, history>>

Fill(r) ==
    /\ Goes(r, "filling", "door")
    /\ ram' = seen[r]
    /\ Loads(r, None)
    /\ Notes("load", ram \notin {None, seen[r]})
    /\ UNCHANGED <<disk, lock, op, mine, outcome, budget, packed, cut, swept, cutShort, cancelled>>

(* _acquire_confirm_turn: the failed try and the count of the waiters are    *)
(* one step.                                                                 *)
TakeLockUnlessResume(r) ==
    /\ Goes(r, "door", "locked")
    /\ op[r] \notin Unlocked /\ (op[r] # "resume" => holder = None)
    /\ holder' = r
    /\ UNCHANGED <<copies, waiting, locals, budget, history>>

TakeLock(r) ==
    /\ Goes(r, "door", "locked")
    /\ op[r] \notin Unlocked /\ holder = None
    /\ holder' = r
    /\ UNCHANGED <<copies, waiting, locals, budget, history>>

Queue(r) ==
    /\ Goes(r, "door", "waiting")
    /\ op[r] \notin Unlocked /\ holder # None
    /\ Cardinality(waiting) < MaxWaiters
    /\ waiting' = waiting \cup {r}
    /\ UNCHANGED <<copies, holder, locals, budget, history>>

TurnAway(r) ==
    /\ Goes(r, "door", "over")
    /\ op[r] \notin Unlocked /\ holder # None
    /\ Cardinality(waiting) >= MaxWaiters
    /\ Says(r, "refused")
    /\ UNCHANGED <<copies, lock, op, mine, seen, budget, history>>

TakeTurn(r) ==
    /\ Goes(r, "waiting", "locked")
    /\ holder = None
    /\ holder' = r /\ waiting' = waiting \ {r}
    /\ UNCHANGED <<copies, locals, budget, history>>

GiveUp(r) ==                                             \* _CONFIRM_WAIT_S went by
    /\ Goes(r, "waiting", "over")
    /\ Says(r, "refused")
    /\ waiting' = waiting \ {r}
    /\ UNCHANGED <<copies, holder, op, mine, seen, budget, history>>

Leave(r) ==
    /\ Goes(r, "leaving", "over")
    /\ holder' = None
    /\ Keeps(r, None)
    /\ UNCHANGED <<copies, waiting, op, seen, outcome, budget, history>>

-----------------------------------------------------------------------------
(* _team_b_gate and the checklist gates of _api_confirm.                     *)
GateLetsThrough(r) ==
    /\ Goes(r, "locked", IF op[r] = "resume" THEN "starting" ELSE "loading")
    /\ op[r] \in Packing
    /\ ram.phase \in {"await", "done"}
    /\ Keeps(r, ram)
    /\ UNCHANGED <<copies, lock, op, seen, outcome, budget, history>>

GatePasses(r) ==
    /\ Goes(r, "locked", IF op[r] = "resume" THEN "starting" ELSE "loading")
    /\ op[r] \in Packing
    /\ ram.phase = "await"
    /\ Keeps(r, ram)
    /\ UNCHANGED <<copies, lock, op, seen, outcome, budget, history>>

GateReplays(r) ==
    /\ Goes(r, "locked", "leaving")
    /\ op[r] \in Packing
    /\ ram.phase = "done"
    /\ Says(r, "ok")
    /\ UNCHANGED <<copies, lock, op, mine, seen, budget, history>>

GateRefuses(r) ==
    /\ Goes(r, "locked", "leaving")
    /\ op[r] \in Packing
    /\ \/ ram.phase \notin {"await", "done"}
       \/ ram.phase = "await" /\ op[r] \in Confirming
    /\ Says(r, "refused")
    /\ UNCHANGED <<copies, lock, op, mine, seen, budget, history>>

(* mark_checkpoint: load the copy on disk, change it, save it; a failure is  *)
(* swallowed.  Before Team B it is marked resumed, after it done.            *)
Marked(r) ==
    IF op[r] = "cancel" THEN Moved(seen[r], "cancelled")
    ELSE IF outcome[r] = "none" /\ seen[r].phase = "await" THEN Moved(seen[r], "running")
    ELSE seen[r]

MarkLoad(r) ==
    /\ Goes(r, "loading", "marking")
    /\ Loads(r, disk)
    /\ UNCHANGED <<copies, lock, op, mine, outcome, budget, history>>

AfterMark(r) ==
    IF op[r] = "cancel" THEN "echoing"
    ELSE IF outcome[r] = "packed" THEN "leaving" ELSE "starting"

MarkSave(r) ==
    /\ Goes(r, "marking", AfterMark(r))
    /\ Save(Marked(r)) /\ Notes(op[r], Behind(Marked(r), disk))
    /\ Loads(r, None)
    /\ UNCHANGED <<ram, lock, op, mine, outcome, newest, crashes, packed, cut, swept, cutShort, cancelled>>

(* What a cancel does last, its echo, is in the same try: it is skipped.     *)
MarkRefused(r) ==
    /\ Goes(r, "marking", IF op[r] = "cancel" THEN "over" ELSE AfterMark(r))
    /\ Refused
    /\ Loads(r, None)
    /\ IF op[r] = "cancel"
         THEN Says(r, "ok") /\ Keeps(r, None) /\ cancelled' = cancelled \cup {mine[r].plan}
         ELSE UNCHANGED <<outcome, mine, cancelled>>
    /\ UNCHANGED <<ram, lock, op, newest, crashes, packed, cut, swept, cutShort, putBack>>

-----------------------------------------------------------------------------
(* _run_team_b_guarded *)
Start(r) ==
    /\ Goes(r, "starting", "packing")
    /\ ram' = Moved(mine[r], "running")
    /\ Notes(op[r], Behind(Moved(mine[r], "running"), ram))
    /\ UNCHANGED <<disk, lock, locals, budget, packed, cut, swept, cutShort, cancelled>>

(* Team B saves its result on disk itself, before the cancel is looked for.  *)
TeamBDone(r) ==
    /\ Goes(r, "packing", "packed")
    /\ Save(Moved(mine[r], "done")) \/ Refused
    /\ packed' = [packed EXCEPT ![mine[r].plan] = @ + 1]
    /\ UNCHANGED <<ram, lock, locals, newest, crashes, cut, swept, cutShort, cancelled, putBack>>

TeamBRaises(r) ==
    /\ Goes(r, "packing", "failed")
    /\ UNCHANGED <<copies, lock, locals, budget, history>>

CheckNothing(r) ==
    /\ Goes(r, "packed", "storing")
    /\ Keeps(r, Moved(mine[r], "done")) /\ Says(r, "packed")
    /\ UNCHANGED <<copies, lock, op, seen, budget, history>>

CheckAndLeave(r) ==
    /\ Goes(r, "packed", IF ram.phase = "cancelled" THEN "leaving" ELSE "storing")
    /\ IF ram.phase = "cancelled"
         THEN Keeps(r, ram) /\ Says(r, "stopped")
         ELSE Keeps(r, Moved(mine[r], "done")) /\ Says(r, "packed")
    /\ UNCHANGED <<copies, lock, op, seen, budget, history>>

Check(r) ==
    /\ Goes(r, "packed", "storing")
    /\ IF ram.phase = "cancelled"
         THEN Keeps(r, ram) /\ Says(r, "stopped")
         ELSE Keeps(r, Moved(mine[r], "done")) /\ Says(r, "packed")
    /\ UNCHANGED <<copies, lock, op, seen, budget, history>>

JustFails(r) ==
    /\ Goes(r, "failed", "leaving")
    /\ Says(r, "failed")
    /\ UNCHANGED <<copies, lock, op, mine, seen, budget, history>>

AfterFailure(r) ==
    /\ Goes(r, "failed", IF ram.phase \in {"cancelled", "running"} THEN "storing" ELSE "leaving")
    /\ IF ram.phase = "cancelled" THEN Keeps(r, ram) /\ Says(r, "stopped")
                                  ELSE UNCHANGED mine /\ Says(r, "failed")
    /\ UNCHANGED <<copies, lock, op, seen, budget, history>>

(* revise: Team A makes a new plan and saves it, whatever the phase was.     *)
Revise(r) ==
    /\ Goes(r, "locked", "storing")
    /\ op[r] = "revise" /\ newest < MaxPlans
    /\ newest' = newest + 1
    /\ LET plan == [phase |-> "await", plan |-> newest + 1] IN
         /\ Keeps(r, plan)
         /\ Save(plan) \/ Refused
    /\ Says(r, "ok")
    /\ UNCHANGED <<ram, lock, op, seen, crashes, history>>

ReviseFails(r) ==
    /\ Goes(r, "locked", "leaving")
    /\ op[r] = "revise"
    /\ Says(r, "failed")
    /\ UNCHANGED <<copies, lock, op, mine, seen, budget, history>>

(* cancel, and the endpoints that change a field of the session (checklist,  *)
(* sign-off, booking, inspection), read the whole session and store it.      *)
ReadUnlocked(r) ==
    /\ Goes(r, "door", "storing")
    /\ op[r] \in Unlocked
    /\ Keeps(r, IF op[r] = "cancel" THEN Moved(ram, "cancelled") ELSE ram)
    /\ UNCHANGED <<copies, lock, op, seen, outcome, budget, history>>

-----------------------------------------------------------------------------
(* _store_session: memory, then disk. *)
StoreRam(r) ==
    /\ Goes(r, "storing", "saving")
    /\ ram' = mine[r]
    /\ Notes(op[r], Overwrites(r, ram))
    /\ cutShort' = IF op[r] # "cancel" THEN cutShort
                   ELSE cutShort \cup {q \in Requests : pc[q] \in {"packing", "packed"}}
    /\ UNCHANGED <<disk, lock, locals, budget, packed, cut, swept, cancelled>>

AfterStore(r) ==
    IF op[r] = "edit" THEN "over"
    ELSE IF op[r] = "cancel" \/ (op[r] \in Confirming /\ outcome[r] = "packed") THEN "loading"
    ELSE "leaving"

StoreDisk(r) ==
    /\ Goes(r, "saving", AfterStore(r))
    /\ Save(mine[r])
    /\ Notes(op[r], Overwrites(r, disk))
    /\ IF op[r] = "edit" THEN Says(r, "ok") /\ Keeps(r, None) ELSE UNCHANGED <<outcome, mine>>
    /\ UNCHANGED <<ram, lock, op, seen, newest, crashes, packed, cut, swept, cutShort, cancelled>>

(* Any failure of the save but SessionPersistError is swallowed, and the     *)
(* request goes on; SessionPersistError, from a database that stayed locked, *)
(* is answered 503.  Either way memory is ahead of the disk.                 *)
StoreSwallowed(r) ==
    /\ Goes(r, "saving", AfterStore(r))
    /\ Refused
    /\ IF op[r] = "edit" THEN Says(r, "ok") /\ Keeps(r, None) ELSE UNCHANGED <<outcome, mine>>
    /\ UNCHANGED <<ram, lock, op, seen, newest, crashes, history>>

RefusedWithTheLock(r) ==
    /\ Goes(r, "saving", "over")
    /\ Refused
    /\ Says(r, "refused")
    /\ Keeps(r, None)
    /\ UNCHANGED <<ram, lock, op, seen, newest, crashes, history>>

StoreRefused(r) ==
    /\ Goes(r, "saving", IF op[r] \in Unlocked THEN "over" ELSE "leaving")
    /\ Refused
    /\ Says(r, "refused")
    /\ Keeps(r, None)
    /\ UNCHANGED <<ram, lock, op, seen, newest, crashes, history>>

(* The cancel puts its state into memory again, with the fresh meta data.    *)
Echo(r) ==
    /\ Goes(r, "echoing", "over")
    /\ ram' = mine[r]
    /\ Notes(op[r], Behind(mine[r], ram))
    /\ cancelled' = cancelled \cup {mine[r].plan}
    /\ Says(r, "ok")
    /\ Keeps(r, None)
    /\ UNCHANGED <<disk, lock, op, seen, budget, packed, cut, swept, cutShort>>

(* The gateway goes down and comes up: recover_interrupted sweeps the disk,  *)
(* which only the confirm doors have marked before Team B.                   *)
AtWork == {<<mine[r].plan, op[r]>> : r \in {q \in Requests : pc[q] \in {"packing", "packed"}}}

RestartAwaits ==
    /\ faults + crashes < MaxMishaps
    /\ crashes' = crashes + 1
    /\ ram' = None
    /\ disk' = IF disk.phase = "running" THEN Moved(disk, "await") ELSE disk
    /\ cut' = cut \cup AtWork
    /\ swept' = IF disk.phase = "running" THEN swept \cup {disk.plan} ELSE swept
    /\ holder' = None /\ waiting' = {}
    /\ pc' = [r \in Requests |-> IF pc[r] = "idle" THEN "idle" ELSE "over"]
    /\ outcome' = [r \in Requests |-> IF pc[r] \in {"idle", "over"} THEN outcome[r] ELSE "refused"]
    /\ mine' = [r \in Requests |-> None] /\ seen' = [r \in Requests |-> None]
    /\ UNCHANGED <<op, newest, faults, packed, cutShort, cancelled, putBack>>

Restart ==
    /\ faults + crashes < MaxMishaps
    /\ crashes' = crashes + 1
    /\ ram' = None
    /\ disk' = IF disk.phase = "running" THEN Moved(disk, "interrupted") ELSE disk
    /\ cut' = cut \cup AtWork
    /\ swept' = IF disk.phase = "running" THEN swept \cup {disk.plan} ELSE swept
    /\ holder' = None /\ waiting' = {}
    /\ pc' = [r \in Requests |-> IF pc[r] = "idle" THEN "idle" ELSE "over"]
    /\ outcome' = [r \in Requests |-> IF pc[r] \in {"idle", "over"} THEN outcome[r] ELSE "refused"]
    /\ mine' = [r \in Requests |-> None] /\ seen' = [r \in Requests |-> None]
    /\ UNCHANGED <<op, newest, faults, packed, cutShort, cancelled, putBack>>

-----------------------------------------------------------------------------
LockStep(r) == TakeLock(r) \/ Queue(r) \/ TurnAway(r) \/ TakeTurn(r) \/ GiveUp(r) \/ Leave(r)
GateStep(r) == GatePasses(r) \/ GateReplays(r) \/ GateRefuses(r) \/ Revise(r) \/ ReviseFails(r)
TeamBStep(r) == Start(r) \/ TeamBDone(r) \/ TeamBRaises(r) \/ Check(r) \/ AfterFailure(r)
StoreStep(r) == \/ MarkLoad(r) \/ MarkSave(r) \/ MarkRefused(r) \/ Echo(r)
                \/ StoreRam(r) \/ StoreDisk(r) \/ StoreSwallowed(r) \/ StoreRefused(r)
Step(r) == Fill(r) \/ ReadUnlocked(r) \/ LockStep(r) \/ GateStep(r) \/ TeamBStep(r) \/ StoreStep(r)

Next ==
    \/ \E r \in Requests : (\E o \in Asks(r) : Arrive(r, o)) \/ Step(r)
    \/ Restart

Spec == Init /\ [][Next]_vars

(* Threads run on: Team A, Team B and the wait for the lock all end.         *)
FairSpec == Spec /\ WF_vars(\E r \in Requests : Step(r))

-----------------------------------------------------------------------------
Quiet     == \A r \in Requests : pc[r] \in {"idle", "over"}
Current   == IF ram = None THEN disk ELSE ram
Inside(r) == pc[r] \in {"starting", "packing", "packed", "failed"}

(* Two requests never pack the same session at once, through whichever door: *)
(* the lock is held from the gate to the answer (gateway/app.py:1453).       *)
OnePacker == \A q, r \in Requests : Inside(q) /\ Inside(r) => q = r

(* Neither a double click nor a retry packs a shipment twice                 *)
(* (gateway/app.py:1414), as long as no save failed and no endpoint put a    *)
(* copy it had read earlier over a newer one.                                *)
PackedOnce ==
    \A p \in Plans : packed[p] > 1 => faults > 0 \/ putBack \cap {"load", "edit"} # {}

(* A cancel that lands while Team B runs wins (gateway/app.py:1388): the     *)
(* confirm is not answered with the result.                                  *)
CancelWins ==
    \A r \in cutShort : outcome[r] = "packed" => putBack \cap {"load", "edit"} # {}

(* When nobody is at work, memory and disk hold the same session: what a     *)
(* restart resumes is what the requests were told.                           *)
QuietAgree ==
    Quiet /\ ram # None
        => ram = disk \/ faults > 0 \/ putBack # {}

(* A session is not left running with nobody at work on it, where every      *)
(* confirm would be refused until a restart (gateway/app.py:1399), unless an *)
(* endpoint put a running copy back.                                         *)
NotStuck ==
    Quiet /\ Current.phase = "running"
        => putBack \cap {"load", "edit"} # {}

(* Once a crash has cut a run, its plan is not packed (gateway/app.py:1415): *)
(* unconditionally when the sweep marked it, and for every run through a     *)
(* confirm door unless the mark it made on disk failed or was overwritten.   *)
(* The resume door makes no mark: see CutNotResumed.                         *)
InterruptedStays ==
    [][\A p \in Plans : packed'[p] # packed[p] =>
          /\ p \notin swept
          /\ \A door \in Confirming : <<p, door>> \in cut =>
                faults > 0 \/ putBack \cap {"load", "edit"} # {}]_vars

(* The lock of the session is always given back. *)
LockComesFree == []<>(holder = None)

(* Cancelled is final (gateway/app.py:1415, :1404): a session whose cancel   *)
(* was answered is not reported done.                                        *)
CancelIsFinal == Current.plan \in cancelled => Current.phase # "done"

(* "Whatever a crash left mid-run is marked interrupted, never resumed or    *)
(* replayed" (packing_assistant/session_store.py:491): no request is about   *)
(* to pack the plan of a run that a crash cut.                               *)
CutNotResumed == \A r \in Requests : Inside(r) => \A c \in cut : mine[r].plan # c[1]
=============================================================================
