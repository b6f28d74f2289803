------------------------- MODULE PackingConfirmProofs -------------------------
(***************************************************************************)
(* What PackingConfirm promises for any number of requests, plans, failed  *)
(* saves and restarts.  The layers: what each copy is (Typed), who holds   *)
(* the lock and who waits for it (Locked, Counted), what a plan that was   *)
(* cut, cancelled or packed looks like in every copy (CutOff, CutMarked,   *)
(* Heard, Once), which copy is the newest and where (Newest, HeardInRam,   *)
(* HeardOnDisk, Agreeing), what an answered cancel leaves as long as       *)
(* nothing fails, is put back or restarted (AnsweredStays), and how far    *)
(* a request is on its way (Stage).                                        *)
(***************************************************************************)
EXTENDS PackingConfirm, FiniteSetTheorems, TLAPS

(* Where a request carries a copy of the session in mine. *)
Carries == {"loading", "marking", "starting", "packing", "packed", "failed",
            "storing", "saving", "echoing"}

Shape ==
    \A r \in Requests :
        /\ pc[r] # "idle" => op[r] \in Operations
        /\ pc[r] \notin {"idle", "filling", "over"} => ram \in Copy
        /\ pc[r] \in {"filling", "marking"} => seen[r] \in Copy
        /\ pc[r] \in Carries => mine[r] \in Copy

Typed == TypeOK /\ Shape

LEMMA MovedIsCopy ==
    ASSUME NEW c \in Copy, NEW ph \in Phases
    PROVE  Moved(c, ph) \in Copy /\ Moved(c, ph).phase = ph /\ Moved(c, ph).plan = c.plan
BY DEF Moved, Copy

LEMMA SavedIsTyped ==
    ASSUME TypeOK, NEW c \in Copy, Save(c) \/ Refused
    PROVE  disk' \in Copy /\ faults' \in 0 .. MaxMishaps /\ disk' \in {disk, c}
BY ConfirmAssumption DEF TypeOK, Save, Refused

LEMMA InitTyped == Init => Typed
BY ConfirmAssumption DEF Init, Typed, TypeOK, Shape, Carries, Copy, Plans, Phases

LEMMA NextTyped == Typed /\ [Next]_vars => Typed'
<1> SUFFICES ASSUME Typed, [Next]_vars PROVE Typed'
  OBVIOUS
<1> USE DEF Typed, Carries, Goes, Says, Keeps, Loads, Notes, copies, lock, locals, budget, history
<1>1. ASSUME NEW r \in Requests, NEW o \in Asks(r), Arrive(r, o) PROVE Typed'
  BY <1>1 DEF Arrive, TypeOK, Shape, Asks
<1>2. ASSUME NEW r \in Requests, Fill(r) PROVE Typed'
  BY <1>2, MovedIsCopy, ConfirmAssumption DEF Fill, TypeOK, Shape
<1>3. ASSUME NEW r \in Requests, ReadUnlocked(r) PROVE Typed'
  BY <1>3, MovedIsCopy, ConfirmAssumption DEF ReadUnlocked, TypeOK, Shape, Phases
<1>4. ASSUME NEW r \in Requests, TakeLock(r) PROVE Typed'
  BY <1>4, MovedIsCopy, ConfirmAssumption DEF TakeLock, TypeOK, Shape
<1>5. ASSUME NEW r \in Requests, Queue(r) PROVE Typed'
  BY <1>5, MovedIsCopy, ConfirmAssumption DEF Queue, TypeOK, Shape
<1>6. ASSUME NEW r \in Requests, TurnAway(r) PROVE Typed'
  BY <1>6, MovedIsCopy, ConfirmAssumption DEF TurnAway, TypeOK, Shape
<1>7. ASSUME NEW r \in Requests, TakeTurn(r) PROVE Typed'
  BY <1>7, MovedIsCopy, ConfirmAssumption DEF TakeTurn, TypeOK, Shape
<1>8. ASSUME NEW r \in Requests, GiveUp(r) PROVE Typed'
  BY <1>8, MovedIsCopy, ConfirmAssumption DEF GiveUp, TypeOK, Shape
<1>9. ASSUME NEW r \in Requests, Leave(r) PROVE Typed'
  BY <1>9, MovedIsCopy, ConfirmAssumption DEF Leave, TypeOK, Shape
<1>10. ASSUME NEW r \in Requests, GatePasses(r) PROVE Typed'
  BY <1>10, MovedIsCopy, ConfirmAssumption DEF GatePasses, TypeOK, Shape
<1>11. ASSUME NEW r \in Requests, GateReplays(r) PROVE Typed'
  BY <1>11, MovedIsCopy, ConfirmAssumption DEF GateReplays, TypeOK, Shape
<1>12. ASSUME NEW r \in Requests, GateRefuses(r) PROVE Typed'
  BY <1>12, MovedIsCopy, ConfirmAssumption DEF GateRefuses, TypeOK, Shape
<1>13. ASSUME NEW r \in Requests, Revise(r) PROVE Typed'
  <2>1. [phase |-> "await", plan |-> newest + 1] \in Copy /\ newest + 1 \in Plans
    BY <1>13, ConfirmAssumption DEF Revise, TypeOK, Copy, Plans, Phases
  <2>2. disk' \in Copy /\ faults' \in 0 .. MaxMishaps
    BY <1>13, <2>1, SavedIsTyped DEF Revise
  <2> QED
    BY <1>13, <2>1, <2>2 DEF Revise, TypeOK, Shape
<1>14. ASSUME NEW r \in Requests, ReviseFails(r) PROVE Typed'
  BY <1>14, MovedIsCopy, ConfirmAssumption DEF ReviseFails, TypeOK, Shape
<1>15. ASSUME NEW r \in Requests, Start(r) PROVE Typed'
  BY <1>15, MovedIsCopy, ConfirmAssumption DEF Start, TypeOK, Shape, Phases
<1>16. ASSUME NEW r \in Requests, TeamBDone(r) PROVE Typed'
  <2>1. mine[r] \in Copy /\ mine[r].plan \in Plans
    BY <1>16 DEF TeamBDone, Shape, Copy
  <2>2. disk' \in Copy /\ faults' \in 0 .. MaxMishaps
    BY <1>16, <2>1, MovedIsCopy, SavedIsTyped DEF TeamBDone, Phases
  <2>3. packed' \in [Plans -> Nat]
    BY <1>16, <2>1 DEF TeamBDone, TypeOK
  <2> QED
    BY <1>16, <2>2, <2>3 DEF TeamBDone, TypeOK, Shape
<1>17. ASSUME NEW r \in Requests, TeamBRaises(r) PROVE Typed'
  BY <1>17, MovedIsCopy, ConfirmAssumption DEF TeamBRaises, TypeOK, Shape
<1>18. ASSUME NEW r \in Requests, Check(r) PROVE Typed'
  BY <1>18, MovedIsCopy, ConfirmAssumption DEF Check, TypeOK, Shape, Phases
<1>19. ASSUME NEW r \in Requests, AfterFailure(r) PROVE Typed'
  BY <1>19, MovedIsCopy, ConfirmAssumption DEF AfterFailure, TypeOK, Shape
<1>20. ASSUME NEW r \in Requests, MarkLoad(r) PROVE Typed'
  BY <1>20, MovedIsCopy, ConfirmAssumption DEF MarkLoad, TypeOK, Shape
<1>21. ASSUME NEW r \in Requests, MarkSave(r) PROVE Typed'
  BY <1>21, MovedIsCopy, ConfirmAssumption DEF MarkSave, TypeOK, Shape, Save, Refused, Marked, AfterMark, Phases
<1>22. ASSUME NEW r \in Requests, StoreRam(r) PROVE Typed'
  BY <1>22, MovedIsCopy, ConfirmAssumption DEF StoreRam, TypeOK, Shape
<1>23. ASSUME NEW r \in Requests, StoreDisk(r) PROVE Typed'
  <2>1. disk' \in Copy /\ faults' \in 0 .. MaxMishaps
    BY <1>23, SavedIsTyped DEF StoreDisk, Shape
  <2>2. putBack' \in SUBSET (Operations \cup {"load"})
    BY <1>23 DEF StoreDisk, TypeOK, Shape
  <2>3. /\ pc' \in [Requests -> {"idle", "filling", "door", "waiting", "locked", "loading", "marking",
                              "starting", "packing", "packed", "failed", "storing", "saving",
                              "echoing", "leaving", "over"}]
        /\ outcome' \in [Requests -> {"none", "ok", "packed", "stopped", "failed", "refused"}]
        /\ mine' \in [Requests -> Copy \cup {None}]
    BY <1>23 DEF StoreDisk, TypeOK, AfterStore
  <2>4. CASE op[r] = "edit"
    <3>1. AfterStore(r) = "over"
      BY <2>4 DEF AfterStore
    <3> QED
      BY <1>23, <2>1, <2>2, <2>3, <2>4, <3>1 DEF StoreDisk, TypeOK, Shape
  <2>5. CASE op[r] # "edit"
    <3>1. AfterStore(r) \in {"loading", "leaving"}
      BY <2>5 DEF AfterStore
    <3> QED
      BY <1>23, <2>1, <2>2, <2>3, <2>5, <3>1 DEF StoreDisk, TypeOK, Shape
  <2> QED
    BY <2>4, <2>5
<1>24. ASSUME NEW r \in Requests, StoreRefused(r) PROVE Typed'
  BY <1>24, MovedIsCopy, ConfirmAssumption DEF StoreRefused, TypeOK, Shape, Refused
<1>25. ASSUME NEW r \in Requests, Echo(r) PROVE Typed'
  <2>1. mine[r] \in Copy /\ mine[r].plan \in Plans /\ op[r] \in Operations
    BY <1>25 DEF Echo, Shape, Copy
  <2> QED
    BY <1>25, <2>1 DEF Echo, TypeOK, Shape
<1>26. ASSUME Restart PROVE Typed'
  <2>1. AtWork \in SUBSET (Plans \X Operations)
    BY <1>26 DEF AtWork, TypeOK, Shape, Copy
  <2> QED
    BY <1>26, <2>1, MovedIsCopy, ConfirmAssumption DEF Restart, TypeOK, Shape, Phases, Copy
<1>27. CASE UNCHANGED vars
  BY <1>27 DEF vars, TypeOK, Shape
<1>28. ASSUME NEW r \in Requests, MarkRefused(r) PROVE Typed'
  <2>1. mine[r] \in Copy /\ mine[r].plan \in Plans
    BY <1>28 DEF MarkRefused, Shape, Copy
  <2>2. disk' = disk /\ faults' \in 0 .. MaxMishaps
    BY <1>28, ConfirmAssumption DEF MarkRefused, Refused, TypeOK
  <2>3. /\ outcome' \in [Requests -> {"none", "ok", "packed", "stopped", "failed", "refused"}]
        /\ mine' \in [Requests -> Copy \cup {None}] /\ seen' \in [Requests -> Copy \cup {None}]
        /\ cancelled' \in SUBSET Plans
    BY <1>28, <2>1 DEF MarkRefused, TypeOK
  <2> QED
    BY <1>28, <2>1, <2>2, <2>3 DEF MarkRefused, AfterMark, TypeOK, Shape
<1>29. ASSUME NEW r \in Requests, StoreSwallowed(r) PROVE Typed'
  <2>1. disk' = disk /\ faults' \in 0 .. MaxMishaps
    BY <1>29, ConfirmAssumption DEF StoreSwallowed, Refused, TypeOK
  <2>2. /\ outcome' \in [Requests -> {"none", "ok", "packed", "stopped", "failed", "refused"}]
        /\ mine' \in [Requests -> Copy \cup {None}]
    BY <1>29 DEF StoreSwallowed, TypeOK
  <2> QED
    BY <1>29, <2>1, <2>2 DEF StoreSwallowed, AfterStore, TypeOK, Shape
<1> QED
  BY <1>1, <1>2, <1>3, <1>4, <1>5, <1>6, <1>7, <1>8, <1>9, <1>10, <1>11, <1>12, <1>13, <1>14, <1>15, <1>16, <1>17, <1>18, <1>19, <1>20, <1>21, <1>22, <1>23, <1>24, <1>25, <1>26, <1>27, <1>28, <1>29 DEF Next, Step, LockStep, GateStep, TeamBStep, StoreStep

-----------------------------------------------------------------------------
(* Memory, disk and every copy in flight hold a value of their type.         *)
THEOREM TypeCorrect == Spec => []TypeOK
<1>1. Typed => TypeOK
  BY DEF Typed
<1> QED
  BY InitTyped, NextTyped, <1>1, PTL DEF Spec

-----------------------------------------------------------------------------
(* Whoever is between the gate and the answer holds the lock.                *)
Guarded(r) ==
    \/ pc[r] \in {"locked", "starting", "packing", "packed", "failed", "leaving"}
    \/ pc[r] \in {"loading", "marking", "storing", "saving"} /\ op[r] \notin Unlocked

Locked ==
    \A r \in Requests :
        /\ Guarded(r) => holder = r
        /\ pc[r] \in {"loading", "marking"} => op[r] # "edit"
        /\ pc[r] \in {"waiting", "locked"} => op[r] \notin Unlocked

LEMMA InitLocked == Init => Locked
BY DEF Init, Locked, Guarded

LEMMA NextLocked == Typed /\ Locked /\ [Next]_vars => Locked'
<1> SUFFICES ASSUME Typed, Locked, [Next]_vars PROVE Locked'
  OBVIOUS
<1> USE DEF Typed, TypeOK, Locked, Guarded, Unlocked, Goes, lock, locals
<1>1. ASSUME NEW r \in Requests, NEW o \in Asks(r), Arrive(r, o) PROVE Locked'
  BY <1>1 DEF Arrive
<1>2. ASSUME NEW r \in Requests, Fill(r) PROVE Locked'
  BY <1>2 DEF Fill
<1>3. ASSUME NEW r \in Requests, ReadUnlocked(r) PROVE Locked'
  BY <1>3 DEF ReadUnlocked
<1>4. ASSUME NEW r \in Requests, TakeLock(r) PROVE Locked'
  BY <1>4, ConfirmAssumption DEF TakeLock
<1>5. ASSUME NEW r \in Requests, Queue(r) PROVE Locked'
  BY <1>5 DEF Queue
<1>6. ASSUME NEW r \in Requests, TurnAway(r) PROVE Locked'
  BY <1>6 DEF TurnAway
<1>7. ASSUME NEW r \in Requests, TakeTurn(r) PROVE Locked'
  BY <1>7, ConfirmAssumption DEF TakeTurn
<1>8. ASSUME NEW r \in Requests, GiveUp(r) PROVE Locked'
  BY <1>8 DEF GiveUp
<1>9. ASSUME NEW r \in Requests, Leave(r) PROVE Locked'
  BY <1>9, ConfirmAssumption DEF Leave
<1>10. ASSUME NEW r \in Requests, GatePasses(r) PROVE Locked'
  BY <1>10 DEF GatePasses, Packing, Confirming
<1>11. ASSUME NEW r \in Requests, GateReplays(r) PROVE Locked'
  BY <1>11 DEF GateReplays
<1>12. ASSUME NEW r \in Requests, GateRefuses(r) PROVE Locked'
  BY <1>12 DEF GateRefuses
<1>13. ASSUME NEW r \in Requests, Revise(r) PROVE Locked'
  BY <1>13 DEF Revise
<1>14. ASSUME NEW r \in Requests, ReviseFails(r) PROVE Locked'
  BY <1>14 DEF ReviseFails
<1>15. ASSUME NEW r \in Requests, Start(r) PROVE Locked'
  BY <1>15 DEF Start
<1>16. ASSUME NEW r \in Requests, TeamBDone(r) PROVE Locked'
  BY <1>16 DEF TeamBDone
<1>17. ASSUME NEW r \in Requests, TeamBRaises(r) PROVE Locked'
  BY <1>17 DEF TeamBRaises
<1>18. ASSUME NEW r \in Requests, Check(r) PROVE Locked'
  BY <1>18 DEF Check
<1>19. ASSUME NEW r \in Requests, AfterFailure(r) PROVE Locked'
  BY <1>19 DEF AfterFailure
<1>20. ASSUME NEW r \in Requests, MarkLoad(r) PROVE Locked'
  BY <1>20 DEF MarkLoad
<1>21. ASSUME NEW r \in Requests, MarkSave(r) PROVE Locked'
  BY <1>21 DEF MarkSave, AfterMark
<1>22. ASSUME NEW r \in Requests, StoreRam(r) PROVE Locked'
  BY <1>22 DEF StoreRam
<1>23. ASSUME NEW r \in Requests, StoreDisk(r) PROVE Locked'
  BY <1>23 DEF StoreDisk, AfterStore
<1>24. ASSUME NEW r \in Requests, StoreRefused(r) PROVE Locked'
  BY <1>24 DEF StoreRefused
<1>25. ASSUME NEW r \in Requests, Echo(r) PROVE Locked'
  BY <1>25 DEF Echo
<1>26. ASSUME Restart PROVE Locked'
  BY <1>26 DEF Restart
<1>27. CASE UNCHANGED vars
  BY <1>27 DEF vars
<1>28. ASSUME NEW r \in Requests, MarkRefused(r) PROVE Locked'
  BY <1>28, ConfirmAssumption, MovedIsCopy DEF MarkRefused, AfterMark, Refused
<1>29. ASSUME NEW r \in Requests, StoreSwallowed(r) PROVE Locked'
  BY <1>29, ConfirmAssumption, MovedIsCopy DEF StoreSwallowed, AfterStore, Refused
<1> QED
  BY <1>1, <1>2, <1>3, <1>4, <1>5, <1>6, <1>7, <1>8, <1>9, <1>10, <1>11, <1>12, <1>13, <1>14, <1>15, <1>16, <1>17, <1>18, <1>19, <1>20, <1>21, <1>22, <1>23, <1>24, <1>25, <1>26, <1>27, <1>28, <1>29 DEF Next, Step, LockStep, GateStep, TeamBStep, StoreStep

(* Two requests never pack the same session at once.                         *)
THEOREM OnePackerHolds == Spec => []OnePacker
<1>1. Locked => OnePacker
  BY DEF Locked, Guarded, OnePacker, Inside
<1> QED
  BY InitTyped, NextTyped, InitLocked, NextLocked, <1>1, PTL DEF Spec

-----------------------------------------------------------------------------
(* A plan the sweep marked is interrupted or cancelled in every copy, and no *)
(* request is on its way to Team B with it: the copy it took past the gate   *)
(* still awaits confirmation.                                                *)
Dead(c)  == c # None => /\ c.plan \in swept => c.phase \in {"interrupted", "cancelled"}
                        /\ c.plan <= newest
Before(r) ==
    \/ pc[r] \in {"starting", "packing", "packed", "failed"}
    \/ pc[r] \in {"loading", "marking"} /\ op[r] # "cancel" /\ outcome[r] # "packed"

CutOff ==
    /\ swept \subseteq 1 .. newest
    /\ Dead(ram) /\ Dead(disk)
    /\ \A r \in Requests : Dead(mine[r]) /\ Dead(seen[r]) /\ (Before(r) => mine[r].phase = "await")

LEMMA InitCutOff == Init => CutOff
BY DEF Init, CutOff, Dead, Before

LEMMA NextCutOff == Typed /\ CutOff /\ [Next]_vars => CutOff'
<1> SUFFICES ASSUME Typed, CutOff, [Next]_vars PROVE CutOff'
  OBVIOUS
<1> USE DEF Typed, TypeOK, Shape, Carries, CutOff, Dead, Before, Goes, Keeps, Loads, Says,
            copies, lock, locals, budget, history
<1>1. ASSUME NEW r \in Requests, NEW o \in Asks(r), Arrive(r, o) PROVE CutOff'
  BY <1>1 DEF Arrive
<1>2. ASSUME NEW r \in Requests, Fill(r) PROVE CutOff'
  BY <1>2, ConfirmAssumption, MovedIsCopy DEF Fill
<1>3. ASSUME NEW r \in Requests, ReadUnlocked(r) PROVE CutOff'
  BY <1>3, ConfirmAssumption, MovedIsCopy DEF ReadUnlocked, Phases
<1>4. ASSUME NEW r \in Requests, TakeLock(r) PROVE CutOff'
  BY <1>4, ConfirmAssumption, MovedIsCopy DEF TakeLock
<1>5. ASSUME NEW r \in Requests, Queue(r) PROVE CutOff'
  BY <1>5, ConfirmAssumption, MovedIsCopy DEF Queue
<1>6. ASSUME NEW r \in Requests, TurnAway(r) PROVE CutOff'
  BY <1>6, ConfirmAssumption, MovedIsCopy DEF TurnAway
<1>7. ASSUME NEW r \in Requests, TakeTurn(r) PROVE CutOff'
  BY <1>7, ConfirmAssumption, MovedIsCopy DEF TakeTurn
<1>8. ASSUME NEW r \in Requests, GiveUp(r) PROVE CutOff'
  BY <1>8, ConfirmAssumption, MovedIsCopy DEF GiveUp
<1>9. ASSUME NEW r \in Requests, Leave(r) PROVE CutOff'
  BY <1>9, ConfirmAssumption, MovedIsCopy DEF Leave
<1>10. ASSUME NEW r \in Requests, GatePasses(r) PROVE CutOff'
  BY <1>10, ConfirmAssumption, MovedIsCopy DEF GatePasses, Packing, Confirming
<1>11. ASSUME NEW r \in Requests, GateReplays(r) PROVE CutOff'
  BY <1>11, ConfirmAssumption, MovedIsCopy DEF GateReplays
<1>12. ASSUME NEW r \in Requests, GateRefuses(r) PROVE CutOff'
  BY <1>12, ConfirmAssumption, MovedIsCopy DEF GateRefuses
<1>13. ASSUME NEW r \in Requests, Revise(r) PROVE CutOff'
  <2>1. /\ newest' = newest + 1 /\ newest \in Nat /\ swept' = swept /\ ram' = ram
        /\ mine' = [mine EXCEPT ![r] = [phase |-> "await", plan |-> newest + 1]]
        /\ disk' \in {disk, [phase |-> "await", plan |-> newest + 1]}
    BY <1>13 DEF Revise, Save, Refused, Plans
  <2>2. newest + 1 \notin swept
    BY <2>1
  <2>3. \A c \in Copy : Dead(c) => Dead(c)'
    BY <2>1 DEF Copy, Plans
  <2> QED
    BY <1>13, <2>1, <2>2, <2>3 DEF Revise
<1>14. ASSUME NEW r \in Requests, ReviseFails(r) PROVE CutOff'
  BY <1>14, ConfirmAssumption, MovedIsCopy DEF ReviseFails
<1>15. ASSUME NEW r \in Requests, Start(r) PROVE CutOff'
  BY <1>15, ConfirmAssumption, MovedIsCopy DEF Start, Phases
<1>16. ASSUME NEW r \in Requests, TeamBDone(r) PROVE CutOff'
  BY <1>16, ConfirmAssumption, MovedIsCopy DEF TeamBDone, Save, Refused, Phases
<1>17. ASSUME NEW r \in Requests, TeamBRaises(r) PROVE CutOff'
  BY <1>17, ConfirmAssumption, MovedIsCopy DEF TeamBRaises
<1>18. ASSUME NEW r \in Requests, Check(r) PROVE CutOff'
  BY <1>18, ConfirmAssumption, MovedIsCopy DEF Check, Phases
<1>19. ASSUME NEW r \in Requests, AfterFailure(r) PROVE CutOff'
  BY <1>19, ConfirmAssumption, MovedIsCopy DEF AfterFailure
<1>20. ASSUME NEW r \in Requests, MarkLoad(r) PROVE CutOff'
  BY <1>20, ConfirmAssumption, MovedIsCopy DEF MarkLoad
<1>21. ASSUME NEW r \in Requests, MarkSave(r) PROVE CutOff'
  BY <1>21, ConfirmAssumption, MovedIsCopy DEF MarkSave, AfterMark, Marked, Save, Refused, Phases
<1>22. ASSUME NEW r \in Requests, StoreRam(r) PROVE CutOff'
  BY <1>22, ConfirmAssumption, MovedIsCopy DEF StoreRam
<1>23. ASSUME NEW r \in Requests, StoreDisk(r) PROVE CutOff'
  BY <1>23, ConfirmAssumption, MovedIsCopy DEF StoreDisk, AfterStore, Save
<1>24. ASSUME NEW r \in Requests, StoreRefused(r) PROVE CutOff'
  BY <1>24, ConfirmAssumption, MovedIsCopy DEF StoreRefused, Refused
<1>25. ASSUME NEW r \in Requests, Echo(r) PROVE CutOff'
  BY <1>25, ConfirmAssumption, MovedIsCopy DEF Echo
<1>26. ASSUME Restart PROVE CutOff'
  <2>1. /\ ram' = None /\ newest' = newest /\ disk.plan \in 1 .. newest
        /\ disk' = IF disk.phase = "running" THEN Moved(disk, "interrupted") ELSE disk
        /\ swept' = IF disk.phase = "running" THEN swept \cup {disk.plan} ELSE swept
    BY <1>26, ConfirmAssumption DEF Restart, Copy, Plans
  <2>2. Dead(disk)' /\ Dead(ram)' /\ swept' \subseteq 1 .. newest'
    BY <2>1, MovedIsCopy DEF Phases
  <2> QED
    BY <1>26, <2>2 DEF Restart
<1>27. CASE UNCHANGED vars
  BY <1>27 DEF vars
<1>28. ASSUME NEW r \in Requests, MarkRefused(r) PROVE CutOff'
  BY <1>28, ConfirmAssumption, MovedIsCopy DEF MarkRefused, AfterMark, Refused
<1>29. ASSUME NEW r \in Requests, StoreSwallowed(r) PROVE CutOff'
  BY <1>29, ConfirmAssumption, MovedIsCopy DEF StoreSwallowed, AfterStore, Refused
<1> QED
  BY <1>1, <1>2, <1>3, <1>4, <1>5, <1>6, <1>7, <1>8, <1>9, <1>10, <1>11, <1>12, <1>13, <1>14, <1>15, <1>16, <1>17, <1>18, <1>19, <1>20, <1>21, <1>22, <1>23, <1>24, <1>25, <1>26, <1>27, <1>28, <1>29 DEF Next, Step, LockStep, GateStep, TeamBStep, StoreStep

-----------------------------------------------------------------------------
(* A request that cancels stores a cancelled copy, and no request has an     *)
(* answer before it leaves Team B or the gate.                               *)
Cancelling ==
    \A r \in Requests :
        /\ op[r] = "cancel" /\ pc[r] \in Carries => mine[r].phase = "cancelled" /\ outcome[r] = "none"
        /\ pc[r] = "echoing" => op[r] = "cancel"
        /\ pc[r] \in {"starting", "packing", "packed", "failed"} => op[r] \notin Unlocked
        /\ pc[r] \in {"idle", "filling", "door", "waiting", "locked", "starting", "packing",
                     "packed", "failed"} => outcome[r] = "none"
        /\ pc[r] \in {"loading", "marking"} => outcome[r] \in {"none", "packed"}

LEMMA InitCancelling == Init => Cancelling
BY DEF Init, Cancelling, Carries

LEMMA NextCancelling == Typed /\ Locked /\ Cancelling /\ [Next]_vars => Cancelling'
<1> SUFFICES ASSUME Typed, Locked, Cancelling, [Next]_vars PROVE Cancelling'
  OBVIOUS
<1> USE DEF Typed, TypeOK, Shape, Carries, Locked, Guarded, Unlocked, Cancelling, Goes, Keeps, Loads,
            Says, copies, lock, locals, budget, history
<1>1. ASSUME NEW r \in Requests, NEW o \in Asks(r), Arrive(r, o) PROVE Cancelling'
  BY <1>1, ConfirmAssumption, MovedIsCopy DEF Arrive
<1>2. ASSUME NEW r \in Requests, Fill(r) PROVE Cancelling'
  BY <1>2, ConfirmAssumption, MovedIsCopy DEF Fill
<1>3. ASSUME NEW r \in Requests, ReadUnlocked(r) PROVE Cancelling'
  BY <1>3, ConfirmAssumption, MovedIsCopy DEF ReadUnlocked, Phases
<1>4. ASSUME NEW r \in Requests, TakeLock(r) PROVE Cancelling'
  BY <1>4, ConfirmAssumption, MovedIsCopy DEF TakeLock
<1>5. ASSUME NEW r \in Requests, Queue(r) PROVE Cancelling'
  BY <1>5, ConfirmAssumption, MovedIsCopy DEF Queue
<1>6. ASSUME NEW r \in Requests, TurnAway(r) PROVE Cancelling'
  BY <1>6, ConfirmAssumption, MovedIsCopy DEF TurnAway
<1>7. ASSUME NEW r \in Requests, TakeTurn(r) PROVE Cancelling'
  BY <1>7, ConfirmAssumption, MovedIsCopy DEF TakeTurn
<1>8. ASSUME NEW r \in Requests, GiveUp(r) PROVE Cancelling'
  BY <1>8, ConfirmAssumption, MovedIsCopy DEF GiveUp
<1>9. ASSUME NEW r \in Requests, Leave(r) PROVE Cancelling'
  BY <1>9, ConfirmAssumption, MovedIsCopy DEF Leave
<1>10. ASSUME NEW r \in Requests, GatePasses(r) PROVE Cancelling'
  BY <1>10, ConfirmAssumption, MovedIsCopy DEF GatePasses, Packing, Confirming
<1>11. ASSUME NEW r \in Requests, GateReplays(r) PROVE Cancelling'
  BY <1>11, ConfirmAssumption, MovedIsCopy DEF GateReplays
<1>12. ASSUME NEW r \in Requests, GateRefuses(r) PROVE Cancelling'
  BY <1>12, ConfirmAssumption, MovedIsCopy DEF GateRefuses
<1>13. ASSUME NEW r \in Requests, Revise(r) PROVE Cancelling'
  BY <1>13, ConfirmAssumption, MovedIsCopy DEF Revise
<1>14. ASSUME NEW r \in Requests, ReviseFails(r) PROVE Cancelling'
  BY <1>14, ConfirmAssumption, MovedIsCopy DEF ReviseFails
<1>15. ASSUME NEW r \in Requests, Start(r) PROVE Cancelling'
  BY <1>15, ConfirmAssumption, MovedIsCopy DEF Start
<1>16. ASSUME NEW r \in Requests, TeamBDone(r) PROVE Cancelling'
  BY <1>16, ConfirmAssumption, MovedIsCopy DEF TeamBDone
<1>17. ASSUME NEW r \in Requests, TeamBRaises(r) PROVE Cancelling'
  BY <1>17, ConfirmAssumption, MovedIsCopy DEF TeamBRaises
<1>18. ASSUME NEW r \in Requests, Check(r) PROVE Cancelling'
  BY <1>18, ConfirmAssumption, MovedIsCopy DEF Check
<1>19. ASSUME NEW r \in Requests, AfterFailure(r) PROVE Cancelling'
  BY <1>19, ConfirmAssumption, MovedIsCopy DEF AfterFailure
<1>20. ASSUME NEW r \in Requests, MarkLoad(r) PROVE Cancelling'
  BY <1>20, ConfirmAssumption, MovedIsCopy DEF MarkLoad
<1>21. ASSUME NEW r \in Requests, MarkSave(r) PROVE Cancelling'
  BY <1>21, ConfirmAssumption, MovedIsCopy DEF MarkSave, AfterMark
<1>22. ASSUME NEW r \in Requests, StoreRam(r) PROVE Cancelling'
  BY <1>22, ConfirmAssumption, MovedIsCopy DEF StoreRam
<1>23. ASSUME NEW r \in Requests, StoreDisk(r) PROVE Cancelling'
  BY <1>23, ConfirmAssumption, MovedIsCopy DEF StoreDisk, AfterStore
<1>24. ASSUME NEW r \in Requests, StoreRefused(r) PROVE Cancelling'
  BY <1>24, ConfirmAssumption, MovedIsCopy DEF StoreRefused
<1>25. ASSUME NEW r \in Requests, Echo(r) PROVE Cancelling'
  BY <1>25, ConfirmAssumption, MovedIsCopy DEF Echo
<1>26. ASSUME Restart PROVE Cancelling'
  BY <1>26, ConfirmAssumption, MovedIsCopy DEF Restart
<1>27. CASE UNCHANGED vars
  BY <1>27 DEF vars
<1>28. ASSUME NEW r \in Requests, MarkRefused(r) PROVE Cancelling'
  BY <1>28, ConfirmAssumption, MovedIsCopy DEF MarkRefused, AfterMark, Refused
<1>29. ASSUME NEW r \in Requests, StoreSwallowed(r) PROVE Cancelling'
  BY <1>29, ConfirmAssumption, MovedIsCopy DEF StoreSwallowed, AfterStore, Refused
<1> QED
  BY <1>1, <1>2, <1>3, <1>4, <1>5, <1>6, <1>7, <1>8, <1>9, <1>10, <1>11, <1>12, <1>13, <1>14, <1>15, <1>16, <1>17, <1>18, <1>19, <1>20, <1>21, <1>22, <1>23, <1>24, <1>25, <1>26, <1>27, <1>28, <1>29 DEF Next, Step, LockStep, GateStep, TeamBStep, StoreStep

-----------------------------------------------------------------------------
(* While a request that was cancelled is with Team B, memory says so, unless *)
(* an endpoint put an older copy back.                                       *)
Respected == putBack \cap {"load", "edit"} = {}

Heard ==
    Respected => \A r \in cutShort :
        /\ pc[r] \in {"packing", "packed"} => ram.phase = "cancelled"
        /\ outcome[r] # "packed" /\ op[r] # "cancel"
        /\ pc[r] \notin {"idle", "filling", "door", "waiting", "locked", "starting"}
        /\ pc[r] \in {"loading", "marking"} => outcome[r] # "none"

(* A plan that was packed awaits confirmation in no copy that can reach the  *)
(* gate: not in memory, not on disk, and not in what the requests are going  *)
(* to write; and before the first request fills the memory after a restart,  *)
(* what was loaded is what the disk holds.                                   *)
Clean    == faults = 0 /\ Respected
Spent(c) == c.phase = "await" => packed[c.plan] = 0

Once ==
    Clean =>
        /\ \A p \in Plans : packed[p] \in {0, 1} /\ (p > newest => packed[p] = 0)
        /\ ram # None => Spent(ram)
        /\ Spent(disk)
        /\ ram = None => \A r \in Requests : pc[r] = "filling" => seen[r] = disk
        /\ \A r \in Requests :
             /\ pc[r] = "marking" => op[r] = "cancel" \/ Spent(seen[r])
             /\ pc[r] \in Carries \ {"packed"} /\ op[r] # "edit" => Spent(mine[r])
             /\ pc[r] \in {"packing", "packed"} =>
                    ~(ram.phase = "await" /\ ram.plan = mine[r].plan)

LEMMA InitHeard == Init => Heard
BY DEF Init, Heard

LEMMA NextHeard == Typed /\ Locked /\ Cancelling /\ Heard /\ [Next]_vars => Heard'
<1> SUFFICES ASSUME Typed, Locked, Cancelling, Heard, [Next]_vars PROVE Heard'
  OBVIOUS
<1> USE DEF Typed, TypeOK, Shape, Carries, Locked, Guarded, Unlocked, Cancelling, Heard, Respected,
            Goes, Keeps, Loads, Says, copies, lock, locals, budget, history
<1>1. ASSUME NEW r \in Requests, NEW o \in Asks(r), Arrive(r, o) PROVE Heard'
  BY <1>1, ConfirmAssumption, MovedIsCopy DEF Arrive
<1>2. ASSUME NEW r \in Requests, Fill(r) PROVE Heard'
  BY <1>2, ConfirmAssumption, MovedIsCopy DEF Fill, Notes
<1>3. ASSUME NEW r \in Requests, ReadUnlocked(r) PROVE Heard'
  BY <1>3, ConfirmAssumption, MovedIsCopy DEF ReadUnlocked
<1>4. ASSUME NEW r \in Requests, TakeLock(r) PROVE Heard'
  BY <1>4, ConfirmAssumption, MovedIsCopy DEF TakeLock
<1>5. ASSUME NEW r \in Requests, Queue(r) PROVE Heard'
  BY <1>5, ConfirmAssumption, MovedIsCopy DEF Queue
<1>6. ASSUME NEW r \in Requests, TurnAway(r) PROVE Heard'
  BY <1>6, ConfirmAssumption, MovedIsCopy DEF TurnAway
<1>7. ASSUME NEW r \in Requests, TakeTurn(r) PROVE Heard'
  BY <1>7, ConfirmAssumption, MovedIsCopy DEF TakeTurn
<1>8. ASSUME NEW r \in Requests, GiveUp(r) PROVE Heard'
  BY <1>8, ConfirmAssumption, MovedIsCopy DEF GiveUp
<1>9. ASSUME NEW r \in Requests, Leave(r) PROVE Heard'
  BY <1>9, ConfirmAssumption, MovedIsCopy DEF Leave
<1>10. ASSUME NEW r \in Requests, GatePasses(r) PROVE Heard'
  BY <1>10, ConfirmAssumption, MovedIsCopy DEF GatePasses
<1>11. ASSUME NEW r \in Requests, GateReplays(r) PROVE Heard'
  BY <1>11, ConfirmAssumption, MovedIsCopy DEF GateReplays
<1>12. ASSUME NEW r \in Requests, GateRefuses(r) PROVE Heard'
  BY <1>12, ConfirmAssumption, MovedIsCopy DEF GateRefuses
<1>13. ASSUME NEW r \in Requests, Revise(r) PROVE Heard'
  BY <1>13, ConfirmAssumption, MovedIsCopy DEF Revise
<1>14. ASSUME NEW r \in Requests, ReviseFails(r) PROVE Heard'
  BY <1>14, ConfirmAssumption, MovedIsCopy DEF ReviseFails
<1>15. ASSUME NEW r \in Requests, Start(r) PROVE Heard'
  BY <1>15, ConfirmAssumption, MovedIsCopy DEF Start, Notes
<1>16. ASSUME NEW r \in Requests, TeamBDone(r) PROVE Heard'
  BY <1>16, ConfirmAssumption, MovedIsCopy DEF TeamBDone
<1>17. ASSUME NEW r \in Requests, TeamBRaises(r) PROVE Heard'
  BY <1>17, ConfirmAssumption, MovedIsCopy DEF TeamBRaises
<1>18. ASSUME NEW r \in Requests, Check(r) PROVE Heard'
  BY <1>18, ConfirmAssumption, MovedIsCopy DEF Check
<1>19. ASSUME NEW r \in Requests, AfterFailure(r) PROVE Heard'
  BY <1>19, ConfirmAssumption, MovedIsCopy DEF AfterFailure
<1>20. ASSUME NEW r \in Requests, MarkLoad(r) PROVE Heard'
  BY <1>20, ConfirmAssumption, MovedIsCopy DEF MarkLoad
<1>21. ASSUME NEW r \in Requests, MarkSave(r) PROVE Heard'
  BY <1>21, ConfirmAssumption, MovedIsCopy DEF MarkSave, AfterMark, Notes
<1>22. ASSUME NEW r \in Requests, StoreRam(r) PROVE Heard'
  <2> SUFFICES ASSUME Respected' PROVE Heard'
    BY DEF Heard
  <2>1. Respected /\ mine[r] \in Copy /\ ram \in Copy /\ ram' = mine[r]
    BY <1>22 DEF StoreRam, Notes
  <2>2. CASE op[r] = "edit"
    <3>1. ram' = ram
      BY <1>22, <2>1, <2>2 DEF StoreRam, Notes, Overwrites
    <3> QED
      BY <1>22, <2>1, <2>2, <3>1 DEF StoreRam
  <2>3. CASE op[r] = "cancel"
    BY <1>22, <2>1, <2>3 DEF StoreRam
  <2>4. CASE op[r] \notin {"edit", "cancel"}
    <3>1. \A q \in Requests : pc[q] \notin {"packing", "packed"}
      BY <1>22, <2>4 DEF StoreRam
    <3> QED
      BY <1>22, <2>1, <2>4, <3>1 DEF StoreRam
  <2> QED
    BY <2>2, <2>3, <2>4
<1>23. ASSUME NEW r \in Requests, StoreDisk(r) PROVE Heard'
  BY <1>23, ConfirmAssumption, MovedIsCopy DEF StoreDisk, AfterStore, Notes
<1>24. ASSUME NEW r \in Requests, StoreRefused(r) PROVE Heard'
  BY <1>24, ConfirmAssumption, MovedIsCopy DEF StoreRefused
<1>25. ASSUME NEW r \in Requests, Echo(r) PROVE Heard'
  BY <1>25, ConfirmAssumption, MovedIsCopy DEF Echo, Notes
<1>26. ASSUME Restart PROVE Heard'
  BY <1>26, ConfirmAssumption, MovedIsCopy DEF Restart
<1>27. CASE UNCHANGED vars
  BY <1>27 DEF vars
<1>28. ASSUME NEW r \in Requests, MarkRefused(r) PROVE Heard'
  BY <1>28, ConfirmAssumption, MovedIsCopy DEF MarkRefused, AfterMark, Refused
<1>29. ASSUME NEW r \in Requests, StoreSwallowed(r) PROVE Heard'
  BY <1>29, ConfirmAssumption, MovedIsCopy DEF StoreSwallowed, AfterStore, Refused
<1> QED
  BY <1>1, <1>2, <1>3, <1>4, <1>5, <1>6, <1>7, <1>8, <1>9, <1>10, <1>11, <1>12, <1>13, <1>14, <1>15, <1>16, <1>17, <1>18, <1>19, <1>20, <1>21, <1>22, <1>23, <1>24, <1>25, <1>26, <1>27, <1>28, <1>29 DEF Next, Step, LockStep, GateStep, TeamBStep, StoreStep

LEMMA InitOnce == Init => Once
BY ConfirmAssumption DEF Init, Once, Spent, Plans, Carries

LEMMA NextOnce == Typed /\ Locked /\ Cancelling /\ CutOff /\ Once /\ [Next]_vars => Once'
<1> SUFFICES ASSUME Typed, Locked, Cancelling, CutOff, Once, [Next]_vars PROVE Once'
  OBVIOUS
<1> USE DEF Typed, TypeOK, Shape, Carries, Locked, Guarded, Unlocked, Cancelling, Once, Clean, Spent,
            Respected, Goes, Keeps, Loads, Says, copies, lock, locals, budget, history
<1>1. ASSUME NEW r \in Requests, NEW o \in Asks(r), Arrive(r, o) PROVE Once'
  BY <1>1, ConfirmAssumption, MovedIsCopy DEF Arrive
<1>2. ASSUME NEW r \in Requests, Fill(r) PROVE Once'
  BY <1>2, ConfirmAssumption, MovedIsCopy DEF Fill, Notes
<1>3. ASSUME NEW r \in Requests, ReadUnlocked(r) PROVE Once'
  BY <1>3, ConfirmAssumption, MovedIsCopy DEF ReadUnlocked, Phases
<1>4. ASSUME NEW r \in Requests, TakeLock(r) PROVE Once'
  BY <1>4, ConfirmAssumption, MovedIsCopy DEF TakeLock
<1>5. ASSUME NEW r \in Requests, Queue(r) PROVE Once'
  BY <1>5, ConfirmAssumption, MovedIsCopy DEF Queue
<1>6. ASSUME NEW r \in Requests, TurnAway(r) PROVE Once'
  BY <1>6, ConfirmAssumption, MovedIsCopy DEF TurnAway
<1>7. ASSUME NEW r \in Requests, TakeTurn(r) PROVE Once'
  BY <1>7, ConfirmAssumption, MovedIsCopy DEF TakeTurn
<1>8. ASSUME NEW r \in Requests, GiveUp(r) PROVE Once'
  BY <1>8, ConfirmAssumption, MovedIsCopy DEF GiveUp
<1>9. ASSUME NEW r \in Requests, Leave(r) PROVE Once'
  BY <1>9, ConfirmAssumption, MovedIsCopy DEF Leave
<1>10. ASSUME NEW r \in Requests, GatePasses(r) PROVE Once'
  BY <1>10, ConfirmAssumption, MovedIsCopy DEF GatePasses
<1>11. ASSUME NEW r \in Requests, GateReplays(r) PROVE Once'
  BY <1>11, ConfirmAssumption, MovedIsCopy DEF GateReplays
<1>12. ASSUME NEW r \in Requests, GateRefuses(r) PROVE Once'
  BY <1>12, ConfirmAssumption, MovedIsCopy DEF GateRefuses
<1>13. ASSUME NEW r \in Requests, Revise(r) PROVE Once'
  BY <1>13, ConfirmAssumption, MovedIsCopy DEF Revise, Save, Refused, Copy, Plans, Phases
<1>14. ASSUME NEW r \in Requests, ReviseFails(r) PROVE Once'
  BY <1>14, ConfirmAssumption, MovedIsCopy DEF ReviseFails
<1>15. ASSUME NEW r \in Requests, Start(r) PROVE Once'
  BY <1>15, ConfirmAssumption, MovedIsCopy DEF Start, Notes, Phases
<1>16. ASSUME NEW r \in Requests, TeamBDone(r) PROVE Once'
  <2> SUFFICES ASSUME Clean' PROVE Once'
    BY DEF Once
  <2>1. /\ Clean /\ faults' = faults /\ disk' = Moved(mine[r], "done")
        /\ packed' = [packed EXCEPT ![mine[r].plan] = packed[mine[r].plan] + 1]
        /\ UNCHANGED <<ram, mine, seen, op, outcome, newest>>
    BY <1>16 DEF TeamBDone, Save, Refused
  <2>2. mine[r] \in Copy /\ ram \in Copy /\ holder = r
    BY <1>16 DEF TeamBDone
  <2>5. mine[r].phase = "await" /\ mine[r].plan <= newest /\ mine[r].plan \in Plans
    BY <1>16, <2>2, ConfirmAssumption DEF TeamBDone, CutOff, Before, Dead, Copy
  <2>6. op[r] # "edit"
    BY <1>16 DEF TeamBDone
  <2>7. packed[mine[r].plan] = 0
    BY <1>16, <2>1, <2>5, <2>6 DEF TeamBDone
  <2>8. disk'.phase = "done"
    BY <2>1, <2>2, MovedIsCopy DEF Phases
  <2>3. \A q \in Requests : q # r /\ pc[q] \in Carries => op[q] \in {"cancel", "edit"}
    BY <1>16 DEF TeamBDone
  <2>4. \A q \in Requests : q # r => pc'[q] = pc[q]
    BY <1>16 DEF TeamBDone
  <2> QED
    BY <1>16, <2>1, <2>2, <2>3, <2>4, <2>5, <2>6, <2>7, <2>8, ConfirmAssumption DEF TeamBDone, Copy, Plans
<1>17. ASSUME NEW r \in Requests, TeamBRaises(r) PROVE Once'
  BY <1>17, ConfirmAssumption, MovedIsCopy DEF TeamBRaises
<1>18. ASSUME NEW r \in Requests, Check(r) PROVE Once'
  BY <1>18, ConfirmAssumption, MovedIsCopy DEF Check, Phases, CutOff, Before
<1>19. ASSUME NEW r \in Requests, AfterFailure(r) PROVE Once'
  BY <1>19, ConfirmAssumption, MovedIsCopy DEF AfterFailure
<1>20. ASSUME NEW r \in Requests, MarkLoad(r) PROVE Once'
  BY <1>20, ConfirmAssumption, MovedIsCopy DEF MarkLoad
<1>21. ASSUME NEW r \in Requests, MarkSave(r) PROVE Once'
  BY <1>21, ConfirmAssumption, MovedIsCopy DEF MarkSave, AfterMark, Marked, Save, Refused, Notes, Phases
<1>22. ASSUME NEW r \in Requests, StoreRam(r) PROVE Once'
  <2> SUFFICES ASSUME Clean' PROVE Once'
    BY DEF Once
  <2>1. Clean /\ mine[r] \in Copy /\ ram \in Copy /\ ram' = mine[r]
    BY <1>22 DEF StoreRam, Notes
  <2>2. CASE op[r] = "edit"
    <3>1. ram' = ram
      BY <1>22, <2>1, <2>2 DEF StoreRam, Notes, Overwrites
    <3> QED
      BY <1>22, <2>1, <2>2, <3>1, ConfirmAssumption DEF StoreRam
  <2>3. CASE op[r] = "cancel"
    BY <1>22, <2>1, <2>3, ConfirmAssumption DEF StoreRam
  <2>4. CASE op[r] \notin {"edit", "cancel"}
    <3>1. \A q \in Requests : q # r => pc[q] \notin {"packing", "packed"}
      BY <1>22, <2>4 DEF StoreRam
    <3> QED
      BY <1>22, <2>1, <2>4, <3>1, ConfirmAssumption DEF StoreRam
  <2> QED
    BY <2>2, <2>3, <2>4
<1>23. ASSUME NEW r \in Requests, StoreDisk(r) PROVE Once'
  <2> SUFFICES ASSUME Clean' PROVE Once'
    BY DEF Once
  <2>1. /\ Clean /\ mine[r] \in Copy /\ ram \in Copy /\ disk' = mine[r] /\ ram' = ram
        /\ UNCHANGED <<packed, seen, op, newest>>
    BY <1>23 DEF StoreDisk, Save, Notes
  <2>2. Spent(disk)'
    BY <1>23, <2>1 DEF StoreDisk, Notes, Overwrites
  <2>3. /\ pc' = [pc EXCEPT ![r] = AfterStore(r)]
        /\ AfterStore(r) \in {"over", "loading", "leaving"}
        /\ AfterStore(r) = "loading" => mine' = mine
    BY <1>23 DEF StoreDisk, AfterStore
  <2>4. \A q \in Requests : q # r => mine'[q] = mine[q] /\ pc'[q] = pc[q]
    BY <1>23 DEF StoreDisk
  <2> QED
    BY <1>23, <2>1, <2>2, <2>3, <2>4, ConfirmAssumption DEF StoreDisk
<1>24. ASSUME NEW r \in Requests, StoreRefused(r) PROVE Once'
  BY <1>24, ConfirmAssumption, MovedIsCopy DEF StoreRefused, Refused
<1>25. ASSUME NEW r \in Requests, Echo(r) PROVE Once'
  BY <1>25, ConfirmAssumption, MovedIsCopy DEF Echo, Notes
<1>26. ASSUME Restart PROVE Once'
  BY <1>26, ConfirmAssumption, MovedIsCopy DEF Restart, Phases
<1>27. CASE UNCHANGED vars
  BY <1>27 DEF vars
<1>28. ASSUME NEW r \in Requests, MarkRefused(r) PROVE Once'
  BY <1>28, ConfirmAssumption, MovedIsCopy DEF MarkRefused, AfterMark, Refused
<1>29. ASSUME NEW r \in Requests, StoreSwallowed(r) PROVE Once'
  BY <1>29, ConfirmAssumption, MovedIsCopy DEF StoreSwallowed, AfterStore, Refused
<1> QED
  BY <1>1, <1>2, <1>3, <1>4, <1>5, <1>6, <1>7, <1>8, <1>9, <1>10, <1>11, <1>12, <1>13, <1>14, <1>15, <1>16, <1>17, <1>18, <1>19, <1>20, <1>21, <1>22, <1>23, <1>24, <1>25, <1>26, <1>27, <1>28, <1>29 DEF Next, Step, LockStep, GateStep, TeamBStep, StoreStep

(* Neither a double click nor a retry packs a shipment twice, unless a save  *)
(* failed or an endpoint put back a copy it had read earlier.                *)
THEOREM PackedOnceHolds == Spec => []PackedOnce
<1>1. Typed /\ Once => PackedOnce
  BY DEF Typed, TypeOK, Once, Clean, Respected, PackedOnce
<1> QED
  BY InitTyped, NextTyped, InitLocked, NextLocked, InitCancelling, NextCancelling, InitCutOff,
     NextCutOff, InitOnce, NextOnce, <1>1, PTL DEF Spec

(* A cancel that lands while Team B runs wins over its result.               *)
THEOREM CancelWinsHolds == Spec => []CancelWins
<1>1. Heard => CancelWins
  BY DEF Heard, Respected, CancelWins
<1> QED
  BY InitTyped, NextTyped, InitLocked, NextLocked, InitCancelling, NextCancelling, InitHeard,
     NextHeard, <1>1, PTL DEF Spec

-----------------------------------------------------------------------------
(* The runs that a crash cut.  As long as no save failed and no copy was put *)
(* back, a request that came through a confirm door has taken the disk out   *)
(* of await before Team B starts, nobody writes await until the answer, and  *)
(* so a crash leaves no copy of its plan that the gate would let through.    *)
CutPlans == {p \in Plans : \E door \in Confirming : <<p, door>> \in cut}

Gone(c) == c # None /\ c.plan \in CutPlans => c.phase \in {"done", "interrupted", "cancelled"}

CutBefore == CutPlans \subseteq 1 .. newest

CutMarked ==
    Clean =>
        /\ Gone(ram) /\ Gone(disk)
        /\ \A r \in Requests :
             /\ Gone(mine[r]) /\ Gone(seen[r])
             /\ pc[r] \in {"starting", "packing", "packed"} /\ op[r] \in Confirming
                   => disk.phase # "await"

LEMMA InitCutMarked == Init => CutBefore /\ CutMarked
BY DEF Init, CutBefore, CutMarked, Gone, CutPlans

LEMMA SameCutPlans == UNCHANGED cut => CutPlans' = CutPlans
BY DEF CutPlans

LEMMA NextCutBefore == Typed /\ CutOff /\ CutBefore /\ [Next]_vars => CutBefore'
<1> SUFFICES ASSUME Typed, CutOff, CutBefore, [Next]_vars PROVE CutBefore'
  OBVIOUS
<1>1. newest \in Nat
  BY DEF Typed, TypeOK, Plans
<1>2. ASSUME NEW r \in Requests, Revise(r) PROVE CutBefore'
  <2>1. newest' = newest + 1 /\ CutPlans' = CutPlans
    BY <1>2, SameCutPlans DEF Revise, history
  <2> QED
    BY <1>1, <2>1 DEF CutBefore
<1>3. CASE Restart
  <2>1. newest' = newest /\ cut' = cut \cup AtWork
    BY <1>3 DEF Restart
  <2>2. ASSUME NEW r \in Requests, pc[r] \in {"packing", "packed"}
        PROVE  mine[r].plan \in 1 .. newest
    BY <2>2, ConfirmAssumption DEF CutOff, Dead, Typed, TypeOK, Shape, Carries, Copy, Plans
  <2>3. \A p \in CutPlans' : p \in CutPlans \/ \E r \in Requests :
            pc[r] \in {"packing", "packed"} /\ p = mine[r].plan
    BY <2>1 DEF CutPlans, AtWork
  <2> QED
    BY <2>1, <2>2, <2>3 DEF CutBefore
<1>4. CASE UNCHANGED <<newest, cut>>
  BY <1>4, SameCutPlans DEF CutBefore
<1>5. \/ \E r \in Requests : Revise(r)
      \/ Restart
      \/ UNCHANGED <<newest, cut>>
  BY DEF Next, Step, LockStep, GateStep, TeamBStep, StoreStep, vars, history, budget, Arrive, Fill,
         ReadUnlocked, TakeLock, Queue, TurnAway, TakeTurn, GiveUp, Leave, GatePasses,
         GateReplays, GateRefuses, ReviseFails, Start, TeamBDone, TeamBRaises, Check, AfterFailure,
         MarkLoad, MarkSave, MarkRefused, StoreRam, StoreDisk, StoreSwallowed, StoreRefused, Echo
<1> QED
  BY <1>2, <1>3, <1>4, <1>5

LEMMA NextCutMarked == Typed /\ Locked /\ Cancelling /\ CutOff /\ CutBefore /\ CutMarked /\ [Next]_vars => CutMarked'
<1> SUFFICES ASSUME Typed, Locked, Cancelling, CutOff, CutBefore, CutMarked, [Next]_vars PROVE CutMarked'
  OBVIOUS
<1> USE DEF Typed, TypeOK, Shape, Carries, Locked, Guarded, Unlocked, Cancelling, CutMarked, Gone,
            Clean, Respected, Goes, Keeps, Loads, Says, copies, lock, locals, budget, history
<1>1. ASSUME NEW r \in Requests, NEW o \in Asks(r), Arrive(r, o) PROVE CutMarked'
  BY <1>1, ConfirmAssumption, MovedIsCopy, SameCutPlans DEF Arrive
<1>2. ASSUME NEW r \in Requests, Fill(r) PROVE CutMarked'
  BY <1>2, ConfirmAssumption, MovedIsCopy, SameCutPlans DEF Fill, Notes
<1>3. ASSUME NEW r \in Requests, ReadUnlocked(r) PROVE CutMarked'
  BY <1>3, ConfirmAssumption, MovedIsCopy, SameCutPlans DEF ReadUnlocked, Phases
<1>4. ASSUME NEW r \in Requests, TakeLock(r) PROVE CutMarked'
  BY <1>4, ConfirmAssumption, MovedIsCopy, SameCutPlans DEF TakeLock
<1>5. ASSUME NEW r \in Requests, Queue(r) PROVE CutMarked'
  BY <1>5, ConfirmAssumption, MovedIsCopy, SameCutPlans DEF Queue
<1>6. ASSUME NEW r \in Requests, TurnAway(r) PROVE CutMarked'
  BY <1>6, ConfirmAssumption, MovedIsCopy, SameCutPlans DEF TurnAway
<1>7. ASSUME NEW r \in Requests, TakeTurn(r) PROVE CutMarked'
  BY <1>7, ConfirmAssumption, MovedIsCopy, SameCutPlans DEF TakeTurn
<1>8. ASSUME NEW r \in Requests, GiveUp(r) PROVE CutMarked'
  BY <1>8, ConfirmAssumption, MovedIsCopy, SameCutPlans DEF GiveUp
<1>9. ASSUME NEW r \in Requests, Leave(r) PROVE CutMarked'
  BY <1>9, ConfirmAssumption, MovedIsCopy, SameCutPlans DEF Leave
<1>10. ASSUME NEW r \in Requests, GatePasses(r) PROVE CutMarked'
  BY <1>10, ConfirmAssumption, MovedIsCopy, SameCutPlans DEF GatePasses, Packing, Confirming, CutOff, Before
<1>11. ASSUME NEW r \in Requests, GateReplays(r) PROVE CutMarked'
  BY <1>11, ConfirmAssumption, MovedIsCopy, SameCutPlans DEF GateReplays
<1>12. ASSUME NEW r \in Requests, GateRefuses(r) PROVE CutMarked'
  BY <1>12, ConfirmAssumption, MovedIsCopy, SameCutPlans DEF GateRefuses
<1>13. ASSUME NEW r \in Requests, Revise(r) PROVE CutMarked'
  <2> DEFINE plan == [phase |-> "await", plan |-> newest + 1]
  <2>1. /\ newest' = newest + 1 /\ newest \in Nat /\ UNCHANGED <<cut, ram, seen, op>>
        /\ mine' = [mine EXCEPT ![r] = plan] /\ disk' \in {disk, plan} /\ plan \in Copy
    BY <1>13, ConfirmAssumption DEF Revise, Save, Refused, Plans, Copy, Phases
  <2>2. newest + 1 \notin CutPlans /\ CutPlans' = CutPlans
    BY <2>1, SameCutPlans DEF CutBefore
  <2>3. \A q \in Requests : pc'[q] \notin {"starting", "packing", "packed"}
    BY <1>13 DEF Revise
  <2>4. plan.plan \notin CutPlans
    BY <2>2
  <2>5. Clean' => Clean
    BY <1>13, ConfirmAssumption DEF Revise, Save, Refused
  <2> HIDE DEF plan
  <2>6. ASSUME Clean PROVE Gone(ram)' /\ Gone(disk)'
    BY <2>1, <2>2, <2>4, <2>6
  <2>7. ASSUME Clean, NEW q \in Requests PROVE Gone(mine[q])' /\ Gone(seen[q])'
    BY <2>1, <2>2, <2>4, <2>7
  <2> QED
    BY <2>3, <2>5, <2>6, <2>7
<1>14. ASSUME NEW r \in Requests, ReviseFails(r) PROVE CutMarked'
  BY <1>14, ConfirmAssumption, MovedIsCopy, SameCutPlans DEF ReviseFails
<1>15. ASSUME NEW r \in Requests, Start(r) PROVE CutMarked'
  BY <1>15, ConfirmAssumption, MovedIsCopy, SameCutPlans DEF Start, Notes, Phases, CutOff, Before
<1>16. ASSUME NEW r \in Requests, TeamBDone(r) PROVE CutMarked'
  BY <1>16, ConfirmAssumption, MovedIsCopy, SameCutPlans DEF TeamBDone, Save, Refused, Phases, CutOff, Before
<1>17. ASSUME NEW r \in Requests, TeamBRaises(r) PROVE CutMarked'
  BY <1>17, ConfirmAssumption, MovedIsCopy, SameCutPlans DEF TeamBRaises
<1>18. ASSUME NEW r \in Requests, Check(r) PROVE CutMarked'
  BY <1>18, ConfirmAssumption, MovedIsCopy, SameCutPlans DEF Check, Phases, CutOff, Before
<1>19. ASSUME NEW r \in Requests, AfterFailure(r) PROVE CutMarked'
  BY <1>19, ConfirmAssumption, MovedIsCopy, SameCutPlans DEF AfterFailure
<1>20. ASSUME NEW r \in Requests, MarkLoad(r) PROVE CutMarked'
  BY <1>20, ConfirmAssumption, MovedIsCopy, SameCutPlans DEF MarkLoad
<1>21. ASSUME NEW r \in Requests, MarkSave(r) PROVE CutMarked'
  <2> DEFINE copy == Marked(r)
  <2>1. /\ disk' = copy /\ faults' = faults /\ putBack \subseteq putBack'
        /\ seen' = [seen EXCEPT ![r] = None]
        /\ UNCHANGED <<ram, mine, op, newest>> /\ CutPlans' = CutPlans
    BY <1>21, SameCutPlans DEF MarkSave, Save, Notes
  <2>2. Clean' => Clean
    BY <2>1
  <2>3. seen[r] \in Copy
    BY <1>21 DEF MarkSave
  <2>4. copy \in {seen[r], Moved(seen[r], "cancelled"), Moved(seen[r], "running")}
    BY DEF Marked
  <2>5. copy.plan = seen[r].plan
    BY <2>3, <2>4, MovedIsCopy DEF Phases
  <2>6. outcome[r] # "packed" => copy.phase # "await"
    BY <1>21, <2>3, MovedIsCopy DEF MarkSave, Marked, Phases
  <2>7. copy = seen[r] \/ copy.phase = "cancelled" \/ seen[r].phase = "await"
    BY <2>3, MovedIsCopy DEF Marked, Phases
  <2>8. \A q \in Requests : pc'[q] \in {"starting", "packing", "packed"} => outcome[r] # "packed"
    BY <1>21 DEF MarkSave, AfterMark
  <2> HIDE DEF copy
  <2>9. ASSUME Clean PROVE Gone(ram)' /\ Gone(disk)'
    BY <2>1, <2>3, <2>5, <2>7, <2>9, ConfirmAssumption
  <2>10. ASSUME Clean, NEW q \in Requests PROVE Gone(mine[q])' /\ Gone(seen[q])'
    BY <2>1, <2>10
  <2>11. ASSUME NEW q \in Requests, pc'[q] \in {"starting", "packing", "packed"}
         PROVE  disk'.phase # "await"
    BY <2>1, <2>6, <2>8, <2>11
  <2> QED
    BY <2>2, <2>9, <2>10, <2>11
<1>22. ASSUME NEW r \in Requests, StoreRam(r) PROVE CutMarked'
  <2>1. /\ ram' = mine[r] /\ faults' = faults /\ putBack \subseteq putBack'
        /\ UNCHANGED <<disk, mine, seen, op>> /\ CutPlans' = CutPlans
    BY <1>22, SameCutPlans DEF StoreRam, Notes
  <2>2. Clean' => Clean
    BY <2>1
  <2>3. \A q \in Requests : pc'[q] \in {"starting", "packing", "packed"} => pc'[q] = pc[q]
    BY <1>22 DEF StoreRam
  <2>4. ASSUME Clean PROVE Gone(ram)' /\ Gone(disk)'
    BY <2>1, <2>4
  <2>5. ASSUME Clean, NEW q \in Requests
        PROVE  /\ Gone(mine[q])' /\ Gone(seen[q])'
               /\ pc'[q] \in {"starting", "packing", "packed"} /\ op'[q] \in Confirming
                     => disk'.phase # "await"
    BY <2>1, <2>3, <2>5
  <2> QED
    BY <2>2, <2>4, <2>5
<1>23. ASSUME NEW r \in Requests, StoreDisk(r) PROVE CutMarked'
  <2> SUFFICES ASSUME Clean' PROVE CutMarked'
    BY <1>23, SameCutPlans DEF StoreDisk
  <2>1. /\ Clean /\ mine[r] \in Copy /\ disk' = mine[r]
        /\ UNCHANGED <<cut, ram, seen, op, newest>>
    BY <1>23 DEF StoreDisk, Save, Notes
  <2>6. CutPlans' = CutPlans
    BY <2>1, SameCutPlans
  <2>2. \A q \in Requests : mine'[q] \in {mine[q], None}
    BY <1>23 DEF StoreDisk
  <2>3. CASE op[r] = "edit"
    <3>1. disk' = disk
      BY <1>23, <2>1, <2>3 DEF StoreDisk, Notes, Overwrites
    <3> QED
      BY <1>23, <2>1, <2>2, <2>6, <3>1 DEF StoreDisk, AfterStore
  <2>4. CASE op[r] = "cancel"
    BY <1>23, <2>1, <2>2, <2>4, <2>6 DEF StoreDisk, AfterStore
  <2>5. CASE op[r] \notin {"edit", "cancel"}
    <3>1. \A q \in Requests : pc'[q] \notin {"starting", "packing", "packed"}
      BY <1>23, <2>5 DEF StoreDisk, AfterStore
    <3> QED
      BY <1>23, <2>1, <2>2, <2>6, <3>1 DEF StoreDisk
  <2> QED
    BY <2>3, <2>4, <2>5
<1>24. ASSUME NEW r \in Requests, StoreRefused(r) PROVE CutMarked'
  BY <1>24, ConfirmAssumption, MovedIsCopy, SameCutPlans DEF StoreRefused, Refused
<1>25. ASSUME NEW r \in Requests, Echo(r) PROVE CutMarked'
  BY <1>25, ConfirmAssumption, MovedIsCopy, SameCutPlans DEF Echo, Notes
<1>26. ASSUME Restart PROVE CutMarked'
  <2> DEFINE marked == {mine[r].plan : r \in {q \in Requests :
                           pc[q] \in {"packing", "packed"} /\ op[q] \in Confirming}}
  <2>1. /\ ram' = None /\ newest' = newest /\ cut' = cut \cup AtWork
        /\ disk' = IF disk.phase = "running" THEN Moved(disk, "interrupted") ELSE disk
        /\ \A r \in Requests : mine'[r] = None /\ seen'[r] = None
        /\ \A r \in Requests : pc'[r] \in {"idle", "over"}
        /\ UNCHANGED <<faults, putBack>>
    BY <1>26 DEF Restart
  <2>2. CutPlans' \subseteq CutPlans \cup marked
    BY <2>1 DEF CutPlans, AtWork
  <2>4. Clean /\ marked # {} => disk.phase # "await"
    OBVIOUS
  <2> HIDE DEF marked
  <2>5. disk' \in Copy /\ disk'.plan = disk.plan /\ disk'.phase # "running"
        /\ disk'.phase \in {disk.phase, "interrupted"}
    BY <2>1, MovedIsCopy DEF Phases
  <2>6. ASSUME Clean, disk'.plan \in CutPlans'
        PROVE  disk'.phase \in {"done", "interrupted", "cancelled"}
    <3>1. disk.plan \in CutPlans \/ disk.phase # "await"
      BY <2>2, <2>4, <2>5, <2>6
    <3> QED
      BY <2>5, <2>6, <3>1, ConfirmAssumption DEF Copy, Phases
  <2> QED
    BY <2>1, <2>6
<1>27. CASE UNCHANGED vars
  BY <1>27, SameCutPlans DEF vars
<1>28. ASSUME NEW r \in Requests, MarkRefused(r) PROVE CutMarked'
  BY <1>28, ConfirmAssumption, SameCutPlans DEF MarkRefused, Refused
<1>29. ASSUME NEW r \in Requests, StoreSwallowed(r) PROVE CutMarked'
  BY <1>29, ConfirmAssumption, SameCutPlans DEF StoreSwallowed, Refused
<1> QED
  BY <1>1, <1>2, <1>3, <1>4, <1>5, <1>6, <1>7, <1>8, <1>9, <1>10, <1>11, <1>12, <1>13, <1>14, <1>15, <1>16, <1>17, <1>18, <1>19, <1>20, <1>21, <1>22, <1>23, <1>24, <1>25, <1>26, <1>27, <1>28, <1>29 DEF Next, Step, LockStep, GateStep, TeamBStep, StoreStep

(* A plan that the sweep marked is never packed, and neither is one whose    *)
(* run through a confirm door a crash cut, in however many requests, plans   *)
(* and crashes; only a mark that was not saved, or a copy that was put back  *)
(* over it, lets the second in.  Of runs through the resume door it says     *)
(* nothing: they are not marked.                                             *)
THEOREM InterruptedStaysHolds == Spec => InterruptedStays
<1> DEFINE Packs(p) == /\ p \notin swept
                       /\ \A door \in Confirming : <<p, door>> \in cut =>
                             faults > 0 \/ putBack \cap {"load", "edit"} # {}
<1>1. Typed /\ CutOff /\ CutMarked /\ [Next]_vars
         => [\A p \in Plans : packed'[p] # packed[p] => Packs(p)]_vars
  <2> SUFFICES ASSUME Typed, CutOff, CutMarked, [Next]_vars, NEW p \in Plans, packed'[p] # packed[p]
               PROVE  Packs(p)
    BY DEF Packs
  <2>1. PICK r \in Requests : TeamBDone(r)
    BY DEF Next, Step, LockStep, GateStep, TeamBStep, StoreStep, vars, history, Arrive, Fill,
           ReadUnlocked, TakeLock, Queue, TurnAway, TakeTurn, GiveUp, Leave, GatePasses,
           GateReplays, GateRefuses, Revise, ReviseFails, Start, TeamBRaises, Check, AfterFailure,
           MarkLoad, MarkSave, MarkRefused, StoreRam, StoreDisk, StoreSwallowed, StoreRefused,
           Echo, Restart
  <2>2. mine[r].plan = p /\ mine[r] # None /\ mine[r].phase = "await"
    BY <2>1, ConfirmAssumption DEF TeamBDone, Goes, Typed, TypeOK, Shape, Carries, CutOff, Before
  <2>3. p \notin swept
    BY <2>2 DEF CutOff, Dead
  <2>4. Clean => p \notin CutPlans
    BY <2>2 DEF CutMarked, Gone
  <2>5. ~Clean => faults > 0 \/ putBack \cap {"load", "edit"} # {}
    BY ConfirmAssumption DEF Clean, Respected, Typed, TypeOK
  <2> QED
    BY <2>3, <2>4, <2>5 DEF CutPlans
<1> QED
  BY InitTyped, NextTyped, InitLocked, NextLocked, InitCancelling, NextCancelling, InitCutOff,
     NextCutOff, InitCutMarked, NextCutBefore, NextCutMarked, <1>1, PTL DEF Spec, InterruptedStays

-----------------------------------------------------------------------------
(* A session that memory calls running is in the hands of the request that   *)
(* holds the lock, and that request takes the word back; before the first    *)
(* request after a restart, the sweep has left no running copy on disk.      *)
AtWorkOn(r) == /\ pc[r] \in {"packing", "packed", "failed", "storing"}
               /\ op[r] \notin Unlocked

InHand ==
    /\ ram = None => disk.phase # "running"
    /\ ram = None => \A r \in Requests : pc[r] = "filling" => seen[r] = disk
    /\ \A r \in Requests : pc[r] \in Carries /\ op[r] # "edit" => mine[r].phase # "running"
    /\ Respected /\ ram # None /\ ram.phase = "running" => \E r \in Requests : AtWorkOn(r)

LEMMA InitInHand == Init => InHand
BY ConfirmAssumption DEF Init, InHand, Carries

LEMMA NextInHand == Typed /\ Locked /\ Cancelling /\ InHand /\ [Next]_vars => InHand'
<1> SUFFICES ASSUME Typed, Locked, Cancelling, InHand, [Next]_vars PROVE InHand'
  OBVIOUS
<1> USE DEF Typed, TypeOK, Shape, Carries, Locked, Guarded, Unlocked, InHand, AtWorkOn, Respected,
            Goes, Keeps, Loads, Says, copies, lock, locals, budget, history
<1>1. ASSUME NEW r \in Requests, NEW o \in Asks(r), Arrive(r, o) PROVE InHand'
  BY <1>1, ConfirmAssumption, MovedIsCopy DEF Arrive
<1>2. ASSUME NEW r \in Requests, Fill(r) PROVE InHand'
  BY <1>2, ConfirmAssumption, MovedIsCopy DEF Fill, Notes
<1>3. ASSUME NEW r \in Requests, ReadUnlocked(r) PROVE InHand'
  BY <1>3, ConfirmAssumption, MovedIsCopy DEF ReadUnlocked, Phases
<1>4. ASSUME NEW r \in Requests, TakeLock(r) PROVE InHand'
  BY <1>4, ConfirmAssumption, MovedIsCopy DEF TakeLock
<1>5. ASSUME NEW r \in Requests, Queue(r) PROVE InHand'
  BY <1>5, ConfirmAssumption, MovedIsCopy DEF Queue
<1>6. ASSUME NEW r \in Requests, TurnAway(r) PROVE InHand'
  BY <1>6, ConfirmAssumption, MovedIsCopy DEF TurnAway
<1>7. ASSUME NEW r \in Requests, TakeTurn(r) PROVE InHand'
  BY <1>7, ConfirmAssumption, MovedIsCopy DEF TakeTurn
<1>8. ASSUME NEW r \in Requests, GiveUp(r) PROVE InHand'
  BY <1>8, ConfirmAssumption, MovedIsCopy DEF GiveUp
<1>9. ASSUME NEW r \in Requests, Leave(r) PROVE InHand'
  BY <1>9, ConfirmAssumption, MovedIsCopy DEF Leave
<1>10. ASSUME NEW r \in Requests, GatePasses(r) PROVE InHand'
  BY <1>10, ConfirmAssumption, MovedIsCopy DEF GatePasses
<1>11. ASSUME NEW r \in Requests, GateReplays(r) PROVE InHand'
  BY <1>11, ConfirmAssumption, MovedIsCopy DEF GateReplays
<1>12. ASSUME NEW r \in Requests, GateRefuses(r) PROVE InHand'
  BY <1>12, ConfirmAssumption, MovedIsCopy DEF GateRefuses
<1>13. ASSUME NEW r \in Requests, Revise(r) PROVE InHand'
  BY <1>13, ConfirmAssumption, MovedIsCopy DEF Revise
<1>14. ASSUME NEW r \in Requests, ReviseFails(r) PROVE InHand'
  BY <1>14, ConfirmAssumption, MovedIsCopy DEF ReviseFails
<1>15. ASSUME NEW r \in Requests, Start(r) PROVE InHand'
  <2>1. ram' # None /\ pc' = [pc EXCEPT ![r] = "packing"] /\ op' = op /\ op[r] \notin Unlocked
    BY <1>15, ConfirmAssumption, MovedIsCopy DEF Start, Phases, Cancelling
  <2> QED
    BY <1>15, <2>1 DEF Start
<1>16. ASSUME NEW r \in Requests, TeamBDone(r) PROVE InHand'
  BY <1>16, ConfirmAssumption, MovedIsCopy DEF TeamBDone
<1>17. ASSUME NEW r \in Requests, TeamBRaises(r) PROVE InHand'
  BY <1>17, ConfirmAssumption, MovedIsCopy DEF TeamBRaises
<1>18. ASSUME NEW r \in Requests, Check(r) PROVE InHand'
  BY <1>18, ConfirmAssumption, MovedIsCopy DEF Check, Phases
<1>19. ASSUME NEW r \in Requests, AfterFailure(r) PROVE InHand'
  BY <1>19, ConfirmAssumption, MovedIsCopy DEF AfterFailure
<1>20. ASSUME NEW r \in Requests, MarkLoad(r) PROVE InHand'
  BY <1>20, ConfirmAssumption, MovedIsCopy DEF MarkLoad
<1>21. ASSUME NEW r \in Requests, MarkSave(r) PROVE InHand'
  <2>1. /\ ram' = ram /\ ram # None /\ op' = op /\ mine' = mine
        /\ (Respected' => Respected)
        /\ pc[r] = "marking"
        /\ \E to \in {"echoing", "leaving", "starting"} : pc' = [pc EXCEPT ![r] = to]
        /\ \A q \in Requests : pc'[q] = "filling" => seen'[q] = seen[q]
    BY <1>21, ConfirmAssumption DEF MarkSave, AfterMark, Notes
  <2> QED
    BY <2>1
<1>22. ASSUME NEW r \in Requests, StoreRam(r) PROVE InHand'
  <2>1. /\ mine[r] \in Copy /\ ram' = mine[r] /\ ram' # None /\ ram # None
        /\ Respected' => Respected
        /\ pc[r] = "storing" /\ pc' = [pc EXCEPT ![r] = "saving"] /\ op' = op /\ mine' = mine
    BY <1>22, ConfirmAssumption DEF StoreRam, Notes
  <2>2. CASE op[r] = "edit"
    <3>1. Respected' => ram' = ram
      BY <1>22, <2>2 DEF StoreRam, Notes, Overwrites
    <3> QED
      BY <2>1, <2>2, <3>1
  <2>3. CASE op[r] # "edit"
    <3>1. ram'.phase # "running"
      BY <1>22, <2>1, <2>3 DEF StoreRam
    <3> QED
      BY <2>1, <3>1
  <2> QED
    BY <2>2, <2>3
<1>23. ASSUME NEW r \in Requests, StoreDisk(r) PROVE InHand'
  BY <1>23, ConfirmAssumption, MovedIsCopy DEF StoreDisk, AfterStore, Notes
<1>24. ASSUME NEW r \in Requests, StoreRefused(r) PROVE InHand'
  BY <1>24, ConfirmAssumption, MovedIsCopy DEF StoreRefused
<1>25. ASSUME NEW r \in Requests, Echo(r) PROVE InHand'
  <2>1. ram' # None /\ ram'.phase # "running"
    BY <1>25, ConfirmAssumption DEF Echo, Cancelling
  <2> QED
    BY <1>25, <2>1 DEF Echo
<1>26. ASSUME Restart PROVE InHand'
  BY <1>26, ConfirmAssumption, MovedIsCopy DEF Restart, Phases
<1>27. CASE UNCHANGED vars
  BY <1>27 DEF vars
<1>28. ASSUME NEW r \in Requests, MarkRefused(r) PROVE InHand'
  BY <1>28, ConfirmAssumption, MovedIsCopy DEF MarkRefused, AfterMark, Refused
<1>29. ASSUME NEW r \in Requests, StoreSwallowed(r) PROVE InHand'
  BY <1>29, ConfirmAssumption, MovedIsCopy DEF StoreSwallowed, AfterStore, Refused
<1> QED
  BY <1>1, <1>2, <1>3, <1>4, <1>5, <1>6, <1>7, <1>8, <1>9, <1>10, <1>11, <1>12, <1>13, <1>14, <1>15, <1>16, <1>17, <1>18, <1>19, <1>20, <1>21, <1>22, <1>23, <1>24, <1>25, <1>26, <1>27, <1>28, <1>29 DEF Next, Step, LockStep, GateStep, TeamBStep, StoreStep

(* A session is not left running with nobody at work on it, whatever failed, *)
(* was cancelled or was refused, unless an endpoint put a running copy back. *)
THEOREM NotStuckHolds == Spec => []NotStuck
<1>1. Typed /\ InHand => NotStuck
  BY DEF InHand, AtWorkOn, Respected, NotStuck, Quiet, Current
<1> QED
  BY InitTyped, NextTyped, InitLocked, NextLocked, InitCancelling, NextCancelling, InitInHand,
     NextInHand, <1>1, PTL DEF Spec

-----------------------------------------------------------------------------
(* As long as no save failed and no older copy was put over a newer one      *)
(* every step is one of a clean history, and says so about what it stores.   *)
Pure == faults = 0 /\ putBack = {}

Worker(r) == pc[r] \in Carries /\ op[r] \notin Unlocked

LEMMA SameCopy ==
    ASSUME NEW c \in Copy, NEW d \in Copy, c.phase = d.phase, c.plan = d.plan
    PROVE  c = d
BY DEF Copy

(* A copy of the same or an older plan that is not behind one it replaces.   *)
LEMMA NotBehind ==
    ASSUME NEW c \in Copy, NEW d \in Copy, d # None, ~Behind(c, d), c.plan <= d.plan
    PROVE  c.plan = d.plan /\ (d.phase = "cancelled" => c = d)
<1>1. c.plan \in Nat /\ d.plan \in Nat /\ c.phase \in Phases
  BY DEF Copy, Plans
<1>2. c.plan = d.plan
  BY <1>1 DEF Behind
<1>3. ASSUME d.phase = "cancelled" PROVE c.phase = "cancelled"
  BY <1>1, <1>2, <1>3 DEF Behind, Rank, Phases
<1> QED
  BY <1>2, <1>3, SameCopy

LEMMA FillPure ==
    ASSUME Typed, InHand, NEW r \in Requests, Fill(r), Pure'
    PROVE  /\ Pure /\ UNCHANGED <<disk, mine, newest, op, outcome>>
           /\ pc[r] = "filling" /\ pc' = [pc EXCEPT ![r] = "door"]
           /\ \A q \in Requests : q # r => seen'[q] = seen[q]
           /\ ram' \in Copy /\ IF ram = None THEN ram' = disk ELSE ram' = ram
<1>1. /\ Pure /\ ram \in {None, seen[r]} /\ ram' = seen[r] /\ seen[r] \in Copy
  BY DEF Fill, Notes, Pure, Goes, Typed, Shape, budget
<1> QED
  BY <1>1, ConfirmAssumption DEF Fill, Goes, Loads, Typed, TypeOK, InHand, budget

LEMMA StartPure ==
    ASSUME Typed, Locked, Cancelling, NEW r \in Requests, Start(r), Pure'
    PROVE  /\ Pure /\ UNCHANGED <<disk, mine, seen, newest, op, outcome>>
           /\ pc[r] = "starting" /\ pc' = [pc EXCEPT ![r] = "packing"]
           /\ Worker(r) /\ ram \in Copy /\ ram # None
           /\ ram' \in Copy /\ ram'.phase = "running" /\ ram'.plan = mine[r].plan /\ ~Behind(ram', ram)
<1>1. mine[r] \in Copy /\ ram \in Copy /\ pc[r] = "starting"
  BY DEF Start, Goes, Typed, Shape, Carries
<1> QED
  BY <1>1, MovedIsCopy, ConfirmAssumption
  DEF Start, Goes, Notes, Pure, Cancelling, Worker, Carries, locals, budget, Phases

LEMMA MarkPure ==
    ASSUME Typed, NEW r \in Requests, MarkSave(r), Pure'
    PROVE  /\ Pure /\ UNCHANGED <<ram, mine, newest, op, outcome>> /\ disk \in Copy /\ disk # None
           /\ pc[r] = "marking" /\ pc' = [pc EXCEPT ![r] = AfterMark(r)]
           /\ AfterMark(r) \in {"echoing", "leaving", "starting"}
           /\ \A q \in Requests : q # r => seen'[q] = seen[q]
           /\ seen[r] \in Copy /\ Marked(r) \in Copy /\ Marked(r).plan = seen[r].plan
           /\ disk' = Marked(r) /\ ~Behind(Marked(r), disk)
<1>1. ~Refused
  BY DEF Refused, Pure, Typed, TypeOK
<1>2. seen[r] \in Copy /\ pc[r] = "marking" /\ disk \in Copy
  BY DEF MarkSave, Goes, Typed, TypeOK, Shape
<1>3. Marked(r) \in Copy /\ Marked(r).plan = seen[r].plan
  BY <1>2, MovedIsCopy DEF Marked, Phases
<1>4. AfterMark(r) \in {"echoing", "leaving", "starting"}
  BY DEF AfterMark
<1> QED
  BY <1>1, <1>2, <1>3, <1>4, ConfirmAssumption DEF MarkSave, Save, Notes, Goes, Loads, Pure, Typed, TypeOK

LEMMA StorePure ==
    ASSUME Typed, Cancelling, NEW r \in Requests, StoreRam(r), Pure'
    PROVE  /\ Pure /\ UNCHANGED <<disk, mine, seen, newest, op, outcome>>
           /\ pc[r] = "storing" /\ pc' = [pc EXCEPT ![r] = "saving"]
           /\ mine[r] \in Copy /\ ram \in Copy /\ ram # None /\ ram' = mine[r]
           /\ op[r] = "edit" => ram' = ram
           /\ op[r] = "cancel" => ~Behind(mine[r], ram)
           /\ op[r] \notin Unlocked => Worker(r)
<1>1. mine[r] \in Copy /\ ram \in Copy /\ pc[r] = "storing"
  BY DEF StoreRam, Goes, Typed, Shape, Carries
<1>2. Pure /\ ram' = mine[r] /\ ~Overwrites(r, ram)
  BY DEF StoreRam, Notes, Pure, budget
<1>3. op[r] = "cancel" => outcome[r] = "none"
  BY <1>1 DEF Cancelling, Carries
<1>4. /\ op[r] = "edit" => ram' = ram
      /\ op[r] = "cancel" => ~Behind(mine[r], ram)
  BY <1>2, <1>3 DEF Overwrites
<1> QED
  BY <1>1, <1>2, <1>4, ConfirmAssumption DEF StoreRam, Goes, Worker, Carries, locals, budget

LEMMA SavePure ==
    ASSUME Typed, Cancelling, NEW r \in Requests, StoreDisk(r), Pure'
    PROVE  /\ Pure /\ UNCHANGED <<ram, seen, newest, op>>
           /\ pc[r] = "saving" /\ pc' = [pc EXCEPT ![r] = AfterStore(r)]
           /\ \A q \in Requests : q # r => mine'[q] = mine[q] /\ outcome'[q] = outcome[q]
           /\ op[r] # "edit" => mine' = mine /\ outcome' = outcome
           /\ mine[r] \in Copy /\ disk \in Copy /\ disk # None /\ disk' = mine[r]
           /\ op[r] = "edit" => disk' = disk
           /\ op[r] = "cancel" => ~Behind(mine[r], disk)
           /\ op[r] \notin Unlocked => Worker(r) /\ (disk.phase # "running" => ~Behind(mine[r], disk))
<1>1. mine[r] \in Copy /\ disk \in Copy /\ pc[r] = "saving"
  BY DEF StoreDisk, Goes, Typed, TypeOK, Shape, Carries
<1>2. Pure /\ disk' = mine[r] /\ ~Overwrites(r, disk)
  BY DEF StoreDisk, Save, Notes, Pure
<1>3. op[r] = "cancel" => outcome[r] = "none"
  BY <1>1 DEF Cancelling, Carries
<1>4. /\ op[r] = "edit" => disk' = disk
      /\ op[r] = "cancel" => ~Behind(mine[r], disk)
      /\ op[r] # "edit" /\ disk.phase # "running" => ~Behind(mine[r], disk)
  BY <1>2, <1>3 DEF Overwrites
<1>5. /\ UNCHANGED <<ram, seen, newest, op>> /\ pc' = [pc EXCEPT ![r] = AfterStore(r)]
      /\ \A q \in Requests : q # r => mine'[q] = mine[q] /\ outcome'[q] = outcome[q]
      /\ op[r] # "edit" => mine' = mine /\ outcome' = outcome
  BY DEF StoreDisk, Goes, Says, Keeps, Typed, TypeOK
<1> QED
  BY <1>1, <1>2, <1>4, <1>5, ConfirmAssumption DEF Worker, Carries, Unlocked

LEMMA EchoPure ==
    ASSUME Typed, Cancelling, NEW r \in Requests, Echo(r), Pure'
    PROVE  /\ Pure /\ UNCHANGED <<disk, seen, newest, op>> /\ op[r] = "cancel"
           /\ pc[r] = "echoing" /\ pc' = [pc EXCEPT ![r] = "over"]
           /\ \A q \in Requests : q # r => mine'[q] = mine[q] /\ outcome'[q] = outcome[q]
           /\ mine[r] \in Copy /\ mine[r].phase = "cancelled" /\ ram \in Copy /\ ram # None
           /\ ram' = mine[r] /\ ~Behind(mine[r], ram)
<1>1. mine[r] \in Copy /\ ram \in Copy /\ pc[r] = "echoing"
  BY DEF Echo, Goes, Typed, Shape, Carries
<1>2. op[r] = "cancel" /\ mine[r].phase = "cancelled"
  BY <1>1 DEF Cancelling, Carries
<1> QED
  BY <1>1, <1>2, ConfirmAssumption DEF Echo, Goes, Says, Keeps, Notes, Pure, Typed, TypeOK, budget

-----------------------------------------------------------------------------
(* In a clean history disk and every request that holds the lock have the    *)
(* newest plan; memory has it too, except while revise has stored its new    *)
(* plan on disk and not in memory yet.                                       *)
Newest ==
    Pure => /\ disk.plan = newest
            /\ \A r \in Requests : Worker(r) => mine[r].plan = newest
            /\ ram # None => \/ ram.plan = newest
                             \/ \E r \in Requests : op[r] = "revise" /\ pc[r] = "storing"

LEMMA PlansKnown ==
    Typed /\ CutOff
      => /\ newest \in Nat /\ \A c \in Copy : c.plan \in Nat
         /\ ram # None => ram.plan <= newest
         /\ \A r \in Requests : /\ mine[r] # None => mine[r].plan <= newest
                                /\ seen[r] # None => seen[r].plan <= newest
BY DEF Typed, TypeOK, Copy, Plans, CutOff, Dead

LEMMA InitNewest == Init => Newest
BY DEF Init, Newest, Carries, Worker

LEMMA NextNewest == Typed /\ Locked /\ Cancelling /\ CutOff /\ InHand /\ Newest /\ [Next]_vars => Newest'
<1> SUFFICES ASSUME Typed, Locked, Cancelling, CutOff, InHand, Newest, [Next]_vars PROVE Newest'
  OBVIOUS
<1> USE DEF Typed, TypeOK, Shape, Carries, Locked, Guarded, Unlocked, Cancelling, InHand, Newest, Pure, Worker,
            Goes, Keeps, Loads, Says, copies, lock, locals, budget, history
<1>1. ASSUME NEW r \in Requests, NEW o \in Asks(r), Arrive(r, o) PROVE Newest'
  BY <1>1 DEF Arrive
<1>2. ASSUME NEW r \in Requests, Fill(r) PROVE Newest'
  <2> SUFFICES ASSUME Pure' PROVE Newest'
    BY DEF Newest
  <2>1. /\ \A q \in Requests : Worker(q)' => Worker(q) /\ mine'[q] = mine[q]
        /\ \A q \in Requests : pc[q] = "storing" => pc'[q] = "storing"
    BY <1>2, FillPure
  <2> QED
    BY <1>2, <2>1, FillPure
<1>3. ASSUME NEW r \in Requests, ReadUnlocked(r) PROVE Newest'
  BY <1>3 DEF ReadUnlocked
<1>4. ASSUME NEW r \in Requests, TakeLock(r) PROVE Newest'
  BY <1>4 DEF TakeLock
<1>5. ASSUME NEW r \in Requests, Queue(r) PROVE Newest'
  BY <1>5 DEF Queue
<1>6. ASSUME NEW r \in Requests, TurnAway(r) PROVE Newest'
  BY <1>6 DEF TurnAway
<1>7. ASSUME NEW r \in Requests, TakeTurn(r) PROVE Newest'
  BY <1>7 DEF TakeTurn
<1>8. ASSUME NEW r \in Requests, GiveUp(r) PROVE Newest'
  BY <1>8 DEF GiveUp
<1>9. ASSUME NEW r \in Requests, Leave(r) PROVE Newest'
  BY <1>9 DEF Leave
<1>10. ASSUME NEW r \in Requests, GatePasses(r) PROVE Newest'
  BY <1>10, ConfirmAssumption DEF GatePasses
<1>11. ASSUME NEW r \in Requests, GateReplays(r) PROVE Newest'
  BY <1>11 DEF GateReplays
<1>12. ASSUME NEW r \in Requests, GateRefuses(r) PROVE Newest'
  BY <1>12 DEF GateRefuses
<1>13. ASSUME NEW r \in Requests, Revise(r) PROVE Newest'
  BY <1>13 DEF Revise, Save, Refused
<1>14. ASSUME NEW r \in Requests, ReviseFails(r) PROVE Newest'
  BY <1>14 DEF ReviseFails
<1>15. ASSUME NEW r \in Requests, Start(r) PROVE Newest'
  BY <1>15, MovedIsCopy DEF Start, Notes, Behind, Rank, Phases
<1>16. ASSUME NEW r \in Requests, TeamBDone(r) PROVE Newest'
  BY <1>16, MovedIsCopy DEF TeamBDone, Save, Refused, Phases
<1>17. ASSUME NEW r \in Requests, TeamBRaises(r) PROVE Newest'
  BY <1>17 DEF TeamBRaises
<1>18. ASSUME NEW r \in Requests, Check(r) PROVE Newest'
  BY <1>18, ConfirmAssumption, MovedIsCopy DEF Check, Phases
<1>19. ASSUME NEW r \in Requests, AfterFailure(r) PROVE Newest'
  BY <1>19, ConfirmAssumption DEF AfterFailure
<1>20. ASSUME NEW r \in Requests, MarkLoad(r) PROVE Newest'
  BY <1>20 DEF MarkLoad
<1>21. ASSUME NEW r \in Requests, MarkSave(r) PROVE Newest'
  <2> SUFFICES ASSUME Pure' PROVE Newest'
    BY DEF Newest
  <2>1. /\ \A q \in Requests : Worker(q)' => Worker(q) /\ mine'[q] = mine[q]
        /\ \A q \in Requests : pc[q] = "storing" => pc'[q] = "storing"
    BY <1>21, MarkPure
  <2>2. seen[r].plan <= newest /\ disk.plan = newest
    BY <1>21, MarkPure, PlansKnown, ConfirmAssumption
  <2>3. disk'.plan = newest
    BY <1>21, <2>2, MarkPure, NotBehind
  <2> QED
    BY <1>21, <2>1, <2>3, MarkPure
<1>22. ASSUME NEW r \in Requests, StoreRam(r) PROVE Newest'
  <2> SUFFICES ASSUME Pure' PROVE Newest'
    BY DEF Newest
  <2>1. mine[r].plan <= newest /\ ram.plan <= newest
    BY <1>22, StorePure, PlansKnown, ConfirmAssumption
  <2>2. ram'.plan = newest \/ \E q \in Requests : q # r /\ op[q] = "revise" /\ pc[q] = "storing"
    <3>1. CASE op[r] = "edit"
      BY <1>22, <3>1, StorePure
    <3>2. CASE op[r] = "cancel"
      BY <1>22, <2>1, <3>2, StorePure, NotBehind
    <3>3. CASE op[r] \notin Unlocked
      BY <1>22, <3>3, StorePure
    <3> QED
      BY <3>1, <3>2, <3>3
  <2>3. \A q \in Requests : Worker(q)' => Worker(q) /\ mine'[q] = mine[q]
    BY <1>22, StorePure
  <2> QED
    BY <1>22, <2>2, <2>3, StorePure
<1>23. ASSUME NEW r \in Requests, StoreDisk(r) PROVE Newest'
  <2> SUFFICES ASSUME Pure' PROVE Newest'
    BY DEF Newest
  <2>1. mine[r].plan <= newest /\ disk.plan = newest
    BY <1>23, SavePure, PlansKnown, ConfirmAssumption
  <2>2. disk'.plan = newest
    <3>1. CASE op[r] = "edit"
      BY <1>23, <2>1, <3>1, SavePure
    <3>2. CASE op[r] = "cancel"
      BY <1>23, <2>1, <3>2, SavePure, NotBehind
    <3>3. CASE op[r] \notin Unlocked
      BY <1>23, <3>3, SavePure
    <3> QED
      BY <3>1, <3>2, <3>3
  <2>3. /\ \A q \in Requests : Worker(q)' => Worker(q) /\ mine'[q] = mine[q]
        /\ \A q \in Requests : pc[q] = "storing" => pc'[q] = "storing"
    BY <1>23, SavePure DEF AfterStore
  <2> QED
    BY <1>23, <2>2, <2>3, SavePure
<1>24. ASSUME NEW r \in Requests, StoreRefused(r) PROVE Newest'
  BY <1>24 DEF StoreRefused, Refused
<1>25. ASSUME NEW r \in Requests, Echo(r) PROVE Newest'
  <2> SUFFICES ASSUME Pure' PROVE Newest'
    BY DEF Newest
  <2>1. /\ \A q \in Requests : Worker(q)' => Worker(q) /\ mine'[q] = mine[q]
        /\ \A q \in Requests : pc[q] = "storing" => pc'[q] = "storing"
    BY <1>25, EchoPure
  <2>2. mine[r].plan <= newest /\ (ram.plan = newest => mine[r].plan = newest)
    BY <1>25, EchoPure, PlansKnown, NotBehind, ConfirmAssumption
  <2> QED
    BY <1>25, <2>1, <2>2, EchoPure
<1>26. ASSUME Restart PROVE Newest'
  <2>1. /\ ram' = None /\ newest' = newest /\ disk'.plan = disk.plan /\ UNCHANGED <<faults, putBack>>
        /\ \A q \in Requests : pc'[q] \in {"idle", "over"}
    BY <1>26, MovedIsCopy DEF Restart, Phases
  <2> QED
    BY <2>1
<1>27. CASE UNCHANGED vars
  BY <1>27 DEF vars
<1>28. ASSUME NEW r \in Requests, MarkRefused(r) PROVE Newest'
  BY <1>28, ConfirmAssumption, MovedIsCopy DEF MarkRefused, AfterMark, Refused
<1>29. ASSUME NEW r \in Requests, StoreSwallowed(r) PROVE Newest'
  BY <1>29, ConfirmAssumption, MovedIsCopy DEF StoreSwallowed, AfterStore, Refused
<1> QED
  BY <1>1, <1>2, <1>3, <1>4, <1>5, <1>6, <1>7, <1>8, <1>9, <1>10, <1>11, <1>12, <1>13, <1>14, <1>15, <1>16, <1>17, <1>18, <1>19, <1>20, <1>21, <1>22, <1>23, <1>24, <1>25, <1>26, <1>27, <1>28, <1>29 DEF Next, Step, LockStep, GateStep, TeamBStep, StoreStep

(* A cancel of the newest plan that memory has heard is what memory says     *)
(* until it is answered; and while Team B runs memory says running, unless   *)
(* it says cancelled.                                                        *)
Finishing(r) == op[r] = "cancel" /\ pc[r] \in {"saving", "loading", "marking", "echoing"}

HeardInRam ==
    Pure => /\ \A c \in Requests : Finishing(c) /\ mine[c].plan = newest => ram = mine[c]
            /\ \A r \in Requests : pc[r] \in {"packing", "packed", "failed"}
                                     => ram.phase \in {"running", "cancelled"}

LEMMA InitHeardInRam == Init => HeardInRam
BY DEF Init, HeardInRam, Finishing

LEMMA NextHeardInRam == Typed /\ Locked /\ Cancelling /\ CutOff /\ InHand /\ Newest /\ HeardInRam /\ [Next]_vars => HeardInRam'
<1> SUFFICES ASSUME Typed, Locked, Cancelling, CutOff, InHand, Newest, HeardInRam, [Next]_vars PROVE HeardInRam'
  OBVIOUS
<1> USE DEF Typed, TypeOK, Shape, Carries, Locked, Guarded, Unlocked, Cancelling, InHand, Newest, Pure, Worker, Finishing,
            HeardInRam,
            Goes, Keeps, Loads, Says, copies, lock, locals, budget, history
<1>1. ASSUME NEW r \in Requests, NEW o \in Asks(r), Arrive(r, o) PROVE HeardInRam'
  BY <1>1 DEF Arrive
<1>2. ASSUME NEW r \in Requests, Fill(r) PROVE HeardInRam'
  <2> SUFFICES ASSUME Pure' PROVE HeardInRam'
    BY DEF HeardInRam
  <2>1. /\ \A q \in Requests : Finishing(q)' => Finishing(q) /\ mine'[q] = mine[q]
        /\ \A q \in Requests : pc'[q] \in {"packing", "packed", "failed"} => pc[q] = pc'[q]
    BY <1>2, FillPure
  <2>2. \A q \in Requests : Finishing(q) \/ pc[q] \in {"packing", "packed", "failed"} => ram # None
    BY ConfirmAssumption
  <2> QED
    BY <1>2, <2>1, <2>2, FillPure
<1>3. ASSUME NEW r \in Requests, ReadUnlocked(r) PROVE HeardInRam'
  BY <1>3 DEF ReadUnlocked
<1>4. ASSUME NEW r \in Requests, TakeLock(r) PROVE HeardInRam'
  BY <1>4 DEF TakeLock
<1>5. ASSUME NEW r \in Requests, Queue(r) PROVE HeardInRam'
  BY <1>5 DEF Queue
<1>6. ASSUME NEW r \in Requests, TurnAway(r) PROVE HeardInRam'
  BY <1>6 DEF TurnAway
<1>7. ASSUME NEW r \in Requests, TakeTurn(r) PROVE HeardInRam'
  BY <1>7 DEF TakeTurn
<1>8. ASSUME NEW r \in Requests, GiveUp(r) PROVE HeardInRam'
  BY <1>8 DEF GiveUp
<1>9. ASSUME NEW r \in Requests, Leave(r) PROVE HeardInRam'
  BY <1>9 DEF Leave
<1>10. ASSUME NEW r \in Requests, GatePasses(r) PROVE HeardInRam'
  BY <1>10 DEF GatePasses
<1>11. ASSUME NEW r \in Requests, GateReplays(r) PROVE HeardInRam'
  BY <1>11 DEF GateReplays
<1>12. ASSUME NEW r \in Requests, GateRefuses(r) PROVE HeardInRam'
  BY <1>12 DEF GateRefuses
<1>13. ASSUME NEW r \in Requests, Revise(r) PROVE HeardInRam'
  BY <1>13, ConfirmAssumption, PlansKnown DEF Revise, Save, Refused
<1>14. ASSUME NEW r \in Requests, ReviseFails(r) PROVE HeardInRam'
  BY <1>14 DEF ReviseFails
<1>15. ASSUME NEW r \in Requests, Start(r) PROVE HeardInRam'
  <2> SUFFICES ASSUME Pure' PROVE HeardInRam'
    BY DEF HeardInRam
  <2>1. \A c \in Requests : ~(Finishing(c) /\ mine[c].plan = newest)
    <3> SUFFICES ASSUME NEW c \in Requests, Finishing(c), mine[c].plan = newest PROVE FALSE
      OBVIOUS
    <3>1. ram = mine[c] /\ ram.phase = "cancelled" /\ ram'.plan = newest
      BY <1>15, StartPure
    <3>2. ram' = ram
      BY <1>15, <3>1, StartPure, NotBehind, PlansKnown
    <3> QED
      BY <1>15, <3>1, <3>2, StartPure
  <2>2. \A q \in Requests : Finishing(q)' => Finishing(q)
    BY <1>15, StartPure
  <2> QED
    BY <1>15, <2>1, <2>2, StartPure
<1>16. ASSUME NEW r \in Requests, TeamBDone(r) PROVE HeardInRam'
  BY <1>16 DEF TeamBDone, Save, Refused
<1>17. ASSUME NEW r \in Requests, TeamBRaises(r) PROVE HeardInRam'
  BY <1>17 DEF TeamBRaises
<1>18. ASSUME NEW r \in Requests, Check(r) PROVE HeardInRam'
  BY <1>18 DEF Check
<1>19. ASSUME NEW r \in Requests, AfterFailure(r) PROVE HeardInRam'
  BY <1>19 DEF AfterFailure
<1>20. ASSUME NEW r \in Requests, MarkLoad(r) PROVE HeardInRam'
  BY <1>20 DEF MarkLoad
<1>21. ASSUME NEW r \in Requests, MarkSave(r) PROVE HeardInRam'
  <2> SUFFICES ASSUME Pure' PROVE HeardInRam'
    BY DEF HeardInRam
  <2>1. /\ \A q \in Requests : Finishing(q)' => Finishing(q) /\ mine'[q] = mine[q]
        /\ \A q \in Requests : pc'[q] \in {"packing", "packed", "failed"} => pc[q] = pc'[q]
    BY <1>21, MarkPure
  <2> QED
    BY <1>21, <2>1, MarkPure
<1>22. ASSUME NEW r \in Requests, StoreRam(r) PROVE HeardInRam'
  <2> SUFFICES ASSUME Pure' PROVE HeardInRam'
    BY DEF HeardInRam
  <2>1. mine[r].plan <= newest /\ ram.plan <= newest
    BY <1>22, StorePure, PlansKnown, ConfirmAssumption
  <2>2. ASSUME NEW c \in Requests, c # r, Finishing(c), mine[c].plan = newest PROVE ram' = ram
    <3>1. ram = mine[c] /\ ram.phase = "cancelled"
      BY <1>22, <2>2, StorePure
    <3>2. CASE op[r] = "edit"
      BY <1>22, <3>2, StorePure
    <3>3. CASE op[r] = "cancel"
      BY <1>22, <2>1, <2>2, <3>1, <3>3, StorePure, NotBehind
    <3>4. CASE op[r] \notin Unlocked
      <4>1. ~Behind(mine[r], ram)
        BY <1>22, <3>1, <3>4 DEF StoreRam, Notes, Overwrites
      <4> QED
        BY <1>22, <2>1, <2>2, <3>1, <4>1, StorePure, NotBehind
    <3> QED
      BY <3>2, <3>3, <3>4
  <2>3. /\ \A q \in Requests : Finishing(q)' /\ q # r => Finishing(q)
        /\ \A q \in Requests : pc'[q] \in {"packing", "packed", "failed"} => pc[q] = pc'[q] /\ q # r
    BY <1>22, StorePure
  <2>4. ASSUME NEW q \in Requests, pc[q] \in {"packing", "packed", "failed"}, q # r
        PROVE  ram'.phase \in {"running", "cancelled"}
    <3>1. op[r] \in Unlocked
      BY <1>22, <2>4, StorePure
    <3> QED
      BY <1>22, <2>4, <3>1, StorePure
  <2> QED
    BY <1>22, <2>2, <2>3, <2>4, StorePure
<1>23. ASSUME NEW r \in Requests, StoreDisk(r) PROVE HeardInRam'
  <2> SUFFICES ASSUME Pure' PROVE HeardInRam'
    BY DEF HeardInRam
  <2>1. /\ \A q \in Requests : Finishing(q)' => Finishing(q) /\ mine'[q] = mine[q]
        /\ \A q \in Requests : pc'[q] \in {"packing", "packed", "failed"} => pc[q] = pc'[q]
    BY <1>23, SavePure DEF AfterStore
  <2> QED
    BY <1>23, <2>1, SavePure
<1>24. ASSUME NEW r \in Requests, StoreRefused(r) PROVE HeardInRam'
  BY <1>24 DEF StoreRefused, Refused
<1>25. ASSUME NEW r \in Requests, Echo(r) PROVE HeardInRam'
  <2> SUFFICES ASSUME Pure' PROVE HeardInRam'
    BY DEF HeardInRam
  <2>1. mine[r].plan <= newest /\ ram.plan <= newest
    BY <1>25, EchoPure, PlansKnown, ConfirmAssumption
  <2>2. ASSUME NEW c \in Requests, c # r, Finishing(c), mine[c].plan = newest PROVE ram' = ram
    <3>1. ram = mine[c] /\ ram.phase = "cancelled"
      BY <1>25, <2>2, EchoPure
    <3> QED
      BY <1>25, <2>1, <2>2, <3>1, EchoPure, NotBehind
  <2>3. /\ \A q \in Requests : Finishing(q)' => Finishing(q) /\ mine'[q] = mine[q] /\ q # r
        /\ \A q \in Requests : pc'[q] \in {"packing", "packed", "failed"} => pc[q] = pc'[q] /\ q # r
    BY <1>25, EchoPure
  <2> QED
    BY <1>25, <2>2, <2>3, EchoPure
<1>26. ASSUME Restart PROVE HeardInRam'
  <2>1. \A q \in Requests : pc'[q] \in {"idle", "over"}
    BY <1>26 DEF Restart
  <2> QED
    BY <2>1
<1>27. CASE UNCHANGED vars
  BY <1>27 DEF vars
<1>28. ASSUME NEW r \in Requests, MarkRefused(r) PROVE HeardInRam'
  BY <1>28, ConfirmAssumption, MovedIsCopy DEF MarkRefused, AfterMark, Refused
<1>29. ASSUME NEW r \in Requests, StoreSwallowed(r) PROVE HeardInRam'
  BY <1>29, ConfirmAssumption, MovedIsCopy DEF StoreSwallowed, AfterStore, Refused
<1> QED
  BY <1>1, <1>2, <1>3, <1>4, <1>5, <1>6, <1>7, <1>8, <1>9, <1>10, <1>11, <1>12, <1>13, <1>14, <1>15, <1>16, <1>17, <1>18, <1>19, <1>20, <1>21, <1>22, <1>23, <1>24, <1>25, <1>26, <1>27, <1>28, <1>29 DEF Next, Step, LockStep, GateStep, TeamBStep, StoreStep

(* The disk keeps a cancel of the newest plan that was saved, or the request *)
(* whose Team B wrote its result over it is bringing the cancel back; and    *)
(* what a confirm read to mark it done is what the disk holds, or cancelled. *)
Brings(r) == Worker(r) /\ \/ pc[r] = "packed"
                          \/ pc[r] \in {"storing", "saving"} /\ mine[r].phase = "cancelled"

HeardOnDisk ==
    Pure => /\ \A c \in Requests : Finishing(c) /\ pc[c] # "saving" /\ mine[c].plan = newest
                 => disk.phase = "cancelled" \/ \E q \in Requests : Brings(q)
            /\ \A r \in Requests : Worker(r) /\ pc[r] = "marking" /\ outcome[r] = "packed"
                 => seen[r] = disk \/ disk.phase = "cancelled"

LEMMA InitHeardOnDisk == Init => HeardOnDisk
BY DEF Init, HeardOnDisk, Finishing, Worker, Carries

LEMMA NextHeardOnDisk == Typed /\ Locked /\ Cancelling /\ CutOff /\ InHand /\ Newest /\ HeardInRam /\ HeardOnDisk /\ [Next]_vars => HeardOnDisk'
<1> SUFFICES ASSUME Typed, Locked, Cancelling, CutOff, InHand, Newest, HeardInRam, HeardOnDisk, [Next]_vars PROVE HeardOnDisk'
  OBVIOUS
<1> USE DEF Typed, TypeOK, Shape, Carries, Locked, Guarded, Unlocked, Cancelling, InHand, Newest, Pure, Worker, Finishing,
            HeardInRam, HeardOnDisk, Brings,
            Goes, Keeps, Loads, Says, copies, lock, locals, budget, history
<1>1. ASSUME NEW r \in Requests, NEW o \in Asks(r), Arrive(r, o) PROVE HeardOnDisk'
  BY <1>1 DEF Arrive
<1>2. ASSUME NEW r \in Requests, Fill(r) PROVE HeardOnDisk'
  <2> SUFFICES ASSUME Pure' PROVE HeardOnDisk'
    BY DEF HeardOnDisk
  <2>1. \A q \in Requests : Finishing(q)' \/ Worker(q)' \/ Brings(q) => q # r /\ pc'[q] = pc[q]
    BY <1>2, FillPure
  <2> QED
    BY <1>2, <2>1, FillPure
<1>3. ASSUME NEW r \in Requests, ReadUnlocked(r) PROVE HeardOnDisk'
  BY <1>3 DEF ReadUnlocked
<1>4. ASSUME NEW r \in Requests, TakeLock(r) PROVE HeardOnDisk'
  BY <1>4 DEF TakeLock
<1>5. ASSUME NEW r \in Requests, Queue(r) PROVE HeardOnDisk'
  BY <1>5 DEF Queue
<1>6. ASSUME NEW r \in Requests, TurnAway(r) PROVE HeardOnDisk'
  BY <1>6 DEF TurnAway
<1>7. ASSUME NEW r \in Requests, TakeTurn(r) PROVE HeardOnDisk'
  BY <1>7 DEF TakeTurn
<1>8. ASSUME NEW r \in Requests, GiveUp(r) PROVE HeardOnDisk'
  BY <1>8 DEF GiveUp
<1>9. ASSUME NEW r \in Requests, Leave(r) PROVE HeardOnDisk'
  BY <1>9 DEF Leave
<1>10. ASSUME NEW r \in Requests, GatePasses(r) PROVE HeardOnDisk'
  BY <1>10 DEF GatePasses
<1>11. ASSUME NEW r \in Requests, GateReplays(r) PROVE HeardOnDisk'
  BY <1>11 DEF GateReplays
<1>12. ASSUME NEW r \in Requests, GateRefuses(r) PROVE HeardOnDisk'
  BY <1>12 DEF GateRefuses
<1>13. ASSUME NEW r \in Requests, Revise(r) PROVE HeardOnDisk'
  BY <1>13, ConfirmAssumption, PlansKnown DEF Revise, Save, Refused
<1>14. ASSUME NEW r \in Requests, ReviseFails(r) PROVE HeardOnDisk'
  BY <1>14 DEF ReviseFails
<1>15. ASSUME NEW r \in Requests, Start(r) PROVE HeardOnDisk'
  <2> SUFFICES ASSUME Pure' PROVE HeardOnDisk'
    BY DEF HeardOnDisk
  <2>1. \A q \in Requests : q # r => pc'[q] = pc[q]
    BY <1>15, StartPure
  <2> QED
    BY <1>15, <2>1, StartPure
<1>16. ASSUME NEW r \in Requests, TeamBDone(r) PROVE HeardOnDisk'
  BY <1>16 DEF TeamBDone, Save, Refused
<1>17. ASSUME NEW r \in Requests, TeamBRaises(r) PROVE HeardOnDisk'
  BY <1>17 DEF TeamBRaises
<1>18. ASSUME NEW r \in Requests, Check(r) PROVE HeardOnDisk'
  BY <1>18 DEF Check
<1>19. ASSUME NEW r \in Requests, AfterFailure(r) PROVE HeardOnDisk'
  BY <1>19 DEF AfterFailure
<1>20. ASSUME NEW r \in Requests, MarkLoad(r) PROVE HeardOnDisk'
  BY <1>20 DEF MarkLoad
<1>21. ASSUME NEW r \in Requests, MarkSave(r) PROVE HeardOnDisk'
  <2> SUFFICES ASSUME Pure' PROVE HeardOnDisk'
    BY DEF HeardOnDisk
  <2>1. seen[r].plan <= newest /\ disk.plan = newest
    BY <1>21, MarkPure, PlansKnown, ConfirmAssumption
  <2>2. \A q \in Requests : q # r => pc'[q] = pc[q]
    BY <1>21, MarkPure
  <2>3. disk.phase = "cancelled" => disk' = disk
    BY <1>21, <2>1, MarkPure, NotBehind
  <2>4. op[r] = "cancel" => disk'.phase = "cancelled"
    BY <1>21, MarkPure, MovedIsCopy DEF Marked, Phases
  <2>5. op[r] # "cancel" => Worker(r) /\ \A q \in Requests : q # r => ~Worker(q)
    BY <1>21, MarkPure
  <2> QED
    BY <1>21, <2>2, <2>3, <2>4, <2>5, MarkPure
<1>22. ASSUME NEW r \in Requests, StoreRam(r) PROVE HeardOnDisk'
  <2> SUFFICES ASSUME Pure' PROVE HeardOnDisk'
    BY DEF HeardOnDisk
  <2>1. \A q \in Requests : q # r => pc'[q] = pc[q]
    BY <1>22, StorePure
  <2> QED
    BY <1>22, <2>1, StorePure
<1>23. ASSUME NEW r \in Requests, StoreDisk(r) PROVE HeardOnDisk'
  <2> SUFFICES ASSUME Pure' PROVE HeardOnDisk'
    BY DEF HeardOnDisk
  <2>1. mine[r].plan <= newest /\ disk.plan = newest
    BY <1>23, SavePure, PlansKnown, ConfirmAssumption
  <2>2. \A q \in Requests : q # r => pc'[q] = pc[q]
    BY <1>23, SavePure
  <2>3. op[r] = "cancel" => disk'.phase = "cancelled"
    BY <1>23, SavePure
  <2>4. CASE op[r] = "edit"
    BY <1>23, <2>2, <2>4, SavePure DEF AfterStore
  <2>5. CASE op[r] = "cancel"
    BY <1>23, <2>2, <2>3, <2>5, SavePure DEF AfterStore
  <2>6. CASE op[r] \notin Unlocked
    <3>1. Worker(r) /\ \A q \in Requests : q # r => ~Worker(q)
      BY <1>23, <2>6, SavePure
    <3>2. disk.phase = "cancelled" => disk' = disk
      BY <1>23, <2>1, <2>6, SavePure, NotBehind
    <3>3. AfterStore(r) # "marking"
      BY DEF AfterStore
    <3> QED
      BY <1>23, <2>2, <2>6, <3>1, <3>2, <3>3, SavePure
  <2> QED
    BY <2>4, <2>5, <2>6
<1>24. ASSUME NEW r \in Requests, StoreRefused(r) PROVE HeardOnDisk'
  BY <1>24 DEF StoreRefused, Refused
<1>25. ASSUME NEW r \in Requests, Echo(r) PROVE HeardOnDisk'
  <2> SUFFICES ASSUME Pure' PROVE HeardOnDisk'
    BY DEF HeardOnDisk
  <2>1. \A q \in Requests : q # r => pc'[q] = pc[q]
    BY <1>25, EchoPure
  <2> QED
    BY <1>25, <2>1, EchoPure
<1>26. ASSUME Restart PROVE HeardOnDisk'
  <2>1. \A q \in Requests : pc'[q] \in {"idle", "over"}
    BY <1>26 DEF Restart
  <2> QED
    BY <2>1
<1>27. CASE UNCHANGED vars
  BY <1>27 DEF vars
<1>28. ASSUME NEW r \in Requests, MarkRefused(r) PROVE HeardOnDisk'
  BY <1>28, ConfirmAssumption, MovedIsCopy DEF MarkRefused, AfterMark, Refused
<1>29. ASSUME NEW r \in Requests, StoreSwallowed(r) PROVE HeardOnDisk'
  BY <1>29, ConfirmAssumption, MovedIsCopy DEF StoreSwallowed, AfterStore, Refused
<1> QED
  BY <1>1, <1>2, <1>3, <1>4, <1>5, <1>6, <1>7, <1>8, <1>9, <1>10, <1>11, <1>12, <1>13, <1>14, <1>15, <1>16, <1>17, <1>18, <1>19, <1>20, <1>21, <1>22, <1>23, <1>24, <1>25, <1>26, <1>27, <1>28, <1>29 DEF Next, Step, LockStep, GateStep, TeamBStep, StoreStep

(* What memory holds is on disk, or a request that is still at work is about *)
(* to bring the two together: the one that holds the lock, or a cancel.      *)
Ahead(r) == Worker(r) /\ pc[r] \notin {"loading", "marking"}

Agreeing ==
    Pure => /\ \A r \in Requests : Worker(r) /\ pc[r] = "saving"
                 => \/ ram = mine[r]
                    \/ /\ ram.phase = "cancelled"
                       /\ disk.phase = "cancelled" \/ \E c \in Requests : Finishing(c)
            /\ ram # None => \/ ram = disk
                             \/ \E r \in Requests : Ahead(r) \/ Finishing(r)

LEMMA InitAgreeing == Init => Agreeing
BY DEF Init, Agreeing, Worker, Carries

LEMMA NextAgreeing == Typed /\ Locked /\ Cancelling /\ CutOff /\ InHand /\ Newest /\ HeardInRam /\ HeardOnDisk /\ Agreeing /\ [Next]_vars => Agreeing'
<1> SUFFICES ASSUME Typed, Locked, Cancelling, CutOff, InHand, Newest, HeardInRam, HeardOnDisk, Agreeing, [Next]_vars PROVE Agreeing'
  OBVIOUS
<1> USE DEF Typed, TypeOK, Shape, Carries, Locked, Guarded, Unlocked, Cancelling, InHand, Newest, Pure, Worker, Finishing,
            HeardInRam, HeardOnDisk, Brings,
            Agreeing, Ahead,
            Goes, Keeps, Loads, Says, copies, lock, locals, budget, history
<1>1. ASSUME NEW r \in Requests, NEW o \in Asks(r), Arrive(r, o) PROVE Agreeing'
  BY <1>1 DEF Arrive
<1>2. ASSUME NEW r \in Requests, Fill(r) PROVE Agreeing'
  <2> SUFFICES ASSUME Pure' PROVE Agreeing'
    BY DEF Agreeing
  <2>1. \A q \in Requests : q # r => pc'[q] = pc[q]
    BY <1>2, FillPure
  <2>2. \A q \in Requests : Finishing(q) \/ Worker(q) \/ Worker(q)' => q # r /\ ram # None
    BY <1>2, FillPure, ConfirmAssumption
  <2> QED
    BY <1>2, <2>1, <2>2, FillPure
<1>3. ASSUME NEW r \in Requests, ReadUnlocked(r) PROVE Agreeing'
  BY <1>3 DEF ReadUnlocked
<1>4. ASSUME NEW r \in Requests, TakeLock(r) PROVE Agreeing'
  BY <1>4 DEF TakeLock
<1>5. ASSUME NEW r \in Requests, Queue(r) PROVE Agreeing'
  BY <1>5 DEF Queue
<1>6. ASSUME NEW r \in Requests, TurnAway(r) PROVE Agreeing'
  BY <1>6 DEF TurnAway
<1>7. ASSUME NEW r \in Requests, TakeTurn(r) PROVE Agreeing'
  BY <1>7 DEF TakeTurn
<1>8. ASSUME NEW r \in Requests, GiveUp(r) PROVE Agreeing'
  BY <1>8 DEF GiveUp
<1>9. ASSUME NEW r \in Requests, Leave(r) PROVE Agreeing'
  BY <1>9 DEF Leave
<1>10. ASSUME NEW r \in Requests, GatePasses(r) PROVE Agreeing'
  BY <1>10 DEF GatePasses
<1>11. ASSUME NEW r \in Requests, GateReplays(r) PROVE Agreeing'
  BY <1>11 DEF GateReplays
<1>12. ASSUME NEW r \in Requests, GateRefuses(r) PROVE Agreeing'
  BY <1>12 DEF GateRefuses
<1>13. ASSUME NEW r \in Requests, Revise(r) PROVE Agreeing'
  BY <1>13 DEF Revise, Save, Refused
<1>14. ASSUME NEW r \in Requests, ReviseFails(r) PROVE Agreeing'
  BY <1>14 DEF ReviseFails
<1>15. ASSUME NEW r \in Requests, Start(r) PROVE Agreeing'
  <2> SUFFICES ASSUME Pure' PROVE Agreeing'
    BY DEF Agreeing
  <2>1. \A q \in Requests : q # r => pc'[q] = pc[q] /\ ~Worker(q)
    BY <1>15, StartPure
  <2> QED
    BY <1>15, <2>1, StartPure
<1>16. ASSUME NEW r \in Requests, TeamBDone(r) PROVE Agreeing'
  BY <1>16 DEF TeamBDone, Save, Refused
<1>17. ASSUME NEW r \in Requests, TeamBRaises(r) PROVE Agreeing'
  BY <1>17 DEF TeamBRaises
<1>18. ASSUME NEW r \in Requests, Check(r) PROVE Agreeing'
  BY <1>18 DEF Check
<1>19. ASSUME NEW r \in Requests, AfterFailure(r) PROVE Agreeing'
  BY <1>19 DEF AfterFailure
<1>20. ASSUME NEW r \in Requests, MarkLoad(r) PROVE Agreeing'
  BY <1>20 DEF MarkLoad
<1>21. ASSUME NEW r \in Requests, MarkSave(r) PROVE Agreeing'
  <2> SUFFICES ASSUME Pure' PROVE Agreeing'
    BY DEF Agreeing
  <2>1. seen[r].plan <= newest /\ disk.plan = newest
    BY <1>21, MarkPure, PlansKnown, ConfirmAssumption
  <2>2. \A q \in Requests : q # r => pc'[q] = pc[q]
    BY <1>21, MarkPure
  <2>3. disk.phase = "cancelled" => disk' = disk
    BY <1>21, <2>1, MarkPure, NotBehind
  <2>4. CASE op[r] = "cancel"
    <3>1. Finishing(r)' /\ disk'.phase = "cancelled"
      BY <1>21, <2>4, MarkPure, MovedIsCopy DEF Marked, AfterMark, Phases
    <3> QED
      BY <1>21, <2>2, <2>4, <3>1, MarkPure
  <2>5. CASE op[r] # "cancel"
    <3>1. Worker(r) /\ \A q \in Requests : q # r => ~Worker(q)
      BY <1>21, <2>5, MarkPure
    <3>2. AfterMark(r) = "starting" => Ahead(r)'
      BY <1>21, <3>1, MarkPure
    <3>3. AfterMark(r) # "starting" => disk' = disk
      <4>1. ASSUME outcome[r] = "packed" PROVE disk' = disk
        BY <1>21, <2>3, <3>1, <4>1, MarkPure DEF Marked
      <4> QED
        BY <1>21, <2>5, <4>1, MarkPure DEF AfterMark
    <3>4. \A q \in Requests : Finishing(q) \/ Ahead(q) => q # r /\ (Finishing(q)' \/ Ahead(q)')
      BY <1>21, <2>2, <2>5, MarkPure
    <3>5. \A q \in Requests : Worker(q)' => pc'[q] # "saving"
      BY <1>21, <2>2, <3>1, MarkPure
    <3> QED
      BY <1>21, <3>2, <3>3, <3>4, <3>5, MarkPure
  <2> QED
    BY <2>4, <2>5
<1>22. ASSUME NEW r \in Requests, StoreRam(r) PROVE Agreeing'
  <2> SUFFICES ASSUME Pure' PROVE Agreeing'
    BY DEF Agreeing
  <2>1. \A q \in Requests : q # r => pc'[q] = pc[q]
    BY <1>22, StorePure
  <2>2. CASE op[r] = "edit"
    BY <1>22, <2>1, <2>2, StorePure
  <2>3. CASE op[r] = "cancel"
    <3>1. Finishing(r)' /\ ram'.phase = "cancelled"
      BY <1>22, <2>3, StorePure
    <3> QED
      BY <1>22, <2>1, <2>3, <3>1, StorePure
  <2>4. CASE op[r] \notin Unlocked
    <3>1. Ahead(r)' /\ ram' = mine'[r] /\ \A q \in Requests : q # r => ~Worker(q)
      BY <1>22, <2>4, StorePure
    <3> QED
      BY <1>22, <2>1, <3>1, StorePure
  <2> QED
    BY <2>2, <2>3, <2>4
<1>23. ASSUME NEW r \in Requests, StoreDisk(r) PROVE Agreeing'
  <2> SUFFICES ASSUME Pure' PROVE Agreeing'
    BY DEF Agreeing
  <2>1. mine[r].plan <= newest /\ disk.plan = newest
    BY <1>23, SavePure, PlansKnown, ConfirmAssumption
  <2>2. \A q \in Requests : q # r => pc'[q] = pc[q]
    BY <1>23, SavePure
  <2>3. CASE op[r] = "edit"
    BY <1>23, <2>2, <2>3, SavePure DEF AfterStore
  <2>4. CASE op[r] = "cancel"
    <3>1. Finishing(r)' /\ disk'.phase = "cancelled"
      BY <1>23, <2>4, SavePure DEF AfterStore
    <3> QED
      BY <1>23, <2>2, <2>4, <3>1, SavePure
  <2>5. CASE op[r] \notin Unlocked
    <3>1. Worker(r) /\ \A q \in Requests : q # r => ~Worker(q)
      BY <1>23, <2>5, SavePure
    <3>2. \A q \in Requests : Worker(q)' => pc'[q] # "saving"
      BY <1>23, <2>2, <3>1, SavePure DEF AfterStore
    <3>3. \A c \in Requests : Finishing(c) => Finishing(c)'
      BY <1>23, <2>2, <2>5, SavePure
    <3>4. ASSUME disk.phase = "cancelled", ram.phase = "cancelled" PROVE ram = disk'
      <4>1. disk' = disk
        BY <1>23, <2>1, <2>5, <3>4, SavePure, NotBehind
      <4>2. ram \in Copy /\ ram.plan = newest
        BY <1>23, <2>5, <3>1, SavePure, ConfirmAssumption
      <4> QED
        BY <1>23, <2>1, <3>4, <4>1, <4>2, SavePure, SameCopy
    <3> QED
      BY <1>23, <3>1, <3>2, <3>3, <3>4, SavePure
  <2> QED
    BY <2>3, <2>4, <2>5
<1>24. ASSUME NEW r \in Requests, StoreRefused(r) PROVE Agreeing'
  BY <1>24 DEF StoreRefused, Refused
<1>25. ASSUME NEW r \in Requests, Echo(r) PROVE Agreeing'
  <2> SUFFICES ASSUME Pure' PROVE Agreeing'
    BY DEF Agreeing
  <2>1. mine[r].plan <= newest /\ disk.plan = newest /\ disk \in Copy
    BY <1>25, EchoPure, PlansKnown, ConfirmAssumption
  <2>2. \A q \in Requests : q # r => pc'[q] = pc[q]
    BY <1>25, EchoPure
  <2>3. \A q \in Requests : Worker(q) => q # r /\ Worker(q)' /\ mine'[q] = mine[q]
    BY <1>25, <2>2, EchoPure
  <2>4. CASE mine[r].plan = newest
    <3>1. disk.phase = "cancelled" \/ \E q \in Requests : Brings(q)
      BY <1>25, <2>4, EchoPure
    <3>2. disk.phase = "cancelled" => ram' = disk
      BY <1>25, <2>1, <2>4, EchoPure, SameCopy
    <3>3. ASSUME NEW q \in Requests, Brings(q) PROVE Ahead(q)'
      BY <1>25, <2>2, <3>3, EchoPure
    <3>4. ASSUME NEW q \in Requests, Worker(q), pc[q] = "saving", disk.phase # "cancelled"
          PROVE  ram' = mine[q]
      <4>1. Brings(q)
        BY <1>25, <3>1, <3>4
      <4>2. mine[q] \in Copy /\ mine[q].phase = "cancelled" /\ mine[q].plan = newest
        BY <1>25, <3>4, <4>1, EchoPure
      <4> QED
        BY <1>25, <2>4, <4>2, EchoPure, SameCopy
    <3>5. \A q \in Requests : Worker(q)' => Worker(q) /\ pc'[q] = pc[q]
      BY <1>25, <2>2, EchoPure
    <3> QED
      BY <1>25, <2>3, <3>1, <3>2, <3>3, <3>4, <3>5, EchoPure
  <2>5. CASE mine[r].plan # newest
    <3>1. ram.plan # newest
      BY <1>25, <2>1, <2>5, EchoPure, PlansKnown, NotBehind, ConfirmAssumption
    <3>2. PICK q \in Requests : op[q] = "revise" /\ pc[q] = "storing"
      BY <1>25, <3>1, EchoPure
    <3>3. Ahead(q)' /\ \A s \in Requests : Worker(s)' => s = q
      BY <1>25, <2>2, <3>2, EchoPure
    <3> QED
      BY <1>25, <2>2, <3>2, <3>3, EchoPure
  <2> QED
    BY <2>4, <2>5
<1>26. ASSUME Restart PROVE Agreeing'
  <2>1. ram' = None /\ \A q \in Requests : pc'[q] \in {"idle", "over"}
    BY <1>26 DEF Restart
  <2> QED
    BY <2>1
<1>27. CASE UNCHANGED vars
  BY <1>27 DEF vars
<1>28. ASSUME NEW r \in Requests, MarkRefused(r) PROVE Agreeing'
  BY <1>28, ConfirmAssumption, MovedIsCopy DEF MarkRefused, AfterMark, Refused
<1>29. ASSUME NEW r \in Requests, StoreSwallowed(r) PROVE Agreeing'
  BY <1>29, ConfirmAssumption, MovedIsCopy DEF StoreSwallowed, AfterStore, Refused
<1> QED
  BY <1>1, <1>2, <1>3, <1>4, <1>5, <1>6, <1>7, <1>8, <1>9, <1>10, <1>11, <1>12, <1>13, <1>14, <1>15, <1>16, <1>17, <1>18, <1>19, <1>20, <1>21, <1>22, <1>23, <1>24, <1>25, <1>26, <1>27, <1>28, <1>29 DEF Next, Step, LockStep, GateStep, TeamBStep, StoreStep

(* When nobody is at work memory and disk hold the same session, as long as  *)
(* no save failed and no older copy was put over a newer one: what a         *)
(* restart resumes is what the requests were told.                           *)
THEOREM QuietAgreeHolds == Spec => []QuietAgree
<1>1. Typed /\ Agreeing => QuietAgree
  BY DEF Typed, TypeOK, Agreeing, Pure, Ahead, Worker, Finishing, Carries, QuietAgree, Quiet
<1> QED
  BY InitTyped, NextTyped, InitLocked, NextLocked, InitCancelling, NextCancelling, InitCutOff,
     NextCutOff, InitInHand, NextInHand, InitNewest, NextNewest, InitHeardInRam, NextHeardInRam,
     InitHeardOnDisk, NextHeardOnDisk, InitAgreeing, NextAgreeing, <1>1, PTL DEF Spec

-----------------------------------------------------------------------------
(* A cancel that was answered, in a history that is clean and has no crash:  *)
(* memory has that plan as cancelled, or a newer plan.                       *)
AnsweredStays ==
    Pure /\ crashes = 0
      => \A p \in cancelled : /\ ram # None /\ p <= ram.plan
                              /\ ram.plan = p => ram.phase = "cancelled"

LEMMA InitAnsweredStays == Init => AnsweredStays
BY DEF Init, AnsweredStays

(* A write that is not behind what memory holds keeps every answer.          *)
LEMMA WriteKeeps ==
    ASSUME Typed, AnsweredStays, Pure, crashes = 0, cancelled' = cancelled,
           ram' \in Copy, ram # None => ~Behind(ram', ram)
    PROVE  AnsweredStays'
<1> SUFFICES ASSUME NEW p \in cancelled
             PROVE  ram' # None /\ p <= ram'.plan /\ (ram'.plan = p => ram'.phase = "cancelled")
  BY DEF AnsweredStays
<1>1. ram # None /\ p <= ram.plan /\ (ram.plan = p => ram.phase = "cancelled")
  BY DEF AnsweredStays
<1>2. ram \in Copy /\ p \in Nat /\ ram.plan \in Nat /\ ram'.plan \in Nat /\ ram'.phase \in Phases
  BY <1>1 DEF Typed, TypeOK, Copy, Plans
<1>3. ram'.plan >= ram.plan
  BY <1>1, <1>2 DEF Behind
<1>4. ASSUME ram'.plan = p PROVE ram'.phase = "cancelled"
  <2>1. ram.plan = p /\ ram.phase = "cancelled" /\ ram'.plan <= ram.plan
    BY <1>1, <1>2, <1>3, <1>4
  <2> QED
    BY <1>1, <1>2, <2>1, NotBehind
<1> QED
  BY <1>1, <1>2, <1>3, <1>4, ConfirmAssumption

LEMMA NextAnsweredStays == Typed /\ Locked /\ Cancelling /\ CutOff /\ InHand /\ Newest /\ AnsweredStays /\ [Next]_vars => AnsweredStays'
<1> SUFFICES ASSUME Typed, Locked, Cancelling, CutOff, InHand, Newest, AnsweredStays, [Next]_vars PROVE AnsweredStays'
  OBVIOUS
<1> USE DEF Typed, TypeOK, Shape, Carries, Goes, Keeps, Loads, Says, copies, lock, locals, budget, history, Pure,
            AnsweredStays
<1>1. ASSUME NEW r \in Requests, NEW o \in Asks(r), Arrive(r, o) PROVE AnsweredStays'
  BY <1>1 DEF Arrive
<1>2. ASSUME NEW r \in Requests, Fill(r) PROVE AnsweredStays'
  <2> SUFFICES ASSUME Pure', crashes' = 0 PROVE AnsweredStays'
    BY DEF AnsweredStays
  <2>1. Pure /\ crashes = 0 /\ cancelled' = cancelled /\ ram' \in Copy /\ (ram # None => ram' = ram)
    BY <1>2, FillPure DEF Fill
  <2> QED
    BY <2>1
<1>3. ASSUME NEW r \in Requests, ReadUnlocked(r) PROVE AnsweredStays'
  BY <1>3 DEF ReadUnlocked
<1>4. ASSUME NEW r \in Requests, TakeLock(r) PROVE AnsweredStays'
  BY <1>4 DEF TakeLock
<1>5. ASSUME NEW r \in Requests, Queue(r) PROVE AnsweredStays'
  BY <1>5 DEF Queue
<1>6. ASSUME NEW r \in Requests, TurnAway(r) PROVE AnsweredStays'
  BY <1>6 DEF TurnAway
<1>7. ASSUME NEW r \in Requests, TakeTurn(r) PROVE AnsweredStays'
  BY <1>7 DEF TakeTurn
<1>8. ASSUME NEW r \in Requests, GiveUp(r) PROVE AnsweredStays'
  BY <1>8 DEF GiveUp
<1>9. ASSUME NEW r \in Requests, Leave(r) PROVE AnsweredStays'
  BY <1>9 DEF Leave
<1>10. ASSUME NEW r \in Requests, GatePasses(r) PROVE AnsweredStays'
  BY <1>10 DEF GatePasses
<1>11. ASSUME NEW r \in Requests, GateReplays(r) PROVE AnsweredStays'
  BY <1>11 DEF GateReplays
<1>12. ASSUME NEW r \in Requests, GateRefuses(r) PROVE AnsweredStays'
  BY <1>12 DEF GateRefuses
<1>13. ASSUME NEW r \in Requests, Revise(r) PROVE AnsweredStays'
  BY <1>13 DEF Revise, Save, Refused
<1>14. ASSUME NEW r \in Requests, ReviseFails(r) PROVE AnsweredStays'
  BY <1>14 DEF ReviseFails
<1>15. ASSUME NEW r \in Requests, Start(r) PROVE AnsweredStays'
  <2> SUFFICES ASSUME Pure', crashes' = 0 PROVE AnsweredStays'
    BY DEF AnsweredStays
  <2>1. crashes = 0 /\ cancelled' = cancelled
    BY <1>15 DEF Start
  <2> QED
    BY <1>15, <2>1, StartPure, WriteKeeps
<1>16. ASSUME NEW r \in Requests, TeamBDone(r) PROVE AnsweredStays'
  BY <1>16 DEF TeamBDone, Save, Refused
<1>17. ASSUME NEW r \in Requests, TeamBRaises(r) PROVE AnsweredStays'
  BY <1>17 DEF TeamBRaises
<1>18. ASSUME NEW r \in Requests, Check(r) PROVE AnsweredStays'
  BY <1>18 DEF Check
<1>19. ASSUME NEW r \in Requests, AfterFailure(r) PROVE AnsweredStays'
  BY <1>19 DEF AfterFailure
<1>20. ASSUME NEW r \in Requests, MarkLoad(r) PROVE AnsweredStays'
  BY <1>20 DEF MarkLoad
<1>21. ASSUME NEW r \in Requests, MarkSave(r) PROVE AnsweredStays'
  BY <1>21 DEF MarkSave, AfterMark, Marked, Save, Refused, Notes, Behind, Rank
<1>22. ASSUME NEW r \in Requests, StoreRam(r) PROVE AnsweredStays'
  <2> SUFFICES ASSUME Pure', crashes' = 0 PROVE AnsweredStays'
    BY DEF AnsweredStays
  <2>1. /\ Pure /\ ram' = mine[r] /\ mine[r] \in Copy /\ ram \in Copy /\ ram # None
        /\ crashes = 0 /\ cancelled' = cancelled
    BY <1>22, StorePure DEF StoreRam
  <2>2. CASE op[r] = "edit"
    BY <1>22, <2>1, <2>2, StorePure
  <2>3. CASE op[r] = "cancel"
    BY <1>22, <2>1, <2>3, StorePure, WriteKeeps
  <2>4. CASE op[r] \notin Unlocked
    <3>1. ~Behind(mine[r], ram) \/ ram.phase = "running"
      BY <1>22, <2>1, <2>4 DEF StoreRam, Notes, Overwrites, Unlocked
    <3>2. CASE ~Behind(mine[r], ram)
      BY <2>1, <3>2, WriteKeeps
    <3>3. CASE ram.phase = "running"
      <4>1. mine[r].plan = newest /\ ram.plan <= newest
        BY <1>22, <2>1, <2>4, StorePure, PlansKnown DEF Newest
      <4>2. mine[r].plan \in Nat /\ \A p \in cancelled : p \in Nat /\ p < mine[r].plan
        BY <2>1, <3>3, <4>1 DEF Copy, Plans
      <4>3. \A p \in cancelled : p <= mine[r].plan /\ mine[r].plan # p
        BY <4>2
      <4> QED
        BY <2>1, <4>3, ConfirmAssumption
    <3> QED
      BY <3>1, <3>2, <3>3
  <2> QED
    BY <2>2, <2>3, <2>4 DEF Unlocked
<1>23. ASSUME NEW r \in Requests, StoreDisk(r) PROVE AnsweredStays'
  BY <1>23 DEF StoreDisk, AfterStore, Save, Overwrites, Notes, Behind, Rank
<1>24. ASSUME NEW r \in Requests, StoreRefused(r) PROVE AnsweredStays'
  BY <1>24 DEF StoreRefused, Refused
<1>25. ASSUME NEW r \in Requests, Echo(r) PROVE AnsweredStays'
  <2> SUFFICES ASSUME Pure', crashes' = 0 PROVE AnsweredStays'
    BY DEF AnsweredStays
  <2>1. /\ Pure /\ crashes = 0 /\ cancelled' = cancelled \cup {mine[r].plan}
        /\ ram' = mine[r] /\ mine[r] \in Copy /\ mine[r].phase = "cancelled"
        /\ ram \in Copy /\ ram # None /\ ~Behind(mine[r], ram)
    BY <1>25, EchoPure DEF Echo
  <2>2. mine[r].plan \in Nat /\ ram.plan \in Nat /\ ram.plan <= mine[r].plan
    BY <2>1 DEF Copy, Plans, Behind
  <2>3. cancelled \subseteq Nat
    <3>1. cancelled \in SUBSET Plans
      OBVIOUS
    <3> QED
      BY <3>1 DEF Plans
  <2>4. \A p \in cancelled : p <= ram.plan
    BY <2>1
  <2>5. \A p \in cancelled' : p <= mine[r].plan
    BY <2>1, <2>2, <2>3, <2>4
  <2>6. ram' # None
    BY <2>1, ConfirmAssumption
  <2> QED
    BY <2>1, <2>5, <2>6 DEF AnsweredStays
<1>26. ASSUME Restart PROVE AnsweredStays'
  BY <1>26 DEF Restart
<1>27. CASE UNCHANGED vars
  BY <1>27 DEF vars
<1>28. ASSUME NEW r \in Requests, MarkRefused(r) PROVE AnsweredStays'
  BY <1>28, ConfirmAssumption, MovedIsCopy DEF MarkRefused, AfterMark, Refused
<1>29. ASSUME NEW r \in Requests, StoreSwallowed(r) PROVE AnsweredStays'
  BY <1>29, ConfirmAssumption, MovedIsCopy DEF StoreSwallowed, AfterStore, Refused
<1> QED
  BY <1>1, <1>2, <1>3, <1>4, <1>5, <1>6, <1>7, <1>8, <1>9, <1>10, <1>11, <1>12, <1>13, <1>14, <1>15, <1>16, <1>17, <1>18, <1>19, <1>20, <1>21, <1>22, <1>23, <1>24, <1>25, <1>26, <1>27, <1>28, <1>29 DEF Next, Step, LockStep, GateStep, TeamBStep, StoreStep

(* Cancelled is final as far as the code keeps it so: after a cancel was     *)
(* answered the session is not reported done, while no save failed, no       *)
(* older copy was put over a newer one and the gateway did not go down.      *)
(* CancelIsFinal alone does not hold of the code.                            *)
THEOREM CancelIsFinalWhenClean == Spec => [](Pure /\ crashes = 0 => CancelIsFinal)
<1>1. AnsweredStays => (Pure /\ crashes = 0 => CancelIsFinal)
  BY DEF AnsweredStays, CancelIsFinal, Current
<1> QED
  BY InitTyped, NextTyped, InitLocked, NextLocked, InitCancelling, NextCancelling, InitCutOff,
     NextCutOff, InitInHand, NextInHand, InitNewest, NextNewest, InitAnsweredStays,
     NextAnsweredStays, <1>1, PTL DEF Spec

-----------------------------------------------------------------------------
(* Why the lock comes free.  It always has an owner, a request between the   *)
(* gate and its answer; nobody waits without being counted, and no one is    *)
(* counted who does not wait; and every step of a request takes it further,  *)
(* so a request that holds the lock leaves after at most 16 steps of its own *)
(* (that its thread is scheduled is the fairness of FairSpec).               *)
Counted ==
    /\ holder # None => Guarded(holder)
    /\ waiting = {r \in Requests : pc[r] = "waiting"}
    /\ IsFiniteSet(waiting) /\ Cardinality(waiting) <= MaxWaiters

LEMMA InitCounted == Init => Counted
<1> SUFFICES ASSUME Init PROVE Counted
  OBVIOUS
<1>1. IsFiniteSet({}) /\ Cardinality({}) = 0
  BY FS_EmptySet
<1> QED
  BY <1>1, ConfirmAssumption DEF Init, Counted

(* One waiter more, while there is room, and one less.                       *)
LEMMA OneMore ==
    ASSUME Counted, NEW r \in Requests, Cardinality(waiting) < MaxWaiters
    PROVE  IsFiniteSet(waiting \cup {r}) /\ Cardinality(waiting \cup {r}) <= MaxWaiters
<1>1. IsFiniteSet(waiting)
  BY DEF Counted
<1>2. Cardinality(waiting) \in Nat
  BY <1>1, FS_CardinalityType
<1>3. /\ IsFiniteSet(waiting \cup {r})
      /\ Cardinality(waiting \cup {r}) = IF r \in waiting THEN Cardinality(waiting) ELSE Cardinality(waiting) + 1
  BY <1>1, FS_AddElement
<1> QED
  BY <1>2, <1>3, ConfirmAssumption

LEMMA OneLess ==
    ASSUME Counted, NEW r \in Requests
    PROVE  IsFiniteSet(waiting \ {r}) /\ Cardinality(waiting \ {r}) <= MaxWaiters
<1>1. IsFiniteSet(waiting) /\ Cardinality(waiting) <= MaxWaiters
  BY DEF Counted
<1>2. Cardinality(waiting) \in Nat
  BY <1>1, FS_CardinalityType
<1>3. /\ IsFiniteSet(waiting \ {r})
      /\ Cardinality(waiting \ {r}) = IF r \in waiting THEN Cardinality(waiting) - 1 ELSE Cardinality(waiting)
  BY <1>1, FS_RemoveElement
<1> QED
  BY <1>1, <1>2, <1>3, ConfirmAssumption

LEMMA NextCounted == Typed /\ Locked /\ Cancelling /\ Counted /\ [Next]_vars => Counted'
<1> SUFFICES ASSUME Typed, Locked, Cancelling, Counted, [Next]_vars PROVE Counted'
  OBVIOUS
<1> USE DEF Typed, TypeOK, Locked, Cancelling, Counted, Guarded, Unlocked, Goes, lock, locals
<1>1. ASSUME NEW r \in Requests, NEW o \in Asks(r), Arrive(r, o) PROVE Counted'
  BY <1>1 DEF Arrive
<1>2. ASSUME NEW r \in Requests, Fill(r) PROVE Counted'
  BY <1>2 DEF Fill, Notes
<1>3. ASSUME NEW r \in Requests, ReadUnlocked(r) PROVE Counted'
  BY <1>3 DEF ReadUnlocked
<1>4. ASSUME NEW r \in Requests, TakeLock(r) PROVE Counted'
  BY <1>4 DEF TakeLock
<1>5. ASSUME NEW r \in Requests, Queue(r) PROVE Counted'
  <2>1. IsFiniteSet(waiting') /\ Cardinality(waiting') <= MaxWaiters
    BY <1>5, OneMore DEF Queue
  <2> QED
    BY <1>5, <2>1 DEF Queue
<1>6. ASSUME NEW r \in Requests, TurnAway(r) PROVE Counted'
  BY <1>6 DEF TurnAway
<1>7. ASSUME NEW r \in Requests, TakeTurn(r) PROVE Counted'
  <2>1. IsFiniteSet(waiting') /\ Cardinality(waiting') <= MaxWaiters
    BY <1>7, OneLess DEF TakeTurn
  <2> QED
    BY <1>7, <2>1, ConfirmAssumption DEF TakeTurn
<1>8. ASSUME NEW r \in Requests, GiveUp(r) PROVE Counted'
  <2>1. IsFiniteSet(waiting') /\ Cardinality(waiting') <= MaxWaiters
    BY <1>8, OneLess DEF GiveUp
  <2> QED
    BY <1>8, <2>1, ConfirmAssumption DEF GiveUp
<1>9. ASSUME NEW r \in Requests, Leave(r) PROVE Counted'
  BY <1>9 DEF Leave
<1>10. ASSUME NEW r \in Requests, GatePasses(r) PROVE Counted'
  BY <1>10 DEF GatePasses
<1>11. ASSUME NEW r \in Requests, GateReplays(r) PROVE Counted'
  BY <1>11 DEF GateReplays
<1>12. ASSUME NEW r \in Requests, GateRefuses(r) PROVE Counted'
  BY <1>12 DEF GateRefuses
<1>13. ASSUME NEW r \in Requests, Revise(r) PROVE Counted'
  BY <1>13 DEF Revise, Save, Refused
<1>14. ASSUME NEW r \in Requests, ReviseFails(r) PROVE Counted'
  BY <1>14 DEF ReviseFails
<1>15. ASSUME NEW r \in Requests, Start(r) PROVE Counted'
  BY <1>15 DEF Start, Notes, Behind, Rank
<1>16. ASSUME NEW r \in Requests, TeamBDone(r) PROVE Counted'
  BY <1>16 DEF TeamBDone, Save, Refused
<1>17. ASSUME NEW r \in Requests, TeamBRaises(r) PROVE Counted'
  BY <1>17 DEF TeamBRaises
<1>18. ASSUME NEW r \in Requests, Check(r) PROVE Counted'
  BY <1>18 DEF Check
<1>19. ASSUME NEW r \in Requests, AfterFailure(r) PROVE Counted'
  BY <1>19 DEF AfterFailure
<1>20. ASSUME NEW r \in Requests, MarkLoad(r) PROVE Counted'
  BY <1>20 DEF MarkLoad
<1>21. ASSUME NEW r \in Requests, MarkSave(r) PROVE Counted'
  BY <1>21 DEF MarkSave, AfterMark, Marked, Save, Refused, Notes, Behind, Rank
<1>22. ASSUME NEW r \in Requests, StoreRam(r) PROVE Counted'
  BY <1>22 DEF StoreRam, Overwrites, Notes, Behind, Rank
<1>23. ASSUME NEW r \in Requests, StoreDisk(r) PROVE Counted'
  BY <1>23 DEF StoreDisk, AfterStore, Save, Overwrites, Notes, Behind, Rank
<1>24. ASSUME NEW r \in Requests, StoreRefused(r) PROVE Counted'
  BY <1>24 DEF StoreRefused, Refused
<1>25. ASSUME NEW r \in Requests, Echo(r) PROVE Counted'
  BY <1>25 DEF Echo, Notes, Behind, Rank
<1>26. ASSUME Restart PROVE Counted'
  <2>1. IsFiniteSet({}) /\ Cardinality({}) = 0
    BY FS_EmptySet
  <2>2. holder' = None /\ waiting' = {} /\ \A q \in Requests : pc'[q] # "waiting"
    BY <1>26 DEF Restart
  <2> QED
    BY <2>1, <2>2, ConfirmAssumption
<1>27. CASE UNCHANGED vars
  BY <1>27 DEF vars
<1>28. ASSUME NEW r \in Requests, MarkRefused(r) PROVE Counted'
  BY <1>28, ConfirmAssumption, MovedIsCopy DEF MarkRefused, AfterMark, Refused
<1>29. ASSUME NEW r \in Requests, StoreSwallowed(r) PROVE Counted'
  BY <1>29, ConfirmAssumption, MovedIsCopy DEF StoreSwallowed, AfterStore, Refused
<1> QED
  BY <1>1, <1>2, <1>3, <1>4, <1>5, <1>6, <1>7, <1>8, <1>9, <1>10, <1>11, <1>12, <1>13, <1>14, <1>15, <1>16, <1>17, <1>18, <1>19, <1>20, <1>21, <1>22, <1>23, <1>24, <1>25, <1>26, <1>27, <1>28, <1>29 DEF Next, Step, LockStep, GateStep, TeamBStep, StoreStep

(* The lock never outlives the request that took it, and no more requests    *)
(* wait for it than _CONFIRM_MAX_WAITERS: a request that gives up, is turned *)
(* away or gets its turn is not left in the count.                           *)
THEOREM LockHasOwner == Spec => []Counted
BY InitTyped, NextTyped, InitLocked, NextLocked, InitCancelling, NextCancelling, InitCounted,
   NextCounted, PTL DEF Spec

(* How far a request is on its way; what follows its answer or its cancel    *)
(* comes later than what precedes Team B.                                    *)
Order == [idle |-> 0, filling |-> 1, door |-> 2, waiting |-> 3, locked |-> 4, loading |-> 5,
          marking |-> 6, starting |-> 7, packing |-> 8, packed |-> 9, failed |-> 9, storing |-> 10,
          saving |-> 11, echoing |-> 17, leaving |-> 17, over |-> 18]
Late(r) == pc[r] \in {"loading", "marking"} /\ (op[r] = "cancel" \/ outcome[r] = "packed")
Stage(r) == Order[pc[r]] + (IF Late(r) THEN 10 ELSE 0)

Onward == \A r \in Requests : pc'[r] = pc[r] \/ Stage(r)' > Stage(r)

LEMMA StepOnward == Typed /\ Cancelling /\ [Next]_vars => Onward
<1> SUFFICES ASSUME Typed, Cancelling, [Next]_vars PROVE Onward
  OBVIOUS
<1> USE DEF Typed, TypeOK, Cancelling, Onward, Stage, Order, Late, Goes, Says, locals, Unlocked
<1>1. ASSUME NEW r \in Requests, NEW o \in Asks(r), Arrive(r, o) PROVE Onward
  BY <1>1 DEF Arrive
<1>2. ASSUME NEW r \in Requests, Fill(r) PROVE Onward
  BY <1>2 DEF Fill
<1>3. ASSUME NEW r \in Requests, ReadUnlocked(r) PROVE Onward
  BY <1>3 DEF ReadUnlocked
<1>4. ASSUME NEW r \in Requests, TakeLock(r) PROVE Onward
  BY <1>4 DEF TakeLock
<1>5. ASSUME NEW r \in Requests, Queue(r) PROVE Onward
  BY <1>5 DEF Queue
<1>6. ASSUME NEW r \in Requests, TurnAway(r) PROVE Onward
  BY <1>6 DEF TurnAway
<1>7. ASSUME NEW r \in Requests, TakeTurn(r) PROVE Onward
  BY <1>7 DEF TakeTurn
<1>8. ASSUME NEW r \in Requests, GiveUp(r) PROVE Onward
  BY <1>8 DEF GiveUp
<1>9. ASSUME NEW r \in Requests, Leave(r) PROVE Onward
  BY <1>9 DEF Leave
<1>10. ASSUME NEW r \in Requests, GatePasses(r) PROVE Onward
  BY <1>10 DEF GatePasses, Packing, Confirming
<1>11. ASSUME NEW r \in Requests, GateReplays(r) PROVE Onward
  BY <1>11 DEF GateReplays
<1>12. ASSUME NEW r \in Requests, GateRefuses(r) PROVE Onward
  BY <1>12 DEF GateRefuses
<1>13. ASSUME NEW r \in Requests, Revise(r) PROVE Onward
  BY <1>13 DEF Revise
<1>14. ASSUME NEW r \in Requests, ReviseFails(r) PROVE Onward
  BY <1>14 DEF ReviseFails
<1>15. ASSUME NEW r \in Requests, Start(r) PROVE Onward
  BY <1>15 DEF Start
<1>16. ASSUME NEW r \in Requests, TeamBDone(r) PROVE Onward
  BY <1>16 DEF TeamBDone
<1>17. ASSUME NEW r \in Requests, TeamBRaises(r) PROVE Onward
  BY <1>17 DEF TeamBRaises
<1>18. ASSUME NEW r \in Requests, Check(r) PROVE Onward
  BY <1>18 DEF Check
<1>19. ASSUME NEW r \in Requests, AfterFailure(r) PROVE Onward
  BY <1>19 DEF AfterFailure
<1>20. ASSUME NEW r \in Requests, MarkLoad(r) PROVE Onward
  BY <1>20 DEF MarkLoad
<1>21. ASSUME NEW r \in Requests, MarkSave(r) PROVE Onward
  BY <1>21 DEF MarkSave, AfterMark
<1>22. ASSUME NEW r \in Requests, StoreRam(r) PROVE Onward
  BY <1>22 DEF StoreRam
<1>23. ASSUME NEW r \in Requests, StoreDisk(r) PROVE Onward
  BY <1>23 DEF StoreDisk, AfterStore
<1>24. ASSUME NEW r \in Requests, StoreRefused(r) PROVE Onward
  BY <1>24 DEF StoreRefused
<1>25. ASSUME NEW r \in Requests, Echo(r) PROVE Onward
  BY <1>25 DEF Echo
<1>26. ASSUME Restart PROVE Onward
  BY <1>26 DEF Restart
<1>27. CASE UNCHANGED vars
  BY <1>27 DEF vars
<1>28. ASSUME NEW r \in Requests, MarkRefused(r) PROVE Onward
  BY <1>28, ConfirmAssumption, MovedIsCopy DEF MarkRefused, AfterMark, Refused
<1>29. ASSUME NEW r \in Requests, StoreSwallowed(r) PROVE Onward
  BY <1>29, ConfirmAssumption, MovedIsCopy DEF StoreSwallowed, AfterStore, Refused
<1> QED
  BY <1>1, <1>2, <1>3, <1>4, <1>5, <1>6, <1>7, <1>8, <1>9, <1>10, <1>11, <1>12, <1>13, <1>14, <1>15, <1>16, <1>17, <1>18, <1>19, <1>20, <1>21, <1>22, <1>23, <1>24, <1>25, <1>26, <1>27, <1>28, <1>29 DEF Next, Step, LockStep, GateStep, TeamBStep, StoreStep

(* No request ever goes back: a confirm, a revise, a resume or a cancel ends *)
(* after at most 18 steps of its own, with no loop in which it could hold    *)
(* the lock.                                                                 *)
THEOREM RequestsGoOnward == Spec => [][Onward]_vars
BY InitTyped, NextTyped, InitLocked, NextLocked, InitCancelling, NextCancelling, StepOnward, PTL DEF Spec
=============================================================================
