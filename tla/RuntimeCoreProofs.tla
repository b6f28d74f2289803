-------------------------- MODULE RuntimeCoreProofs --------------------------
(***************************************************************************)
(* Proofs about RuntimeCore for every set of sessions, turns and runtime   *)
(* instances and every bound.                                              *)
(*                                                                         *)
(* The argument: whatever the actor, one step changes the row and the log  *)
(* of a turn in one of five ways (TurnStep, lemma StepShape).  The facts   *)
(* about one turn's row and log are preserved by each of the five, so they *)
(* hold of every step; the fact about two turns of one session needs the   *)
(* guard of begin_turn as well.                                            *)
(***************************************************************************)
EXTENDS RuntimeCore, TLAPS

-----------------------------------------------------------------------------
LEMMA TypeStep == ASSUME TypeOK, [Next]_coreVars PROVE TypeOK'
<1> USE DEF TypeOK, ActiveStatus, TerminalStatus, Event, dbVars, memVars
<1>1. ASSUME NEW r \in Runtimes, NEW s \in Sessions, NEW t \in Turns, BeginTurn(r, s, t)
      PROVE  TypeOK'
  BY <1>1 DEF BeginTurn
<1>2. ASSUME NEW r \in Runtimes, NEW t \in Turns, CancelTurn(r, t)
      PROVE  TypeOK'
  BY <1>2 DEF CancelTurn
<1>3. ASSUME NEW t \in Turns, Emit(t)
      PROVE  TypeOK'
  BY <1>3 DEF Emit
<1>4. ASSUME NEW t \in Turns, CheckCancelled(t) \/ CancelToken(t)
      PROVE  TypeOK'
  BY <1>4 DEF CheckCancelled, CancelToken
<1>5. ASSUME NEW t \in Turns, NEW final \in TerminalStatus,
             Settle(t, final), UNCHANGED <<token, failures>>
      PROVE  TypeOK'
  <2>1. registry' \in [Runtimes -> SUBSET Turns]
    <3>1. holder[t] \in Runtimes => registry[holder[t]] \in SUBSET Turns
      OBVIOUS
    <3>2. QED
      BY <1>5, <3>1 DEF Settle
  <2>2. log' \in [Turns -> Seq(Event)]
    <3>1. Append(log[t], final) \in Seq(Event)
      OBVIOUS
    <3>2. QED
      BY <1>5, <3>1 DEF Settle
  <2>3. QED
    BY <1>5, <2>1, <2>2 DEF Settle
<1>6. ASSUME NEW t \in Turns, NEW wanted \in TerminalStatus, NEW rc \in BOOLEAN,
             Finish(t, wanted, rc)
      PROVE  TypeOK'
  <2>1. Resolved(t, wanted, rc) \in TerminalStatus
    BY <1>6 DEF Finish, Resolved
  <2>2. QED
    BY <1>5, <1>6, <2>1 DEF Finish
<1>7. ASSUME NEW t \in Turns, DropLease(t), failures' \in [Turns -> Nat]
      PROVE  TypeOK'
  BY <1>7 DEF DropLease
<1>8. ASSUME NEW t \in Turns, NEW wanted \in TerminalStatus, NEW rc \in BOOLEAN,
             FinishRefused(t, wanted, rc)
      PROVE  TypeOK'
  BY <1>7, <1>8 DEF FinishRefused
<1>9. ASSUME NEW t \in Turns, LeaseFails(t)
      PROVE  TypeOK'
  BY <1>7, <1>9 DEF LeaseFails
<1>10. ASSUME NEW t \in Turns, DropSettles(t)
       PROVE  TypeOK'
  <2>1. CASE Active(t)
    BY <1>5, <1>10, <2>1 DEF DropSettles
  <2>2. CASE ~Active(t)
    BY <1>10, <2>2 DEF DropSettles
  <2>3. QED
    BY <2>1, <2>2
<1>11. ASSUME NEW t \in Turns, DropFails(t)
       PROVE  TypeOK'
  BY <1>11 DEF DropFails
<1>12. ASSUME NEW r \in Runtimes, RecoverInterrupted(r)
       PROVE  TypeOK'
  BY <1>12 DEF RecoverInterrupted
<1>13. ASSUME NEW r \in Runtimes, Crash(r)
       PROVE  TypeOK'
  BY <1>13 DEF Crash
<1>14. CASE UNCHANGED coreVars
  BY <1>14 DEF coreVars
<1>15. QED
  BY <1>1, <1>2, <1>3, <1>4, <1>6, <1>8, <1>9, <1>10, <1>11, <1>12, <1>13, <1>14
     DEF Next, LeaseStep, RuntimeStep

(* The values of every variable stay in their types: the status column, the  *)
(* event vocabulary, the leases, tokens and registries of persistence.rs.    *)
THEOREM TypeCorrect == Spec => []TypeOK
<1>1. Init => TypeOK
  BY DEF Init, TypeOK, ActiveStatus, TerminalStatus, Event
<1>2. TypeOK /\ [Next]_coreVars => TypeOK'
  BY TypeStep
<1>3. QED
  BY <1>1, <1>2, PTL DEF Spec

-----------------------------------------------------------------------------
(* The five ways in which a step changes the row and the log of a turn. *)
Untouched(t) == status'[t] = status[t] /\ log'[t] = log[t]

Began(t) ==
    /\ status[t] = "absent" /\ status'[t] = "running"
    /\ log'[t] = Append(log[t], "started")

StopLogged(t) ==
    /\ status[t] = "running" /\ status'[t] = "cancelling"
    /\ log'[t] = Append(log[t], "cancelling")

Emitted(t) ==
    /\ Active(t) /\ status'[t] = status[t]
    /\ log'[t] = Append(log[t], "progress")

Settled(t) ==
    /\ Active(t) /\ status'[t] \in TerminalStatus
    /\ log'[t] = Append(log[t], status'[t])
    /\ status'[t] = "completed" => ~CancelSeen(t)

TurnStep(t) == Untouched(t) \/ Began(t) \/ StopLogged(t) \/ Emitted(t) \/ Settled(t)

LEMMA StepShape ==
    ASSUME TypeOK, [Next]_coreVars, NEW u \in Turns
    PROVE  TurnStep(u)
<1> USE DEF TypeOK, TurnStep, Untouched, dbVars, memVars
<1>1. ASSUME NEW r \in Runtimes, NEW s \in Sessions, NEW t \in Turns, BeginTurn(r, s, t)
      PROVE  TurnStep(u)
  BY <1>1 DEF BeginTurn, Began
<1>2. ASSUME NEW r \in Runtimes, NEW t \in Turns, CancelTurn(r, t)
      PROVE  TurnStep(u)
  BY <1>2 DEF CancelTurn, StopLogged, Active, ActiveStatus
<1>3. ASSUME NEW t \in Turns, Emit(t)
      PROVE  TurnStep(u)
  BY <1>3 DEF Emit, Emitted
<1>4. ASSUME NEW t \in Turns, UNCHANGED dbVars
      PROVE  TurnStep(u)
  BY <1>4
<1>5. ASSUME NEW t \in Turns, NEW wanted \in TerminalStatus, NEW rc \in BOOLEAN,
             Finish(t, wanted, rc)
      PROVE  TurnStep(u)
  <2>1. /\ Active(t) /\ Resolved(t, wanted, rc) \in TerminalStatus
        /\ Resolved(t, wanted, rc) = "completed" => ~CancelSeen(t)
    BY <1>5 DEF Finish, Resolved, TerminalStatus
  <2>2. Settle(t, Resolved(t, wanted, rc))
    BY <1>5 DEF Finish
  <2>3. QED
    BY <2>1, <2>2 DEF Settle, Settled
<1>6. ASSUME NEW t \in Turns, DropSettles(t)
      PROVE  TurnStep(u)
  BY <1>6 DEF DropSettles, Settle, Settled, TerminalStatus
<1>7. ASSUME NEW r \in Runtimes, RecoverInterrupted(r)
      PROVE  TurnStep(u)
  BY <1>7 DEF RecoverInterrupted, Settled, TerminalStatus
<1>8. QED
  BY <1>1, <1>2, <1>3, <1>4, <1>5, <1>6, <1>7
     DEF Next, LeaseStep, RuntimeStep, CheckCancelled, CancelToken, FinishRefused,
         LeaseFails, DropLease, DropFails, Crash, coreVars

-----------------------------------------------------------------------------
(* The inductive fact about one turn: what its log l and its status st say   *)
(* of each other.  LogTellsStatus alone is not inductive: an absent turn     *)
(* must have an empty log, and a logged cancellation must still show in the  *)
(* row while the turn is active.                                             *)
Has(l, e) == \E i \in DOMAIN l : l[i] = e

Fits(l, st) ==
    /\ st = "absent" <=> l = << >>
    /\ \A i \in DOMAIN l : l[i] = "started" <=> i = 1
    /\ \A i \in DOMAIN l : l[i] \in TerminalStatus => i = Len(l) /\ l[i] = st
    /\ st \in TerminalStatus => l[Len(l)] = st
    /\ st \in ActiveStatus => (st = "cancelling" <=> Has(l, "cancelling"))
    /\ Has(l, "cancelling") => st # "completed"

RowMatchesLog(t) == Fits(log[t], status[t])

LEMMA AppendFacts ==
    ASSUME NEW S, NEW l \in Seq(S), NEW e \in S, NEW m, m = Append(l, e)
    PROVE  /\ m \in Seq(S) /\ m # << >>
           /\ Len(l) \in Nat /\ Len(m) = Len(l) + 1
           /\ DOMAIN l = 1 .. Len(l) /\ DOMAIN m = 1 .. Len(l) + 1
           /\ m[Len(l) + 1] = e
           /\ \A i \in DOMAIN l : m[i] = l[i]
           /\ l = << >> <=> Len(l) = 0
           /\ SubSeq(m, 1, Len(l)) = l
  OBVIOUS

LEMMA AppendOther ==
    ASSUME NEW l \in Seq(Event), NEW e \in Event \ {"cancelling"}, NEW m, m = Append(l, e)
    PROVE  Has(m, "cancelling") <=> Has(l, "cancelling")
<1>1. /\ Len(l) \in Nat /\ DOMAIN l = 1 .. Len(l) /\ DOMAIN m = 1 .. Len(l) + 1
      /\ m[Len(l) + 1] = e /\ (\A i \in DOMAIN l : m[i] = l[i])
  BY AppendFacts
<1>2. \A i \in DOMAIN m : i \in DOMAIN l \/ i = Len(l) + 1
  BY <1>1
<1>3. QED
  BY <1>1, <1>2 DEF Has

LEMMA FirstEventFits ==
    ASSUME NEW m, m = Append(<< >>, "started")
    PROVE  Fits(m, "running")
<1>1. << >> \in Seq(Event) /\ "started" \in Event /\ Len(<< >>) = 0
  BY DEF Event
<1>2. m # << >> /\ Len(m) = 1 /\ DOMAIN m = 1 .. 1 /\ m[1] = "started"
  BY <1>1, AppendFacts
<1>3. QED
  BY <1>2 DEF Fits, Has, ActiveStatus, TerminalStatus

LEMMA NextEventFits ==
    ASSUME NEW l \in Seq(Event), NEW st \in ActiveStatus, Fits(l, st),
           NEW e \in Event \ {"started"}, NEW after, NEW m, m = Append(l, e),
           \/ e = "cancelling" /\ after = "cancelling"
           \/ e = "progress" /\ after = st
           \/ e \in TerminalStatus /\ after = e /\ (e = "completed" => st # "cancelling")
    PROVE  Fits(m, after)
<1>1. /\ m # << >> /\ Len(l) \in Nat /\ Len(m) = Len(l) + 1
      /\ DOMAIN l = 1 .. Len(l) /\ DOMAIN m = 1 .. Len(l) + 1
      /\ m[Len(l) + 1] = e /\ (\A i \in DOMAIN l : m[i] = l[i])
      /\ l = << >> <=> Len(l) = 0
  BY AppendFacts
<1>2. st # "absent" /\ Len(l) > 0 /\ after # "absent"
  BY <1>1 DEF Fits, ActiveStatus, TerminalStatus
<1>3. \A i \in DOMAIN m : i \in DOMAIN l \/ i = Len(l) + 1
  BY <1>1
<1>4. \A i \in DOMAIN l : l[i] \notin TerminalStatus
  BY DEF Fits, ActiveStatus, TerminalStatus
<1>5. \A i \in DOMAIN m : m[i] = "started" <=> i = 1
  BY <1>1, <1>2, <1>3 DEF Fits
<1>6. \A i \in DOMAIN m : m[i] \in TerminalStatus => i = Len(m) /\ m[i] = after
  BY <1>1, <1>3, <1>4 DEF TerminalStatus
<1>7. Has(m, "cancelling") <=> Has(l, "cancelling") \/ e = "cancelling"
  BY <1>1, <1>3 DEF Has
<1>8. after \in TerminalStatus => m[Len(m)] = after
  BY <1>1 DEF ActiveStatus, TerminalStatus
<1>9. after \in ActiveStatus => (after = "cancelling" <=> Has(m, "cancelling"))
  BY <1>7 DEF Fits, ActiveStatus, TerminalStatus
<1>10. Has(m, "cancelling") => after # "completed"
  BY <1>7 DEF Fits, ActiveStatus, TerminalStatus
<1>11. QED
  BY <1>1, <1>2, <1>5, <1>6, <1>8, <1>9, <1>10 DEF Fits

LEMMA RowMatchesLogStep ==
    ASSUME TypeOK, [Next]_coreVars, NEW t \in Turns, RowMatchesLog(t)
    PROVE  RowMatchesLog(t)'
<1>1. TurnStep(t)
  BY StepShape
<1>2. log[t] \in Seq(Event)
  BY DEF TypeOK
<1>3. CASE Untouched(t)
  BY <1>3 DEF Untouched, RowMatchesLog
<1>4. CASE Began(t)
  <2>1. log[t] = << >>
    BY <1>4 DEF Began, RowMatchesLog, Fits
  <2>2. QED
    BY <1>4, <2>1, FirstEventFits DEF Began, RowMatchesLog
<1>5. CASE StopLogged(t) \/ Emitted(t) \/ Settled(t)
  <2>1. PICK e \in Event \ {"started"} :
            /\ log'[t] = Append(log[t], e)
            /\ \/ e = "cancelling" /\ status'[t] = "cancelling"
               \/ e = "progress" /\ status'[t] = status[t]
               \/ /\ e \in TerminalStatus /\ status'[t] = e
                  /\ e = "completed" => status[t] # "cancelling"
    BY <1>5 DEF StopLogged, Emitted, Settled, CancelSeen, Event, TerminalStatus
  <2>2. status[t] \in ActiveStatus
    BY <1>5 DEF StopLogged, Emitted, Settled, Active, ActiveStatus
  <2>3. QED
    BY <1>2, <2>1, <2>2, NextEventFits DEF RowMatchesLog
<1>6. QED
  BY <1>1, <1>3, <1>4, <1>5 DEF TurnStep

LEMMA RowsMatchLogs == Spec => [](\A t \in Turns : RowMatchesLog(t))
<1>1. Init => \A t \in Turns : RowMatchesLog(t)
  BY DEF Init, RowMatchesLog, Fits, Has, ActiveStatus, TerminalStatus
<1>2. TypeOK /\ [Next]_coreVars /\ (\A t \in Turns : RowMatchesLog(t))
         => (\A t \in Turns : RowMatchesLog(t))'
  BY RowMatchesLogStep
<1>3. QED
  BY <1>1, <1>2, TypeCorrect, PTL DEF Spec

(* The event log of every turn tells its status: one turn.started first, one *)
(* terminal event last, both as append_event and the status column leave     *)
(* them.                                                                     *)
THEOREM LogsTellStatus == Spec => []LogTellsStatus
<1>1. (\A t \in Turns : RowMatchesLog(t)) => LogTellsStatus
  BY DEF RowMatchesLog, Fits, LogTellsStatus, StartsOnce, EndsOnce, Terminal
<1>2. QED
  BY <1>1, RowsMatchLogs, PTL

(* No turn with a committed cancellation is ever completed, whoever cancels  *)
(* and whoever finishes (cancel_turn against finish_transition).             *)
THEOREM CancelledTurnsDoNotComplete == Spec => []CancelledNeverCompletes
<1>1. (\A t \in Turns : RowMatchesLog(t)) => CancelledNeverCompletes
  BY DEF RowMatchesLog, Fits, Has, CancelledNeverCompletes, Logged
<1>2. QED
  BY <1>1, RowsMatchLogs, PTL

(* No operation rewrites the status or the log of a settled turn, and none   *)
(* ever removes or changes an event that was written.                        *)
THEOREM SettledTurnsAreFinal == Spec => TerminalIsFinal
<1>1. ASSUME TypeOK, [Next]_coreVars, NEW t \in Turns
      PROVE  TurnIsFinal(t)
  <2> USE DEF TypeOK
  <2>1. TurnStep(t)
    BY <1>1, StepShape
  <2>2. Terminal(t) => Untouched(t)
    BY <2>1 DEF TurnStep, Began, StopLogged, Emitted, Settled, Terminal, Active,
                ActiveStatus, TerminalStatus
  <2>3. \/ log'[t] = log[t]
        \/ \E e \in Event : log'[t] = Append(log[t], e)
    BY <1>1, <2>1 DEF TurnStep, Untouched, Began, StopLogged, Emitted, Settled, Event
  <2>4. SubSeq(log'[t], 1, Len(log[t])) = log[t]
    <3>1. log[t] \in Seq(Event) /\ SubSeq(log[t], 1, Len(log[t])) = log[t]
      BY <1>1
    <3>2. QED
      BY <2>3, <3>1, AppendFacts
  <2>5. QED
    BY <2>2, <2>4 DEF TurnIsFinal, Untouched
<1>2. TypeOK /\ [Next]_coreVars => [\A t \in Turns : TurnIsFinal(t)]_coreVars
  BY <1>1
<1>3. QED
  BY <1>2, TypeCorrect, PTL DEF Spec, TerminalIsFinal

(* A turn whose token is flagged is never completed by the next step, even   *)
(* if its row still says running (the check inside finish_transition).       *)
THEOREM FlaggedTurnsDoNotComplete == Spec => FlaggedNeverCompletes
<1>1. ASSUME TypeOK, [Next]_coreVars, NEW t \in Turns, Active(t), token[t]
      PROVE  status'[t] # "completed"
  <2>1. TurnStep(t)
    BY <1>1, StepShape
  <2>2. QED
    BY <1>1, <2>1 DEF TurnStep, Untouched, Began, StopLogged, Emitted, Settled,
                      CancelSeen, Active, ActiveStatus
<1>2. TypeOK /\ [Next]_coreVars
         => [\A t \in Turns : Active(t) /\ token[t] => status'[t] # "completed"]_coreVars
  BY <1>1
<1>3. QED
  BY <1>2, TypeCorrect, PTL DEF Spec, FlaggedNeverCompletes

-----------------------------------------------------------------------------
(* How a step moves turns between sessions: only a begun turn changes its    *)
(* session, and it enters one that no active turn occupies.                  *)
Enters(t, s) ==
    /\ Occupants(s) = {}
    /\ sessionOf' = [sessionOf EXCEPT ![t] = s]
    /\ status' = [status EXCEPT ![t] = "running"]

LEMMA SessionStep ==
    ASSUME TypeOK, [Next]_coreVars
    PROVE  \/ sessionOf' = sessionOf /\ \A u \in Turns : Active(u)' => Active(u)
           \/ \E t \in Turns, s \in Sessions : Enters(t, s)
<1>1. CASE \E r \in Runtimes, s \in Sessions, t \in Turns : BeginTurn(r, s, t)
  BY <1>1 DEF BeginTurn, Enters
<1>2. CASE ~(\E r \in Runtimes, s \in Sessions, t \in Turns : BeginTurn(r, s, t))
  <2>1. sessionOf' = sessionOf
    BY <1>2 DEF Next, LeaseStep, RuntimeStep, CancelTurn, Emit, CheckCancelled, CancelToken,
                Finish, Settle, FinishRefused, LeaseFails, DropLease, DropSettles,
                DropFails, RecoverInterrupted, Crash, dbVars, coreVars
  <2>2. ASSUME NEW u \in Turns, Active(u)'
        PROVE  Active(u)
    <3>1. TurnStep(u)
      BY StepShape
    <3>2. ~Began(u)
      BY <1>2 DEF Next, LeaseStep, RuntimeStep, CancelTurn, Emit, CheckCancelled, CancelToken,
                  Finish, Settle, FinishRefused, LeaseFails, DropLease, DropSettles,
                  DropFails, RecoverInterrupted, Crash, dbVars, coreVars, Began, TypeOK,
                  Active, ActiveStatus
    <3>3. QED
      BY <2>2, <3>1, <3>2 DEF TurnStep, Untouched, StopLogged, Emitted, Settled, Active,
                              ActiveStatus, TerminalStatus
  <2>3. QED
    BY <2>1, <2>2
<1>3. QED
  BY <1>1, <1>2

(* At most one turn of a session is active, for any number of instances on   *)
(* one database (begin_turn's busy check in its IMMEDIATE transaction).      *)
THEOREM OneTurnPerSession == Spec => []OneActiveTurn
<1>1. Init => OneActiveTurn
  BY DEF Init, OneActiveTurn, Active, ActiveStatus
<1>2. TypeOK /\ [Next]_coreVars /\ OneActiveTurn => OneActiveTurn'
  <2> SUFFICES ASSUME TypeOK, [Next]_coreVars, OneActiveTurn,
                      NEW t \in Turns, NEW u \in Turns,
                      t # u, Active(t)', Active(u)'
               PROVE  sessionOf'[t] # sessionOf'[u]
    BY DEF OneActiveTurn
  <2>1. CASE sessionOf' = sessionOf /\ \A v \in Turns : Active(v)' => Active(v)
    BY <2>1 DEF OneActiveTurn
  <2>2. ASSUME NEW v \in Turns, NEW s \in Sessions, Enters(v, s)
        PROVE  sessionOf'[t] # sessionOf'[u]
    <3>1. \A w \in Turns : w # v => sessionOf'[w] = sessionOf[w] /\ (Active(w)' => Active(w))
      BY <2>2 DEF Enters, TypeOK, Active
    <3>2. sessionOf'[v] = s
      BY <2>2 DEF Enters, TypeOK
    <3>3. \A w \in Turns : Active(w) => sessionOf[w] # s
      BY <2>2 DEF Enters, Occupants
    <3>4. CASE t = v
      BY <3>1, <3>2, <3>3, <3>4
    <3>5. CASE u = v
      BY <3>1, <3>2, <3>3, <3>5
    <3>6. CASE t # v /\ u # v
      BY <3>1, <3>6 DEF OneActiveTurn
    <3>7. QED
      BY <3>4, <3>5, <3>6
  <2>3. QED
    BY <2>1, <2>2, SessionStep
<1>3. QED
  BY <1>1, <1>2, TypeCorrect, PTL DEF Spec

-----------------------------------------------------------------------------
(* The refinement of TurnLifecycle.  Under OneActiveTurn the turn that a     *)
(* session serves is the one active row; an active row has a session.        *)
ActiveHasSession == \A t \in Turns : Active(t) => sessionOf[t] \in Sessions

LEMMA ActiveTurnsHaveSessions == Spec => []ActiveHasSession
<1>1. Init => ActiveHasSession
  BY DEF Init, ActiveHasSession, Active, ActiveStatus
<1>2. TypeOK /\ [Next]_coreVars /\ ActiveHasSession => ActiveHasSession'
  BY SessionStep DEF ActiveHasSession, Enters, TypeOK, Active
<1>3. QED
  BY <1>1, <1>2, TypeCorrect, PTL DEF Spec

MapInv == TypeOK /\ OneActiveTurn /\ ActiveHasSession /\ \A t \in Turns : RowMatchesLog(t)

LEMMA ServedTurn ==
    ASSUME OneActiveTurn, NEW s \in Sessions
    PROVE  /\ servedTurns[s] = None \/ servedTurns[s] \in Occupants(s)
           /\ \A t \in Occupants(s) : servedTurns[s] = t
           /\ servedTurns[s] = None <=> Occupants(s) = {}
  BY CoreAssumption DEF servedTurns, CurrentTurn, TheTurn, Occupants, OneActiveTurn

(* A step that leaves the active rows alone leaves the served turns alone. *)
LEMMA ServedUnchanged ==
    ASSUME sessionOf' = sessionOf, \A t \in Turns : Active(t)' <=> Active(t)
    PROVE  servedTurns' = servedTurns
<1>1. ASSUME NEW s \in Sessions PROVE Occupants(s)' = Occupants(s)
  BY DEF Occupants
<1>2. QED
  BY <1>1 DEF servedTurns, CurrentTurn

LEMMA AsksStop ==
    ASSUME MapInv, NEW r \in Runtimes, NEW t \in Turns, CancelTurn(r, t)
    PROVE  Lifecycle!AskStop(t)
<1> USE DEF MapInv, TypeOK
<1>1. servedTurns' = servedTurns /\ outcomes' = outcomes
  <2>1. \A u \in Turns : (Active(u)' <=> Active(u)) /\ (~Active(u) => status'[u] = status[u])
    BY DEF CancelTurn, Active, ActiveStatus
  <2>2. sessionOf' = sessionOf
    BY DEF CancelTurn
  <2>3. QED
    BY <2>1, <2>2, ServedUnchanged DEF outcomes
<1>2. stopsAsked' = stopsAsked \cup {t}
  <2>1. \A u \in Turns : u # t => log'[u] = log[u]
    BY DEF CancelTurn
  <2>2. Logged(t, "cancelling")'
    <3>1. RowMatchesLog(t)'
      BY RowMatchesLogStep DEF Next, RuntimeStep
    <3>2. status'[t] = "cancelling"
      BY DEF CancelTurn
    <3>3. QED
      BY <3>1, <3>2 DEF RowMatchesLog, Fits, Has, Logged, ActiveStatus
  <2>3. QED
    BY <2>1, <2>2 DEF stopsAsked, Logged
<1>3. Lifecycle!Served(t)
  <2>1. t \in Occupants(sessionOf[t]) /\ sessionOf[t] \in Sessions
    BY DEF CancelTurn, Occupants, ActiveHasSession
  <2>2. QED
    BY <2>1, ServedTurn DEF Lifecycle!Served
<1>4. QED
  BY <1>1, <1>2, <1>3 DEF Lifecycle!AskStop

LEMMA Ends ==
    ASSUME MapInv, NEW t \in Turns, NEW s, s = sessionOf[t], Active(t), NEW final \in TerminalStatus,
           Settle(t, final), final = "completed" => ~CancelSeen(t)
    PROVE  Lifecycle!End(s, final)
<1> USE DEF MapInv, TypeOK
<1>1. s \in Sessions /\ t \in Occupants(s) /\ servedTurns[s] = t /\ servedTurns[s] # None
  BY ServedTurn, CoreAssumption DEF ActiveHasSession, Occupants
<1>2. /\ \A u \in Turns : u # t => status'[u] = status[u] /\ log'[u] = log[u]
      /\ status'[t] = final /\ ~Active(t)' /\ sessionOf' = sessionOf
      /\ log'[t] = Append(log[t], final)
  BY DEF Settle, Active, ActiveStatus, TerminalStatus
<1>3. final = "completed" => servedTurns[s] \notin stopsAsked
  BY <1>1 DEF CancelSeen, stopsAsked, RowMatchesLog, Fits, Has, Logged, Active, ActiveStatus
<1>4. outcomes' = [outcomes EXCEPT ![servedTurns[s]] = final]
  BY <1>1, <1>2 DEF outcomes, Active
<1>5. servedTurns' = [servedTurns EXCEPT ![s] = None]
  <2>1. Occupants(s)' = {}
    BY <1>1, <1>2 DEF Occupants, OneActiveTurn, Active
  <2>2. \A z \in Sessions : z # s => Occupants(z)' = Occupants(z)
    BY <1>2 DEF Occupants, Active
  <2>3. QED
    <3>1. CurrentTurn(s)' = None
      BY <2>1 DEF CurrentTurn
    <3>2. \A z \in Sessions : z # s => CurrentTurn(z)' = CurrentTurn(z)
      BY <2>2 DEF CurrentTurn
    <3>3. QED
      BY <1>1, <3>1, <3>2 DEF servedTurns
<1>6. stopsAsked' = stopsAsked
  <2>1. Logged(t, "cancelling")' <=> Logged(t, "cancelling")
    <3>1. log[t] \in Seq(Event) /\ final \in Event /\ final # "cancelling"
      BY DEF Event, TerminalStatus
    <3>2. Has(log'[t], "cancelling") <=> Has(log[t], "cancelling")
      BY <1>2, <3>1, AppendOther
    <3>3. QED
      BY <3>2 DEF Logged, Has
  <2>2. QED
    BY <1>2, <2>1 DEF stopsAsked, Logged
<1>7. QED
  BY <1>1, <1>3, <1>4, <1>5, <1>6 DEF Lifecycle!End

LEMMA Interrupts ==
    ASSUME MapInv, NEW r \in Runtimes, RecoverInterrupted(r)
    PROVE  Lifecycle!InterruptAll
<1> USE DEF MapInv, TypeOK
<1>1. \A t \in Turns :
         /\ Active(t) => status'[t] = "interrupted" /\ log'[t] = Append(log[t], "interrupted")
         /\ ~Active(t) => status'[t] = status[t] /\ log'[t] = log[t]
  BY DEF RecoverInterrupted
<1>2. \A t \in Turns : ~Active(t)'
  BY <1>1 DEF Active, ActiveStatus
<1>3. \A t \in Turns : Lifecycle!Served(t) <=> Active(t)
  <2>1. ASSUME NEW t \in Turns, Active(t) PROVE Lifecycle!Served(t)
    BY <2>1, ServedTurn DEF Lifecycle!Served, ActiveHasSession, Occupants
  <2>2. ASSUME NEW t \in Turns, Lifecycle!Served(t) PROVE Active(t)
    BY <2>2, ServedTurn, CoreAssumption DEF Lifecycle!Served, Occupants
  <2>3. QED
    BY <2>1, <2>2
<1>4. outcomes' = [t \in Turns |-> IF Lifecycle!Served(t) THEN "interrupted" ELSE outcomes[t]]
  BY <1>1, <1>2, <1>3 DEF outcomes
<1>5. servedTurns' = [s \in Sessions |-> None]
  BY <1>2 DEF servedTurns, CurrentTurn, Occupants
<1>6. stopsAsked' = stopsAsked
  <2>1. ASSUME NEW t \in Turns PROVE Logged(t, "cancelling")' <=> Logged(t, "cancelling")
    <3>1. log[t] \in Seq(Event) /\ "interrupted" \in Event
      BY DEF Event, TerminalStatus
    <3>2. CASE Active(t)
      <4>1. Has(log'[t], "cancelling") <=> Has(log[t], "cancelling")
        BY <1>1, <3>1, <3>2, AppendOther
      <4>2. QED
        BY <4>1 DEF Logged, Has
    <3>3. CASE ~Active(t)
      BY <1>1, <3>3 DEF Logged
    <3>4. QED
      BY <3>2, <3>3
  <2>2. QED
    BY <2>1 DEF stopsAsked
<1>7. QED
  BY <1>4, <1>5, <1>6 DEF Lifecycle!InterruptAll

LEMMA Begins ==
    ASSUME MapInv, NEW r \in Runtimes, NEW s \in Sessions, NEW t \in Turns, BeginTurn(r, s, t)
    PROVE  Lifecycle!Begin(s, t)
<1> USE DEF MapInv, TypeOK
<1>1. /\ \A u \in Turns : u # t => /\ status'[u] = status[u] /\ log'[u] = log[u]
                                  /\ sessionOf'[u] = sessionOf[u]
      /\ status[t] = "absent" /\ status'[t] = "running" /\ sessionOf'[t] = s
      /\ Occupants(s) = {} /\ log'[t] = Append(log[t], "started")
      /\ ~Active(t) /\ Active(t)'
  BY DEF BeginTurn, Active, ActiveStatus
<1>2. servedTurns[s] = None /\ outcomes[t] = "absent"
  BY <1>1, ServedTurn DEF outcomes
<1>3. outcomes' = [outcomes EXCEPT ![t] = "none"]
  BY <1>1 DEF outcomes, Active
<1>4. servedTurns' = [servedTurns EXCEPT ![s] = t]
  <2>1. Occupants(s)' = {t}
    BY <1>1 DEF Occupants, Active
  <2>2. \A z \in Sessions : z # s => Occupants(z)' = Occupants(z)
    BY <1>1 DEF Occupants, Active
  <2>3. QED
    <3>1. TheTurn({t}) = t
      BY DEF TheTurn
    <3>2. CurrentTurn(s)' = t
      BY <2>1, <3>1 DEF CurrentTurn
    <3>3. \A z \in Sessions : z # s => CurrentTurn(z)' = CurrentTurn(z)
      BY <2>2 DEF CurrentTurn
    <3>4. QED
      BY <3>2, <3>3 DEF servedTurns
<1>5. stopsAsked' = stopsAsked
  <2>1. Logged(t, "cancelling")' <=> Logged(t, "cancelling")
    <3>1. log[t] \in Seq(Event) /\ "started" \in Event
      BY DEF Event
    <3>2. Has(log'[t], "cancelling") <=> Has(log[t], "cancelling")
      BY <1>1, <3>1, AppendOther
    <3>3. QED
      BY <3>2 DEF Logged, Has
  <2>2. \A u \in Turns : Logged(u, "cancelling")' <=> Logged(u, "cancelling")
    BY <1>1, <2>1 DEF Logged
  <2>3. QED
    BY <2>2 DEF stopsAsked
<1>6. QED
  BY <1>2, <1>3, <1>4, <1>5 DEF Lifecycle!Begin

LEMMA LifecycleStutters ==
    ASSUME MapInv, sessionOf' = sessionOf, status' = status,
           \A t \in Turns : log'[t] = log[t] \/ log'[t] = Append(log[t], "progress")
    PROVE  UNCHANGED Lifecycle!lifecycleVars
<1>1. servedTurns' = servedTurns /\ outcomes' = outcomes
  BY ServedUnchanged DEF Active, outcomes
<1>2. ASSUME NEW t \in Turns PROVE Logged(t, "cancelling")' <=> Logged(t, "cancelling")
  <2>1. log[t] \in Seq(Event) /\ "progress" \in Event
    BY DEF MapInv, TypeOK, Event
  <2>2. QED
    BY <2>1, AppendOther DEF Logged, Has
<1>3. stopsAsked' = stopsAsked
  BY <1>2 DEF stopsAsked
<1>4. QED
  BY <1>1, <1>3 DEF Lifecycle!lifecycleVars

(* RuntimeCore implements TurnLifecycle: a session serves one turn at a      *)
(* time, a turn ends once, and never as completed after a stop was asked.    *)
THEOREM CoreImplementsLifecycle == Spec => ImplementsLifecycle
<1>1. Init => Lifecycle!Init
  <2> SUFFICES ASSUME Init PROVE Lifecycle!Init
    OBVIOUS
  <2>1. \A t \in Turns : ~Active(t) /\ status[t] = "absent" /\ log[t] = << >>
    BY DEF Init, Active, ActiveStatus
  <2>2. servedTurns = [s \in Sessions |-> None]
    BY <2>1 DEF servedTurns, CurrentTurn, Occupants
  <2>3. stopsAsked = {} /\ outcomes = [t \in Turns |-> "absent"]
    BY <2>1 DEF stopsAsked, outcomes, Logged
  <2>4. QED
    BY <2>2, <2>3 DEF Lifecycle!Init
<1>2. MapInv /\ [Next]_coreVars => [Lifecycle!Next]_Lifecycle!lifecycleVars
  <2> SUFFICES ASSUME MapInv, [Next]_coreVars
               PROVE  Lifecycle!Next \/ UNCHANGED Lifecycle!lifecycleVars
    OBVIOUS
  <2>1. ASSUME NEW r \in Runtimes, NEW s \in Sessions, NEW t \in Turns, BeginTurn(r, s, t)
        PROVE  Lifecycle!Next
    BY <2>1, Begins DEF Lifecycle!Next
  <2>2. ASSUME NEW r \in Runtimes, NEW t \in Turns, CancelTurn(r, t)
        PROVE  Lifecycle!Next
    BY <2>2, AsksStop DEF Lifecycle!Next
  <2>3. ASSUME NEW r \in Runtimes, RecoverInterrupted(r)
        PROVE  Lifecycle!Next
    BY <2>3, Interrupts DEF Lifecycle!Next
  <2>4. ASSUME NEW t \in Turns, Active(t), NEW final \in TerminalStatus, Settle(t, final),
               final = "completed" => ~CancelSeen(t)
        PROVE  Lifecycle!Next
    <3>1. sessionOf[t] \in Sessions /\ final \in Lifecycle!Outcome
      BY <2>4 DEF MapInv, ActiveHasSession, Lifecycle!Outcome, TerminalStatus
    <3>2. Lifecycle!End(sessionOf[t], final)
      BY <2>4, Ends
    <3>3. QED
      BY <3>1, <3>2 DEF Lifecycle!Next
  <2>5. ASSUME NEW t \in Turns, NEW wanted \in TerminalStatus, NEW rc \in BOOLEAN,
               Finish(t, wanted, rc)
        PROVE  Lifecycle!Next
    <3>1. /\ Resolved(t, wanted, rc) \in TerminalStatus
          /\ Resolved(t, wanted, rc) = "completed" => ~CancelSeen(t)
      BY <2>5 DEF Finish, Resolved, TerminalStatus
    <3>2. QED
      BY <2>4, <2>5, <3>1 DEF Finish
  <2>6. ASSUME NEW t \in Turns, DropSettles(t), Active(t)
        PROVE  Lifecycle!Next
    BY <2>4, <2>6 DEF DropSettles, TerminalStatus
  <2>7. ASSUME UNCHANGED dbVars
        PROVE  UNCHANGED Lifecycle!lifecycleVars
    BY <2>7, LifecycleStutters DEF dbVars
  <2>8. ASSUME NEW t \in Turns, Emit(t)
        PROVE  UNCHANGED Lifecycle!lifecycleVars
    BY <2>8, LifecycleStutters DEF Emit, MapInv, TypeOK
  <2>9. QED
    BY <2>1, <2>2, <2>3, <2>5, <2>6, <2>7, <2>8
       DEF Next, LeaseStep, RuntimeStep, CheckCancelled, CancelToken, FinishRefused,
           LeaseFails, DropLease, DropSettles, DropFails, Crash, dbVars, coreVars
<1>3. Spec => []MapInv
  BY TypeCorrect, OneTurnPerSession, ActiveTurnsHaveSessions, RowsMatchLogs, PTL DEF MapInv
<1>4. QED
  BY <1>1, <1>2, <1>3, PTL DEF Spec, ImplementsLifecycle, Lifecycle!Spec
=============================================================================
