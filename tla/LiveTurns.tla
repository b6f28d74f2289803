------------------------------ MODULE LiveTurns ------------------------------
(***************************************************************************)
(* Turns of the demo server (demo/chat_service.py, demo/turn_control.py):  *)
(* the lease of a session, the control that a cancellation sets, the table *)
(* of live event logs, the state file of each turn, and the status         *)
(* requests that read it.  A turn outlives its browser: the producer       *)
(* thread alone ends it, and a turn that nobody watches is stopped by the  *)
(* server.                                                                 *)
(*                                                                         *)
(* Abstractions.  Of a log only the event that ends it is kept, of a state *)
(* file only its state; the heartbeat that writes "running" again is left  *)
(* out, and a stale mark is always written.  The queue to the browser and  *)
(* the followers of a log only read.  Of the outcomes that are published   *)
(* when a session is given back none is forgotten (the code keeps 256).    *)
(***************************************************************************)
EXTENDS Naturals, Sequences

CONSTANTS
    Sessions,    \* session ids
    Turns,       \* turn ids (uuid), used once
    Readers,     \* status requests that may run at the same time
    None,        \* no session, no turn
    MaxLive      \* _LIVE_MAX_SESSIONS

ASSUME LiveAssumption ==
    /\ None \notin Sessions \cup Turns
    /\ Sessions \cap Turns = {}
    /\ MaxLive \in Nat \ {0}

VARIABLES
    held,        \* _ACTIVE and _TURNS: the turn that has the session
    sessionOf,   \* TurnControl.session
    ctl,         \* TurnControl.state
    flag,        \* TurnControl.event
    detached,    \* SessionLease.detached
    finished,    \* _FINISHED of the session, under the turn it is about
    live,        \* _LIVE: the turns with an entry, oldest first
    ended,       \* entries that are done
    told,        \* the event that ended the log of a turn
    latest,      \* events/latest of each session
    disk,        \* the state file of each turn
    pc,          \* where the turn is: its request, then its producer
    target,      \* the state file that _finish_state has decided to write
    lost,        \* turns that ended without their state file: failed writes
    cutOff,      \* turns that a restart of the server cut off
    reader       \* status requests: idle, or what they have read so far

turnVars == <<sessionOf, ctl, flag, detached, finished>>
logVars  == <<live, ended, told>>
diskVars == <<latest, disk>>
noteVars == <<lost, cutOff>>
vars == <<held, turnVars, logVars, diskVars, pc, target, noteVars, reader>>

Outcome == {"done", "failed", "cancelled"}

TypeOK ==
    /\ held      \in [Sessions -> Turns \cup {None}]
    /\ sessionOf \in [Turns -> Sessions \cup {None}]
    /\ ctl       \in [Turns -> Outcome \cup {"none", "running", "cancelling"}]
    /\ flag      \in [Turns -> BOOLEAN]
    /\ detached  \in [Turns -> BOOLEAN]
    /\ finished  \in [Turns -> Outcome \cup {"none"}]
    /\ live      \in Seq(Turns)
    /\ Len(live) <= MaxLive
    /\ ended     \in SUBSET Turns
    /\ told      \in [Turns -> Outcome \cup {"none", "error"}]
    /\ latest    \in [Sessions -> Turns \cup {None}]
    /\ disk      \in [Turns -> Outcome \cup {"none", "running", "stale"}]
    /\ pc        \in [Turns -> {"none", "leased", "begun", "working", "answering", "closing",
                                "closed", "settled", "writing", "finishing", "over", "stranded"}]
    /\ target    \in [Turns -> Turns \cup {None}]
    /\ lost      \in SUBSET Turns
    /\ cutOff    \in SUBSET Turns
    /\ reader    \in [Readers -> {<<"idle", None>>} \cup ({"inactive"} \X Sessions)
                                  \cup ({"marking"} \X Turns)]

Init ==
    /\ held      = [s \in Sessions |-> None]
    /\ sessionOf = [t \in Turns |-> None]
    /\ ctl       = [t \in Turns |-> "none"]
    /\ flag      = [t \in Turns |-> FALSE]
    /\ detached  = [t \in Turns |-> FALSE]
    /\ finished  = [t \in Turns |-> "none"]
    /\ live      = <<>>
    /\ ended     = {}
    /\ told      = [t \in Turns |-> "none"]
    /\ latest    = [s \in Sessions |-> None]
    /\ disk      = [t \in Turns |-> "none"]
    /\ pc        = [t \in Turns |-> "none"]
    /\ target    = [t \in Turns |-> None]
    /\ lost      = {}
    /\ cutOff    = {}
    /\ reader    = [r \in Readers |-> <<"idle", None>>]

Goes(t, from, to) ==
    /\ pc[t] = from
    /\ pc' = [pc EXCEPT ![t] = to]

-----------------------------------------------------------------------------
(* The table of live logs: one entry per session. *)
Entries(s) == {live[i] : i \in {j \in DOMAIN live : sessionOf[live[j]] = s}}

Without(s) ==
    LET i == CHOOSE j \in DOMAIN live : sessionOf[live[j]] = s IN
    IF Entries(s) = {} THEN live
    ELSE SubSeq(live, 1, i - 1) \o SubSeq(live, i + 1, Len(live))

(* The newest entries, so many that one more finds room. *)
Fitting(entries) ==
    IF Len(entries) < MaxLive THEN entries
    ELSE SubSeq(entries, Len(entries) - MaxLive + 2, Len(entries))

(* _live_begin: the session's old entry goes, then the oldest of the others  *)
(* until there is room.                                                      *)
Begun(t) == Append(Fitting(Without(sessionOf[t])), t)

(* _live_note of the event that ends a log: it goes to the entry of the      *)
(* session, if there is one that is not done.                                *)
Note(t, e) ==
    LET open == Entries(sessionOf[t]) \ ended IN
    /\ told' = [u \in Turns |-> IF u \in open THEN e ELSE told[u]]
    /\ ended' = ended \cup open
    /\ UNCHANGED live

-----------------------------------------------------------------------------
(* SessionLease: a busy session is answered 409.  The lease of a session     *)
(* forgets how its last turn ended.                                          *)
Lease(s, t) ==
    /\ held[s] = None
    /\ Goes(t, "none", "leased")
    /\ held' = [held EXCEPT ![s] = t]
    /\ sessionOf' = [sessionOf EXCEPT ![t] = s]
    /\ ctl' = [ctl EXCEPT ![t] = "running"]
    /\ finished' = [u \in Turns |-> IF sessionOf[u] = s THEN "none" ELSE finished[u]]
    /\ UNCHANGED <<flag, detached, logVars, diskVars, target, noteVars, reader>>

(* prepare_turn fails, or the browser goes away, before stream_turn starts.  *)
(* release publishes the state of the control, or done if it is not final,   *)
(* be it running or cancelling.                                              *)
GiveUp(t) ==
    /\ Goes(t, "leased", "over")
    /\ held' = [held EXCEPT ![sessionOf[t]] = None]
    /\ finished' = [finished EXCEPT ![t] = IF ctl[t] \in Outcome THEN ctl[t] ELSE "done"]
    /\ UNCHANGED <<sessionOf, ctl, flag, detached, logVars, diskVars, target, noteVars, reader>>

(* stream_turn: the lease runs, the entry of the log is made, then the files *)
(* are written and the producer's thread is started.                         *)
OpenLog(t) ==
    /\ Goes(t, "leased", "begun")
    /\ live' = Begun(t)
    /\ UNCHANGED <<held, turnVars, ended, told, diskVars, target, noteVars, reader>>

WriteRunning(t) ==
    /\ Goes(t, "begun", "working")
    /\ latest' = [latest EXCEPT ![sessionOf[t]] = t]
    /\ disk' = [disk EXCEPT ![t] = "running"]
    /\ UNCHANGED <<held, turnVars, logVars, target, noteVars, reader>>

(* A file cannot be written: the lease runs, and no producer will finish it. *)
BeginFails(t) ==
    /\ Goes(t, "leased", "stranded") \/ Goes(t, "begun", "stranded")
    /\ UNCHANGED <<held, turnVars, logVars, diskVars, target, noteVars, reader>>

(* The browser is gone; a turn of a background request starts that way. *)
Disconnect(t) ==
    /\ pc[t] \notin {"none", "leased", "over"}
    /\ detached' = [detached EXCEPT ![t] = TRUE]
    /\ UNCHANGED <<held, sessionOf, ctl, flag, finished, logVars, diskVars, pc, target, noteVars, reader>>

-----------------------------------------------------------------------------
\* Mutant: a cancellation is accepted after the result was sealed.
RequestAnyway(t) ==
    /\ pc[t] \notin {"none", "over"}
    /\ flag' = [flag EXCEPT ![t] = TRUE]
    /\ ctl' = [ctl EXCEPT ![t] = "cancelling"]
    /\ UNCHANGED <<held, sessionOf, detached, finished, logVars, diskVars, pc, target, noteVars, reader>>

(* TurnControl.request_cancel that returns True. *)
RequestCancel(t) ==
    /\ pc[t] \notin {"none", "over"}
    /\ ctl[t] \in {"running", "cancelling"}
    /\ flag' = [flag EXCEPT ![t] = TRUE]
    /\ ctl' = [ctl EXCEPT ![t] = "cancelling"]
    /\ UNCHANGED <<held, sessionOf, detached, finished, logVars, diskVars, pc, target, noteVars, reader>>

(* The watchdog of a turn that nobody watches presses the stop button. *)
UnattendedTimeout(t) ==
    /\ detached[t]
    /\ ~flag[t]
    /\ RequestCancel(t)

\* Mutant: the result is sealed without a look at the flag.
SealUnchecked(t) ==
    /\ Goes(t, "working", "answering")
    /\ \E o \in {"done", "failed"} : ctl' = [ctl EXCEPT ![t] = o]
    /\ UNCHANGED <<held, sessionOf, flag, detached, finished, logVars, diskVars, target, noteVars, reader>>

(* TurnControl.seal: a result is claimed only if no cancellation came first. *)
SealResult(t) ==
    /\ ~flag[t]
    /\ Goes(t, "working", "answering")
    /\ \E o \in {"done", "failed"} : ctl' = [ctl EXCEPT ![t] = o]
    /\ UNCHANGED <<held, sessionOf, flag, detached, finished, logVars, diskVars, target, noteVars, reader>>

\* Mutant: only a turn whose browser is connected looks at the flag.
StopsIfWatched(t) ==
    /\ flag[t]
    /\ ~detached[t]
    /\ Goes(t, "working", "answering")
    /\ ctl' = [ctl EXCEPT ![t] = "cancelled"]
    /\ UNCHANGED <<held, sessionOf, flag, detached, finished, logVars, diskVars, target, noteVars, reader>>

(* A check, or the seal, raises TurnCancelled. *)
StopsAtCheck(t) ==
    /\ flag[t]
    /\ Goes(t, "working", "answering")
    /\ ctl' = [ctl EXCEPT ![t] = "cancelled"]
    /\ UNCHANGED <<held, sessionOf, flag, detached, finished, logVars, diskVars, target, noteVars, reader>>

(* The transcript is written and the done event, with the sealed state, is   *)
(* noted; or the work or the transcript raised, which is an error event; or  *)
(* a handler raised in its turn, and the log gets no last event.             *)
Answer(t) ==
    /\ Goes(t, "answering", "closing")
    /\ Note(t, ctl[t])
    /\ UNCHANGED <<held, turnVars, diskVars, target, noteVars, reader>>

Raises(t) ==
    /\ Goes(t, "working", "closing") \/ Goes(t, "answering", "closing")
    /\ ctl[t] # "cancelled"
    /\ Note(t, "error")
    /\ UNCHANGED <<held, turnVars, diskVars, target, noteVars, reader>>

Escapes(t) ==
    /\ Goes(t, "working", "closing") \/ Goes(t, "answering", "closing")
    /\ UNCHANGED <<held, turnVars, logVars, diskVars, target, noteVars, reader>>

-----------------------------------------------------------------------------
\* Mutant: the session is given back before the turn's files are.
CloseLogReleases(t) ==
    /\ Goes(t, "closing", "closed")
    /\ ended' = ended \cup Entries(sessionOf[t])
    /\ held' = [held EXCEPT ![sessionOf[t]] = None]
    /\ UNCHANGED <<turnVars, live, told, diskVars, target, noteVars, reader>>

(* The end of the producer: _live_close, seal, _finish_state (which reads    *)
(* before it writes), SessionLease.finish.                                   *)
CloseLog(t) ==
    /\ Goes(t, "closing", "closed")
    /\ ended' = ended \cup Entries(sessionOf[t])
    /\ UNCHANGED <<held, turnVars, live, told, diskVars, target, noteVars, reader>>

\* Mutant: an unfinished state is not settled.
SettleAsIs(t) ==
    /\ Goes(t, "closed", "settled")
    /\ UNCHANGED <<held, turnVars, logVars, diskVars, target, noteVars, reader>>

Settled(t) ==
    IF ctl[t] \in Outcome THEN ctl[t] ELSE IF flag[t] THEN "cancelled" ELSE "failed"

Settle(t) ==
    /\ Goes(t, "closed", "settled")
    /\ ctl' = [ctl EXCEPT ![t] = Settled(t)]
    /\ UNCHANGED <<held, sessionOf, flag, detached, finished, logVars, diskVars, target, noteVars, reader>>

\* Mutant: the state file is left to the next sweep.
LeaveState(t) ==
    /\ Goes(t, "settled", "finishing")
    /\ UNCHANGED <<held, turnVars, logVars, diskVars, target, noteVars, reader>>

ReadState(t) ==
    LET entry == Entries(sessionOf[t]) IN
    \/ /\ Goes(t, "settled", "writing")
       /\ \E u \in entry : disk[u] = "running" /\ target' = [target EXCEPT ![t] = u]
       /\ UNCHANGED <<held, turnVars, logVars, diskVars, noteVars, reader>>
    \/ /\ \A u \in entry : disk[u] # "running"
       /\ Goes(t, "settled", "finishing")
       /\ lost' = IF entry = {} THEN lost \cup {t} ELSE lost
       /\ UNCHANGED <<held, turnVars, logVars, diskVars, target, cutOff, reader>>

WriteState(t) ==
    /\ Goes(t, "writing", "finishing")
    /\ disk' = [disk EXCEPT ![target[t]] = ctl[t]]
    /\ UNCHANGED <<held, turnVars, logVars, latest, target, noteVars, reader>>

StateWriteFails(t) ==
    /\ Goes(t, "writing", "finishing")
    /\ lost' = lost \cup {t}
    /\ UNCHANGED <<held, turnVars, logVars, diskVars, target, cutOff, reader>>

Finish(t) ==
    /\ Goes(t, "finishing", "over")
    /\ held' = [held EXCEPT ![sessionOf[t]] = None]
    /\ ctl' = [ctl EXCEPT ![t] = Settled(t)]
    /\ finished' = [finished EXCEPT ![t] = Settled(t)]
    /\ UNCHANGED <<sessionOf, flag, detached, logVars, diskVars, target, noteVars, reader>>

-----------------------------------------------------------------------------
(* turn_status: no turn is active; what was the latest one?  When its file   *)
(* says running, "nobody is producing it": it is marked stale.               *)
LookInactive(r, s) ==
    /\ reader[r] = <<"idle", None>>
    /\ held[s] = None
    /\ reader' = [reader EXCEPT ![r] = <<"inactive", s>>]
    /\ UNCHANGED <<held, turnVars, logVars, diskVars, pc, target, noteVars>>

ReadLatest(r) ==
    /\ reader[r][1] = "inactive"
    /\ LET t == latest[reader[r][2]] IN
       reader' = [reader EXCEPT ![r] = IF t # None /\ disk[t] = "running"
                                       THEN <<"marking", t>> ELSE <<"idle", None>>]
    /\ UNCHANGED <<held, turnVars, logVars, diskVars, pc, target, noteVars>>

MarkStale(r) ==
    /\ reader[r][1] = "marking"
    /\ disk' = [disk EXCEPT ![reader[r][2]] = "stale"]
    /\ reader' = [reader EXCEPT ![r] = <<"idle", None>>]
    /\ UNCHANGED <<held, turnVars, logVars, latest, pc, target, noteVars>>

(* The server stops, and sweep_stale runs before the new one serves. *)
Restart ==
    LET alive == {t \in Turns : pc[t] \notin {"none", "over"}} IN
    /\ held' = [s \in Sessions |-> None]
    /\ live' = <<>>
    /\ disk' = [t \in Turns |-> IF disk[t] = "running" THEN "stale" ELSE disk[t]]
    /\ pc' = [t \in Turns |-> IF t \in alive THEN "over" ELSE pc[t]]
    /\ cutOff' = cutOff \cup alive
    /\ reader' = [r \in Readers |-> <<"idle", None>>]
    /\ finished' = [t \in Turns |-> "none"]
    /\ UNCHANGED <<sessionOf, ctl, flag, detached, ended, told, latest, target, lost>>

-----------------------------------------------------------------------------
(* The steps that a turn's own threads owe; what the work itself does is not *)
(* among them, except that it stops at a check once the flag is set.         *)
OwedStep(t) ==
    \/ WriteRunning(t)
    \/ UnattendedTimeout(t)
    \/ StopsAtCheck(t)
    \/ Answer(t)
    \/ CloseLog(t)
    \/ Settle(t)
    \/ ReadState(t)
    \/ WriteState(t)
    \/ Finish(t)

TurnStep(t) ==
    \/ OwedStep(t)
    \/ GiveUp(t)
    \/ OpenLog(t)
    \/ BeginFails(t)
    \/ SealResult(t)
    \/ Raises(t)
    \/ Escapes(t)
    \/ StateWriteFails(t)

ClientStep ==
    \/ \E s \in Sessions, t \in Turns : Lease(s, t)
    \/ \E t \in Turns : Disconnect(t) \/ RequestCancel(t)
    \/ \E r \in Readers, s \in Sessions : LookInactive(r, s)

ReaderStep(r) == ReadLatest(r) \/ MarkStale(r)

Next ==
    \/ \E t \in Turns : TurnStep(t)
    \/ \E r \in Readers : ReaderStep(r)
    \/ ClientStep
    \/ Restart

Spec == Init /\ [][Next]_vars

FairSpec == Spec /\ \A t \in Turns : WF_vars(OwedStep(t))

-----------------------------------------------------------------------------
(* A producer writes to its own log only: "a new producer may replace _LIVE  *)
(* immediately after release; finish every operation on this turn's log and  *)
(* state first" (chat_service.py).                                           *)
Producing(t) == pc[t] \in {"begun", "working", "answering", "closing", "closed", "settled", "writing"}

OwnLogOnly ==
    \A t \in Turns : Producing(t) =>
        /\ Entries(sessionOf[t]) \subseteq {t}
        /\ target[t] \in {None, t}

(* A cancellation that was accepted holds: whatever the work, an exception   *)
(* or the end of the producer do, the control never says done or failed      *)
(* afterwards, nor does what is published when the turn gives its session    *)
(* back.  The second is said of turns that began, those with a state file:   *)
(* one that is given up before, because prepare_turn raises or the browser   *)
(* is gone, is published as done whether it was cancelled or not             *)
(* (chat_service.py:134).                                                    *)
AcceptedCancelHolds ==
    \A t \in Turns : flag[t] =>
        /\ ctl[t] \in {"cancelling", "cancelled"}
        /\ disk[t] # "none" => finished[t] \in {"none", "cancelled"}

(* What a turn told its followers, what its control says, what its state     *)
(* file keeps for the next server and what is published when it gives its    *)
(* session back are one and the same outcome.                                *)
OneOutcome ==
    \A t \in Turns :
        /\ told[t] \in Outcome => told[t] = ctl[t]
        /\ disk[t] \in Outcome => disk[t] = ctl[t]
        /\ disk[t] # "none" /\ finished[t] \in Outcome => finished[t] = ctl[t]

(* A session is free for its next turn only when the last one's outcome is   *)
(* in its state file, unless the file could not be written or the table had  *)
(* no room for the turn.                                                     *)
PersistedBeforeReuse ==
    \A t \in Turns : disk[t] = "running" /\ held[sessionOf[t]] # t => t \in lost

(* "running" on disk is trusted while the turn is held; only a turn that a   *)
(* restart cut off (or whose file could not be written) becomes stale.       *)
StaleMeansCutOff == \A t \in Turns : disk[t] = "stale" => t \in cutOff \cup lost

(* A turn that nobody watches ends and gives its session back, even if its   *)
(* work would never return by itself.                                        *)
UnattendedTurnsEnd == \A t \in Turns : []<>(detached[t] => pc[t] \in {"over", "stranded"})
=============================================================================
