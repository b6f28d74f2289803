--------------------------- MODULE LiveTurnsProofs ---------------------------
(***************************************************************************)
(* Proofs about LiveTurns, for any number of sessions, turns, status       *)
(* requests and places in the table of live logs: type correctness, that a *)
(* turn keeps to its own log, its accepted cancellation, its one outcome,  *)
(* and its session until that outcome is on disk, that a lease is a turn   *)
(* that only moves forward, and when a mark of staleness is true.          *)
(***************************************************************************)
EXTENDS LiveTurns, SequenceTheorems, TLAPS

USE LiveAssumption

-----------------------------------------------------------------------------
(* The table of live logs has one entry per session. *)
Distinct == \A i, j \in DOMAIN live : sessionOf[live[i]] = sessionOf[live[j]] => i = j

Listed == {live[i] : i \in DOMAIN live}

LEMMA WithoutFacts ==
    ASSUME live \in Seq(Turns), Distinct, NEW s \in Sessions
    PROVE  /\ Without(s) \in Seq(Turns)
           /\ \A i \in DOMAIN Without(s) :
                 Without(s)[i] \in Listed /\ sessionOf[Without(s)[i]] # s
           /\ \A i, j \in DOMAIN Without(s) :
                 sessionOf[Without(s)[i]] = sessionOf[Without(s)[j]] => i = j
<1>1. CASE Entries(s) = {}
  <2>1. Without(s) = live
    BY <1>1 DEF Without
  <2>2. \A i \in DOMAIN live : sessionOf[live[i]] # s
    BY <1>1 DEF Entries
  <2> QED
    BY <2>1, <2>2 DEF Listed, Distinct
<1>2. CASE Entries(s) # {}
  <2> DEFINE k == CHOOSE j \in DOMAIN live : sessionOf[live[j]] = s
             left == SubSeq(live, 1, k - 1)
             right == SubSeq(live, k + 1, Len(live))
             At(i) == IF i < k THEN i ELSE i + 1
  <2>1. k \in DOMAIN live /\ sessionOf[live[k]] = s
    BY <1>2 DEF Entries
  <2>2. k \in 1 .. Len(live) /\ Len(live) \in Nat
    BY <2>1
  <2>3. Without(s) = left \o right
    BY <1>2 DEF Without
  <2> HIDE DEF k
  <2>4. \A i \in 1 .. Len(live) : live[i] \in Turns
    OBVIOUS
  <2>5. /\ left \in Seq(Turns) /\ Len(left) = k - 1
        /\ \A i \in 1 .. k - 1 : left[i] = live[i]
    BY <2>2, <2>4, SubSeqProperties
  <2>6. /\ right \in Seq(Turns) /\ Len(right) = Len(live) - k
        /\ \A i \in 1 .. Len(live) - k : right[i] = live[k + i]
    BY <2>2, <2>4, SubSeqProperties
  <2> HIDE DEF left, right
  <2>7. /\ Without(s) \in Seq(Turns)
        /\ Len(Without(s)) = Len(live) - 1
        /\ \A i \in 1 .. Len(live) - 1 : Without(s)[i] = live[At(i)]
    <3>1. /\ left \o right \in Seq(Turns)
          /\ Len(left \o right) = Len(left) + Len(right)
          /\ \A i \in 1 .. Len(left) + Len(right) :
                (left \o right)[i] = IF i <= Len(left) THEN left[i] ELSE right[i - Len(left)]
      BY <2>5, <2>6, ConcatProperties
    <3>2. Len(left) + Len(right) = Len(live) - 1
      BY <2>2, <2>5, <2>6
    <3>3. ASSUME NEW i \in 1 .. Len(live) - 1
          PROVE  Without(s)[i] = live[At(i)]
      <4>1. CASE i < k
        BY <2>2, <2>3, <2>5, <3>1, <3>2, <4>1
      <4>2. CASE ~(i < k)
        <5>1. i - (k - 1) \in 1 .. Len(live) - k /\ k + (i - (k - 1)) = i + 1
          BY <2>2, <4>2
        <5>2. right[i - (k - 1)] = live[i + 1]
          BY <2>6, <5>1
        <5> QED
          BY <2>2, <2>3, <2>5, <3>1, <3>2, <4>2, <5>2
      <4> QED
        BY <4>1, <4>2
    <3> QED
      BY <2>3, <3>1, <3>2, <3>3
  <2>8. \A i \in 1 .. Len(live) - 1 : At(i) \in DOMAIN live /\ At(i) # k
    BY <2>2
  <2>9. \A i, j \in 1 .. Len(live) - 1 : At(i) = At(j) => i = j
    BY <2>2
  <2>10. DOMAIN Without(s) = 1 .. Len(live) - 1
    BY <2>7
  <2> HIDE DEF At
  <2>11. \A i \in DOMAIN Without(s) :
            Without(s)[i] \in Listed /\ sessionOf[Without(s)[i]] # s
    BY <2>1, <2>7, <2>8, <2>10 DEF Distinct, Listed
  <2>12. \A i, j \in DOMAIN Without(s) :
            sessionOf[Without(s)[i]] = sessionOf[Without(s)[j]] => i = j
    BY <2>7, <2>8, <2>9, <2>10 DEF Distinct
  <2> QED
    BY <2>7, <2>11, <2>12
<1> QED
  BY <1>1, <1>2

LEMMA FittingFacts ==
    ASSUME NEW q \in Seq(Turns)
    PROVE  /\ Fitting(q) \in Seq(Turns)
           /\ Len(Fitting(q)) < MaxLive
           /\ \E d \in Nat : \A i \in DOMAIN Fitting(q) :
                 i + d \in DOMAIN q /\ Fitting(q)[i] = q[i + d]
<1>1. CASE Len(q) < MaxLive
  <2>1. Fitting(q) = q
    BY <1>1 DEF Fitting
  <2>2. \A i \in DOMAIN q : i + 0 \in DOMAIN q /\ q[i] = q[i + 0]
    OBVIOUS
  <2> QED
    BY <1>1, <2>1, <2>2
<1>2. CASE ~(Len(q) < MaxLive)
  <2> DEFINE m == Len(q) - MaxLive + 2
             d == Len(q) - MaxLive + 1
  <2>1. m \in Int /\ Len(q) \in Nat /\ m >= 2 /\ d \in Nat
    BY <1>2
  <2>2. \A i \in m .. Len(q) : q[i] \in Turns
    BY <2>1
  <2>3. Fitting(q) = SubSeq(q, m, Len(q))
    BY <1>2 DEF Fitting
  <2>4. /\ Fitting(q) \in Seq(Turns)
        /\ Len(Fitting(q)) = IF m <= Len(q) THEN Len(q) - m + 1 ELSE 0
        /\ \A i \in 1 .. Len(q) - m + 1 : Fitting(q)[i] = q[m + i - 1]
    BY <2>1, <2>2, <2>3, SubSeqProperties
  <2>5. Len(Fitting(q)) = MaxLive - 1
    BY <1>2, <2>1, <2>4
  <2>6. \A i \in DOMAIN Fitting(q) : i + d \in DOMAIN q /\ Fitting(q)[i] = q[i + d]
    BY <1>2, <2>1, <2>4, <2>5
  <2> QED
    BY <2>1, <2>4, <2>5, <2>6
<1> QED
  BY <1>1, <1>2

(* What _live_begin leaves in the table: the new entry, and entries of other *)
(* sessions, each session once.                                              *)
LEMMA BegunFacts ==
    ASSUME live \in Seq(Turns), Distinct, NEW t \in Turns, sessionOf[t] \in Sessions
    PROVE  /\ Begun(t) \in Seq(Turns)
           /\ Len(Begun(t)) <= MaxLive
           /\ \A i \in DOMAIN Begun(t) :
                 \/ Begun(t)[i] = t
                 \/ Begun(t)[i] \in Listed /\ sessionOf[Begun(t)[i]] # sessionOf[t]
           /\ \A i, j \in DOMAIN Begun(t) :
                 sessionOf[Begun(t)[i]] = sessionOf[Begun(t)[j]] => i = j
<1> DEFINE others == Without(sessionOf[t])
           room == Fitting(others)
<1>1. /\ others \in Seq(Turns)
      /\ \A i \in DOMAIN others : others[i] \in Listed /\ sessionOf[others[i]] # sessionOf[t]
      /\ \A i, j \in DOMAIN others : sessionOf[others[i]] = sessionOf[others[j]] => i = j
  BY WithoutFacts
<1> HIDE DEF others
<1>2. PICK d \in Nat : \A i \in DOMAIN room : i + d \in DOMAIN others /\ room[i] = others[i + d]
  BY <1>1, FittingFacts
<1>3. room \in Seq(Turns) /\ Len(room) < MaxLive
  BY <1>1, FittingFacts
<1>4. Begun(t) = Append(room, t)
  BY DEF Begun, others
<1> HIDE DEF room
<1>5. /\ Begun(t) \in Seq(Turns) /\ Len(Begun(t)) = Len(room) + 1
      /\ \A i \in 1 .. Len(room) : Begun(t)[i] = room[i]
      /\ Begun(t)[Len(room) + 1] = t
      /\ Len(room) \in Nat
  BY <1>3, <1>4, AppendProperties
<1>6. /\ DOMAIN Begun(t) = 1 .. Len(room) + 1
      /\ DOMAIN room = 1 .. Len(room)
  BY <1>3, <1>5
<1>7. \A i \in DOMAIN room : room[i] \in Listed /\ sessionOf[room[i]] # sessionOf[t]
  BY <1>1, <1>2
<1>8. \A i, j \in DOMAIN room : sessionOf[room[i]] = sessionOf[room[j]] => i = j
  <2> SUFFICES ASSUME NEW i \in DOMAIN room, NEW j \in DOMAIN room,
                      sessionOf[room[i]] = sessionOf[room[j]]
               PROVE  i = j
    OBVIOUS
  <2>1. i + d = j + d
    BY <1>1, <1>2
  <2> QED
    BY <1>6, <2>1
<1>9. \A i \in DOMAIN Begun(t) : i \in DOMAIN room \/ i = Len(room) + 1
  BY <1>5, <1>6
<1>10. Len(Begun(t)) <= MaxLive
  BY <1>3, <1>5
<1>11. \A i \in DOMAIN Begun(t) :
          \/ Begun(t)[i] = t
          \/ Begun(t)[i] \in Listed /\ sessionOf[Begun(t)[i]] # sessionOf[t]
  BY <1>5, <1>6, <1>7, <1>9
<1>12. \A i, j \in DOMAIN Begun(t) :
          sessionOf[Begun(t)[i]] = sessionOf[Begun(t)[j]] => i = j
  BY <1>5, <1>6, <1>7, <1>8, <1>9
<1> QED
  BY <1>5, <1>10, <1>11, <1>12

-----------------------------------------------------------------------------
(* The inductive invariant.  A turn that is alive has its session, and what  *)
(* its control, its log and its files say follows from where it is.          *)
TableFits ==
    /\ Distinct
    /\ \A t \in Listed : pc[t] \notin {"none", "leased"}

Alive(t) == pc[t] \notin {"none", "over"}

SessionFits(t) ==
    /\ pc[t] = "none" <=> sessionOf[t] = None
    /\ Alive(t) => held[sessionOf[t]] = t

ControlFits(t) ==
    /\ pc[t] = "none" => ~flag[t]
    /\ pc[t] \in {"leased", "begun", "working"} => ctl[t] \in {"running", "cancelling"}
    /\ pc[t] \in {"answering", "settled", "writing", "finishing"} => ctl[t] \in Outcome
    /\ flag[t] => ctl[t] \in {"cancelling", "cancelled"}

LogFits(t) ==
    /\ pc[t] \in {"none", "leased"} => told[t] = "none"
    /\ told[t] \in Outcome => told[t] = ctl[t]
    /\ Producing(t) => Entries(sessionOf[t]) \subseteq {t}

FileFits(t) ==
    /\ pc[t] \in {"none", "leased", "begun"} => disk[t] \notin Outcome \cup {"running"}
    /\ pc[t] \in {"finishing", "over"} => disk[t] # "running" \/ t \in lost
    /\ disk[t] \in Outcome => disk[t] = ctl[t]
    /\ target[t] \in {None, t}
    /\ pc[t] = "writing" => target[t] = t

TurnFits(t) == SessionFits(t) /\ ControlFits(t) /\ LogFits(t) /\ FileFits(t)

TurnsInv == TypeOK /\ TableFits /\ \A t \in Turns : TurnFits(t)

-----------------------------------------------------------------------------
(* Type correctness, action by action. *)
PcState == {"none", "leased", "begun", "working", "answering", "closing",
            "closed", "settled", "writing", "finishing", "over", "stranded"}

LEMMA GoesType ==
    ASSUME TypeOK, NEW t \in Turns, NEW from, NEW to \in PcState, Goes(t, from, to)
    PROVE  pc' \in [Turns -> PcState]
BY DEF TypeOK, Goes, PcState

LEMMA EntriesAreTurns ==
    ASSUME TypeOK, NEW s
    PROVE  Entries(s) \in SUBSET Turns
BY DEF TypeOK, Entries

LEMMA NoteType ==
    ASSUME TypeOK, NEW t \in Turns, NEW e \in Outcome \cup {"error"}, Note(t, e)
    PROVE  /\ told' \in [Turns -> Outcome \cup {"none", "error"}]
           /\ ended' \in SUBSET Turns
BY EntriesAreTurns DEF TypeOK, Note

LEMMA ReaderTypes ==
    ASSUME TypeOK, NEW r \in Readers
    PROVE  /\ reader[r][1] = "inactive" => reader[r][2] \in Sessions
           /\ reader[r][1] = "marking" => reader[r][2] \in Turns
<1>1. \/ reader[r] = <<"idle", None>>
      \/ \E s \in Sessions : reader[r] = <<"inactive", s>>
      \/ \E t \in Turns : reader[r] = <<"marking", t>>
  BY DEF TypeOK
<1> QED
  BY <1>1

(* The steps of one turn, but for those that make its entry or end its log. *)
LEMMA TurnType ==
    ASSUME TurnsInv, NEW t \in Turns, TurnStep(t)
    PROVE  TypeOK'
<1> USE DEF TurnsInv
<1>1. pc' \in [Turns -> PcState]
  BY GoesType DEF TurnStep, OwedStep, GiveUp, OpenLog, WriteRunning, BeginFails,
     UnattendedTimeout, RequestCancel, SealResult, StopsAtCheck, Answer, Raises, Escapes,
     CloseLog, Settle, ReadState, WriteState, StateWriteFails, Finish, PcState, TypeOK
<1>2. pc[t] # "none" => sessionOf[t] \in Sessions
  BY DEF TypeOK, TurnFits, SessionFits
<1>3. CASE GiveUp(t) \/ Finish(t) \/ BeginFails(t) \/ Escapes(t) \/ StateWriteFails(t)
  <2>1. CASE GiveUp(t) \/ Finish(t)
    <3>1. finished' \in [Turns -> Outcome \cup {"none"}]
      BY <2>1 DEF TypeOK, GiveUp, Finish, Settled, Outcome
    <3>2. ctl' \in [Turns -> Outcome \cup {"none", "running", "cancelling"}]
      BY <2>1 DEF TypeOK, GiveUp, Finish, Settled, Outcome
    <3> QED
      BY <1>1, <1>2, <2>1, <3>1, <3>2
         DEF TypeOK, GiveUp, Finish, Goes, PcState, logVars, diskVars, noteVars
  <2>2. CASE BeginFails(t) \/ Escapes(t) \/ StateWriteFails(t)
    BY <1>1, <2>2
       DEF TypeOK, BeginFails, Escapes, StateWriteFails, PcState,
           turnVars, logVars, diskVars, noteVars
  <2> QED
    BY <1>3, <2>1, <2>2
<1>4. CASE OpenLog(t)
  <2>1. live' \in Seq(Turns) /\ Len(live') <= MaxLive
    BY <1>2, <1>4, BegunFacts DEF TypeOK, TableFits, OpenLog, Goes
  <2> QED
    BY <1>1, <1>4, <2>1 DEF TypeOK, OpenLog, PcState, turnVars, diskVars, noteVars
<1>5. CASE WriteRunning(t)
  BY <1>1, <1>2, <1>5
     DEF TypeOK, WriteRunning, Goes, PcState, turnVars, logVars, noteVars
<1>6. CASE RequestCancel(t) \/ UnattendedTimeout(t)
  <2>1. RequestCancel(t)
    BY <1>6 DEF UnattendedTimeout
  <2>2. ctl' \in [Turns -> Outcome \cup {"none", "running", "cancelling"}]
    BY <2>1 DEF TypeOK, RequestCancel
  <2>3. flag' \in [Turns -> BOOLEAN]
    BY <2>1 DEF TypeOK, RequestCancel
  <2> QED
    BY <2>1, <2>2, <2>3 DEF TypeOK, RequestCancel, logVars, diskVars, noteVars
<1>7. CASE SealResult(t) \/ StopsAtCheck(t) \/ Settle(t)
  <2>1. ctl' \in [Turns -> Outcome \cup {"none", "running", "cancelling"}]
    BY <1>7 DEF TypeOK, SealResult, StopsAtCheck, Settle, Settled, Outcome
  <2> QED
    BY <1>1, <1>7, <2>1
       DEF TypeOK, SealResult, StopsAtCheck, Settle, PcState, logVars, diskVars, noteVars
<1>8. CASE Answer(t) \/ Raises(t)
  <2>1. told' \in [Turns -> Outcome \cup {"none", "error"}] /\ ended' \in SUBSET Turns
    BY <1>8, NoteType DEF Answer, Raises, Goes, TypeOK, TurnFits, ControlFits, Outcome
  <2>2. UNCHANGED live
    BY <1>8 DEF Answer, Raises, Note
  <2> QED
    BY <1>1, <1>8, <2>1, <2>2 DEF TypeOK, Answer, Raises, PcState, turnVars, diskVars, noteVars
<1>9. CASE CloseLog(t)
  BY <1>1, <1>9, EntriesAreTurns DEF TypeOK, CloseLog, PcState, turnVars, diskVars, noteVars
<1>10. CASE ReadState(t)
  <2>1. target' \in [Turns -> Turns \cup {None}]
    BY <1>10, EntriesAreTurns DEF TypeOK, ReadState
  <2> QED
    BY <1>1, <1>10, <2>1 DEF TypeOK, ReadState, PcState, turnVars, logVars, diskVars, noteVars
<1>11. CASE WriteState(t)
  <2>1. disk' \in [Turns -> Outcome \cup {"none", "running", "stale"}]
    BY <1>11 DEF TypeOK, WriteState, Goes, TurnFits, ControlFits
  <2> QED
    BY <1>1, <1>11, <2>1 DEF TypeOK, WriteState, PcState, turnVars, logVars, noteVars
<1> QED
  BY <1>3, <1>4, <1>5, <1>6, <1>7, <1>8, <1>9, <1>10, <1>11 DEF TurnStep, OwedStep

LEMMA TypeStep ==
    ASSUME TurnsInv, [Next]_vars
    PROVE  TypeOK'
<1> USE DEF TurnsInv
<1>1. CASE UNCHANGED vars
  BY <1>1 DEF TypeOK, vars, turnVars, logVars, diskVars, noteVars
<1>2. ASSUME NEW t \in Turns, TurnStep(t)
      PROVE  TypeOK'
  BY <1>2, TurnType
<1>3. ASSUME NEW r \in Readers, ReaderStep(r)
      PROVE  TypeOK'
  <2>1. CASE ReadLatest(r)
    <3> DEFINE t == latest[reader[r][2]]
               seen == IF t # None /\ disk[t] = "running" THEN <<"marking", t>> ELSE <<"idle", None>>
    <3>1. t \in Turns \cup {None}
      BY <2>1, ReaderTypes DEF ReadLatest, TypeOK
    <3>2. seen \in {<<"idle", None>>} \cup ({"marking"} \X Turns)
      BY <3>1
    <3>3. reader' = [reader EXCEPT ![r] = seen]
      BY <2>1 DEF ReadLatest
    <3> HIDE DEF seen
    <3> QED
      BY <2>1, <3>2, <3>3 DEF TypeOK, ReadLatest, turnVars, logVars, diskVars, noteVars
  <2>2. CASE MarkStale(r)
    BY <2>2, ReaderTypes DEF TypeOK, MarkStale, turnVars, logVars, noteVars
  <2> QED
    BY <1>3, <2>1, <2>2 DEF ReaderStep
<1>4. CASE ClientStep
  <2>1. ASSUME NEW s \in Sessions, NEW t \in Turns, Lease(s, t)
        PROVE  TypeOK'
    BY <2>1 DEF TypeOK, Lease, Goes, logVars, diskVars, noteVars
  <2>2. ASSUME NEW t \in Turns, Disconnect(t)
        PROVE  TypeOK'
    BY <2>2 DEF TypeOK, Disconnect, logVars, diskVars, noteVars
  <2>3. ASSUME NEW t \in Turns, RequestCancel(t)
        PROVE  TypeOK'
    BY <2>3 DEF TypeOK, RequestCancel, logVars, diskVars, noteVars
  <2>4. ASSUME NEW r \in Readers, NEW s \in Sessions, LookInactive(r, s)
        PROVE  TypeOK'
    BY <2>4 DEF TypeOK, LookInactive, turnVars, logVars, diskVars, noteVars
  <2> QED
    BY <1>4, <2>1, <2>2, <2>3, <2>4 DEF ClientStep
<1>5. CASE Restart
  <2>1. live' \in Seq(Turns) /\ Len(live') <= MaxLive
    BY <1>5 DEF Restart
  <2> QED
    BY <1>5, <2>1 DEF TypeOK, Restart, turnVars
<1> QED
  BY <1>1, <1>2, <1>3, <1>4, <1>5 DEF Next

-----------------------------------------------------------------------------
(* The table: OpenLog and a restart change it, and a turn that takes its     *)
(* session is not in it yet.                                                 *)
LEMMA TableStep ==
    ASSUME TurnsInv, [Next]_vars
    PROVE  TableFits'
<1> USE DEF TurnsInv, TableFits
<1>1. ASSUME UNCHANGED live,
             \A u \in Listed : sessionOf'[u] = sessionOf[u] /\ pc'[u] \notin {"none", "leased"}
      PROVE  TableFits'
  <2>1. \A i \in DOMAIN live : live[i] \in Listed
    BY DEF Listed
  <2> QED
    BY <1>1, <2>1 DEF Distinct, Listed
<1>2. Listed \subseteq Turns
  BY DEF TypeOK, Listed
<1>3. ASSUME NEW t \in Turns, OpenLog(t)
      PROVE  TableFits'
  <2>1. sessionOf[t] \in Sessions /\ live \in Seq(Turns)
    BY <1>3 DEF TypeOK, TurnFits, SessionFits, OpenLog, Goes
  <2>2. live' = Begun(t) /\ UNCHANGED sessionOf
    BY <1>3 DEF OpenLog, turnVars
  <2>3. Distinct'
    BY <2>1, <2>2, BegunFacts DEF Distinct
  <2>4. \A u \in Listed' : u = t \/ u \in Listed
    BY <2>1, <2>2, BegunFacts DEF Listed
  <2>5. \A u \in Listed \cup {t} : pc'[u] \notin {"none", "leased"}
    BY <1>2, <1>3 DEF OpenLog, Goes, TypeOK
  <2> QED
    BY <2>3, <2>4, <2>5
<1>4. ASSUME NEW t \in Turns, TurnStep(t), ~OpenLog(t)
      PROVE  TableFits'
  <2>1. UNCHANGED <<live, sessionOf>>
    BY <1>4 DEF TurnStep, OwedStep, GiveUp, WriteRunning, BeginFails,
     UnattendedTimeout, RequestCancel, SealResult, StopsAtCheck, Answer, Raises, Escapes, Note,
     CloseLog, Settle, ReadState, WriteState, StateWriteFails, Finish, turnVars, logVars
  <2>2. \A u \in Listed : pc'[u] \notin {"none", "leased"}
    BY <1>2, <1>4 DEF TurnStep, OwedStep, GiveUp, WriteRunning, BeginFails,
     UnattendedTimeout, RequestCancel, SealResult, StopsAtCheck, Answer, Raises, Escapes,
     CloseLog, Settle, ReadState, WriteState, StateWriteFails, Finish, Goes, TypeOK
  <2> QED
    BY <1>1, <2>1, <2>2
<1>5. ASSUME NEW r \in Readers, ReaderStep(r)
      PROVE  TableFits'
  BY <1>1, <1>5 DEF ReaderStep, ReadLatest, MarkStale, turnVars, logVars
<1>6. CASE ClientStep
  <2>1. ASSUME NEW s \in Sessions, NEW t \in Turns, Lease(s, t)
        PROVE  TableFits'
    <3>1. t \notin Listed
      BY <2>1 DEF Lease, Goes
    <3> QED
      BY <1>1, <1>2, <2>1, <3>1 DEF Lease, Goes, TypeOK, logVars
  <2>2. ASSUME NEW t \in Turns, Disconnect(t) \/ RequestCancel(t)
        PROVE  TableFits'
    BY <1>1, <2>2 DEF Disconnect, RequestCancel, logVars
  <2>3. ASSUME NEW r \in Readers, NEW s \in Sessions, LookInactive(r, s)
        PROVE  TableFits'
    BY <1>1, <2>3 DEF LookInactive, turnVars, logVars
  <2> QED
    BY <1>6, <2>1, <2>2, <2>3 DEF ClientStep
<1>7. CASE Restart
  <2>1. DOMAIN live' = {}
    BY <1>7 DEF Restart
  <2> QED
    BY <2>1 DEF Distinct, Listed
<1>8. CASE UNCHANGED vars
  BY <1>1, <1>8 DEF vars, turnVars, logVars
<1> QED
  BY <1>3, <1>4, <1>5, <1>6, <1>7, <1>8 DEF Next

-----------------------------------------------------------------------------
(* A step of one turn leaves the others alone: it writes its own entry and   *)
(* its own file, and the session it gives back is its own.                   *)
OwnStep(t) ==
    \/ TurnStep(t)
    \/ Disconnect(t)
    \/ RequestCancel(t)
    \/ \E s \in Sessions : Lease(s, t)

KeepsOthers(t) ==
    \A q \in Turns \ {t} :
        /\ pc'[q] = pc[q] /\ sessionOf'[q] = sessionOf[q]
        /\ ctl'[q] = ctl[q] /\ flag'[q] = flag[q]
        /\ told'[q] = told[q] /\ disk'[q] = disk[q] /\ target'[q] = target[q]
        /\ q \in lost' <=> q \in lost
        /\ Alive(q) => /\ held'[sessionOf[q]] = held[sessionOf[q]]
                       /\ Entries(sessionOf[q])' \subseteq Entries(sessionOf[q])

LEMMA OthersFit ==
    ASSUME TurnsInv, NEW t \in Turns, KeepsOthers(t), NEW q \in Turns, q # t
    PROVE  TurnFits(q)'
<1>1. TurnFits(q)
  BY DEF TurnsInv
<1>2. SessionFits(q)'
  BY <1>1 DEF KeepsOthers, TurnFits, SessionFits, Alive
<1>3. ControlFits(q)'
  BY <1>1 DEF KeepsOthers, TurnFits, ControlFits
<1>4. LogFits(q)'
  BY <1>1 DEF KeepsOthers, TurnFits, LogFits, Producing, Alive
<1>5. FileFits(q)'
  BY <1>1 DEF KeepsOthers, TurnFits, FileFits
<1> QED
  BY <1>2, <1>3, <1>4, <1>5 DEF TurnFits

LEMMA AliveApart ==
    ASSUME TurnsInv, NEW t \in Turns, NEW q \in Turns, q # t, Alive(t), Alive(q)
    PROVE  sessionOf[q] # sessionOf[t]
BY DEF TurnsInv, TurnFits, SessionFits

LEMMA OwnNote ==
    ASSUME TurnsInv, NEW t \in Turns, NEW e, Note(t, e), Producing(t)
    PROVE  /\ \A q \in Turns \ {t} : told'[q] = told[q]
           /\ told'[t] \in {told[t], e}
BY DEF TurnsInv, TypeOK, TurnFits, LogFits, Note

LEMMA SameEntries ==
    ASSUME UNCHANGED <<live, sessionOf>>, NEW s
    PROVE  Entries(s)' = Entries(s)
BY DEF Entries

LEMMA StepKeepsOthers ==
    ASSUME TurnsInv, NEW t \in Turns, OwnStep(t)
    PROVE  KeepsOthers(t)
<1> USE DEF TurnsInv, TypeOK
<1>1. CASE OpenLog(t)
  <2>1. sessionOf[t] \in Sessions
    BY <1>1 DEF TurnFits, SessionFits, OpenLog, Goes
  <2>2. UNCHANGED sessionOf /\ live' = Begun(t)
    BY <1>1 DEF OpenLog, turnVars
  <2>3. ASSUME NEW q \in Turns, q # t, Alive(q)
        PROVE  Entries(sessionOf[q])' \subseteq Entries(sessionOf[q])
    <3>1. sessionOf[q] # sessionOf[t]
      BY <1>1, <2>3, AliveApart DEF OpenLog, Goes, Alive
    <3>2. \A i \in DOMAIN live' : sessionOf[live'[i]] = sessionOf[q] => live'[i] \in Listed
      BY <2>1, <2>2, <3>1, BegunFacts DEF TableFits
    <3> QED
      BY <2>2, <3>2 DEF Entries, Listed
  <2> QED
    BY <1>1, <2>3 DEF OpenLog, Goes, KeepsOthers, turnVars, diskVars, noteVars
<1>2. CASE Answer(t) \/ Raises(t)
  <2>1. \A q \in Turns \ {t} : told'[q] = told[q]
    BY <1>2, OwnNote DEF Answer, Raises, Goes, Producing
  <2>2. UNCHANGED <<live, sessionOf>>
    BY <1>2 DEF Answer, Raises, Note, turnVars
  <2> QED
    BY <1>2, <2>1, <2>2, SameEntries DEF Answer, Raises, Goes, KeepsOthers, turnVars, diskVars, noteVars
<1>3. CASE GiveUp(t) \/ Finish(t)
  <2>1. UNCHANGED <<live, sessionOf>>
    BY <1>3 DEF GiveUp, Finish, turnVars, logVars
  <2>2. \A q \in Turns \ {t} : Alive(q) => sessionOf[q] # sessionOf[t]
    BY <1>3, AliveApart DEF GiveUp, Finish, Goes, Alive
  <2>3. \A q \in Turns \ {t} : Alive(q) => held'[sessionOf[q]] = held[sessionOf[q]]
    <3>1. \A q \in Turns : Alive(q) => sessionOf[q] \in Sessions
      BY DEF TurnFits, SessionFits, Alive
    <3>2. held' = [held EXCEPT ![sessionOf[t]] = None]
      BY <1>3 DEF GiveUp, Finish
    <3> QED
      BY <2>2, <3>1, <3>2
  <2>4. \A q \in Turns : Entries(sessionOf[q])' = Entries(sessionOf[q])
    BY <2>1, SameEntries
  <2> QED
    BY <1>3, <2>1, <2>3, <2>4
       DEF GiveUp, Finish, Goes, KeepsOthers, turnVars, logVars, diskVars, noteVars
<1>4. CASE WriteState(t)
  <2>1. target[t] = t
    BY <1>4 DEF WriteState, Goes, TurnFits, FileFits
  <2>2. UNCHANGED <<live, sessionOf>>
    BY <1>4 DEF WriteState, turnVars, logVars
  <2> QED
    BY <1>4, <2>1, <2>2, SameEntries DEF WriteState, Goes, KeepsOthers, turnVars, logVars, noteVars
<1>5. CASE BeginFails(t) \/ Escapes(t) \/ StateWriteFails(t) \/ CloseLog(t)
  <2>1. UNCHANGED <<live, sessionOf>>
    BY <1>5 DEF BeginFails, Escapes, StateWriteFails, CloseLog, turnVars, logVars
  <2> QED
    BY <1>5, <2>1, SameEntries
       DEF BeginFails, Escapes, StateWriteFails, CloseLog, Goes, KeepsOthers,
           turnVars, logVars, diskVars, noteVars
<1>6. CASE WriteRunning(t) \/ ReadState(t)
  <2>1. UNCHANGED <<live, sessionOf>>
    BY <1>6 DEF WriteRunning, ReadState, turnVars, logVars
  <2> QED
    BY <1>6, <2>1, SameEntries
       DEF WriteRunning, ReadState, Goes, KeepsOthers, turnVars, logVars, diskVars, noteVars
<1>7. CASE SealResult(t) \/ StopsAtCheck(t) \/ Settle(t)
  <2>1. UNCHANGED <<live, sessionOf>>
    BY <1>7 DEF SealResult, StopsAtCheck, Settle, logVars
  <2> QED
    BY <1>7, <2>1, SameEntries
       DEF SealResult, StopsAtCheck, Settle, Goes, KeepsOthers, logVars, diskVars, noteVars
<1>8. CASE RequestCancel(t) \/ UnattendedTimeout(t) \/ Disconnect(t)
  <2>1. UNCHANGED <<live, sessionOf>>
    BY <1>8 DEF RequestCancel, UnattendedTimeout, Disconnect, logVars
  <2> QED
    BY <1>8, <2>1, SameEntries
       DEF RequestCancel, UnattendedTimeout, Disconnect, KeepsOthers, logVars, diskVars, noteVars
<1>9. ASSUME NEW s \in Sessions, Lease(s, t)
      PROVE  KeepsOthers(t)
  <2>1. t \notin Listed /\ UNCHANGED live
    BY <1>9 DEF TableFits, Lease, Goes, logVars
  <2>2. \A u \in Listed : sessionOf'[u] = sessionOf[u]
    BY <1>9, <2>1 DEF Lease, Listed
  <2>3. ASSUME NEW x
        PROVE  Entries(x)' = Entries(x)
    <3>1. \A i \in DOMAIN live : sessionOf'[live[i]] = sessionOf[live[i]]
      BY <2>2 DEF Listed
    <3>2. {i \in DOMAIN live : sessionOf'[live[i]] = x} = {i \in DOMAIN live : sessionOf[live[i]] = x}
      BY <3>1
    <3> QED
      BY <2>1, <3>2 DEF Entries
  <2>4. \A q \in Turns \ {t} : Alive(q) => sessionOf[q] # s
    BY <1>9 DEF Lease, TurnFits, SessionFits
  <2> QED
    BY <1>9, <2>3, <2>4 DEF Lease, Goes, KeepsOthers, logVars, diskVars, noteVars
<1> QED
  BY <1>1, <1>2, <1>3, <1>4, <1>5, <1>6, <1>7, <1>8, <1>9 DEF OwnStep, TurnStep, OwedStep

-----------------------------------------------------------------------------
(* What a turn's own step does to the turn. *)
LEMMA OwnFits ==
    ASSUME TurnsInv, NEW t \in Turns, OwnStep(t)
    PROVE  TurnFits(t)'
<1> USE DEF TurnsInv, TypeOK, Goes
<1>1. SessionFits(t) /\ ControlFits(t) /\ LogFits(t) /\ FileFits(t)
  BY DEF TurnFits
<1>2. ASSUME UNCHANGED <<live, sessionOf>>
      PROVE  Entries(sessionOf[t])' = Entries(sessionOf[t])
  BY <1>2, SameEntries
<1>3. CASE OpenLog(t)
  <2>1. sessionOf[t] \in Sessions
    BY <1>1, <1>3 DEF SessionFits, OpenLog
  <2>2. UNCHANGED sessionOf /\ live' = Begun(t)
    BY <1>3 DEF OpenLog, turnVars
  <2>3. Entries(sessionOf[t])' \subseteq {t}
    BY <2>1, <2>2, BegunFacts DEF TableFits, Entries
  <2> QED
    BY <1>1, <1>3, <2>2, <2>3
       DEF OpenLog, TurnFits, SessionFits, ControlFits, LogFits, FileFits, Producing, Alive,
           Outcome, turnVars, diskVars, noteVars
<1>4. CASE Answer(t) \/ Raises(t)
  <2>1. \E e \in {ctl[t], "error"} : told'[t] \in {told[t], e}
    BY <1>4, OwnNote DEF Answer, Raises, Producing
  <2>2. UNCHANGED <<live, sessionOf>>
    BY <1>4 DEF Answer, Raises, Note, turnVars
  <2> QED
    BY <1>1, <1>2, <1>4, <2>1, <2>2
       DEF Answer, Raises, TurnFits, SessionFits, ControlFits, LogFits, FileFits, Producing,
           Alive, Outcome, turnVars, diskVars, noteVars
<1>5. CASE GiveUp(t) \/ Finish(t) \/ BeginFails(t) \/ Escapes(t) \/ StateWriteFails(t)
  <2>1. UNCHANGED <<live, sessionOf>>
    BY <1>5 DEF GiveUp, Finish, BeginFails, Escapes, StateWriteFails, turnVars, logVars
  <2> QED
    BY <1>1, <1>2, <1>5, <2>1
       DEF GiveUp, Finish, Settled, BeginFails, Escapes, StateWriteFails, TurnFits, SessionFits,
           ControlFits, LogFits, FileFits, Producing, Alive, turnVars, logVars, diskVars, noteVars
<1>6. CASE CloseLog(t) \/ WriteRunning(t)
  <2>1. UNCHANGED <<live, sessionOf>>
    BY <1>6 DEF CloseLog, WriteRunning, turnVars, logVars
  <2> QED
    BY <1>1, <1>2, <1>6, <2>1
       DEF CloseLog, WriteRunning, TurnFits, SessionFits, ControlFits, LogFits, FileFits,
           Producing, Alive, Outcome, turnVars, logVars, diskVars, noteVars
<1>7. CASE SealResult(t) \/ StopsAtCheck(t) \/ Settle(t)
  <2>1. UNCHANGED <<live, sessionOf>>
    BY <1>7 DEF SealResult, StopsAtCheck, Settle, logVars
  <2> QED
    BY <1>1, <1>2, <1>7, <2>1
       DEF SealResult, StopsAtCheck, Settle, Settled, TurnFits, SessionFits, ControlFits, LogFits,
           FileFits, Producing, Alive, Outcome, logVars, diskVars, noteVars
<1>8. CASE RequestCancel(t) \/ UnattendedTimeout(t) \/ Disconnect(t)
  <2>1. UNCHANGED <<live, sessionOf>>
    BY <1>8 DEF RequestCancel, UnattendedTimeout, Disconnect, logVars
  <2> QED
    BY <1>1, <1>2, <1>8, <2>1
       DEF RequestCancel, UnattendedTimeout, Disconnect, TurnFits, SessionFits, ControlFits,
           LogFits, FileFits, Producing, Alive, Outcome, logVars, diskVars, noteVars
<1>9. CASE ReadState(t)
  <2>1. UNCHANGED <<live, sessionOf>>
    BY <1>9 DEF ReadState, turnVars, logVars
  <2>2. Entries(sessionOf[t]) \subseteq {t}
    BY <1>1, <1>9 DEF ReadState, LogFits, Producing
  <2> QED
    BY <1>1, <1>2, <1>9, <2>1, <2>2
       DEF ReadState, TurnFits, SessionFits, ControlFits, LogFits, FileFits, Producing, Alive,
           Outcome, turnVars, logVars, diskVars, noteVars
<1>10. CASE WriteState(t)
  <2>1. UNCHANGED <<live, sessionOf>>
    BY <1>10 DEF WriteState, turnVars, logVars
  <2> QED
    BY <1>1, <1>2, <1>10, <2>1
       DEF WriteState, TurnFits, SessionFits, ControlFits, LogFits, FileFits, Producing, Alive,
           Outcome, turnVars, logVars, noteVars
<1>11. ASSUME NEW s \in Sessions, Lease(s, t)
       PROVE  TurnFits(t)'
  BY <1>1, <1>11
     DEF Lease, TurnFits, SessionFits, ControlFits, LogFits, FileFits, Producing, Alive,
         Outcome, logVars, diskVars, noteVars
<1> QED
  BY <1>3, <1>4, <1>5, <1>6, <1>7, <1>8, <1>9, <1>10, <1>11 DEF OwnStep, TurnStep, OwedStep

LEMMA TurnsStep ==
    ASSUME TurnsInv, [Next]_vars
    PROVE  TurnsInv'
<1>1. TypeOK' /\ TableFits'
  BY TypeStep, TableStep
<1>2. ASSUME NEW t \in Turns, OwnStep(t), NEW q \in Turns
      PROVE  TurnFits(q)'
  BY <1>2, StepKeepsOthers, OthersFit, OwnFits
<1>3. ASSUME NEW r \in Readers, ReaderStep(r), NEW q \in Turns
      PROVE  TurnFits(q)'
  <2>1. UNCHANGED <<live, sessionOf>>
    BY <1>3 DEF ReaderStep, ReadLatest, MarkStale, turnVars, logVars
  <2>2. disk'[q] \in {disk[q], "stale"}
    BY <1>3 DEF ReaderStep, ReadLatest, MarkStale, diskVars, TurnsInv, TypeOK
  <2> QED
    BY <1>3, <2>1, <2>2, SameEntries
       DEF ReaderStep, ReadLatest, MarkStale, TurnsInv, TurnFits, SessionFits, ControlFits,
           LogFits, FileFits, Producing, Alive, Outcome, turnVars, logVars, noteVars
<1>4. ASSUME NEW r \in Readers, NEW s \in Sessions, LookInactive(r, s), NEW q \in Turns
      PROVE  TurnFits(q)'
  BY <1>4, SameEntries
     DEF LookInactive, TurnsInv, TurnFits, SessionFits, ControlFits, LogFits, FileFits,
         Producing, Alive, turnVars, logVars, diskVars, noteVars
<1>5. ASSUME Restart, NEW q \in Turns
      PROVE  TurnFits(q)'
  <2>1. pc'[q] = (IF pc[q] = "none" THEN "none" ELSE "over")
    BY <1>5 DEF Restart, TurnsInv, TypeOK
  <2>2. disk'[q] = (IF disk[q] = "running" THEN "stale" ELSE disk[q])
    BY <1>5 DEF Restart
  <2> QED
    BY <1>5, <2>1, <2>2
       DEF Restart, TurnsInv, TurnFits, SessionFits, ControlFits, LogFits, FileFits,
           Producing, Alive, Outcome, turnVars
<1>6. ASSUME UNCHANGED vars, NEW q \in Turns
      PROVE  TurnFits(q)'
  BY <1>6, SameEntries
     DEF vars, TurnsInv, TurnFits, SessionFits, ControlFits, LogFits, FileFits,
         Producing, Alive, turnVars, logVars, diskVars, noteVars
<1> QED
  BY <1>1, <1>2, <1>3, <1>4, <1>5, <1>6 DEF TurnsInv, Next, ClientStep, OwnStep

LEMMA TurnsInvariant == Spec => []TurnsInv
<1>1. Init => TurnsInv
  <2> SUFFICES ASSUME Init PROVE TurnsInv
    OBVIOUS
  <2>1. live = <<>> /\ DOMAIN live = {}
    BY DEF Init
  <2>2. TypeOK
    BY <2>1 DEF Init, TypeOK
  <2>3. TableFits
    BY <2>1 DEF TableFits, Distinct, Listed
  <2> QED
    BY <2>2, <2>3
       DEF Init, TurnsInv, TurnFits, SessionFits, ControlFits, LogFits, FileFits, Producing,
           Alive, Outcome
<1> QED
  BY <1>1, TurnsStep, PTL DEF Spec

-----------------------------------------------------------------------------
(* The tables, the files and the positions of the turns keep their types,    *)
(* and the table of live logs stays within its bound, at every step of the   *)
(* turns, the status requests and a restart.                                 *)
THEOREM LiveTypeCorrect == Spec => []TypeOK
BY TurnsInvariant, PTL DEF TurnsInv

(* Every operation of a producer on the log and the state file meets its own *)
(* turn's entry or none, although the next turn replaces the entry as soon   *)
(* as the session is given back, and the table evicts what it has no room    *)
(* for.                                                                      *)
THEOREM ProducersKeepTheirLog == Spec => []OwnLogOnly
<1>1. TurnsInv => OwnLogOnly
  BY DEF TurnsInv, TurnFits, LogFits, FileFits, OwnLogOnly
<1> QED
  BY <1>1, TurnsInvariant, PTL

(* A session is given back after the outcome of its turn is in the state     *)
(* file; a write that failed and an entry that was evicted are the only ways *)
(* to leave the file running.                                                *)
THEOREM ReuseIsPersisted == Spec => []PersistedBeforeReuse
<1>1. TurnsInv => PersistedBeforeReuse
  BY DEF TurnsInv, TypeOK, TurnFits, SessionFits, FileFits, Alive, PersistedBeforeReuse
<1> QED
  BY <1>1, TurnsInvariant, PTL
-----------------------------------------------------------------------------
(* What is published when a turn gives its session back.  A turn that has a  *)
(* state file began, so its outcome is published by Finish: GiveUp, which    *)
(* publishes done whatever was asked of the turn, ends a turn without one.   *)
FileMeansBegun ==
    /\ \A t \in Turns : pc[t] \in {"none", "leased", "begun"} => disk[t] = "none"
    /\ \A r \in Readers : reader[r][1] = "marking" => disk[reader[r][2]] # "none"

PublishFits ==
    \A t \in Turns : finished[t] # "none" =>
        pc[t] = "over" /\ (disk[t] # "none" => finished[t] = ctl[t])

LEMMA FileStep ==
    ASSUME TurnsInv, FileMeansBegun, [Next]_vars
    PROVE  FileMeansBegun'
<1> USE DEF TurnsInv, TypeOK
<1>1. \A t \in Turns : disk[t] # "none" => disk'[t] # "none"
  <2>1. ASSUME NEW t \in Turns, WriteState(t)
        PROVE  ctl[t] # "none"
    BY <2>1 DEF WriteState, Goes, TurnFits, ControlFits, Outcome
  <2>2. CASE ClientStep
    BY <2>2 DEF ClientStep, Lease, Disconnect, RequestCancel, LookInactive, diskVars
  <2>3. CASE Restart \/ (\E r \in Readers : ReaderStep(r)) \/ UNCHANGED vars
    BY <2>3 DEF Restart, ReaderStep, ReadLatest, MarkStale, vars, diskVars
  <2>4. ASSUME NEW t \in Turns, WriteState(t) \/ WriteRunning(t)
        PROVE  \A q \in Turns : disk[q] # "none" => disk'[q] # "none"
    BY <2>1, <2>4 DEF WriteState, WriteRunning
  <2>5. ASSUME NEW t \in Turns, TurnStep(t), ~WriteState(t), ~WriteRunning(t)
        PROVE  UNCHANGED disk
    BY <2>5 DEF TurnStep, OwedStep, GiveUp, OpenLog, BeginFails, UnattendedTimeout, RequestCancel,
       SealResult, StopsAtCheck, Answer, Raises, Escapes, CloseLog, Settle, ReadState,
       StateWriteFails, Finish, diskVars
  <2> QED
    BY <2>2, <2>3, <2>4, <2>5 DEF Next
<1>2. \A t \in Turns : pc'[t] \in {"none", "leased", "begun"} => disk'[t] = "none"
  <2> USE DEF FileMeansBegun
  <2>1. CASE ClientStep
    BY <2>1 DEF ClientStep, Lease, Goes, Disconnect, RequestCancel, LookInactive, diskVars
  <2>2. CASE Restart
    BY <2>2 DEF Restart
  <2>3. ASSUME NEW r \in Readers, ReaderStep(r), NEW t \in Turns,
               pc'[t] \in {"none", "leased", "begun"}
        PROVE  disk'[t] = "none"
    <3>1. CASE ReadLatest(r)
      BY <2>3, <3>1 DEF ReadLatest, diskVars
    <3>2. CASE MarkStale(r)
      BY <2>3, <3>2 DEF MarkStale
    <3> QED
      BY <2>3, <3>1, <3>2 DEF ReaderStep
  <2>4. ASSUME NEW t \in Turns, GiveUp(t) \/ OpenLog(t) \/ BeginFails(t) \/ WriteRunning(t)
        PROVE  \A q \in Turns : pc'[q] \in {"none", "leased", "begun"} => disk'[q] = "none"
    BY <2>4 DEF GiveUp, OpenLog, BeginFails, WriteRunning, Goes, diskVars
  <2>5. ASSUME NEW t \in Turns, UnattendedTimeout(t) \/ SealResult(t) \/ StopsAtCheck(t)
                                \/ Answer(t) \/ Raises(t) \/ Escapes(t)
        PROVE  \A q \in Turns : pc'[q] \in {"none", "leased", "begun"} => disk'[q] = "none"
    BY <2>5 DEF UnattendedTimeout, RequestCancel, SealResult, StopsAtCheck, Answer, Raises,
       Escapes, Goes, diskVars
  <2>6. ASSUME NEW t \in Turns, CloseLog(t) \/ Settle(t) \/ ReadState(t)
                                \/ StateWriteFails(t) \/ Finish(t)
        PROVE  \A q \in Turns : pc'[q] \in {"none", "leased", "begun"} => disk'[q] = "none"
    BY <2>6 DEF CloseLog, Settle, ReadState, StateWriteFails, Finish, Goes, diskVars
  <2>7. ASSUME NEW t \in Turns, WriteState(t)
        PROVE  \A q \in Turns : pc'[q] \in {"none", "leased", "begun"} => disk'[q] = "none"
    BY <2>7 DEF WriteState, Goes, TurnFits, FileFits
  <2>8. CASE UNCHANGED vars
    BY <2>8 DEF vars, diskVars
  <2> QED
    BY <2>1, <2>2, <2>3, <2>4, <2>5, <2>6, <2>7, <2>8 DEF Next, TurnStep, OwedStep
<1>3. ASSUME NEW r \in Readers, reader'[r][1] = "marking"
      PROVE  disk'[reader'[r][2]] # "none"
  <2>1. ASSUME reader'[r] = reader[r]
        PROVE  disk'[reader'[r][2]] # "none"
    BY <1>1, <1>3, <2>1, ReaderTypes DEF FileMeansBegun
  <2>2. ASSUME NEW q \in Readers, ReaderStep(q)
        PROVE  disk'[reader'[r][2]] # "none"
    <3>1. CASE r = q /\ ReadLatest(q)
      BY <1>3, <3>1 DEF ReadLatest, diskVars
    <3>2. CASE r = q /\ MarkStale(q)
      BY <1>3, <3>2 DEF MarkStale
    <3>3. CASE r # q
      BY <2>1, <2>2, <3>3 DEF ReaderStep, ReadLatest, MarkStale
    <3> QED
      BY <2>2, <3>1, <3>2, <3>3 DEF ReaderStep
  <2>3. ASSUME NEW q \in Readers, NEW s \in Sessions, LookInactive(q, s)
        PROVE  disk'[reader'[r][2]] # "none"
    BY <1>3, <2>1, <2>3 DEF LookInactive
  <2>4. CASE Restart
    BY <1>3, <2>4 DEF Restart
  <2>5. ASSUME NEW t \in Turns, OwnStep(t)
        PROVE  UNCHANGED reader
    BY <2>5 DEF OwnStep, TurnStep, OwedStep, GiveUp, OpenLog, WriteRunning, BeginFails,
       UnattendedTimeout, RequestCancel, SealResult, StopsAtCheck, Answer, Raises, Escapes,
       CloseLog, Settle, ReadState, WriteState, StateWriteFails, Finish, Lease, Disconnect
  <2> QED
    BY <2>1, <2>2, <2>3, <2>4, <2>5 DEF Next, ClientStep, OwnStep, vars
<1> QED
  BY <1>2, <1>3 DEF FileMeansBegun

LEMMA PublishStep ==
    ASSUME TurnsInv, FileMeansBegun, PublishFits, [Next]_vars
    PROVE  PublishFits'
<1> SUFFICES ASSUME NEW t \in Turns, finished'[t] # "none"
             PROVE  pc'[t] = "over" /\ (disk'[t] # "none" => finished'[t] = ctl'[t])
  BY DEF PublishFits
<1> USE DEF TurnsInv, TypeOK, Goes
<1>1. CASE GiveUp(t)
  BY <1>1 DEF GiveUp, FileMeansBegun, diskVars
<1>2. CASE Finish(t)
  BY <1>2 DEF Finish
<1>3. CASE Restart
  BY <1>3 DEF Restart
<1>4. ASSUME finished[t] # "none"
      PROVE  pc[t] = "over" /\ (disk[t] # "none" => finished[t] = ctl[t])
  BY <1>4 DEF PublishFits
<1>5. ASSUME finished'[t] = finished[t], ctl'[t] = ctl[t], pc'[t] = pc[t],
             disk[t] = "none" => disk'[t] = "none"
      PROVE  pc'[t] = "over" /\ (disk'[t] # "none" => finished'[t] = ctl'[t])
  BY <1>4, <1>5
<1>6. ASSUME NEW u \in Turns, u # t, OwnStep(u)
      PROVE  pc'[t] = "over" /\ (disk'[t] # "none" => finished'[t] = ctl'[t])
  <2>1. KeepsOthers(u)
    BY <1>6, StepKeepsOthers
  <2>2. finished'[t] = finished[t]
    BY <1>6 DEF OwnStep, TurnStep, OwedStep, GiveUp, OpenLog, WriteRunning, BeginFails,
       UnattendedTimeout, RequestCancel, SealResult, StopsAtCheck, Answer, Raises, Escapes,
       CloseLog, Settle, ReadState, WriteState, StateWriteFails, Finish, Lease, Disconnect, turnVars
  <2> QED
    BY <1>5, <1>6, <2>1, <2>2 DEF KeepsOthers
<1>7. ASSUME TurnStep(t), ~GiveUp(t), ~Finish(t)
      PROVE  finished'[t] = finished[t] /\ pc[t] # "over"
  BY <1>7 DEF TurnStep, OwedStep, OpenLog, WriteRunning, BeginFails,
     UnattendedTimeout, RequestCancel, SealResult, StopsAtCheck, Answer, Raises, Escapes,
     CloseLog, Settle, ReadState, WriteState, StateWriteFails, turnVars
<1>8. ASSUME RequestCancel(t) \/ Disconnect(t) \/ \E s \in Sessions : Lease(s, t)
      PROVE  finished'[t] \in {finished[t], "none"} /\ pc[t] # "over"
  BY <1>8 DEF RequestCancel, Disconnect, Lease
<1>9. ASSUME NEW r \in Readers, ReaderStep(r) \/ \E s \in Sessions : LookInactive(r, s)
      PROVE  pc'[t] = "over" /\ (disk'[t] # "none" => finished'[t] = ctl'[t])
  <2>1. disk[t] = "none" => disk'[t] = "none"
    BY <1>9 DEF ReaderStep, ReadLatest, MarkStale, LookInactive, FileMeansBegun, diskVars
  <2> QED
    BY <1>5, <1>9, <2>1 DEF ReaderStep, ReadLatest, MarkStale, LookInactive, turnVars
<1>10. CASE UNCHANGED vars
  BY <1>5, <1>10 DEF vars, turnVars, diskVars
<1> QED
  BY <1>1, <1>2, <1>3, <1>4, <1>6, <1>7, <1>8, <1>9, <1>10 DEF Next, ClientStep, OwnStep

LEMMA Published == Spec => [](FileMeansBegun /\ PublishFits)
<1>1. Init => FileMeansBegun /\ PublishFits
  BY DEF Init, FileMeansBegun, PublishFits
<1>2. UNCHANGED vars /\ FileMeansBegun /\ PublishFits => FileMeansBegun' /\ PublishFits'
  BY DEF vars, turnVars, diskVars, FileMeansBegun, PublishFits
<1> QED
  BY <1>1, <1>2, TurnsInvariant, FileStep, PublishStep, PTL DEF Spec

(* There is no order of a request to cancel, the work, its exceptions and    *)
(* the seal in which an accepted cancellation is followed by a control that  *)
(* says done or failed; and once the turn has begun, none in which the       *)
(* session is given back with another outcome published than cancelled.      *)
THEOREM CancellationsHold == Spec => []AcceptedCancelHolds
<1>1. TurnsInv /\ FileMeansBegun /\ PublishFits => AcceptedCancelHolds
  <2> SUFFICES ASSUME TurnsInv, PublishFits, NEW t \in Turns, flag[t]
               PROVE  /\ ctl[t] \in {"cancelling", "cancelled"}
                      /\ disk[t] # "none" => finished[t] \in {"none", "cancelled"}
    BY DEF AcceptedCancelHolds
  <2>1. ctl[t] \in {"cancelling", "cancelled"}
    BY DEF TurnsInv, TurnFits, ControlFits
  <2>2. finished[t] # "cancelling"
    BY DEF TurnsInv, TypeOK, Outcome
  <2> QED
    BY <2>1, <2>2 DEF PublishFits
<1> QED
  BY <1>1, TurnsInvariant, Published, PTL

(* The event that ends a log, the control, the state file and what is        *)
(* published with the session never tell two outcomes of a turn that began.  *)
THEOREM OutcomesAgree == Spec => []OneOutcome
<1>1. TurnsInv /\ FileMeansBegun /\ PublishFits => OneOutcome
  BY DEF TurnsInv, TurnFits, LogFits, FileFits, PublishFits, OneOutcome, Outcome
<1> QED
  BY <1>1, TurnsInvariant, Published, PTL

-----------------------------------------------------------------------------
(* The lease and the turn that has it. *)
HeldFits == \A s \in Sessions : held[s] # None => Alive(held[s]) /\ sessionOf[held[s]] = s

LEMMA HeldStep ==
    ASSUME TurnsInv, HeldFits, [Next]_vars
    PROVE  HeldFits'
<1> SUFFICES ASSUME NEW s \in Sessions, held'[s] # None
             PROVE  Alive(held[s])' /\ sessionOf'[held'[s]] = s
  BY DEF HeldFits
<1> USE DEF TurnsInv, TypeOK, HeldFits, Alive, Goes
<1>1. ASSUME NEW t \in Turns, NEW x \in Sessions, Lease(x, t)
      PROVE  Alive(held[s])' /\ sessionOf'[held'[s]] = s
  BY <1>1 DEF Lease
<1>2. ASSUME NEW t \in Turns, GiveUp(t) \/ Finish(t)
      PROVE  Alive(held[s])' /\ sessionOf'[held'[s]] = s
  BY <1>2 DEF GiveUp, Finish, turnVars
<1>3. ASSUME NEW t \in Turns, OpenLog(t) \/ WriteRunning(t) \/ BeginFails(t)
      PROVE  Alive(held[s])' /\ sessionOf'[held'[s]] = s
  BY <1>3 DEF OpenLog, WriteRunning, BeginFails, turnVars
<1>4. ASSUME NEW t \in Turns, RequestCancel(t) \/ UnattendedTimeout(t) \/ Disconnect(t)
      PROVE  Alive(held[s])' /\ sessionOf'[held'[s]] = s
  BY <1>4 DEF RequestCancel, UnattendedTimeout, Disconnect
<1>5. ASSUME NEW t \in Turns,
             SealResult(t) \/ StopsAtCheck(t) \/ Answer(t) \/ Raises(t) \/ Escapes(t)
      PROVE  Alive(held[s])' /\ sessionOf'[held'[s]] = s
  BY <1>5 DEF SealResult, StopsAtCheck, Answer, Raises, Escapes, turnVars
<1>6. ASSUME NEW t \in Turns, \/ CloseLog(t) \/ Settle(t) \/ ReadState(t)
                              \/ WriteState(t) \/ StateWriteFails(t)
      PROVE  Alive(held[s])' /\ sessionOf'[held'[s]] = s
  BY <1>6 DEF CloseLog, Settle, ReadState, WriteState, StateWriteFails, turnVars
<1>7. CASE \E r \in Readers : ReaderStep(r) \/ \E x \in Sessions : LookInactive(r, x)
  BY <1>7 DEF ReaderStep, ReadLatest, MarkStale, LookInactive, turnVars
<1>8. CASE Restart
  BY <1>8 DEF Restart
<1>9. CASE UNCHANGED vars
  BY <1>9 DEF vars, turnVars
<1> QED
  BY <1>1, <1>2, <1>3, <1>4, <1>5, <1>6, <1>7, <1>8, <1>9
     DEF Next, ClientStep, TurnStep, OwedStep

LeaseIsTurn ==
    \A s \in Sessions, t \in Turns : held[s] = t <=> Alive(t) /\ sessionOf[t] = s

(* A session has at most one turn that is alive, and is busy exactly as long *)
(* as that turn is: no lease is left behind by a turn that is over, and no   *)
(* turn loses its lease before it is.                                        *)
THEOREM LeasesAreTurns == Spec => []LeaseIsTurn
<1>1. Init => HeldFits
  BY DEF Init, HeldFits
<1>2. TurnsInv /\ HeldFits => LeaseIsTurn
  BY DEF TurnsInv, TurnFits, SessionFits, HeldFits, LeaseIsTurn
<1> QED
  BY <1>1, <1>2, HeldStep, TurnsInvariant, PTL DEF Spec

-----------------------------------------------------------------------------
(* The marks of the status requests.  A mark is fresh when what the request  *)
(* found out still holds as it writes: the file says running and the turn no *)
(* longer has its session.                                                   *)
MarksAreFresh ==
    \A r \in Readers : MarkStale(r) =>
        LET t == reader[r][2] IN disk[t] = "running" /\ held[sessionOf[t]] # t

LEMMA StaleStep ==
    ASSUME TurnsInv, StaleMeansCutOff, [Next]_vars, MarksAreFresh
    PROVE  StaleMeansCutOff'
<1> SUFFICES ASSUME NEW t \in Turns, disk'[t] = "stale"
             PROVE  t \in cutOff' \cup lost'
  BY DEF StaleMeansCutOff
<1>1. disk[t] = "running" /\ ~Alive(t) => t \in lost
  BY DEF TurnsInv, TypeOK, TurnFits, FileFits, Alive
<1>2. lost \subseteq lost' /\ cutOff \subseteq cutOff'
  BY DEF Next, ClientStep, TurnStep, OwedStep, Lease, GiveUp, OpenLog, WriteRunning, BeginFails,
         Disconnect, RequestCancel, UnattendedTimeout, SealResult, StopsAtCheck, Answer, Raises,
         Escapes, CloseLog, Settle, ReadState, WriteState, StateWriteFails, Finish, ReaderStep,
         ReadLatest, MarkStale, LookInactive, Restart, noteVars, vars
<1>3. CASE disk[t] = "stale"
  BY <1>2, <1>3 DEF StaleMeansCutOff
<1>4. ASSUME disk[t] # "stale", NEW r \in Readers, MarkStale(r)
      PROVE  t \in cutOff' \cup lost'
  <2>1. reader[r][2] = t
    BY <1>4 DEF MarkStale, TurnsInv, TypeOK
  <2>2. disk[t] = "running" /\ ~Alive(t)
    BY <1>4, <2>1 DEF MarksAreFresh, TurnsInv, TurnFits, SessionFits
  <2> QED
    BY <1>1, <1>2, <2>2
<1>5. CASE disk[t] # "stale" /\ Restart
  <2>1. disk[t] = "running"
    BY <1>5 DEF Restart
  <2>2. Alive(t) => t \in cutOff'
    BY <1>5 DEF Restart, Alive
  <2> QED
    BY <1>1, <1>2, <2>1, <2>2
<1>6. ASSUME disk[t] # "stale", NEW u \in Turns, WriteState(u)
      PROVE  FALSE
  <2>1. ctl[u] \in Outcome
    BY <1>6 DEF WriteState, Goes, TurnsInv, TurnFits, ControlFits
  <2> QED
    BY <1>6, <2>1 DEF WriteState, TurnsInv, TypeOK, Outcome
<1>7. ASSUME disk[t] # "stale", NEW u \in Turns, WriteRunning(u)
      PROVE  FALSE
  BY <1>7 DEF WriteRunning, TurnsInv, TypeOK
<1> QED
  BY <1>3, <1>4, <1>5, <1>6, <1>7
     DEF Next, ClientStep, TurnStep, OwedStep, Lease, GiveUp, OpenLog, BeginFails,
         Disconnect, RequestCancel, UnattendedTimeout, SealResult, StopsAtCheck, Answer, Raises,
         Escapes, CloseLog, Settle, ReadState, StateWriteFails, Finish, ReaderStep,
         ReadLatest, LookInactive, diskVars, vars

(* The race between a status request and the turn it asks about is the only  *)
(* way for a turn to be marked stale that no restart cut off: if the mark    *)
(* were written only while what was read still holds, StaleMeansCutOff would *)
(* hold, whatever the turns, the failed writes and the restarts do.          *)
THEOREM FreshMarksAreTrue == Spec /\ [][MarksAreFresh]_vars => []StaleMeansCutOff
<1>1. Init => StaleMeansCutOff
  BY DEF Init, StaleMeansCutOff
<1>2. TurnsInv /\ StaleMeansCutOff /\ [Next]_vars /\ [MarksAreFresh]_vars => StaleMeansCutOff'
  BY StaleStep DEF StaleMeansCutOff, vars, diskVars, noteVars
<1> QED
  BY <1>1, <1>2, TurnsInvariant, PTL DEF Spec

-----------------------------------------------------------------------------
(* Where a turn is on its way. *)
Place == [none |-> 0, leased |-> 1, begun |-> 2, working |-> 3, answering |-> 4, closing |-> 5,
          closed |-> 6, settled |-> 7, writing |-> 8, finishing |-> 9, stranded |-> 9, over |-> 10]

Onward == \A t \in Turns : pc'[t] = pc[t] \/ Place[pc'[t]] > Place[pc[t]]

(* No turn goes back: from its lease to the end of its producer a turn moves *)
(* at most ten times, with no loop in which it could keep the session, so    *)
(* what is left to UnattendedTurnsEnd is that each move is made.             *)
THEOREM TurnsGoOnward == Spec => [][Onward]_vars
<1>1. ASSUME TypeOK, [Next]_vars
      PROVE  Onward
  <2> USE <1>1 DEF TypeOK, Onward, Place, Goes
  <2>1. CASE ClientStep
    BY <2>1 DEF ClientStep, Lease, Disconnect, RequestCancel, LookInactive
  <2>2. ASSUME NEW t \in Turns, GiveUp(t) \/ OpenLog(t) \/ WriteRunning(t) \/ BeginFails(t)
        PROVE  Onward
    BY <2>2 DEF GiveUp, OpenLog, WriteRunning, BeginFails
  <2>3. ASSUME NEW t \in Turns,
               UnattendedTimeout(t) \/ SealResult(t) \/ StopsAtCheck(t) \/ Answer(t)
        PROVE  Onward
    BY <2>3 DEF UnattendedTimeout, RequestCancel, SealResult, StopsAtCheck, Answer
  <2>4. ASSUME NEW t \in Turns, Raises(t) \/ Escapes(t) \/ CloseLog(t) \/ Settle(t)
        PROVE  Onward
    BY <2>4 DEF Raises, Escapes, CloseLog, Settle
  <2>5. ASSUME NEW t \in Turns,
               ReadState(t) \/ WriteState(t) \/ StateWriteFails(t) \/ Finish(t)
        PROVE  Onward
    BY <2>5 DEF ReadState, WriteState, StateWriteFails, Finish
  <2>6. CASE \E r \in Readers : ReaderStep(r)
    BY <2>6 DEF ReaderStep, ReadLatest, MarkStale
  <2>7. CASE Restart
    BY <2>7 DEF Restart
  <2>8. CASE UNCHANGED vars
    BY <2>8 DEF vars
  <2> QED
    BY <2>1, <2>2, <2>3, <2>4, <2>5, <2>6, <2>7, <2>8 DEF Next, TurnStep, OwedStep
<1> QED
  BY <1>1, LiveTypeCorrect, PTL DEF Spec
=============================================================================
