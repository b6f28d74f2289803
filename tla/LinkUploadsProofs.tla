-------------------------- MODULE LinkUploadsProofs --------------------------
(***************************************************************************)
(* What LinkUploads promises for any number of requests, sessions, keys,   *)
(* slots and retained jobs.  The layers: who asked for what (Asked), how   *)
(* many slots are taken (Counted), who shares and holds the lock of a      *)
(* session (SessionsKept) and of a key (KeysKept), which runs a key has    *)
(* had (Answered), and what the job folders of a session are (JobsKept).   *)
(***************************************************************************)
EXTENDS LinkUploads, FiniteSetTheorems, TLAPS

(* Where a request is known to be an upload, and where it is known to have   *)
(* a key.                                                                    *)
UploadSteps == {"asking", "admission", "registering", "queued", "running", "writing",
                "leaving", "draining", "quitting"}
KeyedSteps  == {"asking", "keyqueue", "looking", "made", "unlocking", "dropping", "keying"}

Asked ==
    \A r \in Requests :
        /\ pc[r] # "idle" => ask[r] \in Ask /\ (ask[r].route = "json" => Keyed(r))
        /\ pc[r] \in UploadSteps => ask[r].route = "link"
        /\ pc[r] \in KeyedSteps => Keyed(r)
        /\ workers[r] # "none" => ask[r].route = "link"
                                  /\ pc[r] \in {"unlocking", "dropping", "leaving", "draining"}

Uploads == {r \in Requests : Inside(r) /\ ask[r].route = "link"}

Counted == IsFiniteSet(Uploads) /\ free + Cardinality(Uploads) = Slots

LEMMA InitTyped == Init => TypeOK /\ Asked /\ Counted
<1> SUFFICES ASSUME Init PROVE TypeOK /\ Asked /\ Counted
  OBVIOUS
<1>1. Uploads = {}
  BY DEF Init, Uploads, Inside
<1>2. TypeOK
  BY UploadAssumption DEF Init, TypeOK, Entries, Nobody
<1>3. Asked
  BY DEF Init, Asked, UploadSteps, KeyedSteps
<1> QED
  BY <1>1, <1>2, <1>3, FS_EmptySet, UploadAssumption DEF Counted, Init

(* What each step does to the requests, and nothing about the tables.        *)
LEMMA NextAsked == TypeOK /\ Asked /\ [Next]_vars => Asked'
<1> SUFFICES ASSUME TypeOK, Asked, [Next]_vars PROVE Asked'
  OBVIOUS
<1> USE DEF Asked, Goes, UploadSteps, KeyedSteps, Keyed, slotVars, lockVars, keyVars, jobVars, storeVars
<1>1. ASSUME NEW r \in Requests, NEW a \in Offers, Arrive(r, a) PROVE Asked'
  BY <1>1, UploadAssumption DEF Arrive, TypeOK, Ask
<1>2. ASSUME NEW r \in Requests, AdmissionStep(r) PROVE Asked'
  BY <1>2 DEF AdmissionStep, LookFirst, TakeSlot, Busy, Register, StillDraining, TakeSession,
              GiveUp, Leave, Release, Quit, GiveBack, TypeOK
<1>3. ASSUME NEW r \in Requests, KeyStep(r) PROVE Asked'
  BY <1>3 DEF KeyStep, EnterKey, TakeKey, GoAway, Look, Remember, UnlockKey, DropKey, TypeOK, Ask
<1>4. ASSUME NEW r \in Requests, WorkStep(r) PROVE Asked'
  BY <1>4 DEF WorkStep, CallDone, CallFails, MakeJob, LinkDone, LinkFails, LinkTimesOut,
              WritesDone, WriteFails, WriteTimesOut, AfterFailure, TypeOK
<1>5. ASSUME NEW r \in Requests, WorkerExits(r) PROVE Asked'
  BY <1>5 DEF WorkerExits, TypeOK
<1>6. ASSUME NEW i \in Idents, Expire(i) PROVE Asked'
  BY <1>6 DEF Expire
<1>7. CASE Restart
  BY <1>7 DEF Restart, TypeOK
<1>8. CASE UNCHANGED vars
  BY <1>8 DEF vars
<1> QED
  BY <1>1, <1>2, <1>3, <1>4, <1>5, <1>6, <1>7, <1>8 DEF Next, Step

-----------------------------------------------------------------------------
LEMMA EntriesAreTyped ==
    ASSUME NEW e \in Entries, NEW r \in Requests
    PROVE  Given(e, r) \in Requests /\ Joined(e, r) \in Entries /\ Left(e, r) \in Entries
BY UploadAssumption DEF Entries, Given, Joined, Left, Nobody

LEMMA NamesAreTyped ==
    ASSUME NEW r \in Requests, ask[r] \in Ask
    PROVE  Session(r) \in Names /\ (Keyed(r) => Ident(r) \in Idents)
BY DEF Ask, Session, Names, Keyed, Ident, Idents

LEMMA SlotIsTaken ==
    ASSUME TypeOK, Counted, NEW r \in Uploads
    PROVE  free + 1 \in 0 .. Slots
<1>1. Cardinality(Uploads) \in Nat /\ Cardinality(Uploads) # 0
  BY FS_CardinalityType, FS_EmptySet DEF Counted
<1> QED
  BY <1>1, UploadAssumption DEF Counted, TypeOK

LEMMA GiveBackIsTyped ==
    ASSUME TypeOK, NEW r \in Requests, ask[r] \in Ask, GiveBack(r)
    PROVE  /\ sessions' \in [Names -> Entries] /\ keys' \in [Idents -> Entries]
           /\ lock' \in [Requests -> Requests \cup {None}] /\ keyLock' \in [Requests -> Requests \cup {None}]
           /\ keyLocked' \in SUBSET Requests /\ workers' \in [Requests -> {"none", "reader", "writer"}]
           /\ made' \in Nat /\ born' \in [Requests -> Nat]
           /\ linked' \in SUBSET Requests /\ previous' \in [Requests -> SUBSET Requests]
           /\ ask' \in [Requests -> Ask \cup {None}]
           /\ stored' \in [Idents -> Requests \cup {None}] /\ mishaps' \in 0 .. MaxMishaps
           /\ done' \in SUBSET Requests /\ unkept' \in SUBSET Requests
<1>1. sessions[Session(r)] \in Entries
  BY NamesAreTyped DEF TypeOK
<1> QED
  BY <1>1, EntriesAreTyped, NamesAreTyped DEF GiveBack, TypeOK, keyVars, storeVars

LEMMA NextTyped == TypeOK /\ Asked /\ Counted /\ [Next]_vars => TypeOK'
<1> SUFFICES ASSUME TypeOK, Asked, Counted, [Next]_vars PROVE TypeOK'
  OBVIOUS
<1> USE DEF Goes, slotVars, lockVars, keyVars, jobVars, storeVars
<1>1. ASSUME NEW r \in Requests, NEW a \in Offers, Arrive(r, a) PROVE TypeOK'
  BY <1>1, UploadAssumption DEF Arrive, TypeOK
<1>2. ASSUME NEW r \in Requests, AdmissionStep(r) PROVE TypeOK'
  <2>0. ask[r] \in Ask
    BY <1>2 DEF Asked, AdmissionStep, LookFirst, TakeSlot, Busy, Register, StillDraining, TakeSession,
                GiveUp, Leave, Release, Quit
  <2>1. CASE LookFirst(r) \/ Busy(r) \/ TakeSession(r) \/ GiveUp(r)
    BY <2>1 DEF LookFirst, Busy, TakeSession, GiveUp, TypeOK
  <2>2. CASE TakeSlot(r)
    BY <2>2, UploadAssumption DEF TakeSlot, TypeOK
  <2>3. CASE Register(r)
    BY <2>0, <2>3, EntriesAreTyped, NamesAreTyped DEF Register, TypeOK
  <2>4. CASE StillDraining(r)
    <3>1. r \in Uploads
      BY <2>4 DEF StillDraining, Uploads, Inside, Asked, UploadSteps
    <3> QED
      BY <2>4, <3>1, SlotIsTaken DEF StillDraining, TypeOK
  <2>5. CASE Leave(r)
    BY <2>0, <2>5, NamesAreTyped DEF Leave, TypeOK
  <2>6. CASE Release(r) \/ Quit(r)
    <3>1. r \in Uploads
      BY <2>6 DEF Release, Quit, Uploads, Inside, Asked, UploadSteps
    <3>2. free' \in 0 .. Slots
      BY <2>6, <3>1, SlotIsTaken DEF Release, Quit, GiveBack
    <3>3. GiveBack(r)
      BY <2>6 DEF Release, Quit
    <3>4. pc' = [pc EXCEPT ![r] = "over"]
      BY <2>6 DEF Release, Quit
    <3>5. draining' \in SUBSET Names /\ locked' \in SUBSET Requests
      BY <2>6 DEF Release, Quit, TypeOK
    <3> QED
      BY <2>0, <3>2, <3>3, <3>4, <3>5, GiveBackIsTyped DEF TypeOK
  <2> QED
    BY <1>2, <2>1, <2>2, <2>3, <2>4, <2>5, <2>6 DEF AdmissionStep
<1>3. ASSUME NEW r \in Requests, KeyStep(r) PROVE TypeOK'
  <2>1. CASE EnterKey(r) \/ GoAway(r) \/ DropKey(r)
    <3>1. Ident(r) \in Idents /\ keys[Ident(r)] \in Entries
      BY <2>1, NamesAreTyped DEF EnterKey, GoAway, DropKey, Asked, KeyedSteps, TypeOK
    <3> QED
      BY <2>1, <3>1, EntriesAreTyped DEF EnterKey, GoAway, DropKey, TypeOK
  <2>2. CASE TakeKey(r) \/ Look(r) \/ UnlockKey(r)
    BY <2>2 DEF TakeKey, Look, UnlockKey, TypeOK
  <2>3. CASE Remember(r)
    BY <2>3, UploadAssumption DEF Remember, TypeOK
  <2> QED
    BY <1>3, <2>1, <2>2, <2>3 DEF KeyStep
<1>4. ASSUME NEW r \in Requests, WorkStep(r) PROVE TypeOK'
  BY <1>4 DEF WorkStep, CallDone, CallFails, MakeJob, LinkDone, LinkFails, LinkTimesOut,
              WritesDone, WriteFails, WriteTimesOut, AfterFailure, Written, Latest, Records, TypeOK
<1>5. ASSUME NEW r \in Requests, WorkerExits(r) PROVE TypeOK'
  BY <1>5 DEF WorkerExits, Written, TypeOK
<1>6. ASSUME NEW i \in Idents, Expire(i) PROVE TypeOK'
  BY <1>6, UploadAssumption DEF Expire, TypeOK
<1>7. CASE Restart
  BY <1>7, UploadAssumption DEF Restart, TypeOK, Nobody, Entries
<1>8. CASE UNCHANGED vars
  BY <1>8 DEF vars, TypeOK
<1> QED
  BY <1>1, <1>2, <1>3, <1>4, <1>5, <1>6, <1>7, <1>8 DEF Next, Step

(* A slot is taken and given back together with the place inside.            *)
LEMMA NextCounted == TypeOK /\ Asked /\ Counted /\ [Next]_vars => Counted'
<1> SUFFICES ASSUME TypeOK, Asked, Counted, [Next]_vars PROVE Counted'
  OBVIOUS
<1> USE DEF Goes, slotVars, lockVars, keyVars, jobVars, storeVars
<1>0. ASSUME Uploads' = Uploads, free' = free PROVE Counted'
  BY <1>0 DEF Counted
<1>1. ASSUME NEW r \in Requests, r \notin Uploads, Uploads' = Uploads \cup {r}, free' = free - 1
      PROVE  Counted'
  <2>1. IsFiniteSet(Uploads') /\ Cardinality(Uploads') = Cardinality(Uploads) + 1
    BY <1>1, FS_AddElement DEF Counted
  <2>2. Cardinality(Uploads) \in Nat /\ free \in Nat /\ free + Cardinality(Uploads) = Slots
    BY FS_CardinalityType, UploadAssumption DEF Counted, TypeOK
  <2>3. (free - 1) + (Cardinality(Uploads) + 1) = Slots
    BY <2>2
  <2> QED
    BY <1>1, <2>1, <2>3 DEF Counted
<1>2. ASSUME NEW r \in Requests, r \in Uploads, Uploads' = Uploads \ {r}, free' = free + 1
      PROVE  Counted'
  <2>1. IsFiniteSet(Uploads') /\ Cardinality(Uploads') = Cardinality(Uploads) - 1
    BY <1>2, FS_RemoveElement DEF Counted
  <2> QED
    BY <1>2, <2>1, FS_CardinalityType, UploadAssumption DEF Counted, TypeOK
<1>3. ASSUME NEW r \in Requests, NEW a \in Offers, Arrive(r, a) PROVE Counted'
  <2>1. Uploads' = Uploads
    BY <1>3, UploadAssumption DEF Arrive, Uploads, Inside, TypeOK, Ask
  <2> QED
    BY <1>0, <1>3, <2>1 DEF Arrive
<1>4. ASSUME NEW r \in Requests, AdmissionStep(r) PROVE Counted'
  <2>1. CASE TakeSlot(r)
    BY <1>1, <2>1 DEF TakeSlot, Uploads, Inside, TypeOK, Asked, UploadSteps
  <2>2. CASE StillDraining(r) \/ Release(r) \/ Quit(r)
    BY <1>2, <2>2 DEF StillDraining, Release, Quit, GiveBack, Uploads, Inside, TypeOK, Asked, UploadSteps
  <2>3. CASE LookFirst(r) \/ Busy(r) \/ Register(r) \/ TakeSession(r) \/ GiveUp(r) \/ Leave(r)
    BY <1>0, <2>3 DEF LookFirst, Busy, Register, TakeSession, GiveUp, Leave, Uploads, Inside, TypeOK
  <2> QED
    BY <1>4, <2>1, <2>2, <2>3 DEF AdmissionStep
<1>5. ASSUME NEW r \in Requests, KeyStep(r) PROVE Counted'
  BY <1>0, <1>5 DEF KeyStep, EnterKey, TakeKey, GoAway, Look, Remember, UnlockKey, DropKey,
                    Uploads, Inside, TypeOK, Asked, KeyedSteps, Ask
<1>6. ASSUME NEW r \in Requests, WorkStep(r) PROVE Counted'
  BY <1>0, <1>6 DEF WorkStep, CallDone, CallFails, MakeJob, LinkDone, LinkFails, LinkTimesOut,
                    WritesDone, WriteFails, WriteTimesOut, AfterFailure, Uploads, Inside, TypeOK
<1>7. ASSUME NEW r \in Requests, WorkerExits(r) PROVE Counted'
  BY <1>0, <1>7 DEF WorkerExits, Uploads, Inside
<1>8. ASSUME NEW i \in Idents, Expire(i) PROVE Counted'
  BY <1>0, <1>8 DEF Expire, Uploads, Inside
<1>9. CASE Restart
  <2>1. Uploads' = {}
    BY <1>9 DEF Restart, Uploads, Inside
  <2> QED
    BY <1>9, <2>1, FS_EmptySet, UploadAssumption DEF Restart, Counted
<1>10. CASE UNCHANGED vars
  BY <1>0, <1>10 DEF vars, Uploads, Inside
<1> QED
  BY <1>3, <1>4, <1>5, <1>6, <1>7, <1>8, <1>9, <1>10 DEF Next, Step

LEMMA TypeInvariant == Spec => [](TypeOK /\ Asked /\ Counted)
BY InitTyped, NextAsked, NextTyped, NextCounted, PTL DEF Spec

(* Types, and with them that never more than CIVIL_LINK_CONCURRENCY uploads  *)
(* are inside: the slot that each gives back is one that it took.            *)
THEOREM UploadsTypeCorrect == Spec => []TypeOK
BY TypeInvariant, PTL

-----------------------------------------------------------------------------
(* The lock of a key: every request that has a place in its entry was given  *)
(* the same lock object, and one of them holds it.                           *)
KeyHeld  == {"looking", "working", "running", "writing", "made", "unlocking"}
KeySteps == KeyHeld \cup {"keyqueue", "dropping"}

HasEntry(r) == pc[r] \in KeySteps /\ Keyed(r)
HasKey(r)   == pc[r] \in KeyHeld /\ Keyed(r)
Entered(i)  == {r \in Requests : HasEntry(r) /\ Ident(r) = i}

KeysKept ==
    /\ \A i \in Idents : keys[i].users = Entered(i) /\ (keys[i].lock = None <=> Entered(i) = {})
    /\ \A r \in Requests : HasEntry(r) => keyLock[r] = keys[Ident(r)].lock
    /\ keyLocked = {r \in Requests : HasKey(r)}
    /\ \A q, r \in keyLocked : Ident(q) = Ident(r) => q = r

LEMMA LeftUsers ==
    ASSUME NEW e \in Entries, NEW r \in Requests
    PROVE  /\ Left(e, r).users = e.users \ {r}
           /\ e.lock # None => (Left(e, r).lock = None <=> e.users \subseteq {r})
           /\ ~ e.users \subseteq {r} => Left(e, r).lock = e.lock
BY DEF Left, Nobody, Entries

LEMMA JoinedUsers ==
    ASSUME NEW e \in Entries, NEW r \in Requests
    PROVE  /\ Joined(e, r).users = e.users \cup {r}
           /\ Joined(e, r).lock = Given(e, r) /\ Given(e, r) # None
           /\ e.lock # None => Given(e, r) = e.lock
BY UploadAssumption DEF Joined, Given, Entries

LEMMA KeysFrame ==
    ASSUME KeysKept, UNCHANGED keyVars,
           \A q \in Requests : /\ (HasEntry(q))' <=> HasEntry(q)
                               /\ (HasKey(q))' <=> HasKey(q)
                               /\ HasEntry(q) => Ident(q)' = Ident(q)
    PROVE  KeysKept'
<1>1. \A i \in Idents : Entered(i)' = Entered(i)
  BY DEF Entered
<1>2. \A q \in Requests : HasKey(q) => HasEntry(q)
  BY DEF HasKey, HasEntry, KeySteps
<1> QED
  BY <1>1, <1>2 DEF KeysKept, keyVars

LEMMA InitKeys == Init => KeysKept
BY DEF Init, KeysKept, HasEntry, HasKey, KeyHeld, KeySteps, Entered, Nobody

LEMMA NextKeys == TypeOK /\ Asked /\ KeysKept /\ [Next]_vars => KeysKept'
<1> SUFFICES ASSUME TypeOK, Asked, KeysKept, [Next]_vars PROVE KeysKept'
  OBVIOUS
<1> USE DEF Goes
<1>1. ASSUME NEW r \in Requests, NEW a \in Offers, Arrive(r, a) PROVE KeysKept'
  BY <1>1, KeysFrame, UploadAssumption
     DEF Arrive, HasEntry, HasKey, KeyHeld, KeySteps, Keyed, Ident, TypeOK
<1>2. ASSUME NEW r \in Requests, AdmissionStep(r) PROVE KeysKept'
  BY <1>2, KeysFrame
     DEF AdmissionStep, LookFirst, TakeSlot, Busy, Register, StillDraining, TakeSession, GiveUp, Leave,
         Release, Quit, GiveBack, HasEntry, HasKey, KeyHeld, KeySteps, Keyed, Ident, TypeOK
<1>3. ASSUME NEW r \in Requests, KeyStep(r) PROVE KeysKept'
  <2>0. Keyed(r) /\ ask' = ask /\ Ident(r) \in Idents /\ keys[Ident(r)] \in Entries
    BY <1>3, NamesAreTyped
       DEF KeyStep, EnterKey, TakeKey, GoAway, Look, Remember, UnlockKey, DropKey, Asked, KeyedSteps, TypeOK
  <2>a. \A q \in Requests : Ident(q)' = Ident(q) /\ (Keyed(q))' = Keyed(q)
    BY <2>0 DEF Ident, Keyed
  <2>b. \A q \in Requests : HasEntry(q) => Ident(q) \in Idents
    BY NamesAreTyped DEF HasEntry, KeySteps, KeyHeld, Asked
  <2>1. CASE EnterKey(r)
    <3>1. /\ Entered(Ident(r))' = Entered(Ident(r)) \cup {r}
          /\ \A i \in Idents : i # Ident(r) => Entered(i)' = Entered(i)
      BY <2>0, <2>a, <2>1 DEF EnterKey, Entered, HasEntry, KeySteps, KeyHeld, TypeOK
    <3>2. /\ keys'[Ident(r)].users = keys[Ident(r)].users \cup {r}
          /\ keys'[Ident(r)].lock = keyLock'[r] /\ keyLock'[r] # None
          /\ keys[Ident(r)].lock # None => keys'[Ident(r)].lock = keys[Ident(r)].lock
          /\ \A i \in Idents : i # Ident(r) => keys'[i] = keys[i]
          /\ \A q \in Requests : q # r => keyLock'[q] = keyLock[q]
      BY <2>0, <2>1, JoinedUsers DEF EnterKey, TypeOK
    <3>3. \A q \in Requests : /\ (HasKey(q))' <=> HasKey(q)
                              /\ (HasEntry(q))' <=> (HasEntry(q) \/ q = r)
      BY <2>0, <2>a, <2>1 DEF EnterKey, HasKey, HasEntry, KeyHeld, KeySteps, TypeOK
    <3>4. \A q \in Requests : HasEntry(q) /\ Ident(q) = Ident(r) => keys[Ident(r)].lock # None
      BY <2>0 DEF KeysKept, Entered
    <3>5. ~ HasEntry(r)
      BY <2>1 DEF EnterKey, HasEntry, KeySteps, KeyHeld
    <3>6. \A q \in Requests : (HasEntry(q))' => keyLock'[q] = keys'[Ident(q)'].lock
      BY <2>0, <2>a, <2>b, <3>2, <3>3, <3>4, <3>5 DEF KeysKept
    <3>7. \A i \in Idents : keys'[i].users = Entered(i)' /\ (keys'[i].lock = None <=> Entered(i)' = {})
      <4> TAKE i \in Idents
      <4>1. keys[i].users = Entered(i) /\ (keys[i].lock = None <=> Entered(i) = {})
        BY DEF KeysKept
      <4>2. CASE i = Ident(r)
        BY <2>a, <3>1, <3>2, <4>1, <4>2
      <4>3. CASE i # Ident(r)
        BY <3>1, <3>2, <4>1, <4>3
      <4> QED
        BY <4>2, <4>3
    <3>8. keyLocked' = keyLocked
      BY <2>1 DEF EnterKey
    <3> QED
      BY <2>a, <3>3, <3>6, <3>7, <3>8 DEF KeysKept
  <2>2. CASE GoAway(r) \/ DropKey(r)
    <3>1. /\ Entered(Ident(r))' = Entered(Ident(r)) \ {r}
          /\ \A i \in Idents : i # Ident(r) => Entered(i)' = Entered(i)
      BY <2>0, <2>a, <2>2 DEF GoAway, DropKey, Entered, HasEntry, KeySteps, KeyHeld, TypeOK
    <3>2. HasEntry(r) /\ ~ HasKey(r) /\ r \in Entered(Ident(r))
      BY <2>0, <2>2 DEF GoAway, DropKey, Entered, HasEntry, HasKey, KeySteps, KeyHeld
    <3>3. \A q \in Requests : /\ (HasKey(q))' <=> HasKey(q)
                              /\ (HasEntry(q))' <=> (HasEntry(q) /\ q # r)
      BY <2>0, <2>a, <2>2 DEF GoAway, DropKey, HasKey, HasEntry, KeyHeld, KeySteps, TypeOK
    <3>4. /\ keys'[Ident(r)] = Left(keys[Ident(r)], r)
          /\ \A i \in Idents : i # Ident(r) => keys'[i] = keys[i]
          /\ \A q \in Requests : q # r => keyLock'[q] = keyLock[q]
          /\ keyLocked' = keyLocked
      BY <2>0, <2>2 DEF GoAway, DropKey, TypeOK
    <3>5. keys[Ident(r)].lock # None /\ keys[Ident(r)].users = Entered(Ident(r))
      BY <2>0, <3>2 DEF KeysKept
    <3>6. \A q \in Requests : (HasEntry(q))' => keyLock'[q] = keys'[Ident(q)'].lock
      <4> SUFFICES ASSUME NEW q \in Requests, (HasEntry(q))' PROVE keyLock'[q] = keys'[Ident(q)].lock
        BY <2>a
      <4>1. HasEntry(q) /\ q # r /\ keyLock[q] = keys[Ident(q)].lock /\ Ident(q) \in Idents
        BY <2>b, <3>3 DEF KeysKept
      <4>2. CASE Ident(q) = Ident(r)
        BY <2>0, <3>4, <3>5, <4>1, <4>2, LeftUsers DEF Entered
      <4>3. CASE Ident(q) # Ident(r)
        BY <3>4, <4>1, <4>3
      <4> QED
        BY <4>2, <4>3
    <3>7. \A i \in Idents : keys'[i].users = Entered(i)' /\ (keys'[i].lock = None <=> Entered(i)' = {})
      <4> TAKE i \in Idents
      <4>1. keys[i].users = Entered(i) /\ (keys[i].lock = None <=> Entered(i) = {})
        BY DEF KeysKept
      <4>2. CASE i = Ident(r)
        <5>1. Entered(i)' = Entered(i) \ {r}
          BY <2>a, <3>1, <4>2
        <5>2. keys'[i].users = Entered(i) \ {r}
          BY <2>0, <3>4, <4>1, <4>2, LeftUsers
        <5>3. keys'[i].lock = None <=> Entered(i) \subseteq {r}
          BY <2>0, <3>4, <3>5, <4>1, <4>2, LeftUsers
        <5> QED
          BY <5>1, <5>2, <5>3
      <4>3. CASE i # Ident(r)
        BY <3>1, <3>4, <4>1, <4>3
      <4> QED
        BY <4>2, <4>3
    <3> QED
      BY <2>a, <3>3, <3>4, <3>6, <3>7 DEF KeysKept
  <2>3. CASE TakeKey(r)
    <3>1. \A q \in Requests : /\ (HasEntry(q))' <=> HasEntry(q)
                              /\ (HasKey(q))' <=> (HasKey(q) \/ q = r)
                              /\ HasKey(q) => HasEntry(q)
      BY <2>0, <2>a, <2>3 DEF TakeKey, HasKey, HasEntry, KeyHeld, KeySteps, TypeOK
    <3>2. \A i \in Idents : Entered(i)' = Entered(i)
      BY <2>a, <3>1 DEF Entered
    <3>3. HasEntry(r)
      BY <2>0, <2>3 DEF TakeKey, HasEntry, KeySteps
    <3>4. \A q \in keyLocked : Ident(q) # Ident(r)
      BY <2>3, <3>1, <3>3 DEF TakeKey, KeysKept
    <3> QED
      BY <2>3, <2>a, <3>1, <3>2, <3>4 DEF TakeKey, KeysKept
  <2>4. CASE UnlockKey(r)
    <3>1. \A q \in Requests : /\ (HasEntry(q))' <=> HasEntry(q)
                              /\ (HasKey(q))' <=> (HasKey(q) /\ q # r)
      BY <2>0, <2>a, <2>4 DEF UnlockKey, HasKey, HasEntry, KeyHeld, KeySteps, TypeOK
    <3>2. \A i \in Idents : Entered(i)' = Entered(i)
      BY <2>a, <3>1 DEF Entered
    <3> QED
      BY <2>4, <2>a, <3>1, <3>2 DEF UnlockKey, KeysKept
  <2>5. CASE Look(r) \/ Remember(r)
    BY <2>5, <2>a, KeysFrame DEF Look, Remember, HasEntry, HasKey, KeyHeld, KeySteps, TypeOK
  <2> QED
    BY <1>3, <2>1, <2>2, <2>3, <2>4, <2>5 DEF KeyStep
<1>4. ASSUME NEW r \in Requests, WorkStep(r) PROVE KeysKept'
  BY <1>4, KeysFrame
     DEF WorkStep, CallDone, CallFails, MakeJob, LinkDone, LinkFails, LinkTimesOut, WritesDone, WriteFails,
         WriteTimesOut, AfterFailure, HasEntry, HasKey, KeyHeld, KeySteps, Keyed, Ident, TypeOK
<1>5. ASSUME NEW r \in Requests, WorkerExits(r) PROVE KeysKept'
  BY <1>5, KeysFrame DEF WorkerExits, HasEntry, HasKey, Keyed, Ident
<1>6. ASSUME NEW i \in Idents, Expire(i) PROVE KeysKept'
  BY <1>6, KeysFrame DEF Expire, HasEntry, HasKey, Keyed, Ident
<1>7. CASE Restart
  BY <1>7 DEF Restart, KeysKept, Entered, HasEntry, HasKey, KeyHeld, KeySteps, Nobody
<1>8. CASE UNCHANGED vars
  BY <1>8, KeysFrame DEF vars, HasEntry, HasKey, Keyed, Ident
<1> QED
  BY <1>1, <1>2, <1>3, <1>4, <1>5, <1>6, <1>7, <1>8 DEF Next, Step

-----------------------------------------------------------------------------
(* What a key has been answered with: a run that ended well is stored, about *)
(* to be stored, or accounted for; while a run of the key is under way       *)
(* nothing is stored.                                                        *)
Answered ==
    /\ \A q \in done : /\ pc[q] # "idle"
                       /\ Keyed(q) => q \in unkept \/ pc[q] = "made" \/ stored[Ident(q)] = q
    /\ \A r \in Requests : Runs(r) /\ Keyed(r) => stored[Ident(r)] = None

LEMMA InitAnswered == Init => Answered
BY DEF Init, Answered, Runs

(* Two runs of one key would both hold its lock.                             *)
LEMMA RunsAlone ==
    ASSUME KeysKept, NEW q \in Requests, NEW r \in Requests, Runs(q) \/ pc[q] = "looking",
           Runs(r) \/ pc[r] = "looking", Keyed(q), Keyed(r), Ident(q) = Ident(r)
    PROVE  q = r
BY DEF KeysKept, HasKey, KeyHeld, Runs

LEMMA NextAnswered == TypeOK /\ Asked /\ KeysKept /\ Answered /\ [Next]_vars => Answered'
<1> SUFFICES ASSUME TypeOK, Asked, KeysKept, Answered, [Next]_vars PROVE Answered'
  OBVIOUS
<1> USE DEF Goes, slotVars, lockVars, keyVars, jobVars, storeVars
<1>1. ASSUME NEW r \in Requests, NEW a \in Offers, Arrive(r, a) PROVE Answered'
  BY <1>1 DEF Arrive, Answered, Runs, Keyed, Ident, TypeOK
<1>2. ASSUME NEW r \in Requests, AdmissionStep(r) PROVE Answered'
  BY <1>2 DEF AdmissionStep, LookFirst, TakeSlot, Busy, Register, StillDraining, TakeSession, GiveUp,
              Leave, Release, Quit, GiveBack, Answered, Runs, Keyed, Ident, TypeOK
<1>3. ASSUME NEW r \in Requests, KeyStep(r) PROVE Answered'
  <2>0. Keyed(r) /\ ask' = ask /\ \A q \in Requests : Ident(q)' = Ident(q) /\ (Keyed(q))' = Keyed(q)
    BY <1>3 DEF KeyStep, EnterKey, TakeKey, GoAway, Look, Remember, UnlockKey, DropKey,
                Asked, KeyedSteps, Ident, Keyed
  <2>1. CASE Remember(r)
    <3>1. Ident(r) \in Idents /\ r # None
      BY <2>1, NamesAreTyped, UploadAssumption DEF Remember, Asked, KeyedSteps
    <3>2. \A q \in Requests : q # r /\ Runs(q) /\ Keyed(q) => Ident(q) # Ident(r)
      BY <2>0, <2>1, RunsAlone DEF Remember, Runs
    <3>3. ASSUME NEW q \in done'
          PROVE  (pc[q] # "idle" /\ (Keyed(q) => q \in unkept \/ pc[q] = "made" \/ stored[Ident(q)] = q))'
      <4>1. q \in Requests /\ q \in done /\ (Keyed(q) => q \in unkept \/ pc[q] = "made" \/ stored[Ident(q)] = q)
        BY <2>1, <3>3 DEF Remember, Answered, TypeOK
      <4>2. CASE q = r
        BY <2>0, <2>1, <3>1, <4>1, <4>2 DEF Remember, TypeOK
      <4>3. CASE q # r /\ Keyed(q) /\ Ident(q) = Ident(r)
        <5>1. pc[q] # "made" /\ stored[Ident(q)] # q
          BY <2>1, <3>2, <4>1, <4>3, <2>0, UploadAssumption DEF Remember, Runs, Answered
        <5> QED
          BY <2>0, <2>1, <4>1, <4>3, <5>1 DEF Remember, TypeOK, Answered
      <4>4. CASE q # r /\ (Keyed(q) => Ident(q) # Ident(r))
        <5>1. pc[q] # "idle" /\ (Keyed(q) => Ident(q) \in Idents)
          BY <4>1, NamesAreTyped DEF Asked, Answered
        <5> QED
          BY <2>0, <2>1, <4>1, <4>4, <5>1 DEF Remember, TypeOK, Answered
      <4> QED
        BY <4>2, <4>3, <4>4
    <3>4. ASSUME NEW q \in Requests, (Runs(q))', (Keyed(q))' PROVE stored'[Ident(q)'] = None
      <4>1. q # r /\ Runs(q) /\ Keyed(q)
        BY <2>0, <2>1, <3>4 DEF Remember, Runs, TypeOK
      <4> QED
        <5>1. Ident(q) \in Idents /\ Ident(q) # Ident(r) /\ stored[Ident(q)] = None
          BY <3>2, <4>1, NamesAreTyped DEF Asked, Runs, Answered
        <5> QED
          BY <2>0, <2>1, <4>1, <5>1 DEF Remember, TypeOK
    <3> QED
      BY <3>3, <3>4 DEF Answered
  <2>2. CASE Look(r)
    BY <2>0, <2>2 DEF Look, Missing, Answered, Runs, TypeOK
  <2>3. CASE EnterKey(r) \/ TakeKey(r) \/ GoAway(r) \/ UnlockKey(r) \/ DropKey(r)
    BY <2>0, <2>3 DEF EnterKey, TakeKey, GoAway, UnlockKey, DropKey, Answered, Runs, TypeOK
  <2> QED
    BY <1>3, <2>1, <2>2, <2>3 DEF KeyStep
<1>4. ASSUME NEW r \in Requests, WorkStep(r) PROVE Answered'
  <2>1. ask' = ask /\ \A q \in Requests : Ident(q)' = Ident(q) /\ (Keyed(q))' = Keyed(q)
    BY <1>4 DEF WorkStep, CallDone, CallFails, MakeJob, LinkDone, LinkFails, LinkTimesOut,
                WritesDone, WriteFails, WriteTimesOut, Ident, Keyed
  <2>2. CASE CallDone(r) \/ WritesDone(r)
    BY <2>1, <2>2 DEF CallDone, WritesDone, Answered, Runs, TypeOK
  <2>3. CASE CallFails(r) \/ MakeJob(r) \/ LinkDone(r) \/ LinkFails(r) \/ LinkTimesOut(r)
             \/ WriteFails(r) \/ WriteTimesOut(r)
    BY <2>1, <2>3 DEF CallFails, MakeJob, LinkDone, LinkFails, LinkTimesOut, WriteFails, WriteTimesOut,
                      AfterFailure, Answered, Runs, TypeOK
  <2> QED
    BY <1>4, <2>2, <2>3 DEF WorkStep
<1>5. ASSUME NEW r \in Requests, WorkerExits(r) PROVE Answered'
  BY <1>5 DEF WorkerExits, Answered, Runs, Keyed, Ident
<1>6. ASSUME NEW i \in Idents, Expire(i) PROVE Answered'
  <2>1. \A q \in Requests : Ident(q)' = Ident(q) /\ (Keyed(q))' = Keyed(q) /\ (Runs(q))' = Runs(q)
    BY <1>6 DEF Expire, Ident, Keyed, Runs
  <2> QED
    BY <1>6, <2>1 DEF Expire, Answered, TypeOK
<1>7. CASE Restart
  BY <1>7 DEF Restart, Answered, Runs, Keyed, Ident, TypeOK
<1>8. CASE UNCHANGED vars
  BY <1>8 DEF vars, Answered, Runs, Keyed, Ident
<1> QED
  BY <1>1, <1>2, <1>3, <1>4, <1>5, <1>6, <1>7, <1>8 DEF Next, Step

LEMMA KeyInvariant == Spec => [](TypeOK /\ Asked /\ Counted /\ KeysKept /\ Answered)
BY InitTyped, InitKeys, InitAnswered, NextAsked, NextTyped, NextCounted, NextKeys, NextAnswered, PTL DEF Spec

(* A key runs once: at no moment of a run has another run of its key ended   *)
(* well, unless its response was lost or has expired; for any number of      *)
(* resends, gateways that restart and requests that hang up.                 *)
THEOREM KeysRunOnce == Spec => []RunsOnce
<1>1. TypeOK /\ Asked /\ KeysKept /\ Answered => RunsOnce
  <2> SUFFICES ASSUME TypeOK, Asked, KeysKept, Answered, NEW q \in done, NEW r \in Requests,
                      q # r, Runs(r), Keyed(r), Ident(q) = Ident(r)
               PROVE  q \in unkept
    BY DEF RunsOnce
  <2>1. q \in Requests /\ Keyed(q) /\ q # None
    BY UploadAssumption DEF TypeOK, Ident, Keyed
  <2>2. pc[q] # "made"
    BY <2>1, RunsAlone DEF Runs
  <2>3. stored[Ident(q)] # q
    BY <2>1 DEF Answered
  <2> QED
    BY <2>1, <2>2, <2>3 DEF Answered
<1> QED
  BY <1>1, KeyInvariant, PTL

-----------------------------------------------------------------------------
(* The lock of a session, in the same way; and the sessions that drain are   *)
(* those of the uploads that wait for a tool worker.                         *)
SessionHeld  == {"keying", "keyqueue", "looking", "working", "running", "writing", "made",
                 "unlocking", "dropping", "leaving", "draining"}
SessionSteps == SessionHeld \cup {"queued", "quitting"}

IsUser(r)  == pc[r] \in SessionSteps /\ ask[r].route = "link"
IsOwner(r) == pc[r] \in SessionHeld /\ ask[r].route = "link"
Users(n)   == {r \in Requests : IsUser(r) /\ Session(r) = n}

EntriesKept ==
    /\ \A n \in Names : sessions[n].users = Users(n) /\ (sessions[n].lock = None <=> Users(n) = {})
    /\ \A r \in Requests : IsUser(r) => lock[r] = sessions[Session(r)].lock
    /\ locked = {r \in Requests : IsOwner(r)}
    /\ \A q, r \in locked : Session(q) = Session(r) => q = r

Drained ==
    \A n \in Names : n \in draining <=> \E r \in Requests : pc[r] = "draining" /\ Session(r) = n

SessionsKept == EntriesKept /\ Drained

LEMMA SessionsFrame ==
    ASSUME SessionsKept, UNCHANGED lockVars, draining' = draining,
           \A q \in Requests : /\ (IsUser(q))' <=> IsUser(q)
                               /\ (IsOwner(q))' <=> IsOwner(q)
                               /\ IsUser(q) => Session(q)' = Session(q),
           \A q \in Requests : /\ pc'[q] = "draining" <=> pc[q] = "draining"
                               /\ pc[q] = "draining" => Session(q)' = Session(q)
    PROVE  SessionsKept'
<1>1. \A n \in Names : Users(n)' = Users(n)
  BY DEF Users
<1>2. \A q \in Requests : IsOwner(q) => IsUser(q)
  BY DEF IsOwner, IsUser, SessionSteps
<1>3. \A n \in Names : n \in draining' <=> \E r \in Requests : pc'[r] = "draining" /\ Session(r)' = n
  BY DEF SessionsKept, Drained
<1> QED
  BY <1>1, <1>2, <1>3 DEF SessionsKept, EntriesKept, Drained, lockVars

LEMMA InitSessions == Init => SessionsKept
BY DEF Init, SessionsKept, EntriesKept, Drained, IsUser, IsOwner, SessionHeld, SessionSteps, Users, Nobody

(* A request that leaves takes itself out of its session's entry.            *)
LEMMA UserLeaves ==
    ASSUME TypeOK, Asked, EntriesKept, NEW r \in Requests, IsUser(r), GiveBack(r),
           pc' = [pc EXCEPT ![r] = "over"], locked' = locked \ {r}
    PROVE  EntriesKept'
<1>1. \A q \in Requests : /\ (IsUser(q))' <=> (IsUser(q) /\ q # r)
                          /\ (IsOwner(q))' <=> (IsOwner(q) /\ q # r)
                          /\ Session(q)' = Session(q)
  BY DEF IsUser, IsOwner, SessionSteps, SessionHeld, Session, GiveBack, TypeOK
<1>2. \A q \in Requests : IsUser(q) => Session(q) \in Names
  BY NamesAreTyped DEF IsUser, SessionSteps, SessionHeld, Asked
<1>3. /\ Session(r) \in Names /\ sessions[Session(r)] \in Entries /\ r \in Users(Session(r))
      /\ sessions[Session(r)].users = Users(Session(r)) /\ sessions[Session(r)].lock # None
  BY <1>2 DEF TypeOK, EntriesKept, Users
<1>4. /\ sessions'[Session(r)] = Left(sessions[Session(r)], r)
      /\ \A n \in Names : n # Session(r) => sessions'[n] = sessions[n]
      /\ \A q \in Requests : q # r => lock'[q] = lock[q]
  BY <1>3 DEF GiveBack, TypeOK
<1>5. \A n \in Names : sessions'[n].users = Users(n)' /\ (sessions'[n].lock = None <=> Users(n)' = {})
  <2> TAKE n \in Names
  <2>1. sessions[n].users = Users(n) /\ (sessions[n].lock = None <=> Users(n) = {})
    BY DEF EntriesKept
  <2>2. Users(n)' = IF n = Session(r) THEN Users(n) \ {r} ELSE Users(n)
    BY <1>1, <1>3 DEF Users
  <2>3. CASE n = Session(r)
    <3>1. sessions'[n].users = Users(n) \ {r}
      BY <1>3, <1>4, <2>3, LeftUsers
    <3>2. sessions'[n].lock = None <=> Users(n) \subseteq {r}
      BY <1>3, <1>4, <2>3, LeftUsers
    <3> QED
      BY <2>2, <2>3, <3>1, <3>2
  <2>4. CASE n # Session(r)
    BY <1>4, <2>1, <2>2, <2>4
  <2> QED
    BY <2>3, <2>4
<1>6. \A q \in Requests : (IsUser(q))' => lock'[q] = sessions'[Session(q)].lock
  <2> SUFFICES ASSUME NEW q \in Requests, (IsUser(q))' PROVE lock'[q] = sessions'[Session(q)].lock
    OBVIOUS
  <2>1. IsUser(q) /\ q # r /\ lock'[q] = sessions[Session(q)].lock /\ Session(q) \in Names
    BY <1>1, <1>2, <1>4 DEF EntriesKept
  <2>2. CASE Session(q) = Session(r)
    BY <1>3, <1>4, <2>1, <2>2, LeftUsers DEF Users
  <2>3. CASE Session(q) # Session(r)
    BY <1>4, <2>1, <2>3
  <2> QED
    BY <2>2, <2>3
<1>7. locked' = {q \in Requests : (IsOwner(q))'}
  BY <1>1 DEF EntriesKept
<1>8. \A q \in locked', p \in locked' : Session(q) = Session(p) => q = p
  BY DEF EntriesKept
<1> QED
  BY <1>1, <1>5, <1>6, <1>7, <1>8 DEF EntriesKept

LEMMA NextSessions == TypeOK /\ Asked /\ SessionsKept /\ [Next]_vars => SessionsKept'
<1> SUFFICES ASSUME TypeOK, Asked, SessionsKept, [Next]_vars PROVE SessionsKept'
  OBVIOUS
<1> USE DEF Goes
<1>1. ASSUME NEW r \in Requests, NEW a \in Offers, Arrive(r, a) PROVE SessionsKept'
  BY <1>1, SessionsFrame, UploadAssumption
     DEF Arrive, IsUser, IsOwner, SessionHeld, SessionSteps, Session, TypeOK, slotVars, Ask
<1>2. ASSUME NEW r \in Requests, AdmissionStep(r) PROVE SessionsKept'
  <2>0. ask' = ask /\ ask[r] \in Ask /\ ask[r].route = "link" /\ Session(r) \in Names
        /\ \A q \in Requests : Session(q)' = Session(q)
    BY <1>2, NamesAreTyped
       DEF AdmissionStep, LookFirst, TakeSlot, Busy, Register, StillDraining, TakeSession, GiveUp, Leave,
           Release, Quit, GiveBack, Session, Asked, UploadSteps
  <2>b. \A q \in Requests : IsUser(q) => Session(q) \in Names
    BY NamesAreTyped DEF IsUser, SessionSteps, SessionHeld, Asked
  <2>1. CASE LookFirst(r) \/ TakeSlot(r) \/ Busy(r) \/ StillDraining(r) \/ GiveUp(r)
    BY <2>0, <2>1, SessionsFrame
       DEF LookFirst, TakeSlot, Busy, StillDraining, GiveUp, slotVars, IsUser, IsOwner, SessionHeld,
           SessionSteps, TypeOK
  <2>2. CASE Register(r)
    <3>1. \A q \in Requests : /\ (IsOwner(q))' <=> IsOwner(q)
                              /\ (IsUser(q))' <=> (IsUser(q) \/ q = r)
                              /\ pc'[q] = "draining" <=> pc[q] = "draining"
      BY <2>0, <2>2 DEF Register, IsUser, IsOwner, SessionHeld, SessionSteps, TypeOK
    <3>2. \A n \in Names : Users(n)' = IF n = Session(r) THEN Users(n) \cup {r} ELSE Users(n)
      BY <2>0, <3>1 DEF Users
    <3>3. /\ sessions'[Session(r)].users = sessions[Session(r)].users \cup {r}
          /\ sessions'[Session(r)].lock = lock'[r] /\ lock'[r] # None
          /\ sessions[Session(r)].lock # None => sessions'[Session(r)].lock = sessions[Session(r)].lock
          /\ \A n \in Names : n # Session(r) => sessions'[n] = sessions[n]
          /\ \A q \in Requests : q # r => lock'[q] = lock[q]
          /\ locked' = locked /\ draining' = draining
      BY <2>0, <2>2, JoinedUsers DEF Register, TypeOK, slotVars
    <3>4. ~ IsUser(r)
      BY <2>2 DEF Register, IsUser, SessionHeld, SessionSteps
    <3>5. \A q \in Requests : (IsUser(q))' => lock'[q] = sessions'[Session(q)].lock
      <4> SUFFICES ASSUME NEW q \in Requests, IsUser(q), q # r PROVE lock'[q] = sessions'[Session(q)].lock
        BY <3>1, <3>3
      <4>1. Session(q) \in Names /\ lock[q] = sessions[Session(q)].lock /\ sessions[Session(q)].lock # None
        BY <2>b DEF SessionsKept, EntriesKept, Users
      <4> QED
        BY <3>3, <4>1
    <3>6. \A n \in Names : sessions'[n].users = Users(n)' /\ (sessions'[n].lock = None <=> Users(n)' = {})
      <4> TAKE n \in Names
      <4>1. sessions[n].users = Users(n) /\ (sessions[n].lock = None <=> Users(n) = {})
        BY DEF SessionsKept, EntriesKept, Drained
      <4>2. CASE n = Session(r)
        BY <3>2, <3>3, <4>1, <4>2
      <4>3. CASE n # Session(r)
        BY <3>2, <3>3, <4>1, <4>3
      <4> QED
        BY <4>2, <4>3
    <3>7. \A q \in Requests : IsOwner(q) => IsUser(q)
      BY DEF IsOwner, IsUser, SessionSteps
    <3> QED
      BY <2>0, <3>1, <3>3, <3>5, <3>6, <3>7 DEF SessionsKept, EntriesKept, Drained
  <2>3. CASE TakeSession(r)
    <3>1. \A q \in Requests : /\ (IsUser(q))' <=> IsUser(q)
                              /\ (IsOwner(q))' <=> (IsOwner(q) \/ q = r)
                              /\ IsOwner(q) => IsUser(q)
                              /\ pc'[q] = "draining" <=> pc[q] = "draining"
      BY <2>0, <2>3 DEF TakeSession, IsUser, IsOwner, SessionHeld, SessionSteps, TypeOK
    <3>2. \A n \in Names : Users(n)' = Users(n)
      BY <2>0, <3>1 DEF Users
    <3>3. IsUser(r)
      BY <2>0, <2>3 DEF TakeSession, IsUser, SessionSteps
    <3>4. \A q \in locked : Session(q) # Session(r)
      BY <2>3, <3>1, <3>3 DEF TakeSession, SessionsKept, EntriesKept, Drained
    <3> QED
      BY <2>0, <2>3, <3>1, <3>2, <3>4 DEF TakeSession, SessionsKept, EntriesKept, Drained, slotVars
  <2>4. CASE Leave(r)
    <3>1. \A q \in Requests : /\ (IsUser(q))' <=> IsUser(q)
                              /\ (IsOwner(q))' <=> IsOwner(q)
                              /\ pc'[q] = "draining" <=> (pc[q] = "draining" \/ q = r)
      BY <2>0, <2>4 DEF Leave, IsUser, IsOwner, SessionHeld, SessionSteps, TypeOK
    <3>2. \A n \in Names : Users(n)' = Users(n)
      BY <2>0, <3>1 DEF Users
    <3> QED
      BY <2>0, <2>4, <3>1, <3>2 DEF Leave, SessionsKept, EntriesKept, Drained, lockVars
  <2>5. CASE Release(r)
    <3>1. IsUser(r) /\ IsOwner(r) /\ pc[r] = "draining"
      BY <2>0, <2>5 DEF Release, IsUser, IsOwner, SessionHeld, SessionSteps
    <3>2. \A q \in Requests : pc[q] = "draining" => IsOwner(q)
      BY DEF Asked, UploadSteps, IsOwner, SessionHeld
    <3>3. \A q \in Requests : pc[q] = "draining" /\ q # r => Session(q) # Session(r)
      BY <3>1, <3>2 DEF SessionsKept, EntriesKept, Drained
    <3>4. \A q \in Requests : pc'[q] = "draining" <=> (pc[q] = "draining" /\ q # r)
      BY <2>5 DEF Release, TypeOK
    <3>5. \A n \in Names : n \in draining' <=> \E q \in Requests : pc'[q] = "draining" /\ Session(q) = n
      BY <2>5, <3>1, <3>3, <3>4 DEF Release, SessionsKept, Drained
    <3>6. EntriesKept'
      BY <2>5, <3>1, UserLeaves DEF Release, SessionsKept
    <3> QED
      BY <2>0, <3>5, <3>6 DEF SessionsKept, Drained
  <2>6. CASE Quit(r)
    <3>1. IsUser(r) /\ ~ IsOwner(r) /\ r \notin locked
      BY <2>0, <2>6 DEF Quit, IsUser, IsOwner, SessionHeld, SessionSteps, SessionsKept, EntriesKept
    <3>2. locked' = locked \ {r} /\ draining' = draining
      BY <2>6, <3>1 DEF Quit
    <3>3. \A q \in Requests : pc'[q] = "draining" <=> pc[q] = "draining"
      BY <2>6 DEF Quit, TypeOK
    <3>4. EntriesKept'
      BY <2>6, <3>1, <3>2, UserLeaves DEF Quit, SessionsKept
    <3> QED
      BY <2>0, <3>2, <3>3, <3>4 DEF SessionsKept, Drained
  <2> QED
    BY <1>2, <2>1, <2>2, <2>3, <2>4, <2>5, <2>6 DEF AdmissionStep
<1>3. ASSUME NEW r \in Requests, KeyStep(r) PROVE SessionsKept'
  BY <1>3, SessionsFrame
     DEF KeyStep, EnterKey, TakeKey, GoAway, Look, Remember, UnlockKey, DropKey, slotVars, IsUser, IsOwner,
         SessionHeld, SessionSteps, Session, TypeOK, Asked, KeyedSteps, Ask
<1>4. ASSUME NEW r \in Requests, WorkStep(r) PROVE SessionsKept'
  BY <1>4, SessionsFrame
     DEF WorkStep, CallDone, CallFails, MakeJob, LinkDone, LinkFails, LinkTimesOut, WritesDone, WriteFails,
         WriteTimesOut, AfterFailure, slotVars, IsUser, IsOwner, SessionHeld, SessionSteps, Session, TypeOK
<1>5. ASSUME NEW r \in Requests, WorkerExits(r) PROVE SessionsKept'
  BY <1>5, SessionsFrame DEF WorkerExits, slotVars, IsUser, IsOwner, Session
<1>6. ASSUME NEW i \in Idents, Expire(i) PROVE SessionsKept'
  BY <1>6, SessionsFrame DEF Expire, slotVars, IsUser, IsOwner, Session
<1>7. CASE Restart
  BY <1>7 DEF Restart, SessionsKept, EntriesKept, Drained, Users, IsUser, IsOwner, SessionHeld, SessionSteps, Nobody
<1>8. CASE UNCHANGED vars
  BY <1>8, SessionsFrame DEF vars, slotVars, IsUser, IsOwner, Session
<1> QED
  BY <1>1, <1>2, <1>3, <1>4, <1>5, <1>6, <1>7, <1>8 DEF Next, Step

-----------------------------------------------------------------------------
(* The job folders: a record belongs to a folder that is there, and the      *)
(* folder of a run that is at work is kept.                                  *)
JobsKept ==
    /\ linked \subseteq Jobs
    /\ \A j \in Jobs : pc[j] # "idle"
    /\ \A r \in Requests : AtWork(r) => r \in Jobs

Compared == JobsKept /\ PreviousIsLatest

LEMMA InitCompared == Init => Compared
BY DEF Init, Compared, JobsKept, PreviousIsLatest, Jobs, AtWork

LEMMA RetainedAreJobs ==
    ASSUME NEW table
    PROVE  /\ Retained(table) \subseteq Jobs
           /\ \A j \in Jobs : table[Session(j)].users # {} => j \in Retained(table)
BY DEF Retained

LEMMA AtWorkOwns ==
    ASSUME Asked, SessionsKept, NEW r \in Requests, AtWork(r)
    PROVE  r \in locked /\ IsUser(r)
BY DEF AtWork, Asked, UploadSteps, SessionsKept, EntriesKept, IsOwner, IsUser, SessionHeld, SessionSteps

LEMMA WorksAlone ==
    ASSUME Asked, SessionsKept, NEW q \in Requests, NEW r \in Requests, AtWork(q), r \in locked, q # r
    PROVE  Session(q) # Session(r)
BY AtWorkOwns DEF SessionsKept, EntriesKept

(* The latest record changes only with the records of the session and their  *)
(* age.                                                                      *)
LEMMA SameLatest ==
    ASSUME NEW q \in Requests, Records(q)' = Records(q), \A k \in Records(q) : born'[k] = born[k]
    PROVE  Latest(q)' = Latest(q)
BY DEF Latest, After

LEMMA ComparedFrame ==
    ASSUME TypeOK, Compared, UNCHANGED jobVars,
           \A q \in Requests : /\ (AtWork(q))' => AtWork(q)
                               /\ pc[q] # "idle" => pc'[q] # "idle" /\ Session(q)' = Session(q)
    PROVE  Compared'
<1>1. Jobs' = Jobs /\ linked \subseteq Jobs /\ Jobs \subseteq Requests
      /\ \A j \in Jobs : Session(j)' = Session(j) /\ pc[j] # "idle" /\ pc'[j] # "idle"
  BY DEF Jobs, jobVars, Compared, JobsKept
<1>2. ASSUME NEW q \in Requests, (AtWork(q))' PROVE (previous[q] = Latest(q))'
  <2>1. AtWork(q) /\ q \in Jobs /\ Session(q)' = Session(q) /\ previous[q] = Latest(q)
    BY <1>1, <1>2 DEF Compared, JobsKept, PreviousIsLatest
  <2>2. Records(q)' = Records(q)
    BY <1>1, <2>1 DEF Records, jobVars
  <2>3. \A k \in Records(q) : born'[k] = born[k]
    BY DEF jobVars
  <2> QED
    BY <2>1, <2>2, <2>3, SameLatest DEF jobVars
<1>3. \A q \in Requests : (AtWork(q))' => q \in Jobs'
  BY <1>1 DEF Compared, JobsKept
<1> QED
  BY <1>1, <1>2, <1>3 DEF Compared, JobsKept, PreviousIsLatest, jobVars

(* Retention spares the sessions that somebody uses.                         *)
LEMMA GiveBackCompared ==
    ASSUME TypeOK, Asked, SessionsKept, SessionsKept', Compared, NEW r \in Requests, GiveBack(r),
           pc' = [pc EXCEPT ![r] = "over"], pc[r] # "idle", workers[r] = "none", Asked'
    PROVE  Compared'
<1>1. \A q \in Requests : Session(q)' = Session(q) /\ (pc[q] # "idle" => pc'[q] # "idle")
  BY DEF GiveBack, Session, TypeOK
<1>2. \A q \in Requests : (AtWork(q))' => AtWork(q) /\ q # r /\ previous'[q] = previous[q]
  BY DEF AtWork, GiveBack, TypeOK
<1>3. /\ Jobs' \subseteq Jobs /\ linked' \subseteq linked /\ linked' \subseteq Jobs'
      /\ \A j \in Jobs : sessions'[Session(j)].users # {} =>
            /\ born'[j] = born[j] /\ j \in Jobs'
            /\ j \in linked => j \in linked'
  <2> DEFINE kept == Retained(sessions')
  <2>1. born' = [j \in Requests |-> IF j \in kept THEN born[j] ELSE 0] /\ linked' = linked \cap kept
    BY DEF GiveBack
  <2>2. kept \subseteq Jobs /\ \A j \in Jobs : sessions'[Session(j)].users # {} => j \in kept
    BY RetainedAreJobs
  <2>3. linked \subseteq Jobs
    BY DEF Compared, JobsKept
  <2> HIDE DEF kept
  <2> QED
    BY <2>1, <2>2, <2>3 DEF Jobs
<1>4. ASSUME NEW q \in Requests, (AtWork(q))' PROVE q \in Jobs' /\ (previous[q] = Latest(q))'
  <2>1. (IsUser(q))' /\ ask[q] \in Ask
    BY <1>2, <1>4, AtWorkOwns DEF IsUser, GiveBack, Asked, AtWork, SessionHeld, SessionSteps,
                                  UploadSteps, KeyedSteps, TypeOK
  <2>2. sessions'[Session(q)].users # {}
    BY <1>1, <2>1, NamesAreTyped DEF SessionsKept, EntriesKept, Users
  <2>3. AtWork(q) /\ q \in Jobs /\ previous[q] = Latest(q) /\ linked \subseteq Jobs
    BY <1>2, <1>4 DEF Compared, JobsKept, PreviousIsLatest
  <2>4. Records(q)' = Records(q) /\ \A k \in Records(q) : born'[k] = born[k]
    BY <1>1, <1>3, <2>2, <2>3 DEF Records, Jobs
  <2> QED
    BY <1>2, <1>3, <1>4, <2>2, <2>3, <2>4, SameLatest
<1>5. \A j \in Jobs' : pc'[j] # "idle"
  BY <1>1, <1>3 DEF Compared, JobsKept, Jobs
<1> QED
  BY <1>3, <1>4, <1>5 DEF Compared, JobsKept, PreviousIsLatest

(* A record is added by the run that holds the session, and compares its     *)
(* own job with others only.                                                 *)
LEMMA LinkedCompared ==
    ASSUME TypeOK, Asked, SessionsKept, Compared, NEW r \in Requests, AtWork(r),
           linked' \in {linked, linked \cup {r}}, born' = born, previous' = previous, ask' = ask,
           \A q \in Requests : /\ (AtWork(q))' => AtWork(q)
                               /\ pc[q] # "idle" => pc'[q] # "idle"
    PROVE  Compared'
<1>1. \A q \in Requests : Session(q)' = Session(q)
  BY DEF Session
<1>2. Jobs' = Jobs /\ linked' \subseteq Jobs /\ Jobs \subseteq Requests
  BY DEF Jobs, Compared, JobsKept
<1>3. ASSUME NEW q \in Requests, (AtWork(q))' PROVE q \in Jobs /\ (previous[q] = Latest(q))'
  <2>1. AtWork(q) /\ q \in Jobs /\ previous[q] = Latest(q)
    BY <1>3 DEF Compared, JobsKept, PreviousIsLatest
  <2>2. q = r \/ Session(q) # Session(r)
    BY <2>1, WorksAlone, AtWorkOwns
  <2>3. Records(q)' = Records(q)
    <3>1. linked \subseteq Requests
      BY DEF TypeOK
    <3>2. CASE linked' = linked
      BY <1>1, <3>1, <3>2 DEF Records
    <3>3. CASE linked' = linked \cup {r}
      BY <1>1, <2>2, <3>1, <3>3 DEF Records
    <3> QED
      BY <3>2, <3>3
  <2> QED
    BY <2>1, <2>3, SameLatest
<1> QED
  BY <1>2, <1>3 DEF Compared, JobsKept, PreviousIsLatest

LEMMA NextCompared ==
    TypeOK /\ Asked /\ SessionsKept /\ SessionsKept' /\ Asked' /\ Compared /\ [Next]_vars => Compared'
<1> SUFFICES ASSUME TypeOK, Asked, SessionsKept, SessionsKept', Asked', Compared, [Next]_vars
             PROVE  Compared'
  OBVIOUS
<1> USE DEF Goes
<1>1. ASSUME NEW r \in Requests, NEW a \in Offers, Arrive(r, a) PROVE Compared'
  BY <1>1, ComparedFrame DEF Arrive, AtWork, Session, TypeOK
<1>2. ASSUME NEW r \in Requests, AdmissionStep(r) PROVE Compared'
  <2>1. CASE LookFirst(r) \/ TakeSlot(r) \/ Busy(r) \/ Register(r) \/ StillDraining(r) \/ TakeSession(r)
             \/ GiveUp(r) \/ Leave(r)
    BY <2>1, ComparedFrame
       DEF LookFirst, TakeSlot, Busy, Register, StillDraining, TakeSession, GiveUp, Leave, AtWork, Session, TypeOK
  <2>2. CASE Release(r) \/ Quit(r)
    <3>1. workers[r] = "none" /\ pc[r] # "idle"
      BY <2>2 DEF Release, Quit, Asked
    <3> QED
      BY <2>2, <3>1, GiveBackCompared DEF Release, Quit
  <2> QED
    BY <1>2, <2>1, <2>2 DEF AdmissionStep
<1>3. ASSUME NEW r \in Requests, KeyStep(r) PROVE Compared'
  BY <1>3, ComparedFrame
     DEF KeyStep, EnterKey, TakeKey, GoAway, Look, Remember, UnlockKey, DropKey, AtWork, Session, TypeOK
<1>4. ASSUME NEW r \in Requests, WorkStep(r) PROVE Compared'
  <2>1. CASE CallDone(r) \/ CallFails(r) \/ LinkDone(r) \/ LinkFails(r) \/ LinkTimesOut(r)
    BY <2>1, ComparedFrame
       DEF CallDone, CallFails, LinkDone, LinkFails, LinkTimesOut, AfterFailure, AtWork, Session, TypeOK
  <2>2. CASE WritesDone(r) \/ WriteFails(r) \/ WriteTimesOut(r)
    BY <2>2, LinkedCompared
       DEF WritesDone, WriteFails, WriteTimesOut, Written, AfterFailure, AtWork, TypeOK
  <2>3. CASE MakeJob(r)
    <3>1. r \in locked
      BY <2>3 DEF MakeJob, SessionsKept, EntriesKept, IsOwner, SessionHeld
    <3>2. \A q \in Requests : /\ Session(q)' = Session(q) /\ (pc[q] # "idle" => pc'[q] # "idle")
                              /\ (AtWork(q))' <=> (AtWork(q) \/ q = r)
                              /\ q # r => previous'[q] = previous[q] /\ born'[q] = born[q]
      BY <2>3 DEF MakeJob, Session, AtWork, TypeOK
    <3>3. born'[r] = made + 1 /\ made \in Nat /\ previous'[r] = Latest(r) /\ linked' = linked /\ pc[r] # "idle"
      BY <2>3 DEF MakeJob, TypeOK
    <3>4. Jobs' = Jobs \cup {r}
      BY <3>2, <3>3 DEF Jobs
    <3>5. ASSUME NEW q \in Requests, (AtWork(q))' PROVE (previous[q] = Latest(q))'
      <4>1. Records(q)' = Records(q)
        BY <3>2, <3>3 DEF Records, TypeOK
      <4>2. previous'[q] = Latest(q)
        BY <3>2, <3>3, <3>5 DEF Compared, PreviousIsLatest
      <4>3. r \notin Records(q) /\ Records(q) \subseteq Requests
        BY <3>1, <3>2, <3>5, WorksAlone DEF Records, TypeOK
      <4> QED
        BY <3>2, <4>1, <4>2, <4>3, SameLatest
    <3>6. JobsKept'
      <4>1. linked' \subseteq Jobs'
        BY <3>3, <3>4 DEF Compared, JobsKept
      <4>2. \A j \in Jobs' : pc'[j] # "idle"
        BY <3>2, <3>3, <3>4 DEF Compared, JobsKept, Jobs
      <4>3. \A q \in Requests : (AtWork(q))' => q \in Jobs'
        BY <3>2, <3>4 DEF Compared, JobsKept
      <4> QED
        BY <4>1, <4>2, <4>3 DEF JobsKept
    <3> QED
      BY <3>5, <3>6 DEF Compared, PreviousIsLatest
  <2> QED
    BY <1>4, <2>1, <2>2, <2>3 DEF WorkStep
<1>5. ASSUME NEW r \in Requests, WorkerExits(r) PROVE Compared'
  <2>1. /\ AtWork(r) /\ linked' \in {linked, linked \cup {r}} /\ born' = born /\ previous' = previous
        /\ ask' = ask /\ pc' = pc
    BY <1>5 DEF WorkerExits, Written, AtWork
  <2>2. \A q \in Requests : (AtWork(q))' => AtWork(q)
    BY <1>5 DEF WorkerExits, AtWork, TypeOK
  <2> QED
    BY <2>1, <2>2, LinkedCompared
<1>6. ASSUME NEW i \in Idents, Expire(i) PROVE Compared'
  BY <1>6, ComparedFrame DEF Expire, AtWork, Session
<1>7. CASE Restart
  BY <1>7 DEF Restart, Compared, JobsKept, PreviousIsLatest, Jobs, AtWork, TypeOK
<1>8. CASE UNCHANGED vars
  BY <1>8, ComparedFrame DEF vars, AtWork, Session
<1> QED
  BY <1>1, <1>2, <1>3, <1>4, <1>5, <1>6, <1>7, <1>8 DEF Next, Step

LEMMA UploadInvariant == Spec => [](TypeOK /\ Asked /\ Counted /\ KeysKept /\ SessionsKept /\ Compared)
<1>1. Init => TypeOK /\ Asked /\ Counted /\ KeysKept /\ SessionsKept /\ Compared
  BY InitTyped, InitKeys, InitSessions, InitCompared
<1>2. TypeOK /\ Asked /\ Counted /\ KeysKept /\ SessionsKept /\ Compared /\ [Next]_vars
      => (TypeOK /\ Asked /\ Counted /\ KeysKept /\ SessionsKept /\ Compared)'
  BY NextAsked, NextTyped, NextCounted, NextKeys, NextSessions, NextCompared
<1> QED
  BY <1>1, <1>2, PTL DEF Spec

(* The record a run compares with is the latest of its session for as long   *)
(* as the run, or a tool worker it left behind, may read it; whatever        *)
(* retention keeps.                                                          *)
THEOREM RecordsAreLatest == Spec => []PreviousIsLatest
<1>1. Compared => PreviousIsLatest
  BY DEF Compared
<1> QED
  BY <1>1, UploadInvariant, PTL

(* Slots, sessions and locks are taken by the uploads inside and by no one   *)
(* else, after refusals, timeouts, hang-ups and restarts.                    *)
THEOREM ResourcesDoNotLeak == Spec => []NothingLeaks
<1>1. TypeOK /\ Asked /\ Counted /\ KeysKept /\ SessionsKept => NothingLeaks
  <2> SUFFICES ASSUME TypeOK, Asked, Counted, KeysKept, SessionsKept PROVE NothingLeaks
    OBVIOUS
  <2>1. \A r \in Requests : IsUser(r) \/ HasEntry(r) \/ pc[r] = "draining" => Inside(r)
    BY DEF IsUser, HasEntry, SessionSteps, SessionHeld, KeySteps, KeyHeld, Inside
  <2>2. free + Cardinality({r \in Requests : Inside(r) /\ ask[r].route = "link"}) = Slots
    BY DEF Counted, Uploads
  <2>3. \A n \in Names : sessions[n].lock # None \/ n \in draining =>
           \E r \in Requests : Inside(r) /\ Session(r) = n
    BY <2>1 DEF SessionsKept, EntriesKept, Drained, Users
  <2>4. \A i \in Idents : keys[i].lock # None => \E r \in Requests : Inside(r) /\ Ident(r) = i
    BY <2>1 DEF KeysKept, Entered
  <2>5. \A r \in locked \cup keyLocked : Inside(r)
    BY <2>1 DEF SessionsKept, EntriesKept, KeysKept, IsOwner, IsUser, HasKey, HasEntry, KeySteps, SessionSteps
  <2> QED
    BY <2>2, <2>3, <2>4, <2>5 DEF NothingLeaks
<1> QED
  BY <1>1, UploadInvariant, PTL
=============================================================================
