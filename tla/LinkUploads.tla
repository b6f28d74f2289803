----------------------------- MODULE LinkUploads -----------------------------
(***************************************************************************)
(* Requests of the gateway that start a run and may be sent twice: uploads *)
(* that link a tender with a panel list (gateway/web_link.py), and JSON    *)
(* calls behind IdempotencyMiddleware (gateway/idempotency.py).  An upload *)
(* takes a slot of the server and the lock of its session, works in a job  *)
(* folder of its own, compares with the latest job of the session, and     *)
(* gives slot and lock back when the last tool worker it started is gone.  *)
(* Under an Idempotency-Key either kind of request runs once, and a resend *)
(* is answered with the stored response.                                   *)
(*                                                                         *)
(* Abstractions.  A lock object is named after the request that created    *)
(* it, the count of the users of a lock is the set it counts, and a stored *)
(* response is the request that earned it.  Of a job folder only its age   *)
(* and its link record are kept; its name is a time stamp of the wall      *)
(* clock, which is assumed to grow.  An upload without a session has one   *)
(* of its own.  A key that was used for another body ends a request where  *)
(* a stored response would.  What happens before the form was read is left *)
(* out, and so is the demo, whose two runs share a session that nobody     *)
(* else can name.                                                          *)
(***************************************************************************)
EXTENDS Naturals, FiniteSets

CONSTANTS
    Requests,
    Sessions,          \* the sessions a caller names
    Keys,              \* Idempotency-Keys
    Offers,            \* the requests that callers send
    None,              \* no session, no key, no request, no lock
    Slots,             \* CIVIL_LINK_CONCURRENCY
    KeepPerSession,    \* KEEP_JOBS_PER_SESSION
    KeepTotal,         \* KEEP_JOBS_TOTAL
    MaxMishaps         \* bound: restarts, responses that are not stored or that expire

Ask    == [route : {"link", "json"}, session : Sessions \cup {None}, key : Keys \cup {None}]
Names  == Sessions \cup Requests                        \* folders below web-link
Idents == {"link", "json"} \X (Sessions \cup {None}) \X Keys

ASSUME UploadAssumption ==
    /\ Offers \subseteq Ask /\ \A a \in Offers : a.route = "json" => a.key # None
    /\ None \notin Requests \cup Sessions \cup Keys \cup Ask /\ Sessions \cap Requests = {}
    /\ Slots \in Nat /\ MaxMishaps \in Nat
    /\ KeepPerSession \in Nat \ {0} /\ KeepTotal \in Nat \ {0}

VARIABLES
    ask,          \* what a request asks for
    pc,           \* where it is
    free,         \* _RUNS
    sessions,     \* _SESSION_LOCKS and _SESSION_USERS
    draining,     \* _DRAINING_SESSIONS
    keys,         \* _THREAD_LOCKS
    lock,         \* the lock object of the session that a request was given
    keyLock,      \* the lock object of the key that a request was given
    locked,       \* the requests that hold that session lock
    keyLocked,    \* the requests that hold that key lock
    workers,      \* the tool worker that outlived its timeout
    made,         \* how many job folders were ever made
    born,         \* when the job folder of a request was made, 0 without one
    linked,       \* job folders with a link record
    previous,     \* the job whose record the run compares with, if there is one
    stored,       \* idempotency_keys
    mishaps,
    done,         \* history: requests whose run ended well
    unkept        \* history: those whose response was not stored, or expired

slotVars  == <<free, draining>>
lockVars  == <<sessions, lock, locked>>
keyVars   == <<keys, keyLock, keyLocked>>
jobVars   == <<made, born, linked, previous>>
storeVars == <<stored, mishaps, done, unkept>>
vars == <<ask, pc, slotVars, lockVars, keyVars, workers, jobVars, storeVars>>

Nobody  == [lock |-> None, users |-> {}]
Entries == [lock : Requests \cup {None}, users : SUBSET Requests]

TypeOK ==
    /\ ask \in [Requests -> Ask \cup {None}]
    /\ pc \in [Requests -> {"idle", "asking", "admission", "registering", "queued", "keying",
                            "keyqueue", "looking", "working", "running", "writing", "made",
                            "unlocking", "dropping", "leaving", "draining", "quitting", "over"}]
    /\ free \in 0 .. Slots /\ draining \in SUBSET Names
    /\ sessions \in [Names -> Entries] /\ keys \in [Idents -> Entries]
    /\ lock \in [Requests -> Requests \cup {None}] /\ keyLock \in [Requests -> Requests \cup {None}]
    /\ locked \in SUBSET Requests /\ keyLocked \in SUBSET Requests
    /\ workers \in [Requests -> {"none", "reader", "writer"}]
    /\ made \in Nat /\ born \in [Requests -> Nat]
    /\ linked \in SUBSET Requests /\ previous \in [Requests -> SUBSET Requests]
    /\ stored \in [Idents -> Requests \cup {None}] /\ mishaps \in 0 .. MaxMishaps
    /\ done \in SUBSET Requests /\ unkept \in SUBSET Requests

Init ==
    /\ ask = [r \in Requests |-> None]
    /\ pc = [r \in Requests |-> "idle"]
    /\ free = Slots /\ draining = {}
    /\ sessions = [n \in Names |-> Nobody] /\ keys = [i \in Idents |-> Nobody]
    /\ lock = [r \in Requests |-> None] /\ keyLock = [r \in Requests |-> None]
    /\ locked = {} /\ keyLocked = {}
    /\ workers = [r \in Requests |-> "none"]
    /\ made = 0 /\ born = [r \in Requests |-> 0]
    /\ linked = {} /\ previous = [r \in Requests |-> {}]
    /\ stored = [i \in Idents |-> None] /\ mishaps = 0
    /\ done = {} /\ unkept = {}

-----------------------------------------------------------------------------
Goes(r, from, to) == pc[r] = from /\ pc' = [pc EXCEPT ![r] = to]
Session(r) == IF ask[r].session = None THEN r ELSE ask[r].session
Ident(r)   == <<ask[r].route, ask[r].session, ask[r].key>>
Keyed(r)   == ask[r].key # None

(* Both tables of locks: the first user of a name creates its lock object,   *)
(* the last one removes it.                                                  *)
Given(entry, r)  == IF entry.lock = None THEN r ELSE entry.lock
Joined(entry, r) == [lock |-> Given(entry, r), users |-> entry.users \cup {r}]
\* Mutant: whoever leaves first takes the lock object out of the table.
LeftAtOnce(entry, r) == Nobody

Left(entry, r) ==
    IF entry.users \subseteq {r} THEN Nobody ELSE [entry EXCEPT !.users = @ \ {r}]

(* lookup: nothing is stored under the key, or a response that answers the   *)
(* request; under another fingerprint it refuses the request (KeyReused).    *)
Missing(r) == stored[Ident(r)] = None

Arrive(r, a) ==
    /\ Goes(r, "idle", IF a.route = "json" THEN "keying"
                       ELSE IF a.key = None THEN "admission" ELSE "asking")
    /\ ask' = [ask EXCEPT ![r] = a]
    /\ UNCHANGED <<slotVars, lockVars, keyVars, workers, jobVars, storeVars>>

(* A finished resend is answered without a slot.                             *)
LookFirst(r) ==
    /\ Goes(r, "asking", IF Missing(r) THEN "admission" ELSE "over")
    /\ UNCHANGED <<ask, slotVars, lockVars, keyVars, workers, jobVars, storeVars>>

-----------------------------------------------------------------------------
(* _locked_run *)
\* Mutant: the slot is taken whether one is free or not.
TakeSlotAnyway(r) ==
    /\ Goes(r, "admission", "registering")
    /\ free' = free - 1
    /\ UNCHANGED <<ask, draining, lockVars, keyVars, workers, jobVars, storeVars>>

TakeSlot(r) ==
    /\ Goes(r, "admission", "registering")
    /\ free > 0
    /\ free' = free - 1
    /\ UNCHANGED <<ask, draining, lockVars, keyVars, workers, jobVars, storeVars>>

Busy(r) ==
    /\ Goes(r, "admission", "over")
    /\ free = 0
    /\ UNCHANGED <<ask, slotVars, lockVars, keyVars, workers, jobVars, storeVars>>

Register(r) ==
    /\ Goes(r, "registering", "queued")
    /\ Session(r) \notin draining
    /\ sessions' = [sessions EXCEPT ![Session(r)] = Joined(@, r)]
    /\ lock' = [lock EXCEPT ![r] = Given(sessions[Session(r)], r)]
    /\ UNCHANGED <<ask, slotVars, locked, keyVars, workers, jobVars, storeVars>>

\* Mutant: the refusal forgets the slot it took.
KeepsTheSlot(r) ==
    /\ Goes(r, "registering", "over")
    /\ Session(r) \in draining
    /\ UNCHANGED <<ask, slotVars, lockVars, keyVars, workers, jobVars, storeVars>>

StillDraining(r) ==
    /\ Goes(r, "registering", "over")
    /\ Session(r) \in draining
    /\ free' = free + 1
    /\ UNCHANGED <<ask, draining, lockVars, keyVars, workers, jobVars, storeVars>>

TakeSession(r) ==
    /\ Goes(r, "queued", IF Keyed(r) THEN "keying" ELSE "working")
    /\ \A q \in locked : lock[q] # lock[r]
    /\ locked' = locked \cup {r}
    /\ UNCHANGED <<ask, slotVars, sessions, lock, keyVars, workers, jobVars, storeVars>>

GiveUp(r) ==                                            \* 90 seconds went by
    /\ Goes(r, "queued", "quitting")
    /\ UNCHANGED <<ask, slotVars, lockVars, keyVars, workers, jobVars, storeVars>>

(* The finally block, on the thread of the request.                          *)
Leave(r) ==
    /\ Goes(r, "leaving", "draining")
    /\ draining' = draining \cup {Session(r)}
    /\ UNCHANGED <<ask, free, lockVars, keyVars, workers, jobVars, storeVars>>

(* _prune_idle: the newest jobs of each idle session, then the newest of     *)
(* all; a session that somebody uses keeps everything.                       *)
Jobs == {j \in Requests : born[j] > 0}
After(j, among) == {k \in among : born[k] > born[j]}
Retained(table) ==
    LET idle(j) == table[Session(j)].users = {}
        own(j)  == {k \in Jobs : Session(k) = Session(j)}
        newest  == {j \in Jobs : idle(j) => Cardinality(After(j, own(j))) < KeepPerSession}
    IN  {j \in newest : idle(j) => Cardinality(After(j, newest)) < KeepTotal}

GiveBack(r) ==
    /\ sessions' = [sessions EXCEPT ![Session(r)] = Left(@, r)]
    /\ LET kept == Retained(sessions') IN
         /\ born' = [j \in Requests |-> IF j \in kept THEN born[j] ELSE 0]
         /\ linked' = linked \cap kept
    /\ free' = free + 1
    /\ lock' = [lock EXCEPT ![r] = None] /\ previous' = [previous EXCEPT ![r] = {}]
    /\ UNCHANGED <<ask, keyVars, workers, made, storeVars>>

\* Mutant: the session is given back when the request answers.
ReleaseAtOnce(r) ==
    /\ Goes(r, "draining", "over")
    /\ draining' = draining \ {Session(r)} /\ locked' = locked \ {r}
    /\ GiveBack(r)

(* release, by the thread that saw the last tool worker exit.                *)
Release(r) ==
    /\ Goes(r, "draining", "over")
    /\ workers[r] = "none"
    /\ draining' = draining \ {Session(r)} /\ locked' = locked \ {r}
    /\ GiveBack(r)

Quit(r) ==
    /\ Goes(r, "quitting", "over")
    /\ GiveBack(r)
    /\ UNCHANGED <<draining, locked>>

-----------------------------------------------------------------------------
(* _once and IdempotencyMiddleware *)
EnterKey(r) ==
    /\ Goes(r, "keying", "keyqueue")
    /\ keys' = [keys EXCEPT ![Ident(r)] = Joined(@, r)]
    /\ keyLock' = [keyLock EXCEPT ![r] = Given(keys[Ident(r)], r)]
    /\ UNCHANGED <<ask, slotVars, lockVars, keyLocked, workers, jobVars, storeVars>>

TakeKey(r) ==
    /\ Goes(r, "keyqueue", "looking")
    /\ \A q \in keyLocked : keyLock[q] # keyLock[r]
    /\ keyLocked' = keyLocked \cup {r}
    /\ UNCHANGED <<ask, slotVars, lockVars, keys, keyLock, workers, jobVars, storeVars>>

GoAway(r) ==                              \* the caller of a JSON route hung up
    /\ Goes(r, "keyqueue", "over")
    /\ ask[r].route = "json"
    /\ keys' = [keys EXCEPT ![Ident(r)] = Left(@, r)]
    /\ keyLock' = [keyLock EXCEPT ![r] = None]
    /\ UNCHANGED <<ask, slotVars, lockVars, keyLocked, workers, jobVars, storeVars>>

Look(r) ==
    /\ Goes(r, "looking", IF Missing(r) THEN "working" ELSE "unlocking")
    /\ UNCHANGED <<ask, slotVars, lockVars, keyVars, workers, jobVars, storeVars>>

(* remember: only a completed response; a failure to store it is logged.     *)
Remember(r) ==
    /\ Goes(r, "made", "unlocking")
    /\ \/ stored' = [stored EXCEPT ![Ident(r)] = r] /\ UNCHANGED <<mishaps, unkept>>
       \/ /\ mishaps < MaxMishaps /\ mishaps' = mishaps + 1
          /\ unkept' = unkept \cup {r} /\ UNCHANGED stored
    /\ UNCHANGED <<ask, slotVars, lockVars, keyVars, workers, jobVars, done>>

(* The lock is released first, its place in the table given up after that.   *)
UnlockKey(r) ==
    /\ Goes(r, "unlocking", "dropping")
    /\ keyLocked' = keyLocked \ {r}
    /\ UNCHANGED <<ask, slotVars, lockVars, keys, keyLock, workers, jobVars, storeVars>>

DropKey(r) ==
    /\ Goes(r, "dropping", IF ask[r].route = "json" THEN "over" ELSE "leaving")
    /\ keys' = [keys EXCEPT ![Ident(r)] = Left(@, r)]
    /\ keyLock' = [keyLock EXCEPT ![r] = None]
    /\ UNCHANGED <<ask, slotVars, lockVars, keyLocked, workers, jobVars, storeVars>>

-----------------------------------------------------------------------------
(* The work: a JSON call, or _upload_job and _run_job.                       *)
AfterFailure(r) == IF Keyed(r) THEN "unlocking" ELSE "leaving"

CallDone(r) ==
    /\ Goes(r, "working", "made")
    /\ ask[r].route = "json"
    /\ done' = done \cup {r}
    /\ UNCHANGED <<ask, slotVars, lockVars, keyVars, workers, jobVars, stored, mishaps, unkept>>

CallFails(r) ==
    /\ Goes(r, "working", "unlocking")
    /\ ask[r].route = "json"
    /\ UNCHANGED <<ask, slotVars, lockVars, keyVars, workers, jobVars, storeVars>>

(* _previous_record: the latest earlier job of the session with a record.    *)
Records(r) == {j \in linked \ {r} : Session(j) = Session(r)}
Latest(r)  == {j \in Records(r) : After(j, Records(r)) = {}}

MakeJob(r) ==
    /\ Goes(r, "working", "running")
    /\ ask[r].route = "link"
    /\ made' = made + 1 /\ born' = [born EXCEPT ![r] = made + 1]
    /\ previous' = [previous EXCEPT ![r] = Latest(r)]
    /\ UNCHANGED <<ask, slotVars, lockVars, keyVars, workers, linked, storeVars>>

LinkDone(r) ==
    /\ Goes(r, "running", "writing")
    /\ UNCHANGED <<ask, slotVars, lockVars, keyVars, workers, jobVars, storeVars>>

LinkFails(r) ==
    /\ Goes(r, "running", AfterFailure(r))
    /\ UNCHANGED <<ask, slotVars, lockVars, keyVars, workers, jobVars, storeVars>>

LinkTimesOut(r) ==                       \* the worker of the tool runs on
    /\ Goes(r, "running", AfterFailure(r))
    /\ workers' = [workers EXCEPT ![r] = "reader"]
    /\ UNCHANGED <<ask, slotVars, lockVars, keyVars, jobVars, storeVars>>

(* The deliverables, the link record among them.                             *)
Written(r) == linked' \in {linked, linked \cup {r}}

WritesDone(r) ==
    /\ Goes(r, "writing", IF Keyed(r) THEN "made" ELSE "leaving")
    /\ linked' = linked \cup {r} /\ done' = done \cup {r}
    /\ UNCHANGED <<ask, slotVars, lockVars, keyVars, workers, made, born, previous,
                   stored, mishaps, unkept>>

WriteFails(r) ==
    /\ Goes(r, "writing", AfterFailure(r))
    /\ Written(r)
    /\ UNCHANGED <<ask, slotVars, lockVars, keyVars, workers, made, born, previous, storeVars>>

WriteTimesOut(r) ==                      \* the worker may still write
    /\ Goes(r, "writing", AfterFailure(r))
    /\ Written(r)
    /\ workers' = [workers EXCEPT ![r] = "writer"]
    /\ UNCHANGED <<ask, slotVars, lockVars, keyVars, made, born, previous, storeVars>>

WorkerExits(r) ==
    /\ workers[r] # "none"
    /\ workers' = [workers EXCEPT ![r] = "none"]
    /\ IF workers[r] = "writer" THEN Written(r) ELSE UNCHANGED linked
    /\ UNCHANGED <<ask, pc, slotVars, lockVars, keyVars, made, born, previous, storeVars>>

-----------------------------------------------------------------------------
Expire(i) ==                             \* CIVIL_IDEMPOTENCY_TTL_S went by
    /\ stored[i] # None /\ mishaps < MaxMishaps /\ mishaps' = mishaps + 1
    /\ stored' = [stored EXCEPT ![i] = None] /\ unkept' = unkept \cup {stored[i]}
    /\ UNCHANGED <<ask, pc, slotVars, lockVars, keyVars, workers, jobVars, done>>

(* The gateway restarts: folders and stored responses are all that is left.  *)
Restart ==
    /\ mishaps < MaxMishaps /\ mishaps' = mishaps + 1
    /\ pc' = [r \in Requests |-> IF pc[r] = "idle" THEN "idle" ELSE "over"]
    /\ free' = Slots /\ draining' = {}
    /\ sessions' = [n \in Names |-> Nobody] /\ keys' = [i \in Idents |-> Nobody]
    /\ locked' = {} /\ keyLocked' = {}
    /\ lock' = [r \in Requests |-> None] /\ keyLock' = [r \in Requests |-> None]
    /\ previous' = [r \in Requests |-> {}]
    /\ workers' = [r \in Requests |-> "none"]
    /\ unkept' = unkept \cup {r \in done : pc[r] = "made"}
    /\ UNCHANGED <<ask, made, born, linked, stored, done>>

AdmissionStep(r) == \/ LookFirst(r) \/ TakeSlot(r) \/ Busy(r) \/ Register(r) \/ StillDraining(r)
                    \/ TakeSession(r) \/ GiveUp(r) \/ Leave(r) \/ Release(r) \/ Quit(r)
KeyStep(r)  == EnterKey(r) \/ TakeKey(r) \/ GoAway(r) \/ Look(r) \/ Remember(r) \/ UnlockKey(r) \/ DropKey(r)
WorkStep(r) == \/ CallDone(r) \/ CallFails(r) \/ MakeJob(r) \/ LinkDone(r) \/ LinkFails(r) \/ LinkTimesOut(r)
               \/ WritesDone(r) \/ WriteFails(r) \/ WriteTimesOut(r)
Step(r) == AdmissionStep(r) \/ KeyStep(r) \/ WorkStep(r)

Next ==
    \/ \E r \in Requests : (\E a \in Offers : Arrive(r, a)) \/ Step(r) \/ WorkerExits(r)
    \/ \E i \in Idents : Expire(i)
    \/ Restart

Spec == Init /\ [][Next]_vars

-----------------------------------------------------------------------------
Inside(r) == pc[r] \notin {"idle", "asking", "admission", "over"}
Runs(r)   == pc[r] \in {"working", "running", "writing", "made"}
AtWork(r) == pc[r] \in {"running", "writing"} \/ workers[r] # "none"

(* "One at a time per session (so 'previous' is well defined)"               *)
(* (gateway/web_link.py:502): as long as a run, or a tool worker it left     *)
(* behind, may read the record it compares with, that is the latest record   *)
(* of the session: no other run has added one, and retention has not removed *)
(* it.                                                                       *)
PreviousIsLatest == \A r \in Requests : AtWork(r) => previous[r] = Latest(r)

(* "Nothing runs again" under a key (gateway/idempotency.py:6): at no moment *)
(* of a run is there another run of its key that ended well, unless that     *)
(* one's response could not be stored, or has expired.                       *)
RunsOnce ==
    \A q \in done, r \in Requests :
        (q # r /\ Runs(r) /\ Keyed(r) /\ Ident(q) = Ident(r)) => q \in unkept

(* A timeout "retains these resources until its actual tool workers have     *)
(* stopped" (web_link.py:503), and no longer: the slots that are taken are   *)
(* those of the uploads inside, a session is draining or locked only while   *)
(* one of them is, and a lock that nobody uses is not kept ("the lock map    *)
(* must not grow", web_link.py:538).                                         *)
NothingLeaks ==
    /\ free + Cardinality({r \in Requests : Inside(r) /\ ask[r].route = "link"}) = Slots
    /\ \A n \in Names : sessions[n].lock # None \/ n \in draining =>
          \E r \in Requests : Inside(r) /\ Session(r) = n
    /\ \A i \in Idents : keys[i].lock # None => \E r \in Requests : Inside(r) /\ Ident(r) = i
    /\ \A r \in locked \cup keyLocked : Inside(r)
=============================================================================
