# Verification of Civil Buddy

TLA+ models of the parts of Civil Buddy that coordinate work: who may work in a
session, how a turn ends, how a shared budget is charged, when an approved plan
is packed, how a saved project is changed and undone, which requests may be sent
twice, and what happens to locks, leases and answers when something fails, is cancelled, or outlives its timeout.
TLC checks the models on small instances; TLAPS proves the main safety
properties for every number of sessions, turns, processes and runs.

## The system and its parts

Civil Buddy is a workbench in which a request ("turn", "run") is routed to an
agent or a post, which calls tools and writes drafts. Two hosts exist side by
side: a Rust workbench (`src/workbench`) and a Python runtime
(`src/packing_assistant`) behind a FastAPI gateway (`src/gateway`) and a demo
server (`src/demo`).

| part | state it keeps | operations | hard behaviour | status |
|---|---|---|---|---|
| turn ledger, `runtime_core/persistence.rs` | SQLite rows of turns and events; in memory: cancellation tokens, leases | begin, cancel, emit, finish, finish_resolving_cancel, Drop, recover | several processes on one file, cancel against finish, failed writes, crashes | modelled, proved |
| product host, `product/api.rs`, `product/agent.rs` | owner lock file, one task per turn | open, start, cancel, run (timer, both arms) | the timer against a late answer, restart under a live worker, double failure | modelled (the operation itself abstract), proved |
| shared token budget, `runtime_core/budget.rs` | tasks, reservations, spent tokens and calls | register, reserve, start, settle, release, Drop, deadline | reservations in parallel, overruns, dropped futures, saturation at zero | modelled, proved |
| session runs, `runtime/scheduler.py`, `deadlock.py`, `tool_engine.py`, `agent_loop.py`, `expert_turn.py`, `product_turn.py` | session locks, run states, exclusive resources, live tool threads, cancel requests | create, transition, cancel, begin, end, execute, when_idle, release | a thread per request, tools that outlive a timeout, refused batches, cancellation between two steps | modelled, proved |
| tool circuit breaker, `tool_engine.py` | failure streaks, open times, trial slots | admit, gate, settle | late results, one trial at a time | planned |
| idempotent requests and linked uploads, `gateway/idempotency.py`, `gateway/web_link.py` | stored responses, per-key locks; slots, session locks, draining sessions, job folders | lookup, run, remember; admit, register, queue, work, drain, release, prune | crash before remember, identical requests, shared lock objects, tools that outlive their upload, retention against a queued request | modelled (the tools' work abstract), proved |
| demo turns, `demo/chat_service.py`, `demo/turn_control.py` | one lease and control per session, live logs, state files | acquire, request_cancel, seal, finish, disconnect, turn_status, sweep | cancel against seal, turns without a browser, status requests against a new turn, restart, eviction | modelled (the work itself abstract), proved |
| packing approval, `gateway/app.py`, `session_store.py`, `graph_resume.py`, `harness.py` | the session in memory and on disk, a confirm lock with waiting places | confirm, resume, checkpoint resume, revise, cancel, edits, startup sweep | cancel against the stores of a result, three doors to one run, stale copies, failed saves, crashes | modelled (the teams' work abstract), proved |
| workbench records, `logistics/records.py`, `engineering/planning_records.py`, `demo/logistics_api.py`, `planning_api.py`, `planning_chat_api.py`, `cad_api.py` | a record file with revision, history, undo stack, confirmation; cached proposals; cancellable operations | open, propose, apply, save, undo, confirm, pack, export, cancel | two pages on one revision, proposals that are stale or lost, cancel against the commit, bounded history | modelled, proved |
| event queues, `turn_control.py` model_events, `chat_service.py` stream_turn, replay_events | bounded queues, followers | put, get, replay | end of the stream against its last item | planned |
| document copies, `product/agent.rs`, `product/tools.rs` | copies, previews | preview, confirm, apply | preview stale when applied | planned |
| polling clients, `product/api.rs` events | none | replay then read the turn | end of turn between the two reads, pages of 200 | planned |
| everything else | | | | not modelled, see below |

How they interact. A product request takes a *lease* on a turn from the ledger,
works under it, charges the budget for each model call, and gives the lease back
by finishing (or by Drop). A Python run takes the scheduler's lock of its
session, then the watch's resources (the session and the post), calls tools on
worker threads, and gives everything back once its last worker is gone.
A demo turn takes the lease of its session, which registers a control; its
producer thread notes events in the live log and the state file, and alone gives
the session back. Cancellation is cooperative in all three: it sets a flag and a
state, and the worker alone may release. A packing session waits for a person
between Team A and Team B; the requests that confirm it take its confirm lock,
those that cancel or edit it do not, and both kinds store the whole session in
memory and then on disk. A page of a workbench names the revision it shows; the
store takes its file lock, compares, and replaces the file as a whole. An upload
that links a tender with a panel list takes a slot of the server and the lock of
its session, runs the tool through the engine of the Python runtime, and gives
both back when `when_idle` reports that its last worker is gone; under an
Idempotency-Key it also takes the key's lock, which JSON requests share.

## Modules

| module | models | source |
|---|---|---|
| `TurnLifecycle` | the abstract promise: a session serves one turn at a time, which ends once, and not as completed when a stop was asked first | `persistence.rs` |
| `RuntimeCore` | the ledger and its leases, any number of instances on one database | `persistence.rs`, `runtime_core/mod.rs` |
| `ProductHost` | EXTENDS `RuntimeCore` with the processes, the owner lock and the worker of each turn | `product/api.rs`, `product/agent.rs` |
| `BudgetTree` | the budget of a tree of tasks | `runtime_core/budget.rs` |
| `SessionRuns` | the Python scheduler, watch, tool workers and the three entry points | see the table above |
| `LiveTurns` | leases, controls, live logs and state files of demo turns | `demo/chat_service.py`, `demo/turn_control.py` |
| `PackingConfirm` | the approval gate of a packing session | `gateway/app.py`, `session_store.py` |
| `Undoable` | the abstract promise of a store: version numbers grow, undo goes back one change at a time, only old versions are forgotten | `logistics/records.py` |
| `Ledger` | one project of the logistics or planning workbench and the requests on it; implements `Undoable` | see the table above |
| `LinkUploads` | uploads that link a tender, and requests with an Idempotency-Key | `gateway/web_link.py`, `gateway/idempotency.py` |
| `MC*` | TLC instances and symmetry | |
| `RuntimeCoreProofs`, `ProductHostProofs`, `SessionRunsProofs`, `PackingConfirmProofs`, `LedgerProofs`, `BudgetTreeProofs`, `LiveTurnsProofs`, `LinkUploadsProofs` | theorems | |

### RuntimeCore

`status`, `sessionOf` and `log` are the tables `runtime_turns` and
`runtime_events`; they survive a crash. `lease`, `holder`, `token` and
`registry` live in a process. One SQLite transaction is one action, because the
code holds the connection's mutex over each and opens it immediate.
`CancelTurn` is the transaction and the flag that follows it: the token is set
before `cancel_turn` returns. `CancelSeen` is the check that
`finish_transition` makes inside its own transaction, of the row and of the
token. A lease that was not finished passes through `dropping`, the state
between a failed write (or a panic) and the write that `Drop` attempts.
The unique index on active turns is the guard of `BeginTurn`.

Left out: identifiers are fresh, payloads of events, time stamps, reads.

### ProductHost

`host` is a process: down, opened (owner lock taken), serving (recovered).
`worker` is the program counter of `agent::run`: starting (the authorization
event), executing, reaping (the timer fired and run waits for its operation),
reporting (the error event), settling. `wanted` is the status chosen from the
token *before* the finishing transaction, which is where it can be stale.
The operation between is abstract: it emits, returns Ok or Err, or never returns.

### BudgetTree

One action per method. `handle` distinguishes the value a caller holds from the
entry in the tree: after an `Err` of `settle` or `release` the lock is free
until `Drop` takes it again, and other tasks may run in between (`LeaveToDrop`,
then `Drop`). `Fits` is the condition of `reserve`, with its saturating
subtractions written out. u64 overflow is out of range of any limit and is left
out; so is `snapshot`, which only reads.

### SessionRuns

A run's `pc` is where its thread is: admitted, working, calling, tool, closing
(the last cancellation check is passed and the reply is composed), answered,
draining (`when_idle` waits for workers), idle, ended (the watch was told),
over (the lock is released). `workers` holds the runs whose tool thread is
alive, after a timeout too. `Transition` is the scheduler's: an illegal edge is
refused, and the callers ignore that. `Legal` leaves out the `reflecting` state,
which only a tender workflow passes through between `acting` and its end; such a
workflow is a `Close`/`AnswerOk` here. The watch's wait edges are left out:
`begin` is the only code in production that adds one, and it removes it again in
the same critical section when it rolls back, so no cycle can be seen.
`wait_resources` of `ToolEngine.execute` has no caller outside the tests.
The branches of `run_agent` that call tools, write follow-up files or only
explain are one loop of `Act`, `CallTool` and `Close`: they differ in data, and
check for a cancellation at the same points.

### LiveTurns

`held` is `_ACTIVE` with `_TURNS`, `ctl` and `flag` the control of a turn, `live`
the table `_LIVE` in its order (a turn's session is in `sessionOf`), `disk` and
`latest` the files under `events/`. A turn's `pc` follows its request up to
`_live_begin` (leased, begun), then the producer: working, answering (a state is
sealed, the transcript and the last event are still to come), closing, closed,
settled, writing, finishing, which are the steps of `produce`'s `finally` in their
order. `_finish_state` reads, then writes: `ReadState`, `WriteState`. It goes by
the session's entry in the table and not by the turn, so `target` keeps which
file it found. A turn is *stranded* when `_live_begin` raised after the lease was
started: no producer will give the session back. A status request is a reader
with three steps: it looks for an active turn, reads the latest state file, and
marks it. `Restart` is the end of the process with `sweep_stale` of the next one,
which runs before requests are served. `finished` is `_FINISHED`, what is published
of a session that nobody holds: `Finish` publishes the settled state, `GiveUp`, the
release of a lease whose turn never began (`prepare_turn` raised, or the browser was
gone), publishes done unless the control is terminal, also for a turn whose
cancellation was accepted. `AcceptedCancelHolds` and `OneOutcome` therefore speak of
the published outcome only for turns that began. `lost` and `cutOff` only remember
which turns could not write their file and which ones a restart ended.

Left out: the heartbeat that rewrites a running state file, the queue to the
browser, the followers of a log, transcripts, and failures to write a stale mark.

### PackingConfirm

`ram` is the entry of `_SESSIONS`, `disk` the copy of `session_store`; each is a
phase and the number of the plan it is about. A request carries the copy it read
(`mine`) and, while `mark_checkpoint` or a fill is under way, the copy it loaded
from disk (`seen`). Its `pc` follows the thread: door, waiting, locked, the gate,
marking, starting, packing, packed or failed, storing (memory), saving (disk),
echoing (a cancel's second write of memory), leaving. The three doors to Team B
are the operations confirm, resume and checkpoint: resume does not mark the disk
before it packs, and checkpoint first loads the disk over memory. `Unlocked`
requests read, then store, without the lock. Team B saves its result itself,
before the gateway looks for a cancellation (`TeamBDone`, `Check`).
A save that fails has three ways on: `StoreRefused` when the database stayed locked
(answered 503), `StoreSwallowed` for any other failure, and `MarkRefused`, which a
cancel answers without its echo.
`packed`, `cut`, `swept`, `cutShort`, `cancelled` and `putBack` only remember. `cut`
holds the plan and the door of each Team B that a crash interrupted, `swept` the plans
that the sweep then marked; they differ for the resume door. `putBack`
names who wrote an older copy over a newer one, which is what the unlocked
endpoints (edit) and the loads from disk (load) may do in the code as it is.
`PackedOnce`, `CancelWins`, `QuietAgree` and `NotStuck` say exactly which of
these, or a failed save, excuse what they exclude otherwise. `QuietAgree` excuses every
overwritten copy, that of `mark_checkpoint` included: that a confirm's mark may undo
a cancellation on disk is in the model and not excluded by it.

Left out: the resolution of a run id to its session (done before anything is
locked), deletion of a checkpoint, and the pipeline routes that run both teams.

### Ledger and Undoable

`kind` chooses the store: the ledger keeps what was undone in its history and
has a separate undo stack, the plan's history is its undo stack. `rev`, `doc`,
`kept`, `undo` and `confirmed` are the record file, which survives a restart;
`proposals` is the cache of the server, which forgets by age, by size and at a
restart. A request passes sent, reading, computing and committing; `work` is what
it has read or decided, `stop` the cancel event of its operation. A commit is one
step: the store's file lock excludes every other writer, and the cancel event is
looked at for the last time right before the file is replaced. Reading and
computing are outside the lock, so the project may change between. `Revise` is
every change that adds a version: edit, plan save, baseline, attached source.
`ScheduleStore` has the same save and undo as the plan. A proposed *change* to a
plan is only computed on apply and saved by the page later.
`changed`, `endorsed` and `published` only remember.

`Undoable` sees the current version, the document, and the versions the undo
stack still reaches (`past <- [v \in undo |-> kept[v]]`).

### LinkUploads

A request is an upload (`link`) or a JSON call behind `IdempotencyMiddleware`
(`json`). Its `pc` follows `api_tender_link` and `_locked_run`: asking (a finished
resend is answered before a slot is taken), admission, registering, queued, then
`_once`: keying, keyqueue, looking, working, made (the response is not stored yet),
unlocking and dropping (the key's lock is released first, its place in the table
given up after that), and the `finally`: leaving, draining, until the thread of
`when_idle` calls `release`. Quitting is the request that waited 90 seconds.
`sessions` is `_SESSION_LOCKS` with `_SESSION_USERS`, `keys` is `_THREAD_LOCKS`;
both map a name to a lock object and its users. A lock object is named after the
request that created it, so that two requests can be given different objects for
one name if an entry is dropped too early, which is what the counts are there to
prevent. A critical section of `_LOCKS_GUARD` or `_THREAD_GUARD` is one step, the
slot that `release` returns right after it included.
`working` to `writing` is the run: `MakeJob` makes the job folder and looks up the
previous record, `running` is the linking tool, `writing` the deliverables, of
which the link record is one. A tool that times out leaves a worker behind that
may still read the previous record (`reader`) or write its own (`writer`).
`born` and `linked` are the job folders, and survive a restart like `stored`.
`Retained` is `_prune_idle`. `done` and `unkept` only remember. A job folder is named
after a time stamp (`_new_job`), and the latest one is the greatest name: `born` is
that stamp, so the model assumes that the server's wall clock never goes back.

Left out: the checks of the form, the demo of two runs (its session cannot be
named by a caller), and the body behind a key: one that differs is refused at the
point where the same body would be answered.

## What the runs check

| run | instance | shows |
|---|---|---|
| `runtime_core` | 2 sessions, 2 turns, 2 instances, 3 events, 1 failure per turn | one active turn per session; the log tells the status; the ledger implements `TurnLifecycle`: a turn ends once, and not as completed when its cancellation was logged |
| `product_host` | 2 sessions, 2 turns, 2 processes, 5 events, 2 failures per turn | no two workers in one session; only two failures on one turn can strand it; a cancellation reaches the worker; a leased turn is settled by its own worker; every turn settles while a host serves, if not hit by two failures |
| `budget_tree` | root and 2 children, 3 reservations, total 6, share 4, 4 calls | only an overrun exceeds a limit, and nothing is reserved after one; dispatched requests are charged; no reservation leaks |
| `session_runs` | 2 sessions, 1 post, 1 default turn with 2 agent runs or with 1 agent run and 1 expert turn, 1 cancellation at a time | serial sessions, exclusive posts, no leaked resource, no resource without its lock; a locked session becomes free again |
| `live_turns` | 2 sessions, 2 turns, 1 status request, 1 entry in the table | a producer touches its own log only; an accepted cancellation holds; log, control and state file agree; a session is free only after its outcome is on disk; a turn without a browser ends |
| `packing_confirm` | 2 requests for Team B, 1 other request, 1 waiting place, 2 plans, 1 failed save or restart | one packer at a time; no shipment packed twice; a cancellation beats the run it interrupts; memory and disk agree when nobody is at work; no session stuck as running; a plan whose interrupted run had left its mark is not packed; the lock comes free |
| `ledger` | 3 requests, 2 documents, history of 2, 2 compute slots, 5 revisions, 1 restart | the record stays readable; one change per version, to what its page showed; truthful answers; packings of confirmed versions only; the store implements `Undoable` |
| `linked_uploads` | 3 requests, 1 named session, 1 key, 2 slots, 1 job kept, 1 restart, lost or expired response | never more runs than slots; a run compares with the latest record of its session while it may read it; a key runs once; no slot, session or lock leaks |
| `stale_turn` | 1 turn, 1 status request | violation: see the findings |
| `default_turn` | 1 agent run, 1 default turn | violation: see the findings |
| `cancel_is_final` | 1 confirm, 1 cancel | violation: see the findings |
| `cut_plan` | 2 confirms or resumes, 1 cancel, 1 restart | violation: see the findings |

Bounds. Two of each actor is enough for the races here: every hazard is between
two workers, or a worker and a canceller, of one session, and a second session
(or task, or post) shows that it does not leak into another. `MaxEvents` stops
only progress events, never the events that a transition writes, so every order
of started, progress, cancelling and end occurs. `MaxFailures` is 2 for the
host, since stranding a turn takes two. The budget's estimates include 0, the
usages one below and one above the estimates, and the limits are such that two
parallel requests fit separately but not together. `MaxSettlements` bounds
the behaviours' length only: the tree is overdrawn after two settlements.
`MaxSteps` is 1: a run reaches its limit at the second call. Sessions and agent runs
are interchangeable there: `InOrder` lets a given one of each come first. It also
makes the first request an agent run (a turn that comes first on its session only
makes the run be refused), `FewRuns` leaves out behaviours with four requests, and
`OneStopped` those with two cancelled runs, as a cancellation reaches its own run only.
`MaxLive` is 1 where the code has 256, so that the second turn evicts the first;
sessions and turns are interchangeable, which `InOrder` uses: it keeps the
behaviours in which a given turn comes first and takes a given session. A
constraint is used in place of symmetry sets because those are not sound for
liveness; this one cuts off only arrivals, which no fairness asks for.
For the approval gate two requests for Team B and a third that does anything else
are enough for each hazard: two packers race, or a packer races a cancel, an edit
or a revision; one waiting place makes the queue full with the third request, and
two plans let a revision replace the plan that is being packed. A project starts
with any history the store accepts, so a history of two versions is full, half
full or empty at once; three requests are a proposal, its application, and a
rival. `MaxRevision` ends a behaviour after the last change. Requests and
documents of that run are interchangeable.
Of the uploads, two compete for a lock or a key while the third leaves, queues or
prunes; a key's entry that is dropped too early is seen when the third request
makes a new one. `KeepPerSession` and `KeepTotal` are 1 where the code has 10 and
200, so that every release prunes. Requests of that run are interchangeable.
Deadlock is not checked for the budget, the runs, the demo turns, the approvals,
the records and the uploads: the budget ends when its deadline passed and nothing is
reserved, the others when each identifier has been used.

Fairness. `FairHostSpec` asks weak fairness of the steps that belong to a
worker's own task (`OwedStep`): the tokio runtime polls a woken task, and the
timer is one of them. A step of the operation is not among them, so the model
also contains operations that never return before the timer. After the timer,
`Reaped` *is* assumed: `run` waits for its operation without a bound of its
own, and the code relies on the tools killing and reaping their workers once
the token is set. `FairSpec` of the runs asks it of the requests' threads and
the tool workers together: while one of them can take its next step, some step is
taken, and a worker that was asked to stop stops. That is the
cooperative contract stated in `tool_engine.py`; for a tool that ignores it the
session stays locked by intention. `FairSpec` of the demo turns asks it of the
producer's steps, of the watchdog, which is a thread with a time-out, and of
`StopsAtCheck`: once the flag is set the work reaches a check, because a
cancellation also closes the connection it may be blocked on. The work is not
obliged to end before that. `FairSpec` of the approval gate asks weak fairness of
the requests' steps together: some thread runs while one can. It says that Team
A, Team B and the bounded wait for the lock end, which the code relies on; no
single thread is promised its turn. No client is obliged to do anything.
The liveness properties are stated as `[]<>(P => Q)`: it happens again and again
that what must end has ended.

## What is proved

All theorems hold for every value of the constants, from the assumptions named
in the modules (`CoreAssumption`, `RunsAssumption`, `ConfirmAssumption`,
`LedgerAssumption`, `BudgetAssumption`, `LiveAssumption`, `UploadAssumption`:
disjoint sets of identifiers, bounds that are numbers, and, where the model adds up
reservations, finitely many of them). A theorem of the form *X goes onward* gives
every step a number that only grows and is bounded: with it a liveness property is
left with one question, whether the next step is taken, which is the fairness TLC
checks it under.

* `RuntimeCoreProofs`: type correctness, `OneActiveTurn`, `LogTellsStatus`,
  `CancelledNeverCompletes`, the action properties
  `TerminalIsFinal` and `FlaggedNeverCompletes`, and that `RuntimeCore`
  implements `TurnLifecycle` (initial states map to initial states, each action
  to a step or a stutter). The argument is the invariant that relates a row to
  its log: what has been logged decides the status, so a later action cannot
  contradict it.
* `ProductHostProofs`: the host implements `RuntimeCore`'s specification, hence
  all of the above; `HostInv` is inductive and gives `OneFailureNeverStrands`,
  `CancelReachesWorker`, `OneWorkerPerSession` and `SettledByItsWorker`. The
  strengthening is that a lease lives only in a *serving* host, which is unique
  because it owns the lock, and belongs to an active turn with a registered
  token. Without it a recovery by another host could not be excluded.
  `TokensDoNotLeak`: what a host keeps registered belongs to a turn it has not
  settled. `TurnsGoOnward` is the safety half of `TurnsSettle`: no step takes a turn
  back, and each step its worker owes takes it nearer to its end, which is at most
  seven away.
* `SessionRunsProofs`: type correctness, `SerialWhenGuarded`, `OneRunPerExpert`,
  `NoHoldLeaks` and `HeldSessionIsLocked`, from `RunsInv`: owners (threads between
  admission and release) exclude each other in a session and keep it locked, and
  the watch's holds are exactly what the threads between begin and end asked for.
  Almost every step is a `Move` that changes neither ownership nor holds, which
  keeps the proof to the four steps that do. Type correctness rests on
  `StepsInv`: a run over its step limit has failed and calls nothing more.
  `GuardedWorkIsLocked` is what the property of finding 1 keeps when `run_turn` is
  left out. `LocksHaveOwners` and `RunsGoOnward` are the safety half of
  `LocksComeFree`: a lock is owned by a run that has not ended, and that run takes at
  most `12 * MaxSteps + 23` steps. They rest on `StatesFit`, which says in which
  states a run can stand at each place of its thread; `AnsweredRunsAreClosed` is its
  consequence for the reader of a run's state.
* `PackingConfirmProofs`: type correctness, `OnePacker`, `InterruptedStays`,
  `PackedOnce`, `CancelWins` and `NotStuck`, by layers that each use the ones before: who
  holds the lock (`Locked`), what a cancel in progress has left in memory
  (`Cancelling`), that a plan which the sweep marked stays behind its mark (`CutOff`) and
that a run through a confirm door which a crash cut was marked (`CutMarked`), which
  requests a cancel caught at work (`Heard`), that a plan which was packed is
  done or further in every copy that could be confirmed again (`Once`), and that a
  session which memory calls running is in some request's hands (`InHand`).
  `QuietAgree` needs four layers more, all for histories in which no save failed
  and nothing older was put back: which copy is the newest (`Newest`), where a cancel
  can be in memory and on disk while Team B runs (`HeardInRam`, `HeardOnDisk`), and
  which request is on its way to make the two equal when they differ (`Agreeing`).
  `CancelIsFinalWhenClean` bounds finding 3: in such a history, and without a crash,
  `CancelIsFinal` holds. The crash matters: one between Team B's own save and the
  moment the cancel is stored over it leaves the result on disk. `InterruptedStays`
  bounds finding 4: it holds of the plans that were swept, and of the confirm doors
  as long as the mark they make was saved and not overwritten.
  `LockHasOwner` and `RequestsGoOnward` are the safety half of `LockComesFree`: the
  lock belongs to a request between the gate and its answer, the waiting are counted
  exactly, and a request has at most 18 steps.
* `LedgerProofs`: type correctness, `RecordReadable`, `OneWinner`,
  `ChangedWhatItSaw`, `AnswerTrue`, `PackedAsEndorsed`, and that the stores
  implement `Undoable` for every `MaxHistory`. `Typed` carries the shape of the
  history; `Known` says that what pages, proposals and published results carry is
  what the project was at its version, which is what makes a comparison of version
  numbers a comparison of documents. The refinement rests on `RetainRemembers`:
  cutting the history to its newest `MaxHistory` versions, and the undo stack with
  it, forgets only versions that old.
* `BudgetTreeProofs`: type correctness, with the pairing of reservations and the
  values that own them (`Owned`), and `DispatchIsCharged`. Only the step of a slot
  itself can settle it, and what is behind a live value is an allocation of one call.
  `LimitsHold` compares sums over the reservations before and after a step. The sum
  is a fold, that is a recursive function on the subsets of a finite set; the first
  section proves that it exists, and that any member can be taken out of it first,
  by an induction over a *set* of numbers (the library's theorem on well-founded
  orders has no operator parameter). `NeverOverdrawn`: while no settlement exceeds
  its reservation nothing is ever overdrawn, the tree or a task, in tokens or calls.
  `BooksBalance`: the tree's total is the sum over the registered tasks.
* `LiveTurnsProofs`: type correctness, `OwnLogOnly`, `AcceptedCancelHolds`,
  `OneOutcome` and `PersistedBeforeReuse`, from `TurnsInv` (and, for what is published
  when a session is given back, `PublishFits` on top of it): a turn that is alive has
  its session (`SessionFits`), the table has one entry per session (`TableFits`,
  through the eviction, for every `MaxLive`), and what the control, the log and the
  file say follows from where the turn is. A step of one turn leaves the others alone
  (`KeepsOthers`) *because* its log entry is its own: without that conjunct the
  event that ends a log could end another turn's.
  `LeasesAreTurns` makes a lease and a living turn the same thing, in both
  directions. `FreshMarksAreTrue` bounds finding 2: it is proved of the behaviours in
  which a mark is written only while what the request found out still holds, and
  there a stale turn is one that was cut off. `TurnsGoOnward` is the safety half of
  `UnattendedTurnsEnd`: a turn has at most ten moves.

* `LinkUploadsProofs`: type correctness, `RunsOnce`, `PreviousIsLatest` and
  `NothingLeaks`. Both tables of locks are shown to be what their users make them
  (`KeysKept`, `EntriesKept`): everyone in an entry was given the entry's lock
  object, so the one that holds it is alone, although the object itself is created
  and dropped many times. `RunsOnce` then follows from what is stored while a run of
  the key is under way, which is nothing (`Answered`); `PreviousIsLatest` from the
  fact that retention spares sessions in use, and that a worker that may still
  write belongs to the upload that owns the session (`Compared`); `NothingLeaks`
  from a count of the slots (`Counted`).

Type correctness of `ProductHost`, `PackingConfirm` and `Ledger`, and
`OneActiveTurn`, are proved and left out of the runs, where
`ImplementsLifecycle` and `IsUndoable` say more.

Every invariant and every action property of the passing runs is proved. Only
model-checked are the four liveness properties, `TurnsSettle`, `LocksComeFree`,
`UnattendedTurnsEnd` and `LockComesFree`: they need the fairness of the
specifications, hence ENABLED, which is out of the prover's reach. What is proved of
them is named above. The properties of the four violation runs are false of the
code; `GuardedWorkIsLocked`, `FreshMarksAreTrue`, `CancelIsFinalWhenClean` and
`InterruptedStaysHolds` say what of them is true of it.

## Findings

1. `run_turn` (`product_turn.py:70`) does not look for `session_busy` and
   releases the session's lock when it ends, also when another run took it
   (run `default_turn`). `scheduler.py:170` says only the owner may release.
   For this reason the other properties of `SessionRuns` that speak of the
   session lock are stated for sessions that no default turn has been used on
   (`Guarded`); `OneRunPerExpert` and `NoHoldLeaks` need no such restriction.
2. `turn_status` finds no active turn, then reads the state file of the latest
   one and marks it stale if it says running. A turn that begins in between is
   marked while it runs (run `stale_turn`), and its later outcome is not written,
   since stale is final. The comment at `chat_service.py:984` says that running is
   trusted while the process holds the turn.

3. A cancellation takes no lock, and `_run_team_b_guarded` looks for it once. One
   that lands after that look, or between the gate and the start of Team B, is
   answered and then overwritten by the result (run `cancel_is_final`); the comment
   at `app.py:1404` says that the cancel is final. `CancelWins` is what holds: a
   cancel that is stored while Team B is at work wins.
4. The resume door packs without a mark on disk: `api_resume_team_b` does not call
   `mark_checkpoint` before Team B, which saves when it has ended, so a restart in
   between finds a session that waits for approval, and the plan is packed again
   (run `cut_plan`). `session_store.py:491` says that whatever a crash left mid-run is
   marked interrupted, never resumed or replayed, and `app.py:1390` that memory agrees
   with the disk while Team B runs. `InterruptedStays` is what holds of the other doors.

Also modelled, and contradicted by no document: the endpoints that edit a session
store the whole copy they read, over whatever was stored since, and so do the
loads from disk (`putBack`); a revision replaces a cancelled session by a new
plan; a demo turn that is given up before it began is published as done, cancelled or
not (`GiveUp`); a default turn whose pipeline
raises leaves its session locked (`DefaultTurnRaises`); `run_agent` and
`run_expert_turn` ignore a refused final transition, so a cancellation that commits
after their last check leaves a cancelled run that answers ok; `_live_begin` that raises leaves the
session busy until a restart (`BeginFails`); a running turn evicted from the
table writes no outcome, and the next sweep calls it stale.

## Not modelled, and why

Packing, CAD, engineering and logistics computation (numeric, sequential, large
data); the Java packing service (stateless); front ends, prose, knowledge base
and evaluation data; authentication, configuration, prompt assembly and routing
tables (sequential, no protocol); the legacy workbench routes; the demo server's
other stores; the posts' drafting steps in `expert_turn.py` and the model
providers, whose use of runs and of the budget is in `SessionRuns` and
`BudgetTree`.

Of the modelled parts: the analysis store of the engineering workbench
(append-only versions), the limit of four operations and duplicate operation ids,
the retry of a replacement on Windows, and the two teams of the packing pipeline,
which are one step each.

## Plan

What is left, in the order of its weight:

1. `ToolCircuit`: gate, trial slot, cool-down and settlements that arrive late;
   the claim of the comment at `tool_engine.py:87` against calls that were
   admitted before the circuit opened.
2. `EventQueue`: the bounded queues of `model_events` and `stream_turn`, the end of
   a stream against its last item, and the followers of a live log.
3. `DocumentGate` and the polling client of `events`.
4. Liveness of `LinkUploads` (an upload whose tool ends gives its session back): the
   three requests that its safety needs are too many for a liveness check.
5. Proofs: for `LinkUploads` the same account as for the other components, that a
   request only goes onward and that every lock and slot has an owner who is inside;
   for the ledger, that its stores implement `Undoable` also in what a request may
   still do (a proposal that is answered with a conflict never commits).
