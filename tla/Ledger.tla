-------------------------------- MODULE Ledger --------------------------------
(***************************************************************************)
(* One saved project of the logistics or the planning workbench: a record  *)
(* file with a revision, a bounded history and what undo can return to     *)
(* (logistics/records.py, engineering/planning_records.py), and the        *)
(* requests that read it, propose changes to it, change it and publish     *)
(* results computed from it (demo/logistics_api.py, planning_chat_api.py,  *)
(* planning_api.py), each inside a cancellable operation (cad_api.py).     *)
(*                                                                         *)
(* Abstractions.  The store locks, reads, checks and replaces the file in  *)
(* one step, since the lock excludes every other writer and the cancel     *)
(* check is the last thing before the replacement.  A document is a value; *)
(* name, dates, sources, baseline and weekly rows are part of it.  The     *)
(* answer to a change is composed with it; a restart may still lose it.  A *)
(* page holds the saved version, without unsaved edits.                    *)
(***************************************************************************)
EXTENDS Naturals, FiniteSets

CONSTANTS
    Requests,      \* requests, each from a page of its own
    Documents,     \* what a project may say
    None,          \* no page, no proposal, no change
    Undoing,       \* the change that an undo asks for
    MaxHistory,    \* MAX_HISTORY
    MaxComputing,  \* the slots of COMPUTE
    MaxRevision,   \* bound: the last revision
    MaxRestarts    \* bound: restarts of the server

Kinds == {"ledger", "plan"}
Operations(k) ==
    IF k = "ledger" THEN {"propose", "apply", "confirm", "undo", "pack", "export"}
                    ELSE {"propose", "apply", "save", "undo", "export"}

(* A change is the document it leads to, or an undo. *)
Changes  == Documents \cup {Undoing}
Versions == 1 .. MaxRevision
View     == [rev : Versions, doc : Documents]
Proposal == [rev : Versions, doc : Documents, change : Changes]

ASSUME LedgerAssumption ==
    /\ None \notin Requests \cup Changes \cup View \cup Proposal /\ Undoing \notin Documents
    /\ MaxHistory \in Nat \ {0} /\ MaxComputing \in Nat
    /\ MaxRevision \in Nat /\ MaxRestarts \in Nat

VARIABLES
    kind,       \* which store keeps the project
    rev, doc,   \* the current version
    kept,       \* history: revision -> document
    undo,       \* undo_stack: the kept revisions that undo returns to
    confirmed,  \* whether the confirmation of the current version is there
    proposals,  \* PROPOSALS: request -> what it proposed, while it is cached
    pc, op,
    page,       \* the version the page of a request shows: what it expects
    chosen,     \* the proposal it applies
    work,       \* what the request has read or decided
    stop,       \* the requests whose cancel event is set
    answer,
    restarts,
    \* history
    changed,    \* request -> the version it changed
    endorsed,   \* the versions that a person confirmed on a page that showed them
    published   \* the versions whose packing was published

record  == <<kind, rev, doc, kept, undo, confirmed>>
request == <<pc, op, page, chosen, work, answer>>
history == <<changed, endorsed, published>>
vars    == <<record, proposals, request, stop, restarts, history>>

Current == [rev |-> rev, doc |-> doc]

TypeOK ==
    /\ kind \in Kinds /\ rev \in Versions /\ doc \in Documents
    /\ DOMAIN kept \subseteq Versions /\ kept \in [DOMAIN kept -> Documents]
    /\ undo \in SUBSET Versions /\ confirmed \in BOOLEAN
    /\ proposals \in [Requests -> Proposal \cup {None}]
    /\ pc \in [Requests -> {"idle", "sent", "reading", "computing", "committing", "over"}]
    /\ op \in [Requests -> Operations("ledger") \cup Operations("plan") \cup {None}]
    /\ page \in [Requests -> View \cup {None}]
    /\ chosen \in [Requests -> Requests \cup {None}]
    /\ work \in [Requests -> View \cup Changes \cup {None}]
    /\ stop \in SUBSET Requests
    /\ answer \in [Requests -> {"none", "proposed", "computed", "published", "saved", "cancelled",
                                "busy", "gone", "conflict", "refused", "lost"}]
    /\ restarts \in 0 .. MaxRestarts
    /\ changed \in [Requests -> View \cup {None}]
    /\ endorsed \in SUBSET View /\ published \in SUBSET View

-----------------------------------------------------------------------------
(* What validate_record accepts of the history and of the undo stack; an     *)
(* imported project brings both along.                                       *)
Valid(k, r, hist, back) ==
    /\ DOMAIN hist \subseteq 1 .. r - 1
    /\ Cardinality(DOMAIN hist) <= MaxHistory
    /\ back \subseteq DOMAIN hist
    /\ k = "plan" => back = DOMAIN hist

Init ==
    /\ kind \in Kinds /\ doc \in Documents /\ confirmed = FALSE
    /\ rev \in 1 .. MaxHistory + 1 /\ rev <= MaxRevision
    /\ kept \in UNION {[vs -> Documents] : vs \in SUBSET (1 .. rev - 1)}
    /\ undo \in SUBSET DOMAIN kept /\ Valid(kind, rev, kept, undo)
    /\ proposals = [r \in Requests |-> None]
    /\ pc = [r \in Requests |-> "idle"] /\ op = [r \in Requests |-> None]
    /\ page = [r \in Requests |-> None] /\ chosen = [r \in Requests |-> None]
    /\ work = [r \in Requests |-> None] /\ answer = [r \in Requests |-> "none"]
    /\ stop = {} /\ restarts = 0
    /\ changed = [r \in Requests |-> None] /\ endorsed = {} /\ published = {}

Goes(r, from, to) == pc[r] = from /\ pc' = [pc EXCEPT ![r] = to]
Ends(r, from, what) == Goes(r, from, "over") /\ answer' = [answer EXCEPT ![r] = what]
Keeps(r, what) == work' = [work EXCEPT ![r] = what]
Stale(r) == page[r].rev # rev

-----------------------------------------------------------------------------
(* A page shows the project, and later sends an operation that names the     *)
(* revision it showed.                                                       *)
Open(r, o) ==
    /\ o \in Operations(kind)
    /\ Goes(r, "idle", "sent")
    /\ op' = [op EXCEPT ![r] = o]
    /\ page' = [page EXCEPT ![r] = Current]
    /\ \/ o # "apply" /\ UNCHANGED chosen
       \/ /\ o = "apply"
          /\ \E p \in Requests : answer[p] = "proposed" /\ chosen' = [chosen EXCEPT ![r] = p]
    /\ UNCHANGED <<record, proposals, work, answer, stop, restarts, history>>

(* The page cancels, or goes away; before its operation is registered too.   *)
Cancel(r) ==
    /\ pc[r] \notin {"idle", "over"} /\ r \notin stop
    /\ stop' = stop \cup {r}
    /\ UNCHANGED <<record, proposals, request, restarts, history>>

(* A check() of the cancel event between two steps of the work.              *)
Cancelled(r) ==
    /\ r \in stop
    /\ \E from \in {"sent", "computing", "committing"} : Ends(r, from, "cancelled")
    /\ UNCHANGED <<record, proposals, op, page, chosen, work, stop, restarts, history>>

Computing == {r \in Requests : pc[r] \in {"reading", "computing", "committing"}}

Start(r) ==
    /\ r \notin stop /\ Cardinality(Computing) < MaxComputing
    /\ Goes(r, "sent", IF op[r] \in {"confirm", "undo", "save"} THEN "committing" ELSE "reading")
    /\ UNCHANGED <<record, proposals, op, page, chosen, work, answer, stop, restarts, history>>

Busy(r) ==
    /\ r \notin stop /\ Cardinality(Computing) >= MaxComputing
    /\ Ends(r, "sent", "busy")
    /\ UNCHANGED <<record, proposals, op, page, chosen, work, stop, restarts, history>>

(* propose, pack and export open the project, and compute from what they read. *)
Read(r) ==
    /\ op[r] # "apply" /\ pc[r] = "reading"
    /\ \/ /\ Stale(r) /\ Ends(r, "reading", "conflict") /\ UNCHANGED work
       \/ /\ ~Stale(r) /\ op[r] = "pack" /\ ~confirmed
          /\ Ends(r, "reading", "refused") /\ UNCHANGED work
       \/ /\ ~Stale(r) /\ (op[r] = "pack" => confirmed)
          /\ Goes(r, "reading", "computing") /\ Keeps(r, Current) /\ UNCHANGED answer
    /\ UNCHANGED <<record, proposals, op, page, chosen, stop, restarts, history>>

(* What apply finds wrong with the proposal before the store is asked.       *)
Unfit(r, p) == Stale(r) \/ page[r].rev # p.rev \/ doc # p.doc

(* apply looks its proposal up and compares it with the project; a change to *)
(* a plan is only computed, and saved by the page later.                     *)
Consider(r) ==
    LET p == proposals[chosen[r]] IN
    /\ op[r] = "apply" /\ pc[r] = "reading"
    /\ \/ p = None /\ Ends(r, "reading", "gone") /\ UNCHANGED work
       \/ p # None /\ Unfit(r, p) /\ Ends(r, "reading", "conflict") /\ UNCHANGED work
       \/ /\ p # None /\ ~Unfit(r, p) /\ kind = "plan" /\ p.change # Undoing
          /\ Ends(r, "reading", IF r \in stop THEN "cancelled" ELSE "computed") /\ UNCHANGED work
       \/ /\ p # None /\ ~Unfit(r, p) /\ (kind = "plan" => p.change = Undoing)
          /\ Goes(r, "reading", "committing") /\ Keeps(r, p.change) /\ UNCHANGED answer
    /\ UNCHANGED <<record, proposals, op, page, chosen, stop, restarts, history>>

-----------------------------------------------------------------------------
(* A proposal is registered for the version it was computed from: read once  *)
(* more, except for a change to a plan.                                      *)
Register(r) ==
    /\ op[r] = "propose" /\ pc[r] = "computing"
    /\ \/ Stale(r) /\ Ends(r, "computing", "conflict") /\ UNCHANGED proposals
       \/ undo = {} /\ Ends(r, "computing", "refused") /\ UNCHANGED proposals
       \/ /\ r \notin stop
          /\ \E c \in Changes :
                /\ c = Undoing => undo # {}
                /\ Stale(r) => kind = "plan" /\ c # Undoing
                /\ proposals' = [proposals EXCEPT ![r] = [rev |-> work[r].rev, doc |-> work[r].doc, change |-> c]]
          /\ Ends(r, "computing", "proposed")
    /\ UNCHANGED <<record, op, page, chosen, work, stop, restarts, history>>

(* A result is published only if the project it was computed from is still   *)
(* current, and, for a packing, confirmed.                                   *)
Publish(r) ==
    /\ op[r] \in {"pack", "export"} /\ pc[r] = "computing"
    /\ \/ /\ (Stale(r) \/ (op[r] = "pack" /\ ~confirmed))
          /\ Ends(r, "computing", "conflict") /\ UNCHANGED published
       \/ /\ ~Stale(r) /\ (op[r] = "pack" => confirmed)
          /\ Ends(r, "computing", "published")
          /\ published' = IF op[r] = "pack" THEN published \cup {work[r]} ELSE published
    /\ UNCHANGED <<record, proposals, op, page, chosen, work, stop, restarts, changed, endorsed>>

(* A proposal expires, or is evicted by newer ones.                          *)
Forget(r) ==
    /\ proposals[r] # None
    /\ proposals' = [proposals EXCEPT ![r] = None]
    /\ UNCHANGED <<record, request, stop, restarts, history>>

-----------------------------------------------------------------------------
(* The commit of a request, under the lock of the store.                     *)
Newest(vs) == CHOOSE v \in vs : \A w \in vs : w <= v
Oldest(vs) == CHOOSE v \in vs : \A w \in vs : v <= w

(* history[-MAX_HISTORY:] of a history that has just grown by one.           *)
Latest(vs) == IF Cardinality(vs) > MaxHistory THEN vs \ {Oldest(vs)} ELSE vs

(* _retain_current: the current version joins the history.                   *)
Retain(hist) ==
    LET vs == DOMAIN hist \cup {rev}
    IN  kept' = [v \in Latest(vs) |-> IF v = rev THEN doc ELSE hist[v]]

(* Slip: the confirmation of the version before stays. *)
NextStaysConfirmed(d) ==
    /\ rev < MaxRevision /\ rev' = rev + 1
    /\ doc' = d
    /\ UNCHANGED confirmed

NextVersion(d) ==
    /\ rev < MaxRevision /\ rev' = rev + 1
    /\ doc' = d
    /\ confirmed' = FALSE

(* Slip: the expectations are checked before the lock is taken only. *)
ExpectedEarlier(r) == TRUE

(* What the commit of r is checked against once the lock is held.            *)
Expected(r) == ~Stale(r) /\ (chosen[r] # None /\ work[r] # Undoing => doc = page[r].doc)

Commits(r) == Goes(r, "committing", "over") /\ r \notin stop /\ Expected(r)

Saved(r) ==
    /\ answer' = [answer EXCEPT ![r] = "saved"]
    /\ UNCHANGED <<kind, proposals, op, page, chosen, work, stop, restarts>>

Changed(r) ==
    /\ changed' = [changed EXCEPT ![r] = Current]
    /\ UNCHANGED <<endorsed, published>>

(* Slip: the undo stack is not pruned with the history. *)
ReviseUnpruned(r, d) ==
    /\ Commits(r)
    /\ \/ op[r] = "save"
       \/ op[r] = "apply" /\ d = work[r]
    /\ Retain(kept)
    /\ undo' = undo \cup {rev}
    /\ NextVersion(d) /\ Changed(r) /\ Saved(r)

(* Slip: the cancel event is checked after the file was replaced. *)
ReviseThenChecks(r, d) ==
    /\ Goes(r, "committing", "over") /\ Expected(r)
    /\ \/ op[r] = "save"
       \/ op[r] = "apply" /\ d = work[r]
    /\ Retain(kept)
    /\ undo' = (undo \cup {rev}) \cap DOMAIN kept'
    /\ NextVersion(d) /\ Changed(r)
    /\ answer' = [answer EXCEPT ![r] = IF r \in stop THEN "cancelled" ELSE "saved"]
    /\ UNCHANGED <<kind, proposals, op, page, chosen, work, stop, restarts>>

Revise(r, d) ==
    /\ Commits(r)
    /\ \/ op[r] = "save"
       \/ op[r] = "apply" /\ d = work[r]
    /\ Retain(kept)
    /\ undo' = (undo \cup {rev}) \cap DOMAIN kept'
    /\ NextVersion(d) /\ Changed(r) /\ Saved(r)

Undoes(r) == op[r] = "undo" \/ (op[r] = "apply" /\ work[r] = Undoing)

(* Slip: an undo can itself be undone, to and fro. *)
UndoToggles(r) ==
    /\ kind = "ledger" /\ undo # {}
    /\ Commits(r) /\ Undoes(r)
    /\ Retain(kept)
    /\ undo' = ((undo \ {Newest(undo)}) \cup {rev}) \cap DOMAIN kept'
    /\ NextVersion(kept[Newest(undo)]) /\ Changed(r) /\ Saved(r)

(* Slip: the revision number goes back with the rest of the snapshot. *)
UndoReusesNumber(r) ==
    /\ kind = "plan" /\ undo # {}
    /\ Commits(r) /\ Undoes(r)
    /\ kept' = [v \in DOMAIN kept \ {Newest(undo)} |-> kept[v]]
    /\ undo' = undo \ {Newest(undo)}
    /\ rev' = Newest(undo) /\ doc' = kept[Newest(undo)] /\ confirmed' = FALSE
    /\ Changed(r) /\ Saved(r)

(* The ledger keeps what it undid in its history; the plan drops what it     *)
(* returned to.                                                              *)
UndoLedger(r) ==
    /\ kind = "ledger" /\ undo # {}
    /\ Commits(r) /\ Undoes(r)
    /\ Retain(kept)
    /\ undo' = (undo \ {Newest(undo)}) \cap DOMAIN kept'
    /\ NextVersion(kept[Newest(undo)]) /\ Changed(r) /\ Saved(r)

UndoPlan(r) ==
    /\ kind = "plan" /\ undo # {}
    /\ Commits(r) /\ Undoes(r)
    /\ kept' = [v \in DOMAIN kept \ {Newest(undo)} |-> kept[v]]
    /\ undo' = undo \ {Newest(undo)}
    /\ NextVersion(kept[Newest(undo)]) /\ Changed(r) /\ Saved(r)

Confirm(r) ==
    /\ op[r] = "confirm" /\ Commits(r)
    /\ confirmed' = TRUE
    /\ endorsed' = endorsed \cup {page[r]}
    /\ Saved(r)
    /\ UNCHANGED <<rev, doc, kept, undo, changed, published>>

Refuse(r) ==
    /\ pc[r] = "committing"
    /\ \/ ~Expected(r) /\ Ends(r, "committing", "conflict")
       \/ Expected(r) /\ Undoes(r) /\ undo = {} /\ Ends(r, "committing", "refused")
    /\ UNCHANGED <<record, proposals, op, page, chosen, work, stop, restarts, history>>

(* The server restarts: the cache and the requests in progress are lost.     *)
Restart ==
    /\ restarts < MaxRestarts /\ restarts' = restarts + 1
    /\ proposals' = [r \in Requests |-> None]
    /\ pc' = [r \in Requests |-> IF r \in Computing THEN "over" ELSE pc[r]]
    /\ answer' = [r \in Requests |-> IF r \in Computing THEN "lost" ELSE answer[r]]
    /\ UNCHANGED <<record, op, page, chosen, work, stop, history>>

-----------------------------------------------------------------------------
Commit(r) == \/ \E d \in Documents : Revise(r, d)
             \/ UndoLedger(r) \/ UndoPlan(r) \/ Confirm(r) \/ Refuse(r)

Step(r) == \/ Cancelled(r) \/ Start(r) \/ Busy(r) \/ Read(r) \/ Consider(r)
           \/ Register(r) \/ Publish(r) \/ Commit(r)

Next == \/ \E r \in Requests : \/ \E o \in Operations(kind) : Open(r, o)
                               \/ Step(r) \/ Cancel(r) \/ Forget(r)
        \/ Restart

Spec == Init /\ [][Next]_vars

-----------------------------------------------------------------------------
(* The record that a change leaves is one the store reads back: an undo      *)
(* reference to a version that the bounded history dropped would make the    *)
(* project unreadable for good (records.py:72).                              *)
RecordReadable == Valid(kind, rev, kept, undo)

(* Of the requests that start from one version, one wins: its change is the  *)
(* only one made to that version, whether they edit, undo or apply the same  *)
(* proposal twice (logistics_api.py:245, records.py:187).                    *)
OneWinner ==
    \A q, r \in Requests :
        q # r /\ changed[q] # None /\ changed[r] # None => changed[q].rev # changed[r].rev

(* A change is made to the very version its page showed, and a proposal is   *)
(* applied to the version it was computed from (logistics_api.py:245).       *)
ChangedWhatItSaw ==
    \A r \in Requests : changed[r] # None =>
        /\ changed[r] = page[r]
        /\ chosen[r] # None => changed[r] = work[chosen[r]]

(* The answer tells the truth: a change was made if and only if the request  *)
(* was answered with it; cancelled, refused and lost requests changed        *)
(* nothing (cad_api.py:226, planning_api.py:161).                            *)
AnswerTrue ==
    \A r \in Requests :
        changed[r] # None <=> answer[r] = "saved" /\ op[r] # "confirm"

(* A packing is published only for a version that a person confirmed while   *)
(* seeing it (logistics_api.py:278).                                         *)
PackedAsEndorsed == published \subseteq endorsed

(* Both stores are undoable documents: undo goes back one change at a time,  *)
(* never to and fro, and forgets only what MAX_HISTORY versions have passed. *)
U == INSTANCE Undoable WITH Depth <- MaxHistory, version <- rev, now <- doc,
                            past <- [v \in undo |-> kept[v]]
IsUndoable == U!Spec
=============================================================================
