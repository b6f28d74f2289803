----------------------------- MODULE LedgerProofs -----------------------------
(***************************************************************************)
(* What Ledger promises for any number of requests, any documents and any  *)
(* length of history.  First what the history operators return; then two   *)
(* layers of invariant: the record and what each request carries are well  *)
(* formed (Typed), and every request knows which version it read (Known).  *)
(***************************************************************************)
EXTENDS Ledger, FiniteSetTheorems, WellFoundedInduction, TLAPS

(* A set of numbers has a least member: the segments below its members are   *)
(* well founded under inclusion.                                             *)
LEMMA Least ==
    ASSUME NEW vs \in SUBSET Nat, vs # {}
    PROVE  \E v \in vs : \A w \in vs : v <= w
<1> DEFINE Below(v) == 0 .. v
           Segments == {Below(v) : v \in vs}
<1>1. Segments \subseteq FiniteSubsetsOf(Nat) /\ Segments # {}
  <2>1. \A v \in vs : Below(v) \in SUBSET Nat /\ IsFiniteSet(Below(v))
    BY FS_Interval
  <2> QED
    BY <2>1 DEF FiniteSubsetsOf
<1>2. IsWellFoundedOn(StrictSubsetOrdering(Nat), FiniteSubsetsOf(Nat))
  BY FS_StrictSubsetOrderingWellFounded
<1>3. PICK x \in Segments : \A y \in Segments : ~ (<<y, x>> \in StrictSubsetOrdering(Nat))
  <2> HIDE DEF Segments
  <2> QED
    BY <1>1, <1>2, WFMin
<1>4. PICK v \in vs : x = Below(v)
  OBVIOUS
<1>5. ASSUME NEW w \in vs, w < v PROVE FALSE
  <2>1. Below(w) \in SUBSET Nat /\ Below(v) \in SUBSET Nat
    OBVIOUS
  <2>2. Below(w) \subseteq Below(v) /\ v \in Below(v) /\ v \notin Below(w)
    BY <1>5
  <2>3. <<Below(w), x>> \in StrictSubsetOrdering(Nat)
    <3> HIDE DEF Below
    <3> QED
      BY <1>4, <2>1, <2>2 DEF StrictSubsetOrdering
  <2> QED
    BY <1>3, <2>3
<1> QED
  <2>1. \A w \in vs : ~(w < v) => v <= w
    OBVIOUS
  <2> QED
    BY <1>5, <2>1

LEMMA OldestIs ==
    ASSUME NEW vs \in SUBSET Nat, vs # {}
    PROVE  Oldest(vs) \in vs /\ \A w \in vs : Oldest(vs) <= w
BY Least DEF Oldest

LEMMA NewestIs ==
    ASSUME NEW n \in Nat, NEW vs \in SUBSET (1 .. n), vs # {}
    PROVE  Newest(vs) \in vs /\ \A w \in vs : w <= Newest(vs)
<1> DEFINE Away == {n - v : v \in vs}
<1>1. Away \in SUBSET Nat /\ Away # {}
  <2>1. \A v \in vs : v \in Nat /\ n - v \in Nat
    OBVIOUS
  <2> QED
    BY <2>1
<1>2. PICK a \in Away : \A b \in Away : a <= b
  <2> HIDE DEF Away
  <2> QED
    BY <1>1, Least
<1>3. PICK v \in vs : a = n - v
  OBVIOUS
<1>4. \A w \in vs : w <= v
  <2> TAKE w \in vs
  <2>1. n - v <= n - w
    BY <1>2, <1>3
  <2> QED
    BY <2>1
<1> QED
  BY <1>4 DEF Newest

(* _retain_current keeps MAX_HISTORY versions, the current one among them,   *)
(* as they were; what it drops is MAX_HISTORY versions old.                  *)
LEMMA RetainKeeps ==
    ASSUME TypeOK, RecordReadable, Retain(kept)
    PROVE  /\ DOMAIN kept' \subseteq DOMAIN kept \cup {rev}
           /\ Cardinality(DOMAIN kept') <= MaxHistory
           /\ kept' \in [DOMAIN kept' -> Documents]
           /\ \A v \in DOMAIN kept' : kept'[v] = IF v = rev THEN doc ELSE kept[v]
           /\ \A v \in (DOMAIN kept \cup {rev}) \ DOMAIN kept' : v + MaxHistory <= rev
<1> DEFINE vs == DOMAIN kept \cup {rev}
<1>1. /\ rev \in Nat \ {0} /\ doc \in Documents /\ MaxHistory \in Nat \ {0}
      /\ DOMAIN kept \subseteq 1 .. rev - 1 /\ kept \in [DOMAIN kept -> Documents]
      /\ Cardinality(DOMAIN kept) <= MaxHistory
  BY LedgerAssumption DEF TypeOK, RecordReadable, Valid, Versions
<1>2. vs \in SUBSET (1 .. rev) /\ rev \in vs
  BY <1>1
<1>3. IsFiniteSet(DOMAIN kept) /\ IsFiniteSet(vs)
  <2>1. IsFiniteSet(1 .. rev)
    BY <1>1, FS_Interval
  <2>2. DOMAIN kept \in SUBSET (1 .. rev)
    BY <1>1
  <2> QED
    BY <1>2, <2>1, <2>2, FS_Subset
<1>4. /\ Cardinality(vs) \in Nat /\ Cardinality(DOMAIN kept) \in Nat
      /\ Cardinality(vs) <= MaxHistory + 1
  <2>1. rev \notin DOMAIN kept
    BY <1>1
  <2>2. Cardinality(vs) = Cardinality(DOMAIN kept) + 1
    BY <1>3, <2>1, FS_AddElement
  <2> QED
    BY <1>1, <1>3, <2>2, FS_CardinalityType
<1>5. kept' = [v \in Latest(vs) |-> IF v = rev THEN doc ELSE kept[v]]
  BY DEF Retain
<1>6. Latest(vs) \subseteq vs
  BY DEF Latest
<1>7. DOMAIN kept' = Latest(vs) /\ kept' \in [DOMAIN kept' -> Documents]
  <2>1. \A v \in Latest(vs) : (IF v = rev THEN doc ELSE kept[v]) \in Documents
    BY <1>1, <1>6
  <2> HIDE DEF vs
  <2> QED
    BY <1>5, <2>1
<1>8. Cardinality(Latest(vs)) <= MaxHistory
  <2>1. CASE Cardinality(vs) <= MaxHistory
    BY <1>1, <1>4, <2>1 DEF Latest
  <2>2. CASE Cardinality(vs) > MaxHistory
    <3>1. Oldest(vs) \in vs
      BY <1>2, OldestIs
    <3>2. Cardinality(vs \ {Oldest(vs)}) = Cardinality(vs) - 1
      BY <1>3, <3>1, FS_RemoveElement
    <3> QED
      BY <1>1, <1>4, <2>2, <3>2 DEF Latest
  <2> QED
    BY <1>1, <1>4, <2>1, <2>2
<1>9. ASSUME NEW v \in vs, v \notin Latest(vs) PROVE v + MaxHistory <= rev
  <2>1. v = Oldest(vs) /\ Cardinality(vs) > MaxHistory
    BY <1>9 DEF Latest
  <2>2. v \in 1 .. rev /\ \A w \in vs : v <= w
    BY <1>2, <2>1, OldestIs
  <2>3. vs \in SUBSET (v .. rev)
    BY <1>2, <2>2
  <2>4. Cardinality(vs) <= Cardinality(v .. rev)
    BY <2>2, <2>3, FS_Interval, FS_Subset
  <2>5. Cardinality(v .. rev) = rev - v + 1
    BY <2>2, <1>1, FS_Interval
  <2> QED
    BY <1>1, <1>4, <2>1, <2>2, <2>4, <2>5
<1> HIDE DEF vs
<1>10. \A v \in DOMAIN kept' : kept'[v] = IF v = rev THEN doc ELSE kept[v]
  BY <1>5, <1>7
<1> QED
  BY <1>6, <1>7, <1>8, <1>9, <1>10 DEF vs

-----------------------------------------------------------------------------
(* What each request carries. *)
Shape ==
    \A r \in Requests :
        /\ pc[r] # "idle" => page[r] \in View /\ (op[r] = "apply" => chosen[r] \in Requests)
        /\ pc[r] = "computing" => work[r] \in View

Typed == TypeOK /\ RecordReadable /\ Shape

LEMMA CurrentIsView == TypeOK => Current \in View
BY DEF TypeOK, Current, View

(* The store checks the page of the request against the record.              *)
LEMMA RecordsUnchanged == RecordReadable /\ UNCHANGED record => RecordReadable'
BY DEF RecordReadable, record

(* A change that keeps the current version in the history.                   *)
LEMMA RetainedRecord ==
    ASSUME Typed, Retain(kept), NEW d \in Documents, NextVersion(d), kind' = kind,
           NEW back \in SUBSET (undo \cup {rev}), undo' = back \cap DOMAIN kept',
           kind = "plan" => back = undo \cup {rev}
    PROVE  /\ rev' \in Versions /\ doc' \in Documents /\ confirmed' \in BOOLEAN
           /\ DOMAIN kept' \subseteq Versions /\ kept' \in [DOMAIN kept' -> Documents]
           /\ undo' \in SUBSET Versions
           /\ RecordReadable'
<1>1. /\ DOMAIN kept' \subseteq DOMAIN kept \cup {rev}
      /\ Cardinality(DOMAIN kept') <= MaxHistory
      /\ kept' \in [DOMAIN kept' -> Documents]
  BY RetainKeeps DEF Typed
<1>2. rev \in Versions /\ rev' = rev + 1 /\ rev' \in Versions /\ DOMAIN kept \subseteq 1 .. rev - 1
  BY LedgerAssumption DEF Typed, TypeOK, RecordReadable, Valid, NextVersion, Versions
<1>3. DOMAIN kept' \subseteq 1 .. rev' - 1 /\ DOMAIN kept' \subseteq Versions
  <2>1. /\ MaxRevision \in Nat /\ rev \in 1 .. MaxRevision /\ rev' - 1 = rev
        /\ DOMAIN kept' \subseteq (1 .. rev - 1) \cup {rev}
    BY <1>1, <1>2, LedgerAssumption DEF Versions
  <2> QED
    BY <2>1 DEF Versions
<1>4. kind' = "plan" => undo' = DOMAIN kept'
  BY <1>1 DEF Typed, RecordReadable, Valid
<1> QED
  BY <1>1, <1>2, <1>3, <1>4 DEF RecordReadable, Valid, NextVersion

(* The version that undo returns to was kept.                                *)
LEMMA NewestIsKept ==
    ASSUME Typed, undo # {}
    PROVE  Newest(undo) \in undo /\ Newest(undo) \in DOMAIN kept /\ kept[Newest(undo)] \in Documents
<1>1. rev - 1 \in Nat /\ undo \in SUBSET (1 .. rev - 1)
  BY LedgerAssumption DEF Typed, TypeOK, RecordReadable, Valid, Versions
<1>2. Newest(undo) \in undo
  BY <1>1, NewestIs
<1> QED
  BY <1>2 DEF Typed, TypeOK, RecordReadable, Valid

LEMMA InitTyped == Init => Typed
<1> SUFFICES ASSUME Init PROVE Typed
  OBVIOUS
<1>1. DOMAIN kept \subseteq 1 .. rev - 1 /\ kept \in [DOMAIN kept -> Documents]
  BY DEF Init, Valid
<1>2. rev \in Versions
  BY LedgerAssumption DEF Init, Versions
<1>3. DOMAIN kept \subseteq Versions
  BY <1>1, <1>2, LedgerAssumption DEF Versions
<1>4. RecordReadable
  BY DEF Init, RecordReadable
<1>5. undo \in SUBSET Versions
  BY <1>3 DEF Init
<1>6. Shape
  BY DEF Init, Shape
<1>7. /\ kind \in Kinds /\ doc \in Documents /\ confirmed \in BOOLEAN
      /\ proposals \in [Requests -> Proposal \cup {None}]
      /\ op \in [Requests -> Operations("ledger") \cup Operations("plan") \cup {None}]
  BY DEF Init
<1>8. /\ page \in [Requests -> View \cup {None}] /\ chosen \in [Requests -> Requests \cup {None}]
      /\ work \in [Requests -> View \cup Changes \cup {None}]
      /\ changed \in [Requests -> View \cup {None}]
      /\ stop \in SUBSET Requests /\ endorsed \in SUBSET View /\ published \in SUBSET View
      /\ restarts \in 0 .. MaxRestarts
  BY LedgerAssumption DEF Init
<1> QED
  BY <1>1, <1>2, <1>3, <1>4, <1>5, <1>6, <1>7, <1>8 DEF Init, Typed, TypeOK

LEMMA NextTyped == Typed /\ [Next]_vars => Typed'
<1> SUFFICES ASSUME Typed, [Next]_vars PROVE Typed'
  OBVIOUS
<1> USE DEF Typed, Goes, Ends, Keeps, request, history
<1>1. ASSUME NEW r \in Requests, NEW o \in Operations(kind), Open(r, o) PROVE Typed'
  BY <1>1, CurrentIsView, RecordsUnchanged DEF Open, TypeOK, Shape, record, Operations
<1>2. ASSUME NEW r \in Requests, Cancel(r) PROVE Typed'
  BY <1>2, CurrentIsView, RecordsUnchanged DEF Cancel, TypeOK, Shape, record
<1>3. ASSUME NEW r \in Requests, Cancelled(r) PROVE Typed'
  BY <1>3, CurrentIsView, RecordsUnchanged DEF Cancelled, TypeOK, Shape, record
<1>4. ASSUME NEW r \in Requests, Start(r) PROVE Typed'
  BY <1>4, CurrentIsView, RecordsUnchanged DEF Start, TypeOK, Shape, record
<1>5. ASSUME NEW r \in Requests, Busy(r) PROVE Typed'
  BY <1>5, CurrentIsView, RecordsUnchanged DEF Busy, TypeOK, Shape, record
<1>6. ASSUME NEW r \in Requests, Read(r) PROVE Typed'
  BY <1>6, CurrentIsView, RecordsUnchanged DEF Read, TypeOK, Shape, record
<1>7. ASSUME NEW r \in Requests, Consider(r) PROVE Typed'
  <2>1. proposals[chosen[r]] # None => proposals[chosen[r]].change \in Changes
    BY <1>7 DEF Consider, TypeOK, Shape, Proposal
  <2> QED
    BY <1>7, <2>1, RecordsUnchanged DEF Consider, TypeOK, Shape, record
<1>8. ASSUME NEW r \in Requests, Register(r) PROVE Typed'
  <2>1. work[r] \in View
    BY <1>8 DEF Register, Shape
  <2>2. \A c \in Changes : [rev |-> work[r].rev, doc |-> work[r].doc, change |-> c] \in Proposal
    BY <2>1 DEF View, Proposal
  <2>3. proposals' \in [Requests -> Proposal \cup {None}]
    BY <1>8, <2>2 DEF Register, TypeOK
  <2> QED
    BY <1>8, <2>3, RecordsUnchanged DEF Register, TypeOK, Shape, record
<1>9. ASSUME NEW r \in Requests, Publish(r) PROVE Typed'
  <2>1. work[r] \in View
    BY <1>9 DEF Publish, Shape
  <2> QED
    BY <1>9, <2>1, RecordsUnchanged DEF Publish, TypeOK, Shape, record
<1>10. ASSUME NEW r \in Requests, Forget(r) PROVE Typed'
  BY <1>10, CurrentIsView, RecordsUnchanged DEF Forget, TypeOK, Shape, record
<1>11. ASSUME NEW r \in Requests, NEW d \in Documents, Revise(r, d) PROVE Typed'
  <2>1. /\ rev' \in Versions /\ doc' \in Documents /\ confirmed' \in BOOLEAN
        /\ DOMAIN kept' \subseteq Versions /\ kept' \in [DOMAIN kept' -> Documents]
        /\ undo' \in SUBSET Versions /\ RecordReadable'
    BY <1>11, RetainedRecord DEF Revise, Saved
  <2> QED
    BY <1>11, <2>1, CurrentIsView DEF Revise, Commits, Changed, Saved, TypeOK, Shape
<1>12. ASSUME NEW r \in Requests, UndoLedger(r) PROVE Typed'
  <2>1. /\ rev' \in Versions /\ doc' \in Documents /\ confirmed' \in BOOLEAN
        /\ DOMAIN kept' \subseteq Versions /\ kept' \in [DOMAIN kept' -> Documents]
        /\ undo' \in SUBSET Versions /\ RecordReadable'
    BY <1>12, RetainedRecord, NewestIsKept DEF UndoLedger, Saved
  <2> QED
    BY <1>12, <2>1, CurrentIsView DEF UndoLedger, Commits, Changed, Saved, TypeOK, Shape
<1>13. ASSUME NEW r \in Requests, UndoPlan(r) PROVE Typed'
  <2>1. Newest(undo) \in undo /\ Newest(undo) \in DOMAIN kept /\ kept[Newest(undo)] \in Documents
    BY <1>13, NewestIsKept DEF UndoPlan
  <2>2. rev' = rev + 1 /\ rev' \in Versions /\ rev \in Versions
    BY <1>13, LedgerAssumption DEF UndoPlan, NextVersion, TypeOK, Versions
  <2>3. DOMAIN kept' = DOMAIN kept \ {Newest(undo)} /\ kept' \in [DOMAIN kept' -> Documents]
    BY <1>13 DEF UndoPlan, TypeOK
  <2>4. Cardinality(DOMAIN kept') <= MaxHistory
    <3>1. IsFiniteSet(DOMAIN kept)
      <4>1. DOMAIN kept \in SUBSET (1 .. rev - 1) /\ rev - 1 \in Int
        BY <2>2 DEF RecordReadable, Valid, Versions
      <4> QED
        BY <4>1, FS_Interval, FS_Subset
    <3>2. /\ Cardinality(DOMAIN kept') <= Cardinality(DOMAIN kept)
          /\ Cardinality(DOMAIN kept') \in Nat /\ Cardinality(DOMAIN kept) \in Nat
      BY <2>3, <3>1, FS_Subset, FS_CardinalityType
    <3> QED
      BY <3>2, LedgerAssumption DEF RecordReadable, Valid
  <2>5. undo' \subseteq DOMAIN kept' /\ (kind = "plan" => undo' = DOMAIN kept')
    BY <1>13, <2>3 DEF UndoPlan, RecordReadable, Valid
  <2>6. DOMAIN kept' \subseteq 1 .. rev' - 1 /\ DOMAIN kept' \subseteq Versions
    BY <2>2, <2>3 DEF RecordReadable, Valid, Versions, TypeOK
  <2>7. RecordReadable'
    BY <1>13, <2>4, <2>5, <2>6 DEF UndoPlan, Saved, RecordReadable, Valid
  <2> QED
    BY <1>13, <2>1, <2>2, <2>3, <2>5, <2>6, <2>7, CurrentIsView DEF UndoPlan, Commits, NextVersion, Changed, Saved, TypeOK, Shape
<1>14. ASSUME NEW r \in Requests, Confirm(r) PROVE Typed'
  <2>1. page[r] \in View
    BY <1>14 DEF Confirm, Commits, Shape
  <2>2. RecordReadable'
    BY <1>14 DEF Confirm, Saved, RecordReadable
  <2> QED
    BY <1>14, <2>1, <2>2 DEF Confirm, Commits, Saved, TypeOK, Shape
<1>15. ASSUME NEW r \in Requests, Refuse(r) PROVE Typed'
  BY <1>15, CurrentIsView, RecordsUnchanged DEF Refuse, TypeOK, Shape, record
<1>16. ASSUME Restart PROVE Typed'
  BY <1>16, RecordsUnchanged, LedgerAssumption DEF Restart, TypeOK, Shape, record, Computing
<1>17. CASE UNCHANGED vars
  BY <1>17, RecordsUnchanged DEF vars, TypeOK, Shape, record
<1> QED
  BY <1>1, <1>2, <1>3, <1>4, <1>5, <1>6, <1>7, <1>8, <1>9, <1>10, <1>11, <1>12, <1>13, <1>14, <1>15, <1>16, <1>17 DEF Next, Step, Commit

-----------------------------------------------------------------------------
(* The record, the proposals and what every request carries keep their type. *)
THEOREM TypeCorrect == Spec => []TypeOK
<1>1. Typed => TypeOK
  BY DEF Typed
<1> QED
  BY InitTyped, NextTyped, <1>1, PTL DEF Spec

(* Whatever is changed and undone, the store can read its record back        *)
(* (records.py:72).                                                          *)
THEOREM RecordReadableHolds == Spec => []RecordReadable
<1>1. Typed => RecordReadable
  BY DEF Typed
<1> QED
  BY InitTyped, NextTyped, <1>1, PTL DEF Spec

-----------------------------------------------------------------------------
(* A page shows an older version, or the current one as it is.               *)
Pages ==
    \A r \in Requests : pc[r] # "idle" =>
        page[r].rev <= rev /\ (page[r].rev = rev => page[r] = Current)

(* An answer comes at the end, and a change with its answer.                 *)
Answered ==
    \A r \in Requests :
        /\ pc[r] # "over" => answer[r] = "none" /\ changed[r] = None
        /\ changed[r] # None =>
              answer[r] = "saved" /\ op[r] # "confirm" /\ changed[r] = page[r] /\ changed[r].rev < rev
        /\ answer[r] = "saved" /\ op[r] # "confirm" => changed[r] # None

(* A proposal says what its maker read, and goes to the store for no other   *)
(* version than that.                                                        *)
Proposed ==
    \A r \in Requests :
        /\ answer[r] = "proposed" => op[r] = "propose" /\ work[r] \in View
        /\ proposals[r] # None =>
              /\ answer[r] = "proposed"
              /\ proposals[r].rev = work[r].rev /\ proposals[r].doc = work[r].doc
        /\ pc[r] = "idle" => chosen[r] = None
        /\ chosen[r] # None =>
              /\ op[r] = "apply" /\ answer[chosen[r]] = "proposed"
              /\ pc[r] = "committing" \/ changed[r] # None => page[r] = work[chosen[r]]

(* What is confirmed was shown, and what is packed was confirmed.            *)
Endorsing ==
    /\ confirmed => Current \in endorsed
    /\ published \subseteq endorsed
    /\ \A r \in Requests : pc[r] = "computing" /\ op[r] = "pack" => work[r] = page[r]

Known == Pages /\ Answered /\ OneWinner /\ Proposed /\ Endorsing

(* A request that is not stale shows the current version.                    *)
LEMMA FreshIsCurrent ==
    ASSUME Pages, NEW r \in Requests, pc[r] # "idle", ~Stale(r)
    PROVE  page[r] = Current
BY DEF Pages, Stale

(* What a commit does to the requests, whatever it does to the record.       *)
LEMMA CommitKnown ==
    ASSUME Typed, Known, NEW r \in Requests, Commits(r), op[r] # "confirm",
           rev' = rev + 1, confirmed' = FALSE, Changed(r), Saved(r)
    PROVE  Known'
<1>1. page[r] = Current /\ Current \in View /\ None \notin View
  BY FreshIsCurrent, CurrentIsView, LedgerAssumption DEF Known, Commits, Expected, Goes, Typed
<1>2. changed' = [changed EXCEPT ![r] = page[r]] /\ page[r].rev = rev /\ page[r] # None
  BY <1>1 DEF Changed, Current, View
<1>3. rev \in Nat
  BY LedgerAssumption DEF Typed, TypeOK, Versions
<1>4. \A q \in Requests : page[q] \in View => page[q].rev \in Nat
  BY DEF View, Versions
<1>5. \A q \in Requests : changed[q] # None => changed[q] \in View /\ changed[q].rev \in Nat
  BY DEF Typed, TypeOK, View, Versions
<1>6. Pages'
  BY <1>3, <1>4 DEF Known, Pages, Commits, Goes, Saved, Typed, TypeOK, Shape
<1>7. Answered'
  BY <1>2, <1>3, <1>5 DEF Known, Answered, Commits, Goes, Saved, Typed, TypeOK
<1>8. OneWinner'
  BY <1>2, <1>3, <1>5 DEF Known, Answered, OneWinner, Typed, TypeOK
<1>9. Proposed'
  BY <1>2, <1>1 DEF Known, Proposed, Answered, Commits, Goes, Saved, Typed, TypeOK
<1>10. Endorsing'
  BY DEF Known, Endorsing, Commits, Goes, Changed, Saved, Typed, TypeOK
<1> QED
  BY <1>6, <1>7, <1>8, <1>9, <1>10 DEF Known

LEMMA InitKnown == Init => Known
BY DEF Init, Known, Pages, Answered, OneWinner, Proposed, Endorsing

LEMMA NextKnown == Typed /\ Known /\ [Next]_vars => Known'
<1> SUFFICES ASSUME Typed, Known, [Next]_vars PROVE Known'
  OBVIOUS
<1> USE DEF Known, Goes, Ends, Keeps, record, request, history
<1>1. ASSUME NEW r \in Requests, NEW o \in Operations(kind), Open(r, o) PROVE Known'
  <2>1. Current' = Current /\ Current \in View
    BY <1>1, CurrentIsView DEF Open, Current, Typed
  <2>2. Pages'
    <3>1. Current.rev = rev /\ rev <= rev
      BY LedgerAssumption DEF Current, Typed, TypeOK, Versions
    <3>2. page' = [page EXCEPT ![r] = Current] /\ rev' = rev
      BY <1>1 DEF Open
    <3> QED
      BY <1>1, <2>1, <3>1, <3>2 DEF Open, Pages, Typed, TypeOK
  <2>3. Answered' /\ OneWinner'
    BY <1>1, <2>1 DEF Open, Answered, OneWinner, Typed, TypeOK
  <2>4. Proposed'
    BY <1>1, <2>1, CurrentIsView DEF Open, Proposed, Answered, Typed, TypeOK, Shape
  <2>5. Endorsing'
    BY <1>1, <2>1, CurrentIsView DEF Open, Endorsing, Typed, TypeOK, Shape
  <2> QED
    BY <2>2, <2>3, <2>4, <2>5
<1>2. ASSUME NEW r \in Requests, Cancel(r) PROVE Known'
  BY <1>2 DEF Cancel, Pages, Answered, OneWinner, Proposed, Endorsing, Current, Typed, TypeOK
<1>3. ASSUME NEW r \in Requests, Cancelled(r) PROVE Known'
  BY <1>3 DEF Cancelled, Pages, Answered, OneWinner, Proposed, Endorsing, Current, Typed, TypeOK
<1>4. ASSUME NEW r \in Requests, Start(r) PROVE Known'
  BY <1>4 DEF Start, Pages, Answered, OneWinner, Proposed, Endorsing, Current, Typed, TypeOK
<1>5. ASSUME NEW r \in Requests, Busy(r) PROVE Known'
  BY <1>5 DEF Busy, Pages, Answered, OneWinner, Proposed, Endorsing, Current, Typed, TypeOK
<1>6. ASSUME NEW r \in Requests, Read(r) PROVE Known'
  <2>1. Current' = Current /\ Current \in View
    BY <1>6, CurrentIsView DEF Read, Current, Typed
  <2>2. Pages'
    BY <1>6, <2>1 DEF Read, Pages, Typed, TypeOK, Shape, Current
  <2>3. Answered' /\ OneWinner'
    BY <1>6, <2>1 DEF Read, Answered, OneWinner, Typed, TypeOK
  <2>4. Proposed'
    BY <1>6, <2>1, CurrentIsView, FreshIsCurrent DEF Read, Proposed, Answered, Typed, TypeOK, Shape
  <2>5. Endorsing'
    BY <1>6, <2>1, CurrentIsView, FreshIsCurrent DEF Read, Endorsing, Typed, TypeOK, Shape
  <2> QED
    BY <2>2, <2>3, <2>4, <2>5
<1>7. ASSUME NEW r \in Requests, Consider(r) PROVE Known'
  <2>1. Current' = Current /\ Current \in View
    BY <1>7, CurrentIsView DEF Consider, Current, Typed
  <2>2. Pages'
    BY <1>7, <2>1 DEF Consider, Pages, Typed, TypeOK, Shape, Current
  <2>3. Answered' /\ OneWinner'
    BY <1>7, <2>1 DEF Consider, Answered, OneWinner, Typed, TypeOK
  <2>4. Proposed'
    <3>1. pc'[r] = "committing" => page[r] = work[chosen[r]]
      <4> SUFFICES ASSUME pc'[r] = "committing" PROVE page[r] = work[chosen[r]]
        OBVIOUS
      <4> DEFINE p == proposals[chosen[r]]
      <4>1. chosen[r] \in Requests /\ p # None /\ ~Unfit(r, p)
        BY <1>7, LedgerAssumption DEF Consider, Typed, TypeOK, Shape
      <4>2. page[r] = Current /\ p.rev = rev /\ p.doc = doc
        BY <1>7, <4>1, FreshIsCurrent DEF Consider, Unfit, Current
      <4>3. /\ work[chosen[r]] \in View
            /\ work[chosen[r]].rev = rev /\ work[chosen[r]].doc = doc
        BY <4>1, <4>2 DEF Proposed
      <4> QED
        BY <2>1, <4>2, <4>3 DEF Current, View
    <3> QED
      BY <1>7, <3>1 DEF Consider, Proposed, Answered, Typed, TypeOK, Shape
  <2>5. Endorsing'
    BY <1>7, <2>1, FreshIsCurrent DEF Consider, Endorsing, Typed, TypeOK, Shape
  <2> QED
    BY <2>2, <2>3, <2>4, <2>5
<1>8. ASSUME NEW r \in Requests, Register(r) PROVE Known'
  <2>1. Current' = Current /\ Current \in View
    BY <1>8, CurrentIsView DEF Register, Current, Typed
  <2>2. Pages'
    BY <1>8, <2>1 DEF Register, Pages, Typed, TypeOK, Shape, Current
  <2>3. Answered' /\ OneWinner'
    BY <1>8, <2>1 DEF Register, Answered, OneWinner, Typed, TypeOK
  <2>4. Proposed'
    BY <1>8, <2>1, LedgerAssumption DEF Register, Proposed, Answered, Typed, TypeOK, Shape
  <2>5. Endorsing'
    BY <1>8, <2>1, LedgerAssumption DEF Register, Endorsing, Typed, TypeOK, Shape
  <2> QED
    BY <2>2, <2>3, <2>4, <2>5
<1>9. ASSUME NEW r \in Requests, Publish(r) PROVE Known'
  <2>1. Current' = Current /\ Current \in View
    BY <1>9, CurrentIsView DEF Publish, Current, Typed
  <2>2. Pages'
    BY <1>9, <2>1 DEF Publish, Pages, Typed, TypeOK, Shape, Current
  <2>3. Answered' /\ OneWinner'
    BY <1>9, <2>1 DEF Publish, Answered, OneWinner, Typed, TypeOK
  <2>4. Proposed'
    BY <1>9, <2>1, FreshIsCurrent DEF Publish, Proposed, Answered, Typed, TypeOK, Shape
  <2>5. Endorsing'
    BY <1>9, <2>1, FreshIsCurrent DEF Publish, Endorsing, Typed, TypeOK, Shape
  <2> QED
    BY <2>2, <2>3, <2>4, <2>5
<1>10. ASSUME NEW r \in Requests, Forget(r) PROVE Known'
  BY <1>10 DEF Forget, Pages, Answered, OneWinner, Proposed, Endorsing, Current, Typed, TypeOK
<1>11. ASSUME NEW r \in Requests, NEW d \in Documents, Revise(r, d) PROVE Known'
  BY <1>11, CommitKnown DEF Revise, NextVersion
<1>12. ASSUME NEW r \in Requests, UndoLedger(r) PROVE Known'
  BY <1>12, CommitKnown DEF UndoLedger, NextVersion, Undoes
<1>13. ASSUME NEW r \in Requests, UndoPlan(r) PROVE Known'
  BY <1>13, CommitKnown DEF UndoPlan, NextVersion, Undoes
<1>14. ASSUME NEW r \in Requests, Confirm(r) PROVE Known'
  <2>1. page[r] = Current
    BY <1>14, FreshIsCurrent DEF Confirm, Commits, Expected
  <2>2. Current' = Current
    BY <1>14 DEF Confirm, Current
  <2>3. Endorsing'
    BY <1>14, <2>1, <2>2 DEF Confirm, Commits, Saved, Endorsing, Typed, TypeOK
  <2>4. Pages' /\ Answered' /\ OneWinner'
    BY <1>14, <2>2 DEF Confirm, Commits, Saved, Pages, Answered, OneWinner, Typed, TypeOK
  <2>5. Proposed'
    BY <1>14 DEF Confirm, Commits, Saved, Proposed, Answered, Typed, TypeOK
  <2> QED
    BY <2>3, <2>4, <2>5
<1>15. ASSUME NEW r \in Requests, Refuse(r) PROVE Known'
  BY <1>15 DEF Refuse, Pages, Answered, OneWinner, Proposed, Endorsing, Current, Typed, TypeOK
<1>16. ASSUME Restart PROVE Known'
  BY <1>16 DEF Restart, Computing, Pages, Answered, OneWinner, Proposed, Endorsing, Current, Typed, TypeOK
<1>17. CASE UNCHANGED vars
  BY <1>17 DEF vars, Pages, Answered, OneWinner, Proposed, Endorsing, Current, Typed, TypeOK
<1> QED
  BY <1>1, <1>2, <1>3, <1>4, <1>5, <1>6, <1>7, <1>8, <1>9, <1>10, <1>11, <1>12, <1>13, <1>14, <1>15, <1>16, <1>17 DEF Next, Step, Commit

LEMMA AllKnown == Spec => [](Typed /\ Known)
<1>1. Typed /\ Known /\ [Next]_vars => (Typed /\ Known)'
  BY NextTyped, NextKnown
<1> QED
  BY InitTyped, InitKnown, <1>1, PTL DEF Spec

-----------------------------------------------------------------------------
(* One request wins each version (records.py:187, logistics_api.py:245).     *)
THEOREM OneWinnerHolds == Spec => []OneWinner
<1>1. Known => OneWinner
  BY DEF Known
<1> QED
  BY AllKnown, <1>1, PTL

(* No change lands on a version that its page did not show, or that its      *)
(* proposal was not made for (logistics_api.py:245).                         *)
THEOREM ChangedWhatItSawHolds == Spec => []ChangedWhatItSaw
<1>1. Known => ChangedWhatItSaw
  BY DEF Known, Answered, Proposed, ChangedWhatItSaw
<1> QED
  BY AllKnown, <1>1, PTL

(* Saved means changed; cancelled, refused or lost means unchanged           *)
(* (planning_api.py:161).                                                    *)
THEOREM AnswerTrueHolds == Spec => []AnswerTrue
<1>1. Known => AnswerTrue
  BY DEF Known, Answered, AnswerTrue
<1> QED
  BY AllKnown, <1>1, PTL

(* No packing of a ledger that nobody confirmed (logistics_api.py:278).      *)
THEOREM PackedAsEndorsedHolds == Spec => []PackedAsEndorsed
<1>1. Known => PackedAsEndorsed
  BY DEF Known, Endorsing, PackedAsEndorsed
<1> QED
  BY AllKnown, <1>1, PTL

-----------------------------------------------------------------------------
(* The record implements an undoable document.  What it can go back to is    *)
(* the part of its history that the undo stack refers to.                    *)
Past == [v \in undo |-> kept[v]]

LEMMA InitUndoable == Init => U!Init
<1> SUFFICES ASSUME Init PROVE U!Init
  OBVIOUS
<1>1. Typed
  BY InitTyped
<1>2. rev \in Nat \ {0} /\ doc \in Documents
  BY <1>1, LedgerAssumption DEF Typed, TypeOK, Versions
<1>3. undo \in SUBSET (1 .. rev - 1) /\ \A v \in undo : kept[v] \in Documents
  BY <1>1 DEF Typed, TypeOK, RecordReadable, Valid
<1>4. Past \in [undo -> Documents]
  BY <1>3 DEF Past
<1> QED
  BY <1>2, <1>3, <1>4 DEF U!Init, Past

(* Of what undo could go back to before a change, only versions that are     *)
(* MAX_HISTORY old are missing after it.                                     *)
LEMMA RetainRemembers ==
    ASSUME Typed, Retain(kept), rev' = rev + 1,
           NEW f, DOMAIN f \subseteq undo \cup {rev},
           \A v \in DOMAIN f : f[v] = IF v = rev THEN doc ELSE kept[v],
           undo' = DOMAIN f \cap DOMAIN kept'
    PROVE  /\ undo' \in SUBSET DOMAIN f
           /\ \A v \in DOMAIN f \ undo' : v + MaxHistory < rev'
           /\ \A v \in undo' : kept'[v] = f[v]
<1>1. rev \in Nat /\ MaxHistory \in Nat /\ undo \subseteq DOMAIN kept /\ DOMAIN kept \subseteq Nat
  BY LedgerAssumption DEF Typed, TypeOK, RecordReadable, Valid, Versions
<1>2. \A v \in DOMAIN f \ undo' : v + MaxHistory < rev'
  <2>1. \A v \in DOMAIN f \ undo' : v + MaxHistory <= rev /\ v \in Nat
    BY <1>1, RetainKeeps DEF Typed
  <2> QED
    BY <1>1, <2>1
<1>3. \A v \in undo' : kept'[v] = f[v]
  BY RetainKeeps DEF Typed
<1> QED
  BY <1>2, <1>3

LEMMA Remembering ==
    ASSUME NEW f, undo' \in SUBSET DOMAIN f,
           \A v \in DOMAIN f \ undo' : v + MaxHistory < rev',
           \A v \in undo' : kept'[v] = f[v]
    PROVE  U!Remembers(f)
<1>1. [v \in undo' |-> kept'[v]] = [v \in undo' |-> f[v]]
  OBVIOUS
<1> QED
  BY <1>1 DEF U!Remembers

LEMMA ReviseUndoable ==
    ASSUME Typed, NEW r \in Requests, NEW d \in Documents, Revise(r, d)
    PROVE  U!Change
<1> DEFINE f == U!With(Past, rev, doc)
<1>1. DOMAIN Past = undo /\ \A v \in undo : Past[v] = kept[v]
  BY DEF Past
<1>2. DOMAIN f = undo \cup {rev} /\ \A v \in DOMAIN f : f[v] = IF v = rev THEN doc ELSE kept[v]
  <2> HIDE DEF f
  <2>1. f = [w \in undo \cup {rev} |-> IF w = rev THEN doc ELSE Past[w]]
    BY <1>1 DEF f, U!With
  <2> QED
    BY <1>1, <2>1
<1>3. Retain(kept) /\ rev' = rev + 1 /\ doc' = d /\ undo' = DOMAIN f \cap DOMAIN kept'
  BY <1>2 DEF Revise, NextVersion
<1>4. U!Remembers(f)
  <2> HIDE DEF f
  <2>1. /\ undo' \in SUBSET DOMAIN f
        /\ \A v \in DOMAIN f \ undo' : v + MaxHistory < rev'
        /\ \A v \in undo' : kept'[v] = f[v]
    BY <1>2, <1>3, RetainRemembers
  <2> QED
    BY <2>1, Remembering DEF U!Remembers
<1> QED
  BY <1>3, <1>4 DEF U!Change, Past

LEMMA UndoUndoable ==
    ASSUME Typed, NEW r \in Requests, UndoLedger(r) \/ UndoPlan(r)
    PROVE  U!Undo
<1> DEFINE top == Newest(undo)
           f == U!Without(Past, top)
<1>1. DOMAIN Past = undo /\ \A v \in undo : Past[v] = kept[v]
  BY DEF Past
<1>2. undo # {} /\ top \in undo /\ rev \notin undo
  BY NewestIsKept, LedgerAssumption DEF UndoLedger, UndoPlan, Typed, TypeOK, RecordReadable, Valid, Versions
<1>3. U!Newest(DOMAIN Past) = top
  BY <1>1 DEF U!Newest, Newest
<1> HIDE DEF top
<1>4. DOMAIN f = undo \ {top} /\ \A v \in DOMAIN f : f[v] = kept[v]
  <2> HIDE DEF f
  <2>1. f = [w \in undo \ {top} |-> Past[w]]
    BY <1>1 DEF f, U!Without
  <2> QED
    BY <1>1, <2>1
<1>5. rev' = rev + 1 /\ doc' = Past[top]
  BY <1>1, <1>2 DEF UndoLedger, UndoPlan, NextVersion, top
<1> HIDE DEF f
<1>6. U!Remembers(f)
  <2>1. CASE UndoLedger(r)
    <3>1. Retain(kept) /\ undo' = DOMAIN f \cap DOMAIN kept'
      BY <2>1, <1>4 DEF UndoLedger, top
    <3>2. DOMAIN f \subseteq undo \cup {rev} /\ \A v \in DOMAIN f : f[v] = IF v = rev THEN doc ELSE kept[v]
      BY <1>2, <1>4
    <3>3. /\ undo' \in SUBSET DOMAIN f
          /\ \A v \in DOMAIN f \ undo' : v + MaxHistory < rev'
          /\ \A v \in undo' : kept'[v] = f[v]
      BY <1>5, <3>1, <3>2, RetainRemembers
    <3> QED
      BY <3>3, Remembering DEF U!Remembers
  <2>2. CASE UndoPlan(r)
    <3>1. undo' = DOMAIN f
      BY <2>2, <1>4 DEF UndoPlan, top
    <3>2. \A v \in undo' : kept'[v] = f[v]
      BY <2>2, <1>4, <3>1 DEF UndoPlan, Typed, RecordReadable, Valid, top
    <3>3. [v \in undo' |-> kept'[v]] = [v \in undo' |-> f[v]]
      BY <3>2
    <3> QED
      BY <3>1, <3>3 DEF U!Remembers
  <2> QED
    BY <2>1, <2>2
<1>7. DOMAIN Past # {} /\ rev' = rev + 1 /\ doc' = Past[U!Newest(DOMAIN Past)]
  BY <1>1, <1>2, <1>3, <1>5
<1>8. U!Remembers(U!Without(Past, U!Newest(DOMAIN Past)))
  <2>1. U!Without(Past, U!Newest(DOMAIN Past)) = f
    BY <1>3 DEF f
  <2> QED
    BY <1>6, <2>1 DEF U!Remembers
<1> QED
  BY <1>7, <1>8 DEF U!Undo, Past

(* Nothing else touches what undo goes back to.                              *)
LEMMA NextUndoable == Typed /\ [Next]_vars => [U!Next]_(U!undoableVars)
<1> SUFFICES ASSUME Typed, [Next]_vars PROVE U!Next \/ UNCHANGED <<rev, doc, Past>>
  BY DEF U!undoableVars, Past
<1>1. ASSUME NEW r \in Requests, NEW d \in Documents, Revise(r, d) PROVE U!Next
  BY <1>1, ReviseUndoable DEF U!Next
<1>2. ASSUME NEW r \in Requests, UndoLedger(r) \/ UndoPlan(r) PROVE U!Next
  BY <1>2, UndoUndoable DEF U!Next
<1>3. ASSUME UNCHANGED <<rev, doc, kept, undo>> PROVE UNCHANGED <<rev, doc, Past>>
  BY <1>3 DEF Past
<1>4. ASSUME NEW r \in Requests,
             \/ \E o \in Operations(kind) : Open(r, o)
             \/ Cancelled(r) \/ Start(r) \/ Busy(r) \/ Read(r) \/ Consider(r) \/ Register(r)
             \/ Publish(r) \/ Confirm(r) \/ Refuse(r) \/ Cancel(r) \/ Forget(r)
      PROVE  UNCHANGED <<rev, doc, kept, undo>>
  BY <1>4 DEF Open, Cancelled, Start, Busy, Read, Consider, Register, Publish, Confirm, Refuse,
              Cancel, Forget, record
<1>5. ASSUME Restart PROVE UNCHANGED <<rev, doc, kept, undo>>
  BY <1>5 DEF Restart, record
<1>6. CASE UNCHANGED vars
  BY <1>3, <1>6 DEF vars, record
<1> QED
  BY <1>1, <1>2, <1>3, <1>4, <1>5, <1>6 DEF Next, Step, Commit

(* The ledger and the planning stores implement the undoable document: undo  *)
(* goes back one change at a time and forgets only what MAX_HISTORY versions *)
(* have passed (records.py:216, planning_records.py:373).                    *)
THEOREM IsUndoableHolds == Spec => IsUndoable
<1>1. Spec => [](Typed /\ Known)
  BY AllKnown
<1> QED
  BY <1>1, InitUndoable, NextUndoable, PTL DEF Spec, IsUndoable, U!Spec
=============================================================================
