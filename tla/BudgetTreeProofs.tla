--------------------------- MODULE BudgetTreeProofs ---------------------------
(***************************************************************************)
(* Proofs about BudgetTree, for any limits, tasks and number of requests   *)
(* in flight: every reservation of the tree is owned by one live value, a  *)
(* request that was sent is charged however its reservation ends, the      *)
(* limits hold for what is reserved and spent together, and the books of   *)
(* the tasks add up to those of the tree.                                  *)
(***************************************************************************)
EXTENDS BudgetTree, FiniteSetTheorems, WellFoundedInduction, TLAPS

-----------------------------------------------------------------------------
(* Sums over a finite set.  SumFunctionOnSet is a fold, a recursive function *)
(* on the subsets of its set: it exists (AdderExists), it is the same on     *)
(* every larger set (AddersAgree), and so taking any member out first gives  *)
(* the same sum (SumTakesOut).  Inductions are over sets of numbers and of   *)
(* subsets, NatAll and SubsetInduction.                                      *)
Picked(s) == CHOOSE x \in s : TRUE
Small(S, n) == {s \in SUBSET S : Cardinality(s) <= n}
Adds(v, D, f) == f = [s \in D |-> IF s = {} THEN 0 ELSE v[Picked(s)] + f[s \ {Picked(s)}]]
Adder(v, S) == CHOOSE f : Adds(v, SUBSET S, f)

(* Induction over a set of numbers, as the order on Nat is well-founded.     *)
LEMMA NatLeast ==
  ASSUME NEW T \in SUBSET Nat, T # {}
  PROVE  \E n \in T : \A m \in T : ~(m < n)
<1>1. \E n \in T : \A m \in T : <<m, n>> \notin OpToRel(<, Nat)
  BY NatLessThanWellFounded, WFMin
<1> QED
  BY <1>1 DEF OpToRel

LEMMA NatAll ==
  ASSUME NEW Q \in SUBSET Nat, 0 \in Q, \A n \in Nat : n \in Q => n + 1 \in Q
  PROVE  Q = Nat
<1> SUFFICES ASSUME Nat \ Q # {} PROVE FALSE
  OBVIOUS
<1>1. PICK n \in Nat \ Q : \A m \in Nat \ Q : ~(m < n)
  BY NatLeast
<1>2. n # 0 /\ n - 1 \in Nat
  BY <1>1
<1>3. n - 1 \in Q
  BY <1>1, <1>2
<1> QED
  BY <1>1, <1>2, <1>3

LEMMA Unpick ==
  ASSUME NEW S, IsFiniteSet(S), S # {}
  PROVE  /\ Picked(S) \in S
         /\ IsFiniteSet(S \ {Picked(S)})
         /\ Cardinality(S) \in Nat /\ Cardinality(S \ {Picked(S)}) \in Nat
         /\ Cardinality(S \ {Picked(S)}) = Cardinality(S) - 1
         /\ Cardinality(S \ {Picked(S)}) < Cardinality(S)
<1>1. Picked(S) \in S
  BY DEF Picked
<1>2. /\ IsFiniteSet(S \ {Picked(S)}) /\ Cardinality(S) \in Nat
      /\ Cardinality(S \ {Picked(S)}) \in Nat /\ Cardinality(S \ {Picked(S)}) = Cardinality(S) - 1
  BY <1>1, FS_RemoveElement, FS_CardinalityType
<1> QED
  BY <1>1, <1>2

LEMMA AdderExists ==
  ASSUME NEW v, NEW S, IsFiniteSet(S)
  PROVE  Adds(v, SUBSET S, Adder(v, S))
<1> DEFINE Q == {n \in Nat : \E f : Adds(v, Small(S, n), f)}
<1>1. 0 \in Q
  <2>1. Small(S, 0) = {{}}
    BY FS_EmptySet, FS_Subset, FS_CardinalityType DEF Small
  <2>2. Adds(v, Small(S, 0), [s \in Small(S, 0) |-> 0])
    BY <2>1 DEF Adds
  <2> QED
    BY <2>2
<1>2. ASSUME NEW n \in Nat, n \in Q PROVE n + 1 \in Q
  <2>1. PICK f : Adds(v, Small(S, n), f)
    BY <1>2
  <2> DEFINE g == [s \in Small(S, n + 1) |->
                     IF s = {} THEN 0 ELSE v[Picked(s)] + f[s \ {Picked(s)}]]
  <2>2. ASSUME NEW s \in Small(S, n + 1), s # {}
        PROVE  g[s \ {Picked(s)}] = f[s \ {Picked(s)}]
    <3> DEFINE t == s \ {Picked(s)}
    <3>1. IsFiniteSet(s)
      BY FS_Subset DEF Small
    <3>2. Cardinality(t) \in Nat /\ Cardinality(t) = Cardinality(s) - 1 /\ Cardinality(s) \in Nat
      BY <2>2, <3>1, Unpick
    <3>3. t \in SUBSET S /\ Cardinality(s) <= n + 1
      BY DEF Small
    <3> HIDE DEF t
    <3>4. t \in Small(S, n) /\ t \in Small(S, n + 1)
      BY <3>2, <3>3 DEF Small
    <3>5. f[t] = IF t = {} THEN 0 ELSE v[Picked(t)] + f[t \ {Picked(t)}]
      BY <2>1, <3>4 DEF Adds
    <3> QED
      BY <3>4, <3>5 DEF t
  <2>3. g = [s \in Small(S, n + 1) |-> IF s = {} THEN 0 ELSE v[Picked(s)] + g[s \ {Picked(s)}]]
    <3> HIDE DEF g
    <3>1. \A s \in Small(S, n + 1) :
            (IF s = {} THEN 0 ELSE v[Picked(s)] + f[s \ {Picked(s)}])
              = (IF s = {} THEN 0 ELSE v[Picked(s)] + g[s \ {Picked(s)}])
      BY <2>2
    <3> QED
      BY <3>1 DEF g
  <2> HIDE DEF g
  <2>4. \E h : Adds(v, Small(S, n + 1), h)
    BY <2>3 DEF Adds
  <2> QED
    BY <2>4
<1>3. Q = Nat
  <2> HIDE DEF Q
  <2>1. Q \in SUBSET Nat
    BY DEF Q
  <2> QED
    BY <1>1, <1>2, <2>1, NatAll
<1>4. Small(S, Cardinality(S)) = SUBSET S
  BY FS_Subset, FS_CardinalityType DEF Small
<1>5. \E f : Adds(v, SUBSET S, f)
  <2>1. Cardinality(S) \in Q
    BY <1>3, FS_CardinalityType
  <2> QED
    BY <1>4, <2>1
<1> QED
  BY <1>5 DEF Adder

LEMMA SumIsAdder ==
  ASSUME NEW v, NEW S
  PROVE  SumFunctionOnSet(v, S) = Adder(v, S)[S]
BY DEF SumFunctionOnSet, FoldFunctionOnSet, MapThenFoldSet, Adder, Adds, Picked

LEMMA AdderStep ==
  ASSUME NEW v, NEW S, IsFiniteSet(S), NEW s \in SUBSET S
  PROVE  Adder(v, S)[s] = IF s = {} THEN 0 ELSE v[Picked(s)] + Adder(v, S)[s \ {Picked(s)}]
<1>1. Adds(v, SUBSET S, Adder(v, S))
  BY AdderExists
<1> QED
  BY <1>1 DEF Adds

(* All that is said of smaller subsets of a finite set, said of all of them. *)
LEMMA SubsetInduction ==
  ASSUME NEW S, IsFiniteSet(S), NEW Q \in SUBSET (SUBSET S),
         {} \in Q,
         \A s \in SUBSET S : s # {} /\ (\A t \in SUBSET S : Cardinality(t) < Cardinality(s) => t \in Q)
            => s \in Q
  PROVE  Q = SUBSET S
<1> DEFINE R == {n \in Nat : \A s \in SUBSET S : Cardinality(s) <= n => s \in Q}
<1>0. \A s \in SUBSET S : IsFiniteSet(s) /\ Cardinality(s) \in Nat /\ (Cardinality(s) = 0 => s = {})
  BY FS_Subset, FS_CardinalityType, FS_EmptySet
<1>1. 0 \in R
  <2> SUFFICES ASSUME NEW s \in SUBSET S, Cardinality(s) <= 0 PROVE s \in Q
    OBVIOUS
  <2>1. Cardinality(s) = 0
    BY <1>0
  <2> QED
    BY <1>0, <2>1
<1>2. ASSUME NEW n \in Nat, n \in R PROVE n + 1 \in R
  <2> SUFFICES ASSUME NEW s \in SUBSET S, Cardinality(s) <= n + 1 PROVE s \in Q
    BY <1>2
  <2>1. \A t \in SUBSET S : Cardinality(t) < Cardinality(s) => t \in Q
    BY <1>0, <1>2
  <2> QED
    BY <2>1
<1>3. R = Nat
  <2> HIDE DEF R
  <2>1. R \in SUBSET Nat
    BY DEF R
  <2> QED
    BY <1>1, <1>2, <2>1, NatAll
<1>4. \A s \in SUBSET S : Cardinality(s) \in R
  BY <1>0, <1>3
<1> QED
  BY <1>0, <1>4

LEMMA AddersAgree ==
  ASSUME NEW v, NEW S, IsFiniteSet(S), NEW T \in SUBSET S
  PROVE  SumFunctionOnSet(v, T) = Adder(v, S)[T]
<1> DEFINE Q == {s \in SUBSET T : Adder(v, T)[s] = Adder(v, S)[s]}
<1>1. IsFiniteSet(T)
  BY FS_Subset
<1>2. {} \in Q
  BY <1>1, AdderStep
<1>3. ASSUME NEW s \in SUBSET T, s # {},
             \A t \in SUBSET T : Cardinality(t) < Cardinality(s) => t \in Q
      PROVE  s \in Q
  <2> DEFINE t == s \ {Picked(s)}
  <2>1. IsFiniteSet(s)
    BY <1>1, FS_Subset
  <2>2. t \in SUBSET T /\ Cardinality(t) < Cardinality(s)
    BY <1>3, <2>1, Unpick
  <2>3. Adder(v, T)[t] = Adder(v, S)[t]
    BY <1>3, <2>2
  <2>4. Adder(v, T)[s] = v[Picked(s)] + Adder(v, T)[t] /\ Adder(v, S)[s] = v[Picked(s)] + Adder(v, S)[t]
    BY <1>1, <1>3, AdderStep
  <2> QED
    BY <2>3, <2>4
<1>4. Q = SUBSET T
  <2> HIDE DEF Q
  <2>1. Q \in SUBSET (SUBSET T)
    BY DEF Q
  <2> QED
    BY <1>1, <1>2, <1>3, <2>1, SubsetInduction
<1>5. T \in Q
  BY <1>4
<1> QED
  BY <1>5, SumIsAdder

LEMMA SumStep ==
  ASSUME NEW v, NEW S, IsFiniteSet(S)
  PROVE  SumFunctionOnSet(v, S) =
           IF S = {} THEN 0 ELSE v[Picked(S)] + SumFunctionOnSet(v, S \ {Picked(S)})
<1>1. CASE S = {}
  BY <1>1, SumIsAdder, AdderStep
<1>2. CASE S # {}
  <2>1. SumFunctionOnSet(v, S) = v[Picked(S)] + Adder(v, S)[S \ {Picked(S)}]
    <3>1. S \in SUBSET S
      OBVIOUS
    <3>2. Adder(v, S)[S] = IF S = {} THEN 0 ELSE v[Picked(S)] + Adder(v, S)[S \ {Picked(S)}]
      BY <3>1, AdderStep
    <3>3. SumFunctionOnSet(v, S) = Adder(v, S)[S]
      BY SumIsAdder
    <3> QED
      BY <1>2, <3>2, <3>3
  <2>2. SumFunctionOnSet(v, S \ {Picked(S)}) = Adder(v, S)[S \ {Picked(S)}]
    BY AddersAgree
  <2> QED
    BY <1>2, <2>1, <2>2
<1> QED
  BY <1>1, <1>2

LEMMA SumOfNone ==
  ASSUME NEW v
  PROVE  SumFunctionOnSet(v, {}) = 0
BY FS_EmptySet, SumStep

LEMMA SumIsNat ==
  ASSUME NEW S, IsFiniteSet(S), NEW v, \A i \in S : v[i] \in Nat
  PROVE  \A T \in SUBSET S : SumFunctionOnSet(v, T) \in Nat
<1> DEFINE Q == {s \in SUBSET S : SumFunctionOnSet(v, s) \in Nat}
<1>1. {} \in Q
  BY SumOfNone
<1>2. ASSUME NEW s \in SUBSET S, s # {},
             \A t \in SUBSET S : Cardinality(t) < Cardinality(s) => t \in Q
      PROVE  s \in Q
  <2> DEFINE t == s \ {Picked(s)}
  <2>1. IsFiniteSet(s)
    BY FS_Subset
  <2>2. Cardinality(t) < Cardinality(s) /\ Picked(s) \in s
    BY <1>2, <2>1, Unpick
  <2>3. SumFunctionOnSet(v, t) \in Nat
    BY <1>2, <2>2
  <2>4. SumFunctionOnSet(v, s) = v[Picked(s)] + SumFunctionOnSet(v, t)
    BY <1>2, <2>1, SumStep
  <2> QED
    BY <2>2, <2>3, <2>4
<1>3. Q = SUBSET S
  <2> HIDE DEF Q
  <2>1. Q \in SUBSET (SUBSET S)
    BY DEF Q
  <2> QED
    BY <1>1, <1>2, <2>1, SubsetInduction
<1> QED
  BY <1>3

LEMMA SumOfZeros ==
  ASSUME NEW S, IsFiniteSet(S), NEW v, \A i \in S : v[i] = 0
  PROVE  \A T \in SUBSET S : SumFunctionOnSet(v, T) = 0
<1> DEFINE Q == {s \in SUBSET S : SumFunctionOnSet(v, s) = 0}
<1>1. {} \in Q
  BY SumOfNone
<1>2. ASSUME NEW s \in SUBSET S, s # {},
             \A t \in SUBSET S : Cardinality(t) < Cardinality(s) => t \in Q
      PROVE  s \in Q
  <2> DEFINE t == s \ {Picked(s)}
  <2>1. IsFiniteSet(s)
    BY FS_Subset
  <2>2. Cardinality(t) < Cardinality(s) /\ Picked(s) \in s
    BY <1>2, <2>1, Unpick
  <2>3. SumFunctionOnSet(v, t) = 0
    BY <1>2, <2>2
  <2>4. SumFunctionOnSet(v, s) = v[Picked(s)] + SumFunctionOnSet(v, t)
    BY <1>2, <2>1, SumStep
  <2> QED
    BY <2>2, <2>3, <2>4
<1>3. Q = SUBSET S
  <2> HIDE DEF Q
  <2>1. Q \in SUBSET (SUBSET S)
    BY DEF Q
  <2> QED
    BY <1>1, <1>2, <2>1, SubsetInduction
<1> QED
  BY <1>3

(* A sum does not depend on the order: any member may be taken out first.    *)
LEMMA SumTakesOut ==
  ASSUME NEW S, IsFiniteSet(S), NEW v, \A i \in S : v[i] \in Nat, NEW x \in S
  PROVE  SumFunctionOnSet(v, S) = v[x] + SumFunctionOnSet(v, S \ {x})
<1> DEFINE Sum(s) == SumFunctionOnSet(v, s)
           Q == {s \in SUBSET S : \A y \in s : Sum(s) = v[y] + Sum(s \ {y})}
<1> HIDE DEF Sum
<1>0. \A s \in SUBSET S : Sum(s) \in Nat
  BY SumIsNat DEF Sum
<1>1. {} \in Q
  OBVIOUS
<1>2. ASSUME NEW s \in SUBSET S, s # {},
             \A t \in SUBSET S : Cardinality(t) < Cardinality(s) => t \in Q
      PROVE  s \in Q
  <2> SUFFICES ASSUME NEW y \in s PROVE Sum(s) = v[y] + Sum(s \ {y})
    OBVIOUS
  <2> DEFINE p == Picked(s)
  <2>1. IsFiniteSet(s)
    BY FS_Subset
  <2>2. p \in s /\ Sum(s) = v[p] + Sum(s \ {p})
    BY <1>2, <2>1, Unpick, SumStep DEF Sum
  <2> HIDE DEF p
  <2>3. CASE p = y
    BY <2>2, <2>3
  <2>4. CASE p # y
    <3>1. \A z \in s : Cardinality(s \ {z}) < Cardinality(s)
      <4>1. \A z \in s : Cardinality(s \ {z}) = Cardinality(s) - 1
        BY <2>1, FS_RemoveElement
      <4>2. Cardinality(s) \in Nat
        BY <2>1, FS_CardinalityType
      <4> QED
        BY <4>1, <4>2
    <3>2. s \ {p} \in Q /\ s \ {y} \in Q
      BY <1>2, <2>2, <3>1
    <3>3. Sum(s \ {p}) = v[y] + Sum((s \ {p}) \ {y})
      BY <2>4, <3>2
    <3>4. Sum(s \ {y}) = v[p] + Sum((s \ {y}) \ {p})
      BY <2>2, <2>4, <3>2
    <3>5. (s \ {p}) \ {y} = (s \ {y}) \ {p}
      OBVIOUS
    <3>6. Sum((s \ {y}) \ {p}) \in Nat /\ v[p] \in Nat /\ v[y] \in Nat
      BY <1>0, <2>2
    <3> QED
      BY <2>2, <3>3, <3>4, <3>5, <3>6
  <2> QED
    BY <2>3, <2>4
<1>3. Q = SUBSET S
  <2> HIDE DEF Q
  <2>1. Q \in SUBSET (SUBSET S)
    BY DEF Q
  <2> QED
    BY <1>1, <1>2, <2>1, SubsetInduction
<1>4. S \in Q
  BY <1>3
<1> QED
  BY <1>4 DEF Sum

LEMMA SumsAgree ==
  ASSUME NEW S, IsFiniteSet(S), NEW v, NEW w, \A i \in S : v[i] = w[i]
  PROVE  SumFunctionOnSet(v, S) = SumFunctionOnSet(w, S)
<1> DEFINE Q == {s \in SUBSET S : SumFunctionOnSet(v, s) = SumFunctionOnSet(w, s)}
<1>1. {} \in Q
  BY SumOfNone
<1>2. ASSUME NEW s \in SUBSET S, s # {},
             \A t \in SUBSET S : Cardinality(t) < Cardinality(s) => t \in Q
      PROVE  s \in Q
  <2> DEFINE t == s \ {Picked(s)}
  <2>1. IsFiniteSet(s)
    BY FS_Subset
  <2>2. Cardinality(t) < Cardinality(s) /\ Picked(s) \in s
    BY <1>2, <2>1, Unpick
  <2>3. SumFunctionOnSet(v, t) = SumFunctionOnSet(w, t)
    BY <1>2, <2>2
  <2>4. /\ SumFunctionOnSet(v, s) = v[Picked(s)] + SumFunctionOnSet(v, t)
        /\ SumFunctionOnSet(w, s) = w[Picked(s)] + SumFunctionOnSet(w, t)
    BY <1>2, <2>1, SumStep
  <2> QED
    BY <2>2, <2>3, <2>4
<1>3. Q = SUBSET S
  <2> HIDE DEF Q
  <2>1. Q \in SUBSET (SUBSET S)
    BY DEF Q
  <2> QED
    BY <1>1, <1>2, <2>1, SubsetInduction
<1> QED
  BY <1>3

(* What one member contributes; a change of that member alone changes a sum  *)
(* by the difference of its contributions.                                   *)
Share(v, S, x) == IF x \in S THEN v[x] ELSE 0

LEMMA SumShare ==
  ASSUME NEW S, IsFiniteSet(S), NEW v, \A i \in S : v[i] \in Nat, NEW x
  PROVE  /\ SumFunctionOnSet(v, S) = Share(v, S, x) + SumFunctionOnSet(v, S \ {x})
         /\ SumFunctionOnSet(v, S) \in Nat /\ SumFunctionOnSet(v, S \ {x}) \in Nat
         /\ Share(v, S, x) \in Nat
<1>1. SumFunctionOnSet(v, S) \in Nat /\ SumFunctionOnSet(v, S \ {x}) \in Nat
  BY SumIsNat
<1>2. CASE x \in S
  BY <1>1, <1>2, SumTakesOut DEF Share
<1>3. CASE x \notin S
  <2>1. S \ {x} = S
    BY <1>3
  <2> QED
    BY <1>1, <1>3, <2>1 DEF Share
<1> QED
  BY <1>2, <1>3

LEMMA SumChange ==
  ASSUME NEW S, NEW R, IsFiniteSet(S), IsFiniteSet(R), NEW x, S \ {x} = R \ {x},
         NEW v, \A i \in S : v[i] \in Nat, NEW w, \A i \in R : w[i] \in Nat,
         \A i \in S \ {x} : v[i] = w[i]
  PROVE  /\ SumFunctionOnSet(w, R) = SumFunctionOnSet(v, S) - Share(v, S, x) + Share(w, R, x)
         /\ SumFunctionOnSet(v, S) \in Nat /\ Share(v, S, x) \in Nat /\ Share(w, R, x) \in Nat
<1>1. IsFiniteSet(S \ {x})
  BY FS_RemoveElement
<1>2. SumFunctionOnSet(v, S \ {x}) = SumFunctionOnSet(w, R \ {x})
  BY <1>1, SumsAgree
<1> QED
  BY <1>2, SumShare

-----------------------------------------------------------------------------
USE BudgetAssumption

Handles == {"none", "live", "dropping"}

(* An entry of the tree is told from a free slot by its one call. *)
LEMMA AllocationIsNotFree ==
    ASSUME NEW a \in Allocation
    PROVE  a # Free
BY DEF Allocation, Free

LEMMA AllocationTypes ==
    ASSUME NEW a \in Allocation
    PROVE  a.task \in Tasks /\ a.tokens \in Nat /\ a.calls \in Nat
<1>1. a.tokens \in Estimates
  BY DEF Allocation
<1>2. a.calls = 1
  BY DEF Allocation
<1>3. a.task \in Tasks
  BY DEF Allocation
<1>4. a.tokens \in Nat
  BY <1>1
<1>5. a.calls \in Nat
  BY <1>2
<1> QED
  BY <1>3, <1>4, <1>5

LEMMA FreeIsNotStarted == ~Free.started /\ Free.task \in Tasks
BY DEF Free

(* What is behind a handle that has not gone. *)
LEMMA OwnedIsAllocated ==
    ASSUME TypeOK, NEW i \in Slots, handle[i] # "none"
    PROVE  reserved[i] \in Allocation
BY DEF TypeOK, Owned

-----------------------------------------------------------------------------
LEMMA BookType ==
    ASSUME TypeOK, NEW i \in Slots, NEW n \in Nat, NEW c \in Nat, Book(i, n, c),
           handle[i] # "none", UNCHANGED <<depth, expired>>
    PROVE  TypeOK'
<1>1. reserved[i].task \in Tasks
  BY OwnedIsAllocated DEF Allocation
<1>2. taskSpent' \in [Tasks -> Nat]
  BY <1>1 DEF TypeOK, Book
<1>3. reserved' \in [Slots -> Allocation \cup {Free}] /\ handle' \in [Slots -> Handles]
  BY DEF TypeOK, Book, Handles
<1>4. Owned'
  BY DEF TypeOK, Book, Owned
<1> QED
  BY <1>2, <1>3, <1>4 DEF TypeOK, Book, Handles

LEMMA RefundType ==
    ASSUME TypeOK, NEW i \in Slots, Refund(i), UNCHANGED <<depth, expired>>
    PROVE  TypeOK'
<1>1. reserved' \in [Slots -> Allocation \cup {Free}] /\ handle' \in [Slots -> Handles]
  BY DEF TypeOK, Refund, Handles
<1>2. Owned'
  BY DEF TypeOK, Refund, Owned
<1> QED
  BY <1>1, <1>2 DEF TypeOK, Refund, Handles

LEMMA LeaveType ==
    ASSUME TypeOK, NEW i \in Slots, LeaveToDrop(i), handle[i] # "none",
           UNCHANGED <<depth, expired>>
    PROVE  TypeOK'
<1>1. handle' \in [Slots -> Handles]
  BY DEF TypeOK, LeaveToDrop, Handles
<1>2. Owned'
  BY DEF TypeOK, LeaveToDrop, Owned
<1> QED
  BY <1>1, <1>2 DEF TypeOK, LeaveToDrop, Handles

-----------------------------------------------------------------------------
LEMMA SlotType ==
    ASSUME TypeOK, NEW i \in Slots, SlotStep(i)
    PROVE  TypeOK'
<1>1. ASSUME NEW k \in Tasks, NEW n \in Estimates, Reserve(i, k, n)
      PROVE  TypeOK'
  <2> DEFINE new == [task |-> k, tokens |-> n, calls |-> 1, started |-> FALSE]
  <2>1. new \in Allocation
    BY DEF Allocation
  <2>2. new # Free
    BY <2>1, AllocationIsNotFree
  <2> HIDE DEF new
  <2>3. reserved' = [reserved EXCEPT ![i] = new] /\ handle' = [handle EXCEPT ![i] = "live"]
    BY <1>1 DEF Reserve, new
  <2>4. reserved' \in [Slots -> Allocation \cup {Free}] /\ handle' \in [Slots -> Handles]
    BY <2>1, <2>3 DEF TypeOK, Handles
  <2>5. Owned'
    BY <2>2, <2>3 DEF TypeOK, Owned
  <2> QED
    BY <1>1, <2>4, <2>5 DEF TypeOK, Reserve, Handles
<1>2. CASE Start(i)
  <2> DEFINE sent == [reserved[i] EXCEPT !.started = TRUE]
  <2>1. reserved[i] \in Allocation
    BY <1>2, OwnedIsAllocated DEF Start
  <2>2. sent \in Allocation
    BY <2>1 DEF Allocation
  <2>3. sent # Free
    BY <2>2, AllocationIsNotFree
  <2>4. reserved' = [reserved EXCEPT ![i] = sent]
    BY <1>2 DEF Start
  <2> HIDE DEF sent
  <2>5. reserved' \in [Slots -> Allocation \cup {Free}]
    BY <2>2, <2>4 DEF TypeOK
  <2>6. Owned'
    BY <1>2, <2>3, <2>4 DEF TypeOK, Owned, Start
  <2> QED
    BY <1>2, <2>5, <2>6 DEF TypeOK, Start
<1>3. ASSUME NEW n \in Usages, NEW c \in CallCounts, Settle(i, n, c)
      PROVE  TypeOK'
  <2>1. n \in Nat /\ c \in Nat
    OBVIOUS
  <2>2. CASE Book(i, n, c)
    BY <1>3, <2>1, <2>2, BookType DEF Settle
  <2>3. CASE LeaveToDrop(i)
    BY <1>3, <2>3, LeaveType DEF Settle
  <2> QED
    BY <1>3, <2>2, <2>3 DEF Settle
<1>4. CASE Release(i)
  BY <1>4, LeaveType, RefundType DEF Release
<1>5. CASE Drop(i)
  <2>1. reserved[i] \in Allocation
    BY <1>5, OwnedIsAllocated DEF Drop
  <2>2. reserved[i].tokens \in Nat /\ reserved[i].calls \in Nat
    BY <2>1, AllocationTypes
  <2> QED
    BY <1>5, <2>2, BookType, RefundType DEF Drop
<1> QED
  BY <1>1, <1>2, <1>3, <1>4, <1>5 DEF SlotStep

(* The types of the tree's tables, and that its entries and the values that  *)
(* own them come and go together, for every order of reservations, answers,  *)
(* refused settlements and dropped futures: budget cannot leak.              *)
THEOREM BudgetTypeCorrect == Spec => []TypeOK
<1>1. Init => TypeOK
  <2> SUFFICES ASSUME Init PROVE TypeOK
    OBVIOUS
  <2>1. depth \in [Tasks -> -1 .. MaxDepth]
    BY DEF Init
  <2>2. Owned
    BY DEF Init, Owned
  <2> QED
    BY <2>1, <2>2 DEF Init, TypeOK
<1>2. TypeOK /\ [Next]_budgetVars => TypeOK'
  <2> SUFFICES ASSUME TypeOK, [Next]_budgetVars PROVE TypeOK'
    OBVIOUS
  <2>1. CASE UNCHANGED budgetVars
    BY <2>1 DEF TypeOK, Owned, budgetVars
  <2>2. ASSUME NEW parent \in Tasks, NEW child \in Tasks, RegisterTask(parent, child)
        PROVE  TypeOK'
    <3>1. depth[parent] + 1 \in -1 .. MaxDepth
      BY <2>2 DEF TypeOK, RegisterTask
    <3>2. depth' \in [Tasks -> -1 .. MaxDepth]
      BY <2>2, <3>1 DEF TypeOK, RegisterTask
    <3> QED
      BY <2>2, <3>2 DEF TypeOK, Owned, RegisterTask
  <2>3. CASE Expire
    BY <2>3 DEF TypeOK, Owned, Expire
  <2>4. ASSUME NEW i \in Slots, SlotStep(i)
        PROVE  TypeOK'
    BY <2>4, SlotType
  <2> QED
    BY <2>1, <2>2, <2>3, <2>4 DEF Next
<1> QED
  BY <1>1, <1>2, PTL DEF Spec

-----------------------------------------------------------------------------
(* What one settlement books.  A slot that some other step touches does not  *)
(* settle: the mutex makes a step the step of one slot.                      *)
Charged(i) ==
    Settles(i)
      => /\ calls' >= calls + reserved[i].calls
         /\ handle[i] = "dropping" => spent' = spent + reserved[i].tokens

LEMMA StepCharges ==
    ASSUME TypeOK, NEW j \in Slots, SlotStep(j), NEW i \in Slots
    PROVE  Charged(i)
<1>1. CASE i # j
  BY <1>1, FreeIsNotStarted
     DEF TypeOK, Charged, Settles, SlotStep, Reserve, Start, Settle, Release, Drop,
         Book, Refund, LeaveToDrop
<1>2. CASE i = j
  <2>1. CASE Start(i) \/ Release(i) \/ LeaveToDrop(i)
    BY <2>1, OwnedIsAllocated, FreeIsNotStarted
       DEF TypeOK, Charged, Settles, Start, Release, Refund, LeaveToDrop
  <2>2. ASSUME NEW k \in Tasks, NEW n \in Estimates, Reserve(i, k, n)
        PROVE  Charged(i)
    BY <2>2, FreeIsNotStarted DEF TypeOK, Owned, Charged, Settles, Reserve
  <2>3. ASSUME NEW n \in Usages, NEW c \in CallCounts, Settle(i, n, c)
        PROVE  Charged(i)
    <3>1. CASE LeaveToDrop(i)
      BY <3>1, <2>1
    <3>2. CASE Book(i, n, c) /\ c >= reserved[i].calls
      <4>1. reserved[i].calls \in Nat /\ calls \in Nat /\ c \in Nat
        BY <2>3, OwnedIsAllocated DEF TypeOK, Settle, Allocation
      <4> QED
        BY <2>3, <3>2, <4>1 DEF Charged, Book, Settle
    <3> QED
      BY <2>3, <3>1, <3>2 DEF Settle
  <2>4. CASE Drop(i)
    <3>1. reserved[i].calls \in Nat /\ calls \in Nat
      BY <2>4, OwnedIsAllocated DEF TypeOK, Drop, Allocation
    <3> QED
      BY <2>4, <3>1 DEF Charged, Settles, Drop, Book
  <2> QED
    BY <1>2, <2>1, <2>2, <2>3, <2>4 DEF SlotStep
<1> QED
  BY <1>1, <1>2

(* A dispatched request is never free, whatever ended its reservation: its   *)
(* calls stay charged, and its estimate unless a usage was accepted.         *)
THEOREM DispatchedIsCharged == Spec => DispatchIsCharged
<1>1. TypeOK /\ [Next]_budgetVars => [\A i \in Slots : Charged(i)]_budgetVars
  <2> SUFFICES ASSUME TypeOK, Next, NEW i \in Slots PROVE Charged(i)
    OBVIOUS
  <2>1. ASSUME NEW parent \in Tasks, NEW child \in Tasks, RegisterTask(parent, child)
        PROVE  Charged(i)
    BY <2>1, FreeIsNotStarted DEF Charged, Settles, RegisterTask
  <2>2. CASE Expire
    BY <2>2, FreeIsNotStarted DEF Charged, Settles, Expire
  <2> QED
    BY <2>1, <2>2, StepCharges DEF Next
<1>2. (\A i \in Slots : Charged(i))
        <=> \A i \in Slots :
              Settles(i)
                => /\ calls' >= calls + reserved[i].calls
                   /\ handle[i] = "dropping" => spent' = spent + reserved[i].tokens
  BY DEF Charged
<1> QED
  BY <1>1, <1>2, BudgetTypeCorrect, PTL DEF Spec, DispatchIsCharged

-----------------------------------------------------------------------------
(* What the tree holds, in numbers.                                          *)
LEMMA AmountTypes ==
    ASSUME NEW a \in Allocation \cup {Free}
    PROVE  a.tokens \in Nat /\ a.calls \in Nat /\ a.task \in Tasks
<1>1. CASE a \in Allocation
  BY <1>1, AllocationTypes
<1>2. CASE a = Free
  BY <1>2 DEF Free
<1> QED
  BY <1>1, <1>2

(* A step that touches one slot changes what is held by what that slot held  *)
(* before and holds after: in the tree, in its calls, and in each task.      *)
OnlySlot(i) == \A j \in Slots : j # i => reserved'[j] = reserved[j]

Part(a, k) == IF a.task = k THEN a.tokens ELSE 0

LEMMA HeldChange ==
    ASSUME TypeOK, TypeOK', NEW i \in Slots, OnlySlot(i)
    PROVE  /\ Held(Slots)' = Held(Slots) - reserved[i].tokens + reserved'[i].tokens
           /\ HeldCalls' = HeldCalls - reserved[i].calls + reserved'[i].calls
           /\ Held(Slots) \in Nat /\ HeldCalls \in Nat
<1> DEFINE C == [j \in Slots |-> reserved[j].calls]
           D == [j \in Slots |-> reserved'[j].calls]
           E == [j \in Slots |-> reserved'[j].tokens]
<1>1. /\ \A j \in Slots : Tokens[j] \in Nat /\ C[j] \in Nat
      /\ \A j \in Slots : E[j] \in Nat /\ D[j] \in Nat
  BY AmountTypes DEF TypeOK, Tokens
<1>2. \A j \in Slots \ {i} : Tokens[j] = E[j] /\ C[j] = D[j]
  BY DEF OnlySlot, Tokens
<1>3. /\ Share(Tokens, Slots, i) = reserved[i].tokens /\ Share(E, Slots, i) = reserved'[i].tokens
      /\ Share(C, Slots, i) = reserved[i].calls /\ Share(D, Slots, i) = reserved'[i].calls
  BY DEF Share, Tokens
<1>4. /\ Held(Slots) = SumFunctionOnSet(Tokens, Slots) /\ Held(Slots)' = SumFunctionOnSet(E, Slots)
      /\ HeldCalls = SumFunctionOnSet(C, Slots) /\ HeldCalls' = SumFunctionOnSet(D, Slots)
  BY DEF Held, HeldCalls, Tokens
<1> HIDE DEF C, D, E
<1>5. /\ SumFunctionOnSet(E, Slots) = SumFunctionOnSet(Tokens, Slots)
                                        - Share(Tokens, Slots, i) + Share(E, Slots, i)
      /\ SumFunctionOnSet(Tokens, Slots) \in Nat
  BY <1>1, <1>2, SumChange
<1>6. /\ SumFunctionOnSet(D, Slots) = SumFunctionOnSet(C, Slots)
                                        - Share(C, Slots, i) + Share(D, Slots, i)
      /\ SumFunctionOnSet(C, Slots) \in Nat
  BY <1>1, <1>2, SumChange
<1> QED
  BY <1>3, <1>4, <1>5, <1>6

LEMMA HeldByChange ==
    ASSUME TypeOK, TypeOK', NEW i \in Slots, OnlySlot(i), NEW k \in Tasks
    PROVE  /\ HeldBy(k)' = HeldBy(k) - Part(reserved[i], k) + Part(reserved'[i], k)
           /\ HeldBy(k) \in Nat
<1> DEFINE E == [j \in Slots |-> reserved'[j].tokens]
           S == {j \in Slots : reserved[j].task = k}
           R == {j \in Slots : reserved'[j].task = k}
<1>1. /\ \A j \in S : Tokens[j] \in Nat
      /\ \A j \in R : E[j] \in Nat
  BY AmountTypes DEF TypeOK, Tokens
<1>2. S \ {i} = R \ {i} /\ \A j \in S \ {i} : Tokens[j] = E[j]
  BY DEF OnlySlot, Tokens
<1>3. Share(Tokens, S, i) = Part(reserved[i], k) /\ Share(E, R, i) = Part(reserved'[i], k)
  BY DEF Share, Part, Tokens
<1>4. HeldBy(k) = SumFunctionOnSet(Tokens, S) /\ HeldBy(k)' = SumFunctionOnSet(E, R)
  BY DEF HeldBy, Held, Tokens
<1>5. IsFiniteSet(S) /\ IsFiniteSet(R)
  BY FS_Subset
<1> HIDE DEF E, S, R
<1>6. /\ SumFunctionOnSet(E, R) = SumFunctionOnSet(Tokens, S) - Share(Tokens, S, i) + Share(E, R, i)
      /\ SumFunctionOnSet(Tokens, S) \in Nat
  BY <1>1, <1>2, <1>5, SumChange
<1> QED
  BY <1>3, <1>4, <1>6

(* What is committed, and what a step of one slot does to it.                *)
LEMMA CommitChange ==
    ASSUME TypeOK, TypeOK', NEW i \in Slots, OnlySlot(i)
    PROVE  /\ Committed' = spent' + Held(Slots) - reserved[i].tokens + reserved'[i].tokens
           /\ CommittedCalls' = calls' + HeldCalls - reserved[i].calls + reserved'[i].calls
           /\ \A k \in Tasks : CommittedBy(k)' = taskSpent'[k] + HeldBy(k)
                                 - Part(reserved[i], k) + Part(reserved'[i], k)
           /\ Committed' \in Int /\ CommittedCalls' \in Int
           /\ \A k \in Tasks : CommittedBy(k)' \in Int
<1>1. spent' \in Nat /\ calls' \in Nat /\ \A k \in Tasks : taskSpent'[k] \in Nat
  BY DEF TypeOK
<1>2. /\ reserved[i].tokens \in Nat /\ reserved'[i].tokens \in Nat
      /\ reserved[i].calls \in Nat /\ reserved'[i].calls \in Nat
  BY AmountTypes DEF TypeOK
<1>3. \A k \in Tasks : Part(reserved[i], k) \in Nat /\ Part(reserved'[i], k) \in Nat
  BY <1>2 DEF Part
<1>4. Committed' = spent' + Held(Slots)' /\ CommittedCalls' = calls' + HeldCalls'
  BY DEF Committed, CommittedCalls
<1>5. ASSUME NEW k \in Tasks
      PROVE  /\ CommittedBy(k)' = taskSpent'[k] + HeldBy(k) - Part(reserved[i], k) + Part(reserved'[i], k)
             /\ CommittedBy(k)' \in Int
  <2>1. CommittedBy(k)' = taskSpent'[k] + HeldBy(k)'
    BY DEF CommittedBy
  <2> QED
    BY <1>1, <1>3, <2>1, HeldByChange
<1> QED
  BY <1>1, <1>2, <1>4, <1>5, HeldChange

(* The amounts of a state whose types are right.                             *)
LEMMA CommittedTypes ==
    ASSUME TypeOK
    PROVE  /\ Committed \in Nat /\ CommittedCalls \in Nat /\ Held(Slots) \in Nat /\ HeldCalls \in Nat
           /\ \A k \in Tasks : CommittedBy(k) \in Nat /\ HeldBy(k) \in Nat
<1> DEFINE C == [j \in Slots |-> reserved[j].calls]
<1>1. \A j \in Slots : Tokens[j] \in Nat /\ C[j] \in Nat
  BY AmountTypes DEF TypeOK, Tokens
<1>2. HeldCalls = SumFunctionOnSet(C, Slots)
  BY DEF HeldCalls
<1> HIDE DEF C
<1>3. Held(Slots) \in Nat /\ HeldCalls \in Nat /\ \A k \in Tasks : HeldBy(k) \in Nat
  BY <1>1, <1>2, SumIsNat DEF Held, HeldBy
<1> QED
  BY <1>3 DEF TypeOK, Committed, CommittedCalls, CommittedBy

-----------------------------------------------------------------------------
(* The steps that only take away from what is committed, or leave it alone.  *)
Kept == TokensKept /\ CallsKept /\ NothingFitsOverdrawn

LEMMA NoMoreCommitted ==
    ASSUME TypeOK, TypeOK',
           Committed' <= Committed, CommittedCalls' <= CommittedCalls,
           \A k \in Tasks : CommittedBy(k)' <= CommittedBy(k),
           \A i \in Slots : reserved[i] = Free => reserved'[i] = Free,
           Committed' \in Int, CommittedCalls' \in Int, \A k \in Tasks : CommittedBy(k)' \in Int
    PROVE  Kept
<1>1. ~(Committed' > Committed) /\ ~(CommittedCalls' > CommittedCalls)
  BY CommittedTypes
<1>2. \A k \in Tasks : ~(CommittedBy(k)' > CommittedBy(k))
  BY CommittedTypes
<1> QED
  BY <1>1, <1>2 DEF Kept, TokensKept, CallsKept, NothingFitsOverdrawn

LEMMA ReserveKeeps ==
    ASSUME TypeOK, TypeOK', NEW i \in Slots, NEW k \in Tasks, NEW n \in Estimates, Reserve(i, k, n)
    PROVE  Kept
<1> DEFINE new == [task |-> k, tokens |-> n, calls |-> 1, started |-> FALSE]
<1>1. /\ reserved' = [reserved EXCEPT ![i] = new] /\ reserved[i] = Free
      /\ UNCHANGED <<taskSpent, spent, calls>> /\ Fits(k, n)
  BY DEF Reserve, TypeOK, Owned
<1>2. OnlySlot(i) /\ reserved'[i] = new
  BY <1>1 DEF TypeOK, OnlySlot
<1>3. /\ Committed' = Committed + n /\ CommittedCalls' = CommittedCalls + 1
      /\ \A t \in Tasks : CommittedBy(t)' = CommittedBy(t) + (IF t = k THEN n ELSE 0)
  <2>1. n \in Nat /\ reserved[i].tokens = 0 /\ reserved[i].calls = 0
        /\ \A t \in Tasks : Part(reserved[i], t) = 0
    BY <1>1 DEF Free, Part
  <2>2. reserved'[i].tokens = n /\ reserved'[i].calls = 1
        /\ \A t \in Tasks : Part(reserved'[i], t) = IF t = k THEN n ELSE 0
    BY <1>2 DEF Part
  <2>3. /\ spent \in Nat /\ calls \in Nat /\ Held(Slots) \in Nat /\ HeldCalls \in Nat
        /\ \A t \in Tasks : taskSpent[t] \in Nat /\ HeldBy(t) \in Nat
    BY CommittedTypes DEF TypeOK
  <2>4. Committed' = spent + Held(Slots) - 0 + n /\ CommittedCalls' = calls + HeldCalls - 0 + 1
    BY <1>1, <1>2, <2>1, <2>2, CommitChange
  <2>5. ASSUME NEW t \in Tasks
        PROVE  CommittedBy(t)' = CommittedBy(t) + (IF t = k THEN n ELSE 0)
    <3>1. CommittedBy(t)' = taskSpent'[t] + HeldBy(t) - Part(reserved[i], t) + Part(reserved'[i], t)
      BY <1>2, CommitChange
    <3>2. /\ Part(reserved[i], t) = 0 /\ taskSpent'[t] = taskSpent[t]
          /\ Part(reserved'[i], t) = IF t = k THEN n ELSE 0
      BY <1>1, <2>1, <2>2
    <3>3. CommittedBy(t)' = taskSpent[t] + HeldBy(t) - 0 + (IF t = k THEN n ELSE 0)
      BY <3>1, <3>2
    <3> QED
      BY <2>1, <2>3, <3>3 DEF CommittedBy
  <2> QED
    BY <2>1, <2>3, <2>4, <2>5 DEF Committed, CommittedCalls
<1>4. /\ n \in Nat /\ spent \in Nat /\ taskSpent[k] \in Nat /\ calls \in Nat
      /\ Held(Slots) \in Nat /\ HeldBy(k) \in Nat /\ HeldCalls \in Nat
  BY CommittedTypes DEF TypeOK
<1>5. ~(Committed' > TotalTokens /\ Committed' > Committed)
  BY <1>1, <1>3, <1>4 DEF Fits, Monus, Committed
<1>6. \A t \in Tasks : ~(CommittedBy(t)' > TaskTokens /\ CommittedBy(t)' > CommittedBy(t))
  <2> SUFFICES ASSUME NEW t \in Tasks
               PROVE  ~(CommittedBy(t)' > TaskTokens /\ CommittedBy(t)' > CommittedBy(t))
    OBVIOUS
  <2>1. CASE t = k
    BY <1>1, <1>3, <1>4, <2>1 DEF Fits, Monus, CommittedBy
  <2>2. CASE t # k
    BY <1>3, <2>2, CommittedTypes
  <2> QED
    BY <2>1, <2>2
<1>7. ~(CommittedCalls' > MaxModelCalls)
  BY <1>1, <1>3, <1>4 DEF Fits, CommittedCalls
<1>8. NothingFitsOverdrawn
  <2>1. reserved'[i].task = k
    BY <1>2
  <2> QED
    BY <1>1, <1>2, <2>1 DEF Fits, NothingFitsOverdrawn, OnlySlot
<1> QED
  BY <1>5, <1>6, <1>7, <1>8 DEF Kept, TokensKept, CallsKept

(* What a settlement books beyond the estimate is what it overran by.        *)
LEMMA BookKeeps ==
    ASSUME TypeOK, TypeOK', NEW i \in Slots, handle[i] # "none", reserved[i].started,
           NEW n \in Nat, NEW c \in Nat, Book(i, n, c)
    PROVE  Kept
<1> DEFINE a == reserved[i]
<1>1. a \in Allocation
  BY OwnedIsAllocated
<1>2. /\ reserved' = [reserved EXCEPT ![i] = Free] /\ spent' = spent + n /\ calls' = calls + c
      /\ taskSpent' = [taskSpent EXCEPT ![a.task] = taskSpent[a.task] + n]
  BY DEF Book
<1>3. OnlySlot(i) /\ reserved'[i] = Free
  BY <1>2 DEF TypeOK, OnlySlot
<1>4. a.tokens \in Nat /\ a.calls \in Nat /\ a.task \in Tasks
  BY <1>1, AllocationTypes
<1>5. /\ spent \in Nat /\ calls \in Nat /\ \A k \in Tasks : taskSpent[k] \in Nat
      /\ Held(Slots) \in Nat /\ HeldCalls \in Nat /\ \A k \in Tasks : HeldBy(k) \in Nat
  BY CommittedTypes DEF TypeOK
<1>6. /\ Committed' = Committed + n - a.tokens /\ CommittedCalls' = CommittedCalls + c - a.calls
      /\ \A k \in Tasks : CommittedBy(k)' = CommittedBy(k) + (IF k = a.task THEN n - a.tokens ELSE 0)
  <2>1. /\ reserved'[i].tokens = 0 /\ reserved'[i].calls = 0
        /\ \A k \in Tasks : Part(reserved'[i], k) = 0
    BY <1>3 DEF Free, Part
  <2>2. \A k \in Tasks : Part(a, k) = IF k = a.task THEN a.tokens ELSE 0
    BY DEF Part
  <2>3. \A k \in Tasks : taskSpent'[k] = taskSpent[k] + (IF k = a.task THEN n ELSE 0)
    BY <1>2, <1>4, <1>5 DEF TypeOK
  <2> HIDE DEF a
  <2>4. /\ Committed' = spent' + Held(Slots) - a.tokens + reserved'[i].tokens
        /\ CommittedCalls' = calls' + HeldCalls - a.calls + reserved'[i].calls
        /\ \A k \in Tasks : CommittedBy(k)' = taskSpent'[k] + HeldBy(k)
                              - Part(a, k) + Part(reserved'[i], k)
    BY <1>3, CommitChange DEF a
  <2>5. Committed = spent + Held(Slots) /\ CommittedCalls = calls + HeldCalls
        /\ \A k \in Tasks : CommittedBy(k) = taskSpent[k] + HeldBy(k)
    BY DEF Committed, CommittedCalls, CommittedBy
  <2>6. ASSUME NEW k \in Tasks
        PROVE  CommittedBy(k)' = CommittedBy(k) + (IF k = a.task THEN n - a.tokens ELSE 0)
    BY <1>4, <1>5, <2>1, <2>2, <2>3, <2>4, <2>5
  <2> QED
    BY <1>2, <1>4, <1>5, <2>1, <2>4, <2>5, <2>6
<1>7. Settles(i)
  BY <1>3 DEF Settles
<1>8. /\ n > a.tokens => Overran(i)
      /\ c > a.calls => Overcalled(i)
  BY <1>2, <1>4, <1>5, <1>7 DEF Overran, Overcalled
<1>9. NothingFitsOverdrawn
  BY <1>3 DEF NothingFitsOverdrawn, OnlySlot
<1> HIDE DEF a
<1>10. Committed \in Nat /\ CommittedCalls \in Nat /\ \A k \in Tasks : CommittedBy(k) \in Nat
  BY CommittedTypes
<1>11. TokensKept
  <2>1. Committed' > Committed => Overran(i)
    BY <1>4, <1>6, <1>8, <1>10
  <2>2. \A k \in Tasks : CommittedBy(k)' > CommittedBy(k) => a.task = k /\ Overran(i)
    BY <1>4, <1>6, <1>8, <1>10
  <2> QED
    BY <2>1, <2>2 DEF TokensKept, a
<1>12. CallsKept
  BY <1>4, <1>6, <1>8, <1>10 DEF CallsKept
<1> QED
  BY <1>9, <1>11, <1>12 DEF Kept

LEMMA RefundKeeps ==
    ASSUME TypeOK, TypeOK', NEW i \in Slots, Refund(i)
    PROVE  Kept
<1>1. /\ reserved' = [reserved EXCEPT ![i] = Free] /\ UNCHANGED <<taskSpent, spent, calls>>
  BY DEF Refund
<1>2. OnlySlot(i) /\ reserved'[i] = Free
  BY <1>1 DEF TypeOK, OnlySlot
<1>3. /\ reserved'[i].tokens = 0 /\ reserved'[i].calls = 0 /\ reserved[i].tokens \in Nat
      /\ reserved[i].calls \in Nat
      /\ \A k \in Tasks : Part(reserved'[i], k) = 0 /\ Part(reserved[i], k) \in Nat
  BY <1>2, AmountTypes DEF TypeOK, Free, Part
<1>4. Committed' <= Committed /\ CommittedCalls' <= CommittedCalls
  BY <1>1, <1>2, <1>3, CommitChange, CommittedTypes DEF TypeOK, Committed, CommittedCalls
<1>5. \A k \in Tasks : CommittedBy(k)' <= CommittedBy(k) /\ CommittedBy(k)' \in Int
  <2> SUFFICES ASSUME NEW k \in Tasks
               PROVE  CommittedBy(k)' <= CommittedBy(k) /\ CommittedBy(k)' \in Int
    OBVIOUS
  <2>1. CommittedBy(k)' = taskSpent[k] + HeldBy(k) - Part(reserved[i], k) + 0
    BY <1>1, <1>2, <1>3, CommitChange
  <2>2. taskSpent[k] \in Nat /\ HeldBy(k) \in Nat /\ Part(reserved[i], k) \in Nat
    BY <1>3, CommittedTypes DEF TypeOK
  <2> QED
    BY <2>1, <2>2 DEF CommittedBy
<1>6. \A j \in Slots : reserved[j] = Free => reserved'[j] = Free
  BY <1>2 DEF OnlySlot
<1> QED
  BY <1>2, <1>4, <1>5, <1>6, CommitChange, NoMoreCommitted

LEMMA SameKeeps ==
    ASSUME TypeOK, TypeOK', UNCHANGED <<taskSpent, spent, calls, reserved>>
    PROVE  Kept
<1>1. /\ Committed' = Committed /\ CommittedCalls' = CommittedCalls
      /\ \A k \in Tasks : CommittedBy(k)' = CommittedBy(k)
  BY DEF Committed, CommittedCalls, CommittedBy, HeldBy, Held, HeldCalls, Tokens
<1> QED
  BY <1>1, NoMoreCommitted, CommittedTypes

LEMMA StartKeeps ==
    ASSUME TypeOK, TypeOK', NEW i \in Slots, Start(i)
    PROVE  Kept
<1>1. reserved[i] \in Allocation
  BY OwnedIsAllocated DEF Start
<1>2. /\ reserved' = [reserved EXCEPT ![i] = [reserved[i] EXCEPT !.started = TRUE]]
      /\ UNCHANGED <<taskSpent, spent, calls>>
  BY DEF Start
<1>3. OnlySlot(i) /\ reserved'[i] = [reserved[i] EXCEPT !.started = TRUE]
  BY <1>2 DEF TypeOK, OnlySlot
<1>4. /\ reserved'[i].tokens = reserved[i].tokens /\ reserved'[i].calls = reserved[i].calls
      /\ reserved'[i].task = reserved[i].task
  BY <1>1, <1>3 DEF Allocation
<1>5. reserved[i].tokens \in Nat /\ reserved[i].calls \in Nat
      /\ \A k \in Tasks : Part(reserved'[i], k) = Part(reserved[i], k) /\ Part(reserved[i], k) \in Nat
  BY <1>1, <1>4, AllocationTypes DEF Part
<1>6. Committed' <= Committed /\ CommittedCalls' <= CommittedCalls
  BY <1>2, <1>3, <1>4, <1>5, CommitChange, CommittedTypes DEF TypeOK, Committed, CommittedCalls
<1>7. \A k \in Tasks : CommittedBy(k)' <= CommittedBy(k) /\ CommittedBy(k)' \in Int
  <2> SUFFICES ASSUME NEW k \in Tasks
               PROVE  CommittedBy(k)' <= CommittedBy(k) /\ CommittedBy(k)' \in Int
    OBVIOUS
  <2>1. CommittedBy(k)' = taskSpent[k] + HeldBy(k) - Part(reserved[i], k) + Part(reserved[i], k)
    BY <1>2, <1>3, <1>5, CommitChange
  <2>2. taskSpent[k] \in Nat /\ HeldBy(k) \in Nat /\ Part(reserved[i], k) \in Nat
    BY <1>5, CommittedTypes DEF TypeOK
  <2> QED
    BY <2>1, <2>2 DEF CommittedBy
<1>8. \A j \in Slots : reserved[j] = Free => reserved'[j] = Free
  BY <1>1, <1>3, AllocationIsNotFree DEF OnlySlot
<1> QED
  BY <1>3, <1>6, <1>7, <1>8, CommitChange, NoMoreCommitted

-----------------------------------------------------------------------------
LEMMA StepKeeps ==
    ASSUME TypeOK, TypeOK', NEW i \in Slots, SlotStep(i)
    PROVE  Kept
<1>1. ASSUME NEW k \in Tasks, NEW n \in Estimates, Reserve(i, k, n)
      PROVE  Kept
  BY <1>1, ReserveKeeps
<1>2. CASE Start(i)
  BY <1>2, StartKeeps
<1>3. ASSUME NEW n \in Usages, NEW c \in CallCounts, Settle(i, n, c)
      PROVE  Kept
  <2>1. CASE reserved[i].started /\ Book(i, n, c)
    BY <1>3, <2>1, BookKeeps DEF Settle
  <2>2. CASE LeaveToDrop(i)
    BY <2>2, SameKeeps DEF LeaveToDrop
  <2> QED
    BY <1>3, <2>1, <2>2 DEF Settle
<1>4. CASE Release(i)
  <2>1. CASE LeaveToDrop(i)
    BY <2>1, SameKeeps DEF LeaveToDrop
  <2> QED
    BY <1>4, <2>1, RefundKeeps DEF Release
<1>5. CASE Drop(i)
  <2>1. reserved[i].tokens \in Nat /\ reserved[i].calls \in Nat
    BY AmountTypes DEF TypeOK
  <2> QED
    BY <1>5, <2>1, BookKeeps, RefundKeeps DEF Drop
<1> QED
  BY <1>1, <1>2, <1>3, <1>4, <1>5 DEF SlotStep

(* Concurrent tasks commit no more tokens and calls than the tree or their   *)
(* share holds, for every number of requests in flight: only a settlement    *)
(* that used more than it had reserved passes a limit, and nothing more is   *)
(* reserved from what is overdrawn.                                          *)
THEOREM LimitsHoldAlways == Spec => LimitsHold
<1>1. TypeOK /\ TypeOK' /\ [Next]_budgetVars => [Kept]_budgetVars
  <2> SUFFICES ASSUME TypeOK, TypeOK', Next PROVE Kept
    OBVIOUS
  <2>1. ASSUME NEW parent \in Tasks, NEW child \in Tasks, RegisterTask(parent, child)
        PROVE  Kept
    BY <2>1, SameKeeps DEF RegisterTask
  <2>2. CASE Expire
    BY <2>2, SameKeeps DEF Expire
  <2> QED
    BY <2>1, <2>2, StepKeeps DEF Next
<1>2. Kept <=> TokensKept /\ CallsKept /\ NothingFitsOverdrawn
  BY DEF Kept
<1> QED
  BY <1>1, <1>2, BudgetTypeCorrect, PTL DEF Spec, LimitsHold

(* A provider that stays within what was reserved for its request.           *)
WithinEstimate == \A i \in Slots : ~Overran(i) /\ ~Overcalled(i)

Solvent ==
    /\ Committed <= TotalTokens /\ CommittedCalls <= MaxModelCalls
    /\ \A k \in Tasks : CommittedBy(k) <= TaskTokens

Amounts ==
    /\ Committed \in Nat /\ CommittedCalls \in Nat
    /\ \A k \in Tasks : CommittedBy(k) \in Nat

LEMMA InitSolvent == Init => Solvent
<1> SUFFICES ASSUME Init PROVE Solvent
  OBVIOUS
<1> DEFINE C == [j \in Slots |-> reserved[j].calls]
<1>1. \A i \in Slots : Tokens[i] = 0 /\ C[i] = 0
  BY DEF Init, Tokens, Free
<1>2. HeldCalls = SumFunctionOnSet(C, Slots)
  BY DEF HeldCalls
<1> HIDE DEF C
<1>3. \A T \in SUBSET Slots : SumFunctionOnSet(Tokens, T) = 0 /\ SumFunctionOnSet(C, T) = 0
  BY <1>1, SumOfZeros
<1>4. Held(Slots) = 0 /\ HeldCalls = 0 /\ \A k \in Tasks : HeldBy(k) = 0
  BY <1>2, <1>3 DEF Held, HeldBy
<1>5. spent = 0 /\ calls = 0 /\ \A k \in Tasks : taskSpent[k] = 0
  BY DEF Init
<1> QED
  BY <1>4, <1>5 DEF Solvent, Committed, CommittedCalls, CommittedBy

(* As long as every provider stays within its estimate, what is spent and    *)
(* held together never exceeds the tokens and the calls of the tree, nor     *)
(* what a task holds and has spent its share, however the requests of the    *)
(* tasks overlap, are dropped, refused or cancelled.                         *)
THEOREM NeverOverdrawn == Spec /\ [][WithinEstimate]_budgetVars => []Solvent
<1>1. TypeOK => Amounts
  BY CommittedTypes DEF Amounts
<1>2. Amounts /\ Amounts' /\ Solvent /\ [TokensKept /\ CallsKept /\ NothingFitsOverdrawn]_budgetVars
        /\ [WithinEstimate]_budgetVars => Solvent'
  <2> SUFFICES ASSUME Amounts, Amounts', Solvent,
                      [TokensKept /\ CallsKept /\ NothingFitsOverdrawn]_budgetVars,
                      [WithinEstimate]_budgetVars
               PROVE  Solvent'
    OBVIOUS
  <2>1. CASE UNCHANGED budgetVars
    BY <2>1 DEF budgetVars, Solvent, Committed, CommittedCalls, CommittedBy, Held, HeldBy, HeldCalls, Tokens
  <2>2. CASE TokensKept /\ CallsKept /\ WithinEstimate
    <3>1. ~(Committed' > TotalTokens /\ Committed' > Committed)
      BY <2>2 DEF TokensKept, WithinEstimate
    <3>2. \A k \in Tasks : ~(CommittedBy(k)' > TaskTokens /\ CommittedBy(k)' > CommittedBy(k))
      BY <2>2 DEF TokensKept, WithinEstimate
    <3>3. ~(CommittedCalls' > MaxModelCalls /\ CommittedCalls' > CommittedCalls)
      BY <2>2 DEF CallsKept, WithinEstimate
    <3> QED
      BY <3>1, <3>2, <3>3 DEF Amounts, Solvent
  <2> QED
    BY <2>1, <2>2
<1> QED
  BY <1>1, <1>2, InitSolvent, BudgetTypeCorrect, LimitsHoldAlways, PTL DEF Spec, LimitsHold

-----------------------------------------------------------------------------
(* The books of the tree.  At most MaxTasks tasks are registered, only they  *)
(* hold or spend anything, and what the tree has spent is what they have     *)
(* spent together: State.spent and the map of the tasks never part.          *)
Registered == {k \in Tasks : Known(k)}

Books ==
    /\ Root \in Registered
    /\ IsFiniteSet(Registered) /\ Cardinality(Registered) <= MaxTasks
    /\ \A i \in Slots : reserved[i].task \in Registered
    /\ \A k \in Tasks \ Registered : taskSpent[k] = 0
    /\ spent = SumFunctionOnSet(taskSpent, Registered)

LEMMA InitBooks == Init => Books
<1> SUFFICES ASSUME Init PROVE Books
  OBVIOUS
<1>1. Registered = {Root}
  BY DEF Init, Registered, Known
<1>2. IsFiniteSet({Root}) /\ Cardinality({Root}) = 1
  BY FS_Singleton
<1>3. \A k \in {Root} : taskSpent[k] = 0
  BY DEF Init
<1>4. SumFunctionOnSet(taskSpent, {Root}) = 0
  BY <1>2, <1>3, SumOfZeros
<1> QED
  BY <1>1, <1>2, <1>4 DEF Init, Books, Free

LEMMA BooksSame ==
    ASSUME Books, UNCHANGED <<depth, taskSpent, spent>>,
           \A i \in Slots : reserved'[i] = reserved[i] \/ reserved'[i].task \in Registered
    PROVE  Books'
BY DEF Books, Registered, Known

LEMMA RegisterKeepsBooks ==
    ASSUME TypeOK, Books, NEW parent \in Tasks, NEW child \in Tasks, RegisterTask(parent, child)
    PROVE  Books'
<1>1. /\ child \notin Registered /\ parent \in Registered /\ Cardinality(Registered) < MaxTasks
      /\ depth' = [depth EXCEPT ![child] = depth[parent] + 1]
      /\ UNCHANGED <<taskSpent, spent, reserved>>
  BY DEF RegisterTask, Registered
<1>2. depth[parent] \in Int /\ depth[parent] >= 0 /\ \A k \in Tasks : depth[k] \in Int
  BY <1>1 DEF TypeOK, Registered, Known
<1>3. Registered' = Registered \cup {child}
  BY <1>1, <1>2 DEF TypeOK, Registered, Known
<1>4. IsFiniteSet(Registered) /\ IsFiniteSet(Registered') /\ Cardinality(Registered') = Cardinality(Registered) + 1
  BY <1>1, <1>3, FS_AddElement DEF Books
<1>5. Cardinality(Registered) \in Nat
  BY <1>4, FS_CardinalityType
<1>6. taskSpent[child] = 0 /\ \A k \in Registered' : taskSpent[k] \in Nat
  BY <1>1 DEF Books, TypeOK, Registered
<1>7. SumFunctionOnSet(taskSpent, Registered') = taskSpent[child] + SumFunctionOnSet(taskSpent, Registered' \ {child})
  BY <1>3, <1>4, <1>6, SumTakesOut
<1>8. Registered' \ {child} = Registered
  BY <1>1, <1>3
<1>9. spent \in Nat /\ spent = SumFunctionOnSet(taskSpent, Registered)
  BY DEF TypeOK, Books
<1>10. spent' = SumFunctionOnSet(taskSpent', Registered')
  BY <1>1, <1>6, <1>7, <1>8, <1>9
<1>11. Cardinality(Registered') <= MaxTasks
  BY <1>1, <1>4, <1>5
<1> QED
  BY <1>1, <1>3, <1>4, <1>10, <1>11 DEF Books

(* What a settlement books is added to the tree and to one task alike.       *)
LEMMA BookKeepsBooks ==
    ASSUME TypeOK, Books, NEW i \in Slots, NEW n \in Nat, NEW c \in Nat, Book(i, n, c), depth' = depth
    PROVE  Books'
<1> DEFINE k == reserved[i].task
<1>1. k \in Registered /\ k \in Tasks /\ IsFiniteSet(Registered)
  BY DEF Books, Registered
<1>2. /\ reserved' = [reserved EXCEPT ![i] = Free] /\ spent' = spent + n /\ Registered' = Registered
      /\ taskSpent' = [taskSpent EXCEPT ![k] = taskSpent[k] + n]
  BY DEF Book, Registered, Known
<1> HIDE DEF k
<1>3. /\ \A t \in Tasks : taskSpent[t] \in Nat
      /\ taskSpent'[k] = taskSpent[k] + n /\ \A t \in Tasks \ {k} : taskSpent'[t] = taskSpent[t]
  BY <1>1, <1>2 DEF TypeOK
<1>4. \A t \in Registered : taskSpent[t] \in Nat /\ taskSpent'[t] \in Nat
  BY <1>1, <1>3 DEF Registered
<1>5. SumFunctionOnSet(taskSpent', Registered) = SumFunctionOnSet(taskSpent, Registered)
        - Share(taskSpent, Registered, k) + Share(taskSpent', Registered, k)
  <2>1. \A t \in Registered \ {k} : taskSpent[t] = taskSpent'[t]
    BY <1>3 DEF Registered
  <2> QED
    BY <1>1, <1>4, <2>1, SumChange
<1>6. spent \in Nat /\ spent = SumFunctionOnSet(taskSpent, Registered)
  BY DEF TypeOK, Books
<1>7. spent' = SumFunctionOnSet(taskSpent', Registered')
  BY <1>1, <1>2, <1>3, <1>5, <1>6 DEF Share
<1>8. \A t \in Tasks \ Registered : taskSpent'[t] = 0
  BY <1>1, <1>3 DEF Books
<1>9. \A j \in Slots : reserved'[j].task \in Registered
  BY <1>2 DEF TypeOK, Books, Free
<1> QED
  BY <1>2, <1>7, <1>8, <1>9 DEF Books

LEMMA NextBooks == TypeOK /\ Books /\ [Next]_budgetVars => Books'
<1> SUFFICES ASSUME TypeOK, Books, [Next]_budgetVars PROVE Books'
  OBVIOUS
<1>1. ASSUME NEW parent \in Tasks, NEW child \in Tasks, RegisterTask(parent, child) PROVE Books'
  BY <1>1, RegisterKeepsBooks
<1>2. ASSUME NEW i \in Slots, NEW k \in Tasks, NEW n \in Estimates, Reserve(i, k, n) PROVE Books'
  <2>1. k \in Registered /\ reserved' = [reserved EXCEPT ![i] =
                               [task |-> k, tokens |-> n, calls |-> 1, started |-> FALSE]]
    BY <1>2 DEF Reserve, Registered
  <2> QED
    BY <1>2, <2>1, BooksSame DEF Reserve, TypeOK
<1>3. ASSUME NEW i \in Slots, Start(i) PROVE Books'
  <2>1. reserved[i].task \in Registered /\ reserved[i] \in Allocation
    BY <1>3, OwnedIsAllocated DEF Start, Books
  <2>2. reserved' = [reserved EXCEPT ![i] = [reserved[i] EXCEPT !.started = TRUE]]
    BY <1>3 DEF Start
  <2>3. reserved'[i].task = reserved[i].task /\ \A j \in Slots \ {i} : reserved'[j] = reserved[j]
    BY <2>1, <2>2 DEF TypeOK, Allocation
  <2> QED
    BY <1>3, <2>1, <2>3, BooksSame DEF Start
<1>4. ASSUME NEW i \in Slots, Refund(i), depth' = depth PROVE Books'
  BY <1>4, BooksSame DEF Refund, TypeOK, Books, Free
<1>5. ASSUME NEW i \in Slots, LeaveToDrop(i), depth' = depth PROVE Books'
  BY <1>5, BooksSame DEF LeaveToDrop
<1>6. ASSUME NEW i \in Slots, NEW n \in Usages, NEW c \in CallCounts, Settle(i, n, c) PROVE Books'
  BY <1>5, <1>6, BookKeepsBooks DEF Settle
<1>7. ASSUME NEW i \in Slots, Release(i) PROVE Books'
  BY <1>4, <1>5, <1>7 DEF Release
<1>8. ASSUME NEW i \in Slots, Drop(i) PROVE Books'
  <2>1. reserved[i].tokens \in Nat /\ reserved[i].calls \in Nat
    BY AmountTypes DEF TypeOK
  <2> QED
    BY <1>4, <1>8, <2>1, BookKeepsBooks DEF Drop
<1>9. CASE Expire
  BY <1>9, BooksSame DEF Expire
<1>10. CASE UNCHANGED budgetVars
  BY <1>10, BooksSame DEF budgetVars
<1> QED
  BY <1>1, <1>2, <1>3, <1>6, <1>7, <1>8, <1>9, <1>10 DEF Next, SlotStep

(* The tree never has more than MaxTasks tasks, charges none that is not     *)
(* registered, and its total is always the sum of its tasks' totals.         *)
THEOREM BooksBalance == Spec => []Books
BY InitBooks, NextBooks, BudgetTypeCorrect, PTL DEF Spec
=============================================================================
