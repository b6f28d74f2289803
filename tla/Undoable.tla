------------------------------- MODULE Undoable -------------------------------
(***************************************************************************)
(* What the stores promise about a saved document: every change gives it a *)
(* new version number, an undo brings back the newest version it has not   *)
(* gone past yet, and a version is only forgotten once it is Depth         *)
(* versions old.                                                           *)
(***************************************************************************)
EXTENDS Integers

CONSTANTS Documents, Depth

VARIABLES
    version,   \* the number of the current version
    now,       \* the current document
    past       \* version -> document, the versions that undo still brings back

undoableVars == <<version, now, past>>

Newest(vs) == CHOOSE v \in vs : \A w \in vs : w <= v
Without(f, v) == [w \in DOMAIN f \ {v} |-> f[w]]
With(f, v, d) == [w \in DOMAIN f \cup {v} |-> IF w = v THEN d ELSE f[w]]

(* What is left of f once some of its versions, all of them old, are forgotten. *)
Remembers(f) ==
    \E vs \in SUBSET DOMAIN f :
        /\ \A v \in DOMAIN f \ vs : v + Depth < version'
        /\ past' = [v \in vs |-> f[v]]

Init ==
    /\ version \in Nat \ {0}
    /\ now \in Documents
    /\ past \in UNION {[vs -> Documents] : vs \in SUBSET (1 .. version - 1)}

Change ==
    /\ version' = version + 1
    /\ now' \in Documents
    /\ Remembers(With(past, version, now))

Undo ==
    /\ DOMAIN past # {}
    /\ version' = version + 1
    /\ now' = past[Newest(DOMAIN past)]
    /\ Remembers(Without(past, Newest(DOMAIN past)))

Next == Change \/ Undo

Spec == Init /\ [][Next]_undoableVars
=============================================================================
