--------------------------- MODULE BranchHistory ---------------------------
(***************************************************************************)
(* What the versioned session promises, with no clients, statements or     *)
(* heads: commits are preserved for ever; a branch is a set of commits,    *)
(* its lineage; a finished turn adds exactly one preserved commit to one   *)
(* lineage and takes nothing from any; only an explicit repositioning may  *)
(* replace the lineage of a branch that has one.                           *)
(***************************************************************************)
CONSTANTS
  Commit,        \* every commit that can be made
  Ref            \* a branch name of a game

VARIABLES
  preserved,     \* the commits stored so far
  lineage,       \* the commits reachable from each branch
  checkedOut,    \* <<r, c>>: a client was told that c now is on r
  repositioned   \* the branches that had a lineage and were moved off it

vars == <<preserved, lineage, checkedOut, repositioned>>

Init ==
  /\ preserved = {}
  /\ lineage = [r \in Ref |-> {}]
  /\ checkedOut = {}
  /\ repositioned = {}

Preserve(c) ==
  /\ c \notin preserved
  /\ preserved' = preserved \cup {c}
  /\ UNCHANGED <<checkedOut, repositioned, lineage>>

CheckOut(r, c) ==
  /\ c \in preserved
  /\ checkedOut' = checkedOut \cup {<<r, c>>}
  /\ c \notin lineage[r]
  /\ lineage' = [lineage EXCEPT ![r] = @ \cup {c}]
  /\ UNCHANGED <<preserved, repositioned>>

Create(r) ==
  /\ UNCHANGED <<preserved, checkedOut, repositioned>>
  /\ lineage[r] = {}
  /\ lineage'[r] \in (SUBSET preserved) \ {{}}
  /\ lineage' = [lineage EXCEPT ![r] = lineage'[r]]

Reposition(r) ==
  /\ UNCHANGED <<preserved, checkedOut>>
  /\ repositioned' = repositioned \cup {r}
  /\ lineage[r] # {}
  /\ lineage'[r] \in (SUBSET preserved) \ {{}}
  /\ lineage' = [lineage EXCEPT ![r] = lineage'[r]]

Next ==
  \/ \E c \in Commit : Preserve(c)
  \/ \E r \in Ref, c \in Commit : CheckOut(r, c)
  \/ \E r \in Ref : Create(r) \/ Reposition(r)

Spec == Init /\ [][Next]_vars

TypeOK ==
  /\ preserved \subseteq Commit
  /\ lineage \in [Ref -> SUBSET preserved]
  /\ checkedOut \subseteq Ref \X preserved
  /\ repositioned \subseteq Ref

(* A turn a client was told about stays in the history of its branch until *)
(* somebody repositions that branch.                                       *)
NoTurnLost ==
  \A t \in checkedOut : t[1] \in repositioned \/ t[2] \in lineage[t[1]]

============================================================================
