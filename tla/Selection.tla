----------------------------- MODULE Selection ------------------------------
(***************************************************************************)
(* Sorting a finite set and filtering a sequence, by position: an element  *)
(* stands at the position that the number of elements before it gives.     *)
(* Neither needs recursion, so theorems can be stated about both.          *)
(***************************************************************************)
EXTENDS Naturals, Sequences, FiniteSets

(* The elements of S in the order R, a set of pairs <<earlier, later>>.    *)
Sorted(S, R) ==
  [k \in 1 .. Cardinality(S) |->
     CHOOSE x \in S : Cardinality({y \in S : <<y, x>> \in R}) = k - 1]

(* The elements of q at the positions I, in their order.                   *)
Selected(q, I) ==
  LET at == Sorted(I, {p \in I \X I : p[1] < p[2]})
  IN  [k \in DOMAIN at |-> q[at[k]]]

============================================================================
