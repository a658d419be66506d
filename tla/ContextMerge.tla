---------------------------- MODULE ContextMerge ----------------------------
(***************************************************************************)
(* Three-way merge of context snapshots and the choice of its base.        *)
(*                                                                         *)
(* A snapshot is a function from slots to values.  A slot is a scalar      *)
(* field (summary, style, scratchpad) or one key of the glossary or of the *)
(* entities; a key that a map does not hold has a value of its own.  The   *)
(* code merges both kinds by the same rule.  Graphs are those of           *)
(* CommitGraph: functions from commits to the sequences of their parents.  *)
(***************************************************************************)
EXTENDS CommitGraph, FiniteSets, FiniteSetsExt, SequencesExt

-----------------------------------------------------------------------------
(* The merge                                                               *)

(* Both sides changed the slot, and differently.                           *)
Conflicts(base, left, right) ==
  {s \in DOMAIN base : left[s] # right[s] /\ left[s] # base[s] /\ right[s] # base[s]}

(* Mutant: a change of the left side is kept only if the right agrees.     *)
AutoMerged_RightWins(base, left, right) ==
  [s \in DOMAIN base |-> IF right[s] = base[s] THEN right[s] ELSE left[s]]

(* A slot takes the side that changed; conflicts retain the base.          *)
AutoMerged(base, left, right) ==
  [s \in DOMAIN base |->
     CASE left[s] = right[s] -> left[s]
       [] left[s] = base[s]  -> right[s]
       [] right[s] = base[s] -> left[s]
       [] OTHER              -> base[s]]

-----------------------------------------------------------------------------
(* The base                                                                *)

(* Generations[n]: what n steps from a commit to a parent lead to.         *)
Generations(g, c) ==
  LET Gen[n \in 0 .. Cardinality(DOMAIN g)] ==
        IF n = 0 THEN {c} ELSE UNION {ParentsOf(g, d) : d \in Gen[n - 1]}
  IN  Gen

(* The length of the shortest path from c to each of its ancestors.        *)
AncestorDistances(g, c) ==
  LET Gen == Generations(g, c)
  IN  [a \in UNION {Gen[n] : n \in DOMAIN Gen} |-> Min({n \in DOMAIN Gen : a \in Gen[n]})]

(* The common ancestors with the least sum of distances.  Which of several *)
(* is the base depends on the order of a hash map.                         *)
MergeBases(g, left, right) ==
  LET dl == AncestorDistances(g, left)
      dr == AncestorDistances(g, right)
      Common == DOMAIN dl \cap DOMAIN dr
  IN  {a \in Common : \A b \in Common : dl[a] + dr[a] <= dl[b] + dr[b]}

-----------------------------------------------------------------------------
(* The order of a history                                                  *)

Visit(id, expanded) == [id |-> id, expanded |-> expanded]
Unvisited(ps) == [i \in DOMAIN ps |-> Visit(ps[i], FALSE)]

(* Mutant: a commit goes into the history before its parents.              *)
Popped_ParentsLater(g, w) ==
  LET top  == Last(w.stack)
      rest == Front(w.stack)
  IN  IF top.id \in w.seen THEN [w EXCEPT !.stack = rest]
      ELSE [stack   |-> rest \o Unvisited(Reverse(g[top.id])),
            seen    |-> w.seen \cup {top.id},
            history |-> Append(w.history, top.id)]

(* One turn of the loop of history_from_head: a commit is expanded when it *)
(* is first taken from the stack and recorded when it is taken again.      *)
Popped(g, w) ==
  LET top  == Last(w.stack)
      rest == Front(w.stack)
  IN  IF top.expanded
      THEN [w EXCEPT !.stack = rest, !.history = Append(@, top.id)]
      ELSE IF top.id \in w.seen THEN [w EXCEPT !.stack = rest]
      ELSE [w EXCEPT !.stack = rest \o <<Visit(top.id, TRUE)>>
                                    \o Unvisited(Reverse(g[top.id])),
                     !.seen = @ \cup {top.id}]

(* Everything reachable from the head, as a sequence.  Every commit is put *)
(* on the stack at most three times.                                       *)
HistoryFromHead(g, head) ==
  LET Walk[n \in 0 .. 3 * Cardinality(DOMAIN g) + 1] ==
        IF n = 0
        THEN [stack |-> <<Visit(head, FALSE)>>, seen |-> {}, history |-> <<>>]
        ELSE LET w == Walk[n - 1] IN IF w.stack = <<>> THEN w ELSE Popped(g, w)
  IN  Walk[3 * Cardinality(DOMAIN g) + 1].history

-----------------------------------------------------------------------------
(* What the base and the merge are for                                     *)

(* The common ancestors that no other common ancestor descends from.       *)
LowestCommon(g, left, right) ==
  LET Common == History(g, left) \cap History(g, right)
  IN  {a \in Common : \A b \in Common : a \in History(g, b) => a = b}

(* The history of c was never merged.                                      *)
Linear(g, c) == \A a \in History(g, c) : Len(g[a]) <= 1
=============================================================================
