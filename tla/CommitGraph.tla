---------------------------- MODULE CommitGraph ----------------------------
(***************************************************************************)
(* The commit graph of a translation session, as a function from the ids   *)
(* of the stored commits to the sequence of their parents: none for a      *)
(* root, one for a turn or a scratchpad edit, two for a merge.  Ids are    *)
(* content hashes, so two different commits never share one.               *)
(***************************************************************************)
EXTENDS Naturals, Sequences

(* The rows of commit_parents for one child, without their positions.      *)
Members(ps) == {ps[i] : i \in DOMAIN ps}
ParentsOf(g, c) == Members(g[c])

(* A set of commits that holds every parent of every member.               *)
ParentClosed(g, S) == \A c \in S : ParentsOf(g, c) \subseteq S

(* Every commit reachable from c: the least parent-closed set with c in    *)
(* it.  history_from_head computes it with an explicit stack.              *)
History(g, c) ==
  LET Closed == {S \in SUBSET DOMAIN g : c \in S /\ ParentClosed(g, S)}
  IN  {a \in DOMAIN g : \A S \in Closed : a \in S}

(* No commit descends from itself.                                         *)
Acyclic(g) ==
  \A c \in DOMAIN g : \A q \in ParentsOf(g, c) : c \notin History(g, q)

(* Mutant: the two parents may be the same commit.                         *)
ValidParents_AnyTwo(ps) == Len(ps) <= 2

(* TranslationCommit::create accepts at most two parents, all different.   *)
ValidParents(ps) ==
  /\ Len(ps) <= 2
  /\ Len(ps) = 2 => ps[1] # ps[2]

(* Mutant: the commit is stored and its commit_parents rows are not.       *)
WithCommit_NoParents(g, c, ps) ==
  IF c \in DOMAIN g THEN g
  ELSE [x \in DOMAIN g \cup {c} |-> IF x = c THEN <<>> ELSE g[x]]

(* The graph after INSERT OR IGNORE of commit c with parents ps.           *)
WithCommit(g, c, ps) ==
  IF c \in DOMAIN g THEN g
  ELSE [x \in DOMAIN g \cup {c} |-> IF x = c THEN ps ELSE g[x]]

============================================================================
