------------------------------- MODULE Replay -------------------------------
(***************************************************************************)
(* Matching the turns a game shows with the turns of its stored history.   *)
(* A path is the first-parent history of a branch, oldest commit first.  A *)
(* commit is a record of its id and its replay signature, which is         *)
(* Structural when the commit carries no text to translate and Unreadable  *)
(* when its payload blobs do not give one.                                 *)
(***************************************************************************)
EXTENDS Selection

CONSTANTS Structural, Unreadable,
          Main              \* branch names are numbers, in list order

(* TurnSignature: how often each <<hook, text>> pair occurs in a turn.     *)
Signature(batch) ==
  [pair \in {<<batch[i].hook, batch[i].text>> : i \in DOMAIN batch} |->
     Cardinality({i \in DOMAIN batch : <<batch[i].hook, batch[i].text>> = pair})]

IsStructural(commit) == commit.sig = Structural
IsTurn(commit) == commit.sig \notin {Structural, Unreadable}

Least(S) == CHOOSE x \in S : \A y \in S : x <= y

(* Mutant: structural commits are compared like turns.                     *)
NextTurn_AnyCommit(path, position) == position + 1

(* The position of the next commit that is not structural, or one past the *)
(* end of the path.                                                        *)
NextTurn(path, position) ==
  LET later == {i \in position + 1 .. Len(path) : ~IsStructural(path[i])}
  IN  IF later = {} THEN Len(path) + 1 ELSE Least(later)

AtTranslatableHead(path, position) == NextTurn(path, position) > Len(path)

(* What ReplayCursor::step says of an observed turn.                       *)
Outcome(path, next, observed) ==
  CASE next > Len(path)                                -> "at_head"
    [] next <= Len(path) /\ path[next].sig = Unreadable -> "unavailable"
    [] next <= Len(path) /\ path[next].sig = observed   -> "matched"
    [] OTHER                                           -> "diverged"

(* Mutant: the cursor moves onto the next turn whether it matches or not.  *)
CursorStep_MovesOn(path, position, observed) ==
  LET next == NextTurn(path, position)
  IN  [outcome |-> Outcome(path, next, observed),
       position |-> IF next > Len(path) THEN Len(path) ELSE next]

(* ReplayCursor::step: a match moves the cursor onto the matched commit,   *)
(* anything else leaves it on the last structural commit it skipped.       *)
CursorStep(path, position, observed) ==
  LET next == NextTurn(path, position)
      outcome == Outcome(path, next, observed)
  IN  [outcome |-> outcome,
       position |-> IF outcome = "matched" THEN next ELSE next - 1]

-----------------------------------------------------------------------------
(* Candidates for the position of a game in its history.                   *)

(* The positions of the turns of a path, in order.                         *)
Turns(path) ==
  LET turns == {i \in DOMAIN path : IsTurn(path[i])}
  IN  Sorted(turns, {p \in turns \X turns : p[1] < p[2]})

(* Where all the observed turns occur in a row; never at the root, which   *)
(* has no commit before it to resume from.                                 *)
Windows(path, observed) ==
  LET turns == Turns(path)
  IN  {turns[s] : s \in {s \in DOMAIN turns :
         /\ turns[s] > 1
         /\ s + Len(observed) - 1 <= Len(turns)
         /\ \A k \in DOMAIN observed :
              path[turns[s + k - 1]].sig = observed[k]}}

(* find_resume_candidates: one candidate per matching commit, shown on     *)
(* main if main has it and else on the first branch that does.             *)
ResumeCandidates(paths, observed) ==
  LET found == UNION {{b} \X Windows(paths[b], observed) : b \in DOMAIN paths}
      commit(f) == paths[f[1]][f[2]]
      holders(f) == {g[1] : g \in {h \in found : commit(h) = commit(f)}}
      shown(f) == IF Main \in holders(f) THEN Main ELSE Least(holders(f))
  IN  {[branch |-> shown(f), next |-> commit(f).id, position |-> f[2] - 1] :
         f \in found}

(* uniquely_identified *)
Unique(candidates) == Cardinality(candidates) = 1

============================================================================
