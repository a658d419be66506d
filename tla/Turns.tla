------------------------------- MODULE Turns -------------------------------
(***************************************************************************)
(* What a commit holds: the contexts and scratchpads in the history of one *)
(* game.  Several programs translate turns, edit the scratchpad, branch    *)
(* and merge; Sessions has the statements they issue, this module the data *)
(* they read at one time and store at a later one.                         *)
(*                                                                         *)
(* Prompts, processors and the provider are seen as an answer with some    *)
(* context patch, or as a failure.                                         *)
(***************************************************************************)
EXTENDS ContextMerge

CONSTANTS
  Client,         \* the programs that use the store
  None,
  Branch, Main,   \* branch names of the game
  Slot,           \* the parts of a context
  Scratchpad,     \* the slot of that name
  Value, Empty,   \* what a slot can hold
  OpsOf,          \* the operations each program is used for
  Start,          \* the histories that programs may find
  MaxCommits      \* bound on commits

ASSUME TurnsAssumption ==
  /\ Main \in Branch /\ Scratchpad \in Slot /\ Empty \in Value
  /\ None \notin Value \X Value
  /\ MaxCommits \in Nat \ {0}

VARIABLES
  commits,        \* the stored commits, numbered in the order of storing
  head,           \* the branches that exist and their heads
  job,            \* what each program is doing
  repositioned    \* history: branches moved by name, not by a turn or an edit

vars == <<commits, head, job, repositioned>>

Context == [Slot -> Value]
EmptyContext == [s \in Slot |-> Empty]
Patches == UNION {[S -> Value] : S \in SUBSET Slot}
Modes == {"current", "endless", "endless with scratchpad"}

GraphOf(cs) == [c \in DOMAIN cs |-> cs[c].parents]
Graph == GraphOf(commits)
ContextOf(c) == commits[c].context
NewId == Cardinality(DOMAIN commits) + 1

Upsert(f, x, y) == [z \in DOMAIN f \cup {x} |-> IF z = x THEN y ELSE f[z]]
Overlaid(changes, f) == [s \in DOMAIN f |-> IF s \in DOMAIN changes THEN changes[s] ELSE f[s]]

(* parents, context and edit are fields of a commit; the others are        *)
(* history: what made it, how a turn was asked for, the commit whose       *)
(* context it started from, and the commits a merge was planned for.       *)
Commit(parents, context) ==
  [parents |-> parents, context |-> context, edit |-> None,
   by |-> "root", mode |-> "current", basis |-> 0, plan |-> <<>>]

Idle == [pc |-> "idle"]

(* A root has no parents, a merge two, and any other commit one.           *)
ParentCount(by) == CASE by = "root" -> 0 [] by = "merge" -> 2 [] OTHER -> 1

(* Commits are stored after their parents; branches point to commits.      *)
Stored(cs) ==
  /\ \E n \in 0 .. MaxCommits : DOMAIN cs = 1 .. n
  /\ \A c \in DOMAIN cs :
       /\ cs[c].context \in Context
       /\ cs[c].parents \in Seq(1 .. c - 1) /\ IsInjective(cs[c].parents)
       /\ Len(cs[c].parents) = ParentCount(cs[c].by)
Placed(cs, hs) ==
  DOMAIN hs \subseteq Branch /\ Main \in DOMAIN hs /\ \A b \in DOMAIN hs : hs[b] \in DOMAIN cs

TypeOK ==
  /\ Stored(commits) /\ Placed(commits, head)
  /\ DOMAIN job = Client
  /\ repositioned \subseteq Branch

(* A new session: a root and main.                                         *)
NewSession == [commits |-> <<Commit(<<>>, EmptyContext)>>, head |-> [b \in {Main} |-> 1]]

-----------------------------------------------------------------------------
(* What holds of every history, those that a program starts from included  *)

Retains(mode) == mode # "endless"

(* A commit of a turn or an edit that records a change of the scratchpad   *)
(* continues that of its parent, and one that records none has kept it,    *)
(* unless it is a turn that was asked to go without: that one leaves the   *)
(* scratchpad empty.                                                       *)
Accounted(cs) ==
  \A c \in DOMAIN cs :
    LET k == cs[c]
        old == cs[k.parents[1]].context[Scratchpad]
        new == k.context[Scratchpad]
    IN  k.by \in {"turn", "edit"} =>
          IF k.edit # None THEN k.edit = <<old, new>>
          ELSE new = IF Retains(k.mode) THEN old ELSE Empty

(* A change that one side made since the two histories last had a commit   *)
(* in common, and the merges that keep all such changes.                   *)
OneSided(base, mine, other) ==
  {s \in Slot : mine[s] # base[s] /\ other[s] = base[s]}
Keeps(cs, k) ==
  \A base \in LowestCommon(GraphOf(cs), k.parents[1], k.parents[2]) :
    LET b == cs[base].context
        l == cs[k.parents[1]].context
        r == cs[k.parents[2]].context
    IN  /\ \A s \in OneSided(b, l, r) : k.context[s] = l[s]
        /\ \A s \in OneSided(b, r, l) : k.context[s] = r[s]
PlannedForParents(k) == k.by = "merge" /\ k.parents = Tail(k.plan)
MergesKeep(cs) ==
  \A c \in DOMAIN cs :
    PlannedForParents(cs[c]) /\ (\A p \in Members(cs[c].parents) : Linear(GraphOf(cs), p))
      => Keeps(cs, cs[c])

(* The histories found were made from new sessions, by these programs.     *)
ASSUME StartAssumption ==
  \A s \in Start : /\ Stored(s.commits) /\ Placed(s.commits, s.head)
                    /\ Accounted(s.commits) /\ MergesKeep(s.commits)

(* Nobody is working yet.                                                  *)
Init ==
  /\ \E s \in Start : commits = s.commits /\ head = s.head
  /\ job = [c \in Client |-> Idle]
  /\ repositioned = {}

-----------------------------------------------------------------------------
(* Steps of any operation                                                  *)

Goes(c, next) == job' = [job EXCEPT ![c] = next]
Ends(c) == Goes(c, Idle)
May(c, op) == job[c].pc = "idle" /\ op \in OpsOf[c] /\ NewId <= MaxCommits

(* put_commit, in one transaction                                          *)
Put(commit) == commits' = Upsert(commits, NewId, commit)

(* create_game_branch: an upsert                                           *)
PlaceBranch(b, c) ==
  /\ head' = Upsert(head, b, c)
  /\ repositioned' = repositioned \cup ({b} \cap DOMAIN head)

(* Mutant: the branch is moved wherever it is now.                         *)
CanAdvance_NoCompare(b, expected) == TRUE

(* advance_game_branch, of a turn and of a scratchpad edit: a              *)
(* compare-and-swap, then success or BranchMoved.                          *)
CanAdvance(b, expected) == head[b] = expected
Advance(c) ==
  /\ job[c].pc = "advance"
  /\ head' = IF CanAdvance(job[c].branch, job[c].head)
             THEN [head EXCEPT ![job[c].branch] = job[c].commit] ELSE head
  /\ Ends(c)
  /\ UNCHANGED <<commits, repositioned>>

(* An error of any step, from a busy database to a failed processor, or    *)
(* the end of the program.                                                 *)
Stops(c) ==
  /\ job[c].pc # "idle"
  /\ Ends(c)
  /\ UNCHANGED <<commits, head, repositioned>>

-----------------------------------------------------------------------------
(* A turn of the engine                                                    *)

(* translate_turn reads the head of its branch and its commit.             *)
BeginTurn(c) ==
  /\ May(c, "turn")
  /\ \E b \in DOMAIN head, mode \in Modes :
       Goes(c, [pc |-> IF mode = "current" THEN "ask" ELSE "history",
                branch |-> b, head |-> head[b], mode |-> mode, basis |-> head[b],
                context |-> ContextOf(head[b])])
  /\ UNCHANGED <<commits, head, repositioned>>

(* Mutant: the scratchpad of main is taken over with its context.          *)
Prepared_MainsScratchpad(context, mode, main) ==
  IF Retains(mode) THEN main ELSE [main EXCEPT ![Scratchpad] = Empty]

(* The context of a turn in endless mode: that of the last commit of main  *)
(* with the scratchpad of the branch, or with none.                        *)
Prepared(context, mode, main) ==
  [main EXCEPT ![Scratchpad] = IF Retains(mode) THEN context[Scratchpad] ELSE Empty]

(* prepare_context reads the history of main, after the head of the branch *)
(* was read.  What it sends of every commit has no scratchpad.             *)
ReadHistory(c) ==
  /\ job[c].pc = "history"
  /\ LET last == Last(HistoryFromHead(Graph, head[Main]))
     IN  Goes(c, [pc |-> "ask", branch |-> job[c].branch, head |-> job[c].head,
                  mode |-> job[c].mode, basis |-> last,
                  context |-> Prepared(job[c].context, job[c].mode, ContextOf(last))])
  /\ UNCHANGED <<commits, head, repositioned>>

(* What the answer makes of the context.                                   *)
Patched(context, mode, patch) ==
  IF Retains(mode) THEN Overlaid(patch, context)
  ELSE [Overlaid([s \in DOMAIN patch \ {Scratchpad} |-> patch[s]], context)
          EXCEPT ![Scratchpad] = Empty]

(* Which change of the scratchpad the commit records.                      *)
EditOf(before, after) ==
  IF after[Scratchpad] = before[Scratchpad] THEN None
  ELSE <<before[Scratchpad], after[Scratchpad]>>

(* The model answers and the commit is stored.                             *)
Answer(c) ==
  /\ job[c].pc = "ask" /\ NewId <= MaxCommits
  /\ \E patch \in Patches :
       LET after == Patched(job[c].context, job[c].mode, patch)
       IN  Put([Commit(<<job[c].head>>, after) EXCEPT
                  !.edit = EditOf(job[c].context, after), !.by = "turn",
                  !.mode = job[c].mode, !.basis = job[c].basis])
  /\ Goes(c, [pc |-> "advance", branch |-> job[c].branch, head |-> job[c].head,
              commit |-> NewId])
  /\ UNCHANGED <<head, repositioned>>

-----------------------------------------------------------------------------
(* Scratchpad edits, branches and merges                                   *)

(* commit_scratchpad reads the head and its commit ...                     *)
BeginEdit(c) ==
  /\ May(c, "edit")
  /\ \E b \in DOMAIN head :
       Goes(c, [pc |-> "edit", branch |-> b, head |-> head[b],
                context |-> ContextOf(head[b])])
  /\ UNCHANGED <<commits, head, repositioned>>

(* ... and stores one that differs in the scratchpad, if at all.           *)
PutEdit(c) ==
  /\ job[c].pc = "edit" /\ NewId <= MaxCommits
  /\ \E v \in Value :
       LET after == [job[c].context EXCEPT ![Scratchpad] = v]
       IN  Put([Commit(<<job[c].head>>, after) EXCEPT
                  !.edit = <<job[c].context[Scratchpad], v>>, !.by = "edit",
                  !.basis = job[c].head])
  /\ Goes(c, [pc |-> "advance", branch |-> job[c].branch, head |-> job[c].head,
              commit |-> NewId])
  /\ UNCHANGED <<head, repositioned>>

(* The command line branches at the head of a branch.                      *)
CreateBranch(c) ==
  /\ job[c].pc = "idle" /\ "branch" \in OpsOf[c]
  /\ \E b \in Branch, at \in DOMAIN head : b # at /\ PlaceBranch(b, head[at])
  /\ UNCHANGED <<commits, job>>

(* merge-plan resolves two branches and proposes a context.                *)
MergePlan(c) ==
  /\ May(c, "merge")
  /\ \E l, r \in DOMAIN head : \E base \in MergeBases(Graph, head[l], head[r]) :
       Goes(c, [pc |-> "merge", left |-> l, right |-> r,
                plan |-> <<base, head[l], head[r]>>])
  /\ UNCHANGED <<commits, head, repositioned>>

(* The proposal, with the user's value for every conflict.                 *)
Resolutions(base, left, right) ==
  LET conflicts == Conflicts(base, left, right)
  IN  {Overlaid(choice, AutoMerged(base, left, right)) : choice \in [conflicts -> Value]}

(* merge resolves the names again and stores the context it is given.      *)
PutMerge(c) ==
  /\ job[c].pc = "merge" /\ NewId <= MaxCommits
  /\ LET plan == job[c].plan
         parents == <<head[job[c].left], head[job[c].right]>>
     IN  /\ ValidParents(parents)
         /\ \E context \in Resolutions(ContextOf(plan[1]), ContextOf(plan[2]),
                                       ContextOf(plan[3])) :
              Put([Commit(parents, context) EXCEPT !.by = "merge", !.plan = plan])
  /\ Goes(c, [pc |-> "target", commit |-> NewId])
  /\ UNCHANGED <<head, repositioned>>

PlaceMerge(c) ==
  /\ job[c].pc = "target"
  /\ \E b \in Branch : PlaceBranch(b, job[c].commit)
  /\ Ends(c)
  /\ UNCHANGED <<commits>>

-----------------------------------------------------------------------------
Turn(c) == BeginTurn(c) \/ ReadHistory(c) \/ Answer(c) \/ Advance(c)
Edit(c) == BeginEdit(c) \/ PutEdit(c)
Merge(c) == MergePlan(c) \/ PutMerge(c) \/ PlaceMerge(c)

Next == \E c \in Client : Turn(c) \/ Edit(c) \/ CreateBranch(c) \/ Merge(c) \/ Stops(c)

Spec == Init /\ [][Next]_vars

-----------------------------------------------------------------------------
(* Properties                                                              *)

(* Whatever a scratchpad holds is accounted for: every commit is.          *)
ScratchpadAccounted == Accounted(commits)

(* A turn or an edit that ends on a branch is based on what the branch     *)
(* held until then: its parent is the head it replaces, and on main its    *)
(* context started from that head too, although endless mode reads the     *)
(* branch and the history of main at different times.  Only repositioning  *)
(* a branch by name can hide a change in between.                          *)
AdvancesOnNewest ==
  [][\A b \in DOMAIN head :
       LET new == commits'[head'[b]]
       IN  (head'[b] # head[b] /\ new.by \in {"turn", "edit"}
            /\ repositioned' = {}) =>
             /\ new.parents = <<head[b]>>
             /\ b = Main => new.basis = head[b]]_vars

(* The history of a branch, which an endless request sends and a resume    *)
(* reads, has every reachable commit once, no commit before its parents,   *)
(* and the head last.                                                      *)
HistoryOrdered ==
  \A b \in DOMAIN head :
    LET history == HistoryFromHead(Graph, head[b])
    IN  /\ IsInjective(history)
        /\ ToSet(history) = History(Graph, head[b])
        /\ Last(history) = head[b]
        /\ \A i \in DOMAIN history :
             ParentsOf(Graph, history[i]) \subseteq {history[j] : j \in 1 .. i - 1}

(* A merge of two histories that were never merged before keeps what only  *)
(* one of them changed, if its plan was made for the heads it merges.      *)
FirstMergeKeepsOneSided == MergesKeep(commits)
=============================================================================
