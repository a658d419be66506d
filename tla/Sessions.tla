------------------------------ MODULE Sessions ------------------------------
(***************************************************************************)
(* The programs that share one session database: the control window, the   *)
(* engine it runs a turn on, and the command line client, each with a      *)
(* connection of its own.  Every operation is a sequence of statements     *)
(* with other clients' statements in between, and any client can die       *)
(* between two of them.                                                    *)
(*                                                                         *)
(* A commit with parents is stored in a deferred transaction that first    *)
(* reads the parents and then writes.  SQLite refuses that write when      *)
(* another connection has written since the read, and the whole put fails. *)
(***************************************************************************)
EXTENDS SessionStore

CONSTANTS
  Client,        \* connections to the database
  Ops,           \* the operations the clients perform in a run
  RawIds         \* do users name commits of other games by their id?

ASSUME SessionsAssumption ==
  /\ Ops \subseteq {"select", "turn", "edit", "branch", "resume", "merge"}
  /\ RawIds \in BOOLEAN

VARIABLES
  pc,            \* the statement each client runs next
  op,            \* the operation it belongs to
  ref,           \* the branch the operation works on
  base,          \* the commits it has read: a head, or both sides of a merge
  new,           \* the commit it has stored
  stale,         \* clients whose read snapshot another write has outdated
  owner,         \* ghost: the game each commit was made for
  checkedOut,    \* ghost: <<r, c>> when a client was told c is on r
  repositioned   \* ghost: branches that were moved off a head they had

clientVars == <<pc, op, ref, base, new, stale>>
ghostVars == <<owner, checkedOut, repositioned>>
vars == <<storeVars, clientVars, ghostVars>>

PCs == {"closed", "idle", "lookup", "register", "check", "root", "main",
        "read", "infer", "put", "insert", "advance", "resolve", "target"}

AllOps == {"open", "select", "turn", "edit", "branch", "resume", "merge"}

TypeOK ==
  /\ StoreTypeOK
  /\ pc \in [Client -> PCs]
  /\ op \in [Client -> AllOps]
  /\ ref \in [Client -> Ref]
  /\ base \in [Client -> Seq(CommitId)]
  /\ new \in [Client -> CommitId \cup {None}]
  /\ stale \subseteq Client
  /\ owner \in [Stored -> Game]
  /\ checkedOut \subseteq Ref \X CommitId
  /\ repositioned \subseteq Ref

Init ==
  /\ StoreInit
  /\ pc = [p \in Client |-> "closed"]
  /\ op = [p \in Client |-> "open"]
  /\ ref = [p \in Client |-> MainOf(Default)]
  /\ base = [p \in Client |-> <<>>]
  /\ new = [p \in Client |-> None]
  /\ stale = {}
  /\ owner = <<>>
  /\ checkedOut = {}
  /\ repositioned = {}

-----------------------------------------------------------------------------
(* Control flow of one client.                                             *)

Goto(p, l) == pc' = [pc EXCEPT ![p] = l]

(* The operation is over: what it held is dropped.                         *)
Finish(p, l) ==
  /\ Goto(p, l)
  /\ op' = [op EXCEPT ![p] = "open"]
  /\ ref' = [ref EXCEPT ![p] = MainOf(Default)]
  /\ base' = [base EXCEPT ![p] = <<>>]
  /\ new' = [new EXCEPT ![p] = None]

Keep == UNCHANGED <<op, ref, base, new>>

(* A statement of p that wrote: the open read snapshots of others are old. *)
Wrote(p) == stale' = stale \cup {q \in Client \ {p} : pc[q] = "insert"}
ReadOnly(p) == stale' = stale \ {p}

(* Where an operation goes once its game has its main branch.              *)
AfterEnsure(p) ==
  \/ op[p] = "turn" /\ Goto(p, "read") /\ Keep
  \/ op[p] \in {"branch", "merge"} /\ Goto(p, "resolve") /\ Keep
  \/ op[p] \in {"open", "select"} /\ Finish(p, "idle")

Repositions(r) ==
  repositioned' = IF head[r] = None THEN repositioned
                  ELSE repositioned \cup {r}

-----------------------------------------------------------------------------
(* Opening the store and registering a game.                               *)

(* open_store and initialize_store: the tables, then a root if no branch   *)
(* is listed for the default namespace.                                    *)
Open(p) ==
  /\ pc[p] = "closed"
  /\ InitializeTables
  /\ Goto(p, IF \A n \in Name : head[<<Default, n>>] = None
             THEN "root" ELSE "idle")
  /\ IF Default \in games THEN ReadOnly(p) ELSE Wrote(p)
  /\ UNCHANGED ghostVars
  /\ Keep

(* A client starts an operation on a branch.  Turns of a game and the      *)
(* selection of a game ensure the game; the command line's branch and      *)
(* merge commands do so only when the game row is missing.                 *)
Begin(p, o, r) ==
  /\ pc[p] = "idle"
  /\ o \in Ops
  /\ o = "select" => r = MainOf(r[1]) /\ r[1] # Default
  /\ o = "resume" => r[2] # Main
  /\ op' = [op EXCEPT ![p] = o]
  /\ ref' = [ref EXCEPT ![p] = r]
  /\ Goto(p, CASE o = "select" -> "register"
               [] o = "turn" -> IF r[1] = Default THEN "read" ELSE "register"
               [] o = "edit" -> "read"
               [] o = "resume" -> "resolve"
               [] OTHER -> IF r[1] = Default THEN "resolve" ELSE "lookup")
  /\ ReadOnly(p)
  /\ UNCHANGED <<storeVars, base, new, ghostVars>>

(* ensure_cli_game: a game that has a row is taken as it is.               *)
Lookup(p) ==
  /\ pc[p] = "lookup"
  /\ Goto(p, IF ref[p][1] \in games THEN "resolve" ELSE "register")
  /\ ReadOnly(p)
  /\ Keep
  /\ UNCHANGED <<storeVars, ghostVars>>

Register(p) ==
  /\ pc[p] = "register"
  /\ RegisterGame(ref[p][1])
  /\ Goto(p, "check")
  /\ Wrote(p)
  /\ Keep
  /\ UNCHANGED ghostVars

(* ensure_game: SELECT EXISTS of the main branch.                          *)
CheckMain(p) ==
  /\ pc[p] = "check"
  /\ IF head[MainOf(ref[p][1])] = None
     THEN Goto(p, "root") /\ Keep
     ELSE AfterEnsure(p)
  /\ ReadOnly(p)
  /\ UNCHANGED <<storeVars, ghostVars>>

(* The root has no parent to read, so its put is one write.  Two roots of  *)
(* a game made in the same millisecond are one commit.                     *)
PutRoot(p) ==
  /\ pc[p] = "root"
  /\ \E c \in CommitId :
       /\ c \in Stored => commits[c] = <<>> /\ owner[c] = ref[p][1]
       /\ PutCommit(c, <<>>)
       /\ new' = [new EXCEPT ![p] = c]
       /\ owner' = [x \in Stored' |-> IF x = c THEN ref[p][1] ELSE owner[x]]
  /\ Goto(p, "main")
  /\ Wrote(p)
  /\ UNCHANGED <<op, ref, base, checkedOut, repositioned>>

CreateMain(p) ==
  LET r == MainOf(ref[p][1]) IN
  /\ pc[p] = "main"
  /\ UpsertBranch(r, new[p])
  /\ Repositions(r)
  /\ AfterEnsure(p)
  /\ Wrote(p)
  /\ UNCHANGED <<owner, checkedOut>>

-----------------------------------------------------------------------------
(* Turns and scratchpad edits: read the head, answer, store, advance.      *)

ReadHead(p) ==
  /\ pc[p] = "read"
  /\ HasBranch(ref[p])
  /\ base' = [base EXCEPT ![p] = <<head[ref[p]]>>]
  /\ Goto(p, IF op[p] = "turn" THEN "infer" ELSE "put")
  /\ ReadOnly(p)
  /\ UNCHANGED <<storeVars, op, ref, new, ghostVars>>

(* The provider answers.                                                   *)
Infer(p) ==
  /\ pc[p] = "infer"
  /\ Goto(p, "put")
  /\ ReadOnly(p)
  /\ Keep
  /\ UNCHANGED <<storeVars, ghostVars>>

(* put_commit up to its last SELECT: the transaction has its snapshot.     *)
BeginPut(p) ==
  /\ pc[p] = "put"
  /\ ValidParents(base[p])
  /\ Members(base[p]) \subseteq Stored
  /\ Goto(p, "insert")
  /\ ReadOnly(p)
  /\ Keep
  /\ UNCHANGED <<storeVars, ghostVars>>

(* The INSERTs and the COMMIT, with the snapshot still current.            *)
EndPut(p) ==
  /\ pc[p] = "insert"
  /\ p \notin stale
  /\ \E c \in CommitId \ Stored :
       /\ PutCommit(c, base[p])
       /\ new' = [new EXCEPT ![p] = c]
       /\ owner' = [x \in Stored' |-> IF x = c THEN ref[p][1] ELSE owner[x]]
  /\ Goto(p, IF op[p] = "merge" THEN "target" ELSE "advance")
  /\ Wrote(p)
  /\ UNCHANGED <<op, ref, base, checkedOut, repositioned>>

(* Compare-and-swap from the head that was read.                           *)
Advance(p) ==
  /\ pc[p] = "advance"
  /\ CanAdvance(ref[p], base[p][1], new[p])
  /\ AdvanceBranch(ref[p], new[p])
  /\ checkedOut' = checkedOut \cup {<<ref[p], new[p]>>}
  /\ Finish(p, "idle")
  /\ Wrote(p)
  /\ UNCHANGED <<owner, repositioned>>

(* BranchMoved: the commit stays in the store, the branch where it is.     *)
BranchMoved(p) ==
  /\ pc[p] = "advance"
  /\ ~CanAdvance(ref[p], base[p][1], new[p])
  /\ Finish(p, "idle")
  /\ ReadOnly(p)
  /\ UNCHANGED <<storeVars, ghostVars>>

-----------------------------------------------------------------------------
(* Creating branches and merging.                                          *)

(* What a reference on the command line, or a row of the history list, can *)
(* stand for: a commit of the game, or any stored commit by its id.        *)
Resolvable(g) ==
  IF RawIds THEN Stored ELSE UNION {Lineage(<<g, n>>) : n \in Name}

(* branch and create_resume_branch read one commit; the latter also picks  *)
(* a name that list_game_branches does not show.                           *)
ResolveBranch(p) ==
  /\ pc[p] = "resolve"
  /\ op[p] \in {"branch", "resume"}
  /\ op[p] = "resume" => head[ref[p]] = None
  /\ \E c \in Resolvable(ref[p][1]) : base' = [base EXCEPT ![p] = <<c>>]
  /\ Goto(p, "target")
  /\ ReadOnly(p)
  /\ UNCHANGED <<storeVars, op, ref, new, ghostVars>>

ResolveMerge(p) ==
  /\ pc[p] = "resolve"
  /\ op[p] = "merge"
  /\ \E l, r \in Resolvable(ref[p][1]) :
       l # r /\ base' = [base EXCEPT ![p] = <<l, r>>]
  /\ Goto(p, "put")
  /\ ReadOnly(p)
  /\ UNCHANGED <<storeVars, op, ref, new, ghostVars>>

(* create_game_branch on the named branch, or on the target of the merge.  *)
MoveBranch(p) ==
  /\ pc[p] = "target"
  /\ UpsertBranch(ref[p], IF op[p] = "merge" THEN new[p] ELSE base[p][1])
  /\ Repositions(ref[p])
  /\ Finish(p, "idle")
  /\ Wrote(p)
  /\ UNCHANGED <<owner, checkedOut>>

-----------------------------------------------------------------------------
(* An operation ends early: the provider, the template or a statement      *)
(* fails, or SQLite refuses the write of an outdated snapshot.  A program  *)
(* that cannot open its store exits.                                       *)
Fail(p) ==
  /\ pc[p] \notin {"closed", "idle"}
  /\ Finish(p, IF op[p] = "open" THEN "closed" ELSE "idle")
  /\ ReadOnly(p)
  /\ UNCHANGED <<storeVars, ghostVars>>

(* The program exits or is killed; an open transaction rolls back.         *)
Crash(p) ==
  /\ pc[p] # "closed"
  /\ Finish(p, "closed")
  /\ ReadOnly(p)
  /\ UNCHANGED <<storeVars, ghostVars>>

Step(p) ==
  \/ Open(p)
  \/ \E o \in Ops, r \in Ref : Begin(p, o, r)
  \/ Lookup(p) \/ Register(p) \/ CheckMain(p) \/ PutRoot(p) \/ CreateMain(p)
  \/ ReadHead(p) \/ Infer(p) \/ BeginPut(p) \/ EndPut(p)
  \/ Advance(p) \/ BranchMoved(p)
  \/ ResolveBranch(p) \/ ResolveMerge(p) \/ MoveBranch(p)
  \/ Fail(p) \/ Crash(p)

Next == \E p \in Client : Step(p)

Spec == Init /\ [][Next]_vars

-----------------------------------------------------------------------------
(* Properties.                                                             *)

(* Foreign keys and the parent check of put_commit: every parent and every *)
(* head is a stored commit, and no commit descends from itself, whatever   *)
(* clients interleave or die.                                              *)
GraphOK ==
  /\ ParentClosed(commits, Stored)
  /\ Acyclic(commits)
  /\ \A r \in Ref : head[r] # None => head[r] \in Stored /\ r[1] \in games

(* The sessions seen as sets of commits: what BranchHistory promises.      *)
Promise == INSTANCE BranchHistory WITH
  Commit <- CommitId,
  preserved <- Stored,
  lineage <- [r \in Ref |-> Lineage(r)]

(* Every step of every client is a step of BranchHistory: commits are      *)
(* preserved, and a turn or an edit that reports success has added exactly *)
(* its own commit to exactly one branch (translate_turn, commit_scratchpad *)
(* and the compare-and-swap of advance_game_branch).                       *)
KeepsPromise == Promise!Spec

(* A turn reported as committed stays in the history of its branch unless  *)
(* that branch was moved off a head it had (create_game_branch).           *)
NoTurnLost == Promise!NoTurnLost

(* Independent histories: while nobody names a foreign commit by its id,   *)
(* the commits reachable from a branch were all made for its game.         *)
OwnHistory ==
  ~RawIds => \A r \in Ref : \A c \in Lineage(r) : owner[c] = r[1]

(* ensure_game promises to create main if needed, so that it never takes a *)
(* turn that was reported as committed off the main branch of its game.    *)
MainOnlyIfNeeded ==
  [][\A p \in Client :
       pc[p] = "main" /\ op[p] # "open" /\ pc'[p] # "main" =>
         \A x \in checkedOut :
           x[1] = MainOf(ref[p][1]) /\ x[2] \in Lineage(x[1]) =>
             x[2] \in Lineage(x[1])']_vars
============================================================================
