---------------------------- MODULE SessionStore ----------------------------
(***************************************************************************)
(* The SQLite session store: its tables, and its statements as actions on  *)
(* them.  A statement is atomic; what runs between two statements of one   *)
(* client is the business of the modules that extend this one.             *)
(***************************************************************************)
EXTENDS CommitGraph

CONSTANTS
  CommitId,      \* every commit id that can ever be made: bounds the graph
  Game,          \* the game namespaces
  Default,       \* the namespace of sessions without a game
  Name,          \* branch names
  Main,          \* the branch every namespace starts with
  None           \* a branch row that does not exist

ASSUME StoreAssumption ==
  /\ Default \in Game
  /\ Main \in Name
  /\ None \notin CommitId

VARIABLES
  games,         \* rows of table games
  commits,       \* tables commits and commit_parents, as a CommitGraph
  head           \* table game_branches: the head of each <<game, name>>

storeVars == <<games, commits, head>>

Ref == Game \X Name
MainOf(g) == <<g, Main>>
Stored == DOMAIN commits

StoreTypeOK ==
  /\ games \subseteq Game
  /\ Stored \subseteq CommitId
  /\ \A c \in Stored : commits[c] \in Seq(CommitId)
  /\ head \in [Ref -> CommitId \cup {None}]

StoreInit ==
  /\ games = {}
  /\ commits = <<>>
  /\ head = [r \in Ref |-> None]

(* SessionStore::initialize registers the default namespace.               *)
InitializeTables ==
  /\ games' = games \cup {Default}
  /\ UNCHANGED <<commits, head>>

(* The first statement of ensure_game: register or refresh the identity.   *)
RegisterGame(g) ==
  /\ games' = games \cup {g}
  /\ UNCHANGED <<commits, head>>

(* Mutant: the branch row is taken for granted.                            *)
HasBranch_GameOnly(r) == r[1] \in games

(* game_branch: the game row and the branch row must both exist.           *)
HasBranch(r) == r[1] \in games /\ head[r] # None

(* The commits that make up a branch: game_branch_history.                 *)
Lineage(r) == IF head[r] = None THEN {} ELSE History(commits, head[r])

(* put_commit: every parent row must exist, an id already stored is kept.  *)
PutCommit(c, ps) ==
  /\ Members(ps) \subseteq Stored
  /\ commits' = WithCommit(commits, c, ps)
  /\ UNCHANGED <<games, head>>

(* create_game_branch: an upsert, so it moves a branch that exists.        *)
UpsertBranch(r, c) ==
  /\ r[1] \in games
  /\ c \in Stored
  /\ head' = [head EXCEPT ![r] = c]
  /\ UNCHANGED <<games, commits>>

(* Mutant: the UPDATE does not compare the head.                           *)
CanAdvance_NoCompare(r, expected, c) == HasBranch(r) /\ c \in Stored

(* advance_game_branch: moves the branch only from the expected head.      *)
CanAdvance(r, expected, c) == HasBranch(r) /\ c \in Stored /\ head[r] = expected

(* Mutant: the UPDATE names the branch but not the game.                   *)
AdvanceBranch_AnyGame(r, c) ==
  /\ head' = [x \in Ref |-> IF x[2] = r[2] /\ head[x] # None THEN c ELSE head[x]]
  /\ UNCHANGED <<games, commits>>

(* The UPDATE of that one row.                                             *)
AdvanceBranch(r, c) ==
  /\ head' = [head EXCEPT ![r] = c]
  /\ UNCHANGED <<games, commits>>

============================================================================
