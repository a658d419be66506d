--------------------------- MODULE SessionsProofs ---------------------------
(***************************************************************************)
(* Proofs about Sessions, for every number of clients, games, branches and *)
(* commits, and for every choice of operations.                            *)
(***************************************************************************)
EXTENDS Sessions, CommitGraphProofs

(* A reference always resolves to a stored commit.                         *)
LEMMA ResolvableStored == \A g : Resolvable(g) \subseteq Stored
BY DEF Resolvable, Lineage, History, Stored

(* A step of any client keeps the types of all variables.                  *)
LEMMA TypeStep == TypeOK /\ [Next]_vars => TypeOK'
<1> SUFFICES ASSUME TypeOK, [Next]_vars PROVE TypeOK'
  OBVIOUS
<1> USE StoreAssumption, SessionsAssumption
<1> USE DEF TypeOK, StoreTypeOK, PCs, AllOps, Ref, MainOf, Stored, Goto, Keep,
            Finish, ReadOnly, storeVars, ghostVars
<1>1. ASSUME NEW p \in Client, Open(p) PROVE TypeOK'
  BY <1>1 DEF Open, InitializeTables, Wrote
<1>2. ASSUME NEW p \in Client, NEW o \in Ops, NEW r \in Ref, Begin(p, o, r)
      PROVE  TypeOK'
  BY <1>2 DEF Begin
<1>3. ASSUME NEW p \in Client, Lookup(p) PROVE TypeOK'
  BY <1>3 DEF Lookup
<1>4. ASSUME NEW p \in Client, Register(p) PROVE TypeOK'
  BY <1>4 DEF Register, RegisterGame, Wrote
<1>5. ASSUME NEW p \in Client, CheckMain(p) PROVE TypeOK'
  <2>1. CASE Goto(p, "root") /\ Keep
    BY <1>5, <2>1 DEF CheckMain
  <2>2. CASE op[p] = "turn" /\ Goto(p, "read") /\ Keep
    BY <1>5, <2>2 DEF CheckMain
  <2>3. CASE op[p] \in {"branch", "merge"} /\ Goto(p, "resolve") /\ Keep
    BY <1>5, <2>3 DEF CheckMain
  <2>4. CASE Finish(p, "idle")
    BY <1>5, <2>4 DEF CheckMain
  <2>5. QED
    BY <1>5, <2>1, <2>2, <2>3, <2>4 DEF CheckMain, AfterEnsure
<1>6. ASSUME NEW p \in Client, PutRoot(p) PROVE TypeOK'
  BY <1>6 DEF PutRoot, PutCommit, WithCommit, Wrote
<1>7. ASSUME NEW p \in Client, CreateMain(p) PROVE TypeOK'
  <2>1. StoreTypeOK' /\ repositioned' \subseteq Ref
        /\ UNCHANGED <<commits, owner, checkedOut>> /\ stale' \subseteq Client
    BY <1>7 DEF CreateMain, UpsertBranch, Repositions, Wrote
  <2>2. CASE op[p] = "turn" /\ Goto(p, "read") /\ Keep
    BY <2>1, <2>2
  <2>3. CASE op[p] \in {"branch", "merge"} /\ Goto(p, "resolve") /\ Keep
    BY <2>1, <2>3
  <2>4. CASE Finish(p, "idle")
    BY <2>1, <2>4
  <2>5. QED
    BY <1>7, <2>2, <2>3, <2>4 DEF CreateMain, AfterEnsure
<1>8. ASSUME NEW p \in Client, ReadHead(p) PROVE TypeOK'
  BY <1>8 DEF ReadHead, HasBranch
<1>9. ASSUME NEW p \in Client, Infer(p) PROVE TypeOK'
  BY <1>9 DEF Infer
<1>10. ASSUME NEW p \in Client, BeginPut(p) PROVE TypeOK'
  BY <1>10 DEF BeginPut
<1>11. ASSUME NEW p \in Client, EndPut(p) PROVE TypeOK'
  BY <1>11 DEF EndPut, PutCommit, WithCommit, Wrote
<1>12. ASSUME NEW p \in Client, Advance(p) PROVE TypeOK'
  BY <1>12 DEF Advance, CanAdvance, AdvanceBranch, Wrote
<1>13. ASSUME NEW p \in Client, BranchMoved(p) PROVE TypeOK'
  BY <1>13 DEF BranchMoved
<1>14. ASSUME NEW p \in Client, ResolveBranch(p) PROVE TypeOK'
  BY <1>14, ResolvableStored DEF ResolveBranch
<1>15. ASSUME NEW p \in Client, ResolveMerge(p) PROVE TypeOK'
  BY <1>15, ResolvableStored DEF ResolveMerge
<1>16. ASSUME NEW p \in Client, MoveBranch(p) PROVE TypeOK'
  BY <1>16 DEF MoveBranch, UpsertBranch, Repositions, Wrote
<1>17. ASSUME NEW p \in Client, Fail(p) PROVE TypeOK'
  BY <1>17 DEF Fail
<1>18. ASSUME NEW p \in Client, Crash(p) PROVE TypeOK'
  BY <1>18 DEF Crash
<1>19. CASE UNCHANGED vars
  BY <1>19 DEF vars, clientVars
<1>20. QED
  BY <1>1, <1>2, <1>3, <1>4, <1>5, <1>6, <1>7, <1>8, <1>9, <1>10, <1>11,
     <1>12, <1>13, <1>14, <1>15, <1>16, <1>17, <1>18, <1>19
     DEF Next, Step

(* Every variable of the sessions keeps its type.                          *)
THEOREM TypeCorrect == Spec => []TypeOK
<1>1. Init => TypeOK
  BY StoreAssumption
     DEF Init, TypeOK, StoreInit, StoreTypeOK, PCs, AllOps, Ref, MainOf, Stored
<1>2. QED
  BY <1>1, TypeStep, PTL DEF Spec

-----------------------------------------------------------------------------
(* What the clients hold between two statements: only stored commits; a    *)
(* turn or an edit on its way holds one head; and what is about to be      *)
(* checked out is a stored child of that head.                             *)
HoldsStored(p) ==
  /\ Members(base[p]) \subseteq Stored
  /\ pc[p] \in {"infer", "put", "insert", "advance", "target"} /\ op[p] # "merge"
       => Len(base[p]) = 1
  /\ pc[p] = "advance"
       => op[p] # "merge" /\ new[p] \in Stored /\ commits[new[p]] = base[p]

ClientOK == \A p \in Client : HoldsStored(p)

(* Every commit stays stored, with the parents it has.                     *)
CommitsKept ==
  /\ Stored \subseteq Stored'
  /\ \A c \in Stored : commits'[c] = commits[c]

(* The members of the short sequences a client holds.                      *)
LEMMA MembersOfShort ==
  /\ Members(<<>>) = {}
  /\ \A x : Members(<<x>>) = {x} /\ Len(<<x>>) = 1
  /\ \A x, y : Members(<<x, y>>) = {x, y}
BY DEF Members

(* No step removes or changes a commit.                                    *)
LEMMA KeepStep == TypeOK /\ [Next]_vars => CommitsKept
<1> SUFFICES ASSUME TypeOK, [Next]_vars PROVE CommitsKept
  OBVIOUS
<1>1. ASSUME NEW c, NEW ps, PutCommit(c, ps) PROVE CommitsKept
  BY <1>1 DEF CommitsKept, PutCommit, WithCommit, Stored
<1>2. ASSUME UNCHANGED commits PROVE CommitsKept
  BY <1>2 DEF CommitsKept, Stored
<1>3. QED
  BY <1>1, <1>2
     DEF Next, Step, Open, InitializeTables, Begin, Lookup, Register,
         RegisterGame, CheckMain, PutRoot, CreateMain, UpsertBranch, ReadHead,
         Infer, BeginPut, EndPut, Advance, AdvanceBranch, BranchMoved,
         ResolveBranch, ResolveMerge, MoveBranch, Fail, Crash, vars, storeVars

(* A step of p leaves what the other clients hold alone.                   *)
OthersKeep(p) ==
  \A q \in Client \ {p} :
    pc'[q] = pc[q] /\ op'[q] = op[q] /\ base'[q] = base[q] /\ new'[q] = new[q]

LEMMA OthersHold ==
  ASSUME ClientOK, CommitsKept, NEW p \in Client, OthersKeep(p), HoldsStored(p)'
  PROVE  ClientOK'
BY DEF ClientOK, CommitsKept, OthersKeep, HoldsStored

(* An operation that is over holds nothing.                                *)
LEMMA FinishHolds ==
  ASSUME TypeOK, NEW p \in Client, NEW l \in {"idle", "closed"}, Finish(p, l)
  PROVE  OthersKeep(p) /\ HoldsStored(p)'
BY MembersOfShort DEF TypeOK, Finish, Goto, OthersKeep, HoldsStored

(* An operation that goes on before its put holds what it held.            *)
LEMMA GotoHolds ==
  ASSUME TypeOK, ClientOK, CommitsKept, NEW p \in Client,
         NEW l \in PCs \ {"infer", "put", "insert", "advance", "target"},
         Goto(p, l), UNCHANGED base,
         \A q \in Client \ {p} : op'[q] = op[q] /\ new'[q] = new[q]
  PROVE  OthersKeep(p) /\ HoldsStored(p)'
BY DEF TypeOK, Goto, OthersKeep, ClientOK, HoldsStored, CommitsKept

(* No step puts anything into a client's hands that is not stored.         *)
LEMMA ClientStep == TypeOK /\ GraphOK /\ ClientOK /\ [Next]_vars => ClientOK'
<1> SUFFICES ASSUME TypeOK, GraphOK, ClientOK, [Next]_vars PROVE ClientOK'
  OBVIOUS
<1>k. CommitsKept
  BY KeepStep
<1>1. ASSUME NEW p \in Client, Open(p) PROVE ClientOK'
  BY <1>1, <1>k, GotoHolds, OthersHold DEF Open, Keep, PCs
<1>2. ASSUME NEW p \in Client, NEW o \in Ops, NEW r \in Ref, Begin(p, o, r)
      PROVE  ClientOK'
  BY <1>2, <1>k, GotoHolds, OthersHold DEF Begin, PCs, TypeOK
<1>3. ASSUME NEW p \in Client, Lookup(p) PROVE ClientOK'
  BY <1>3, <1>k, GotoHolds, OthersHold DEF Lookup, Keep, PCs
<1>4. ASSUME NEW p \in Client, Register(p) PROVE ClientOK'
  BY <1>4, <1>k, GotoHolds, OthersHold DEF Register, Keep, PCs
<1>5. ASSUME NEW p \in Client, AfterEnsure(p) PROVE ClientOK'
  BY <1>5, <1>k, GotoHolds, FinishHolds, OthersHold DEF AfterEnsure, Keep, PCs
<1>6. ASSUME NEW p \in Client, CheckMain(p) PROVE ClientOK'
  BY <1>5, <1>6, <1>k, GotoHolds, OthersHold DEF CheckMain, Keep, PCs
<1>7. ASSUME NEW p \in Client, PutRoot(p) PROVE ClientOK'
  BY <1>7, <1>k, GotoHolds, OthersHold DEF PutRoot, PCs, TypeOK
<1>8. ASSUME NEW p \in Client, CreateMain(p) PROVE ClientOK'
  BY <1>5, <1>8 DEF CreateMain
<1>8a. ASSUME NEW p \in Client, ReadHead(p) PROVE ClientOK'
  <2>1. head[ref[p]] \in Stored
    BY <1>8a DEF ReadHead, HasBranch, GraphOK, TypeOK
  <2>2. base'[p] = <<head[ref[p]]>> /\ pc'[p] \in {"infer", "put"}
    BY <1>8a DEF ReadHead, Goto, TypeOK
  <2>3. HoldsStored(p)'
    BY <2>1, <2>2, <1>k, MembersOfShort DEF HoldsStored, CommitsKept
  <2>4. OthersKeep(p)
    BY <1>8a DEF ReadHead, OthersKeep, Goto, TypeOK
  <2>5. QED
    BY <2>3, <2>4, <1>k, OthersHold
<1>9. ASSUME NEW p \in Client, Infer(p) PROVE ClientOK'
  BY <1>9, <1>k, OthersHold
     DEF Infer, Goto, Keep, OthersKeep, TypeOK, ClientOK, HoldsStored, CommitsKept
<1>10. ASSUME NEW p \in Client, BeginPut(p) PROVE ClientOK'
  <2>1. pc'[p] = "insert" /\ pc[p] = "put" /\ UNCHANGED <<op, base, new>>
    BY <1>10 DEF BeginPut, Goto, Keep, TypeOK
  <2>2. HoldsStored(p)'
    BY <2>1, <1>k DEF ClientOK, HoldsStored, CommitsKept
  <2>3. OthersKeep(p)
    BY <1>10 DEF BeginPut, OthersKeep, Goto, Keep, TypeOK
  <2>4. QED
    BY <2>2, <2>3, <1>k, OthersHold
<1>11. ASSUME NEW p \in Client, EndPut(p) PROVE ClientOK'
  <2>1. new'[p] \in Stored' /\ commits'[new'[p]] = base[p]
    BY <1>11 DEF EndPut, PutCommit, WithCommit, Stored, TypeOK
  <2>2. /\ base' = base /\ op' = op
        /\ pc'[p] = (IF op[p] = "merge" THEN "target" ELSE "advance")
    BY <1>11 DEF EndPut, Goto, TypeOK
  <2>3. HoldsStored(p)'
    BY <1>11, <1>k, <2>1, <2>2 DEF EndPut, ClientOK, HoldsStored, CommitsKept
  <2>4. OthersKeep(p)
    BY <1>11 DEF EndPut, OthersKeep, Goto, TypeOK
  <2>5. QED
    BY <2>3, <2>4, <1>k, OthersHold
<1>12. ASSUME NEW p \in Client, Advance(p) PROVE ClientOK'
  BY <1>12, <1>k, FinishHolds, OthersHold DEF Advance
<1>13. ASSUME NEW p \in Client, BranchMoved(p) PROVE ClientOK'
  BY <1>13, <1>k, FinishHolds, OthersHold DEF BranchMoved
<1>14. ASSUME NEW p \in Client, ResolveBranch(p) PROVE ClientOK'
  <2>1. PICK c \in Stored : base' = [base EXCEPT ![p] = <<c>>]
    BY <1>14, ResolvableStored DEF ResolveBranch
  <2>2. base'[p] = <<c>> /\ pc'[p] = "target"
    BY <1>14, <2>1 DEF ResolveBranch, Goto, TypeOK
  <2>3. HoldsStored(p)'
    BY <2>1, <2>2, <1>k, MembersOfShort DEF HoldsStored, CommitsKept
  <2>4. OthersKeep(p)
    BY <1>14, <2>1 DEF ResolveBranch, OthersKeep, Goto, TypeOK
  <2>5. QED
    BY <2>3, <2>4, <1>k, OthersHold
<1>15. ASSUME NEW p \in Client, ResolveMerge(p) PROVE ClientOK'
  <2>1. PICK l \in Stored, r \in Stored : base' = [base EXCEPT ![p] = <<l, r>>]
    BY <1>15, ResolvableStored DEF ResolveMerge
  <2>2. base'[p] = <<l, r>> /\ pc'[p] = "put" /\ op'[p] = "merge"
    BY <1>15, <2>1 DEF ResolveMerge, Goto, TypeOK
  <2>3. HoldsStored(p)'
    BY <2>1, <2>2, <1>k, MembersOfShort DEF HoldsStored, CommitsKept
  <2>4. OthersKeep(p)
    BY <1>15, <2>1 DEF ResolveMerge, OthersKeep, Goto, TypeOK
  <2>5. QED
    BY <2>3, <2>4, <1>k, OthersHold
<1>16. ASSUME NEW p \in Client, MoveBranch(p) PROVE ClientOK'
  BY <1>16, <1>k, FinishHolds, OthersHold DEF MoveBranch
<1>17. ASSUME NEW p \in Client, Fail(p) PROVE ClientOK'
  BY <1>17, <1>k, FinishHolds, OthersHold DEF Fail
<1>18. ASSUME NEW p \in Client, Crash(p) PROVE ClientOK'
  BY <1>18, <1>k, FinishHolds, OthersHold DEF Crash
<1>19. CASE UNCHANGED vars
  BY <1>19 DEF vars, clientVars, storeVars, Stored, ClientOK, HoldsStored
<1>20. QED
  BY <1>1, <1>2, <1>3, <1>4, <1>6, <1>7, <1>8, <1>9, <1>10, <1>11, <1>12,
     <1>13, <1>14, <1>15, <1>16, <1>17, <1>18, <1>19, <1>8a
     DEF Next, Step

-----------------------------------------------------------------------------
(* The four things a step can do to the tables, whichever client takes it. *)
Same ==
  /\ games \subseteq games'
  /\ UNCHANGED <<commits, head, owner, checkedOut, repositioned>>

Puts(p, c, ps) ==
  /\ PutCommit(c, ps)
  /\ ps \in {<<>>, base[p]}
  /\ c \in Stored => owner[c] = ref[p][1]
  /\ new'[p] = c
  /\ owner' = [x \in Stored' |-> IF x = c THEN ref[p][1] ELSE owner[x]]
  /\ UNCHANGED <<checkedOut, repositioned>>

Moves(p, r, c) ==
  /\ r \in {ref[p], MainOf(ref[p][1])}
  /\ c = new[p] \/ (Len(base[p]) = 1 /\ c = base[p][1])
  /\ UpsertBranch(r, c)
  /\ Repositions(r)
  /\ UNCHANGED <<owner, checkedOut>>

ChecksOut(p) ==
  /\ pc[p] = "advance"
  /\ CanAdvance(ref[p], base[p][1], new[p])
  /\ AdvanceBranch(ref[p], new[p])
  /\ checkedOut' = checkedOut \cup {<<ref[p], new[p]>>}
  /\ UNCHANGED <<owner, repositioned>>

LEMMA StoreStep ==
  ASSUME TypeOK, ClientOK, [Next]_vars
  PROVE  \/ Same
         \/ \E p \in Client, c \in CommitId : \E ps \in Seq(CommitId) : Puts(p, c, ps)
         \/ \E p \in Client, r \in Ref, c \in CommitId : Moves(p, r, c)
         \/ \E p \in Client : ChecksOut(p)
<1>1. ASSUME NEW p \in Client,
             \/ Open(p)
             \/ \E o \in Ops, r \in Ref : Begin(p, o, r)
             \/ Lookup(p) \/ Register(p) \/ CheckMain(p) \/ ReadHead(p)
             \/ Infer(p) \/ BeginPut(p) \/ BranchMoved(p)
             \/ ResolveBranch(p) \/ ResolveMerge(p) \/ Fail(p) \/ Crash(p)
      PROVE  Same
  BY <1>1 DEF Open, InitializeTables, Begin, Lookup, Register, RegisterGame,
              CheckMain, ReadHead, Infer, BeginPut, BranchMoved, ResolveBranch,
              ResolveMerge, Fail, Crash, storeVars, ghostVars, Same
<1>2. ASSUME NEW p \in Client, PutRoot(p)
      PROVE  \E c \in CommitId : \E ps \in Seq(CommitId) : Puts(p, c, ps)
  <2>1. PICK c \in CommitId :
          /\ c \in Stored => commits[c] = <<>> /\ owner[c] = ref[p][1]
          /\ PutCommit(c, <<>>)
          /\ new' = [new EXCEPT ![p] = c]
          /\ owner' = [x \in Stored' |-> IF x = c THEN ref[p][1] ELSE owner[x]]
    BY <1>2 DEF PutRoot
  <2>2. Puts(p, c, <<>>)
    BY <1>2, <2>1 DEF PutRoot, Puts, TypeOK
  <2>3. <<>> \in Seq(CommitId)
    OBVIOUS
  <2>4. QED
    BY <2>2, <2>3
<1>3. ASSUME NEW p \in Client, EndPut(p)
      PROVE  \E c \in CommitId : \E ps \in Seq(CommitId) : Puts(p, c, ps)
  <2>1. PICK c \in CommitId \ Stored :
          /\ PutCommit(c, base[p])
          /\ new' = [new EXCEPT ![p] = c]
          /\ owner' = [x \in Stored' |-> IF x = c THEN ref[p][1] ELSE owner[x]]
    BY <1>3 DEF EndPut
  <2>2. Puts(p, c, base[p])
    BY <1>3, <2>1 DEF EndPut, Puts, TypeOK
  <2>3. base[p] \in Seq(CommitId)
    BY DEF TypeOK
  <2>4. QED
    BY <2>2, <2>3
<1>4. ASSUME NEW p \in Client, CreateMain(p)
      PROVE  \E r \in Ref, c \in CommitId : Moves(p, r, c)
  <2>1. MainOf(ref[p][1]) \in Ref /\ new[p] \in CommitId
    BY <1>4, StoreAssumption
       DEF CreateMain, UpsertBranch, TypeOK, StoreTypeOK, MainOf, Ref
  <2>2. Moves(p, MainOf(ref[p][1]), new[p])
    BY <1>4 DEF CreateMain, Moves
  <2>3. QED
    BY <2>1, <2>2
<1>5. ASSUME NEW p \in Client, MoveBranch(p)
      PROVE  \E r \in Ref, c \in CommitId : Moves(p, r, c)
  <2> DEFINE c == IF op[p] = "merge" THEN new[p] ELSE base[p][1]
  <2>1. Moves(p, ref[p], c)
    BY <1>5 DEF MoveBranch, Moves, ClientOK, HoldsStored
  <2>2. ref[p] \in Ref /\ c \in CommitId
    BY <1>5 DEF MoveBranch, UpsertBranch, TypeOK, StoreTypeOK
  <2>3. QED
    BY <2>1, <2>2
<1>6. ASSUME NEW p \in Client, Advance(p) PROVE ChecksOut(p)
  BY <1>6 DEF Advance, ChecksOut
<1>7. CASE UNCHANGED vars
  BY <1>7 DEF vars, storeVars, ghostVars, Same
<1>8. QED
  BY <1>1, <1>2, <1>3, <1>4, <1>5, <1>6, <1>7 DEF Next, Step

-----------------------------------------------------------------------------
(* The commit graph.                                                       *)

LEMMA GraphStep == TypeOK /\ GraphOK /\ ClientOK /\ [Next]_vars => GraphOK'
<1> SUFFICES ASSUME TypeOK, GraphOK, ClientOK, [Next]_vars PROVE GraphOK'
  OBVIOUS
<1>1. CASE Same
  BY <1>1 DEF Same, GraphOK, Stored
<1>2. ASSUME NEW p \in Client, NEW c \in CommitId, NEW ps \in Seq(CommitId),
             Puts(p, c, ps)
      PROVE  GraphOK'
  <2>1. ParentClosed(commits, DOMAIN commits) /\ Acyclic(commits)
    BY DEF GraphOK, Stored
  <2>2. /\ Members(ps) \subseteq DOMAIN commits
        /\ commits' = WithCommit(commits, c, ps)
        /\ UNCHANGED <<games, head>>
    BY <1>2 DEF Puts, PutCommit, Stored
  <2>3. ParentClosed(commits, Stored)' /\ Acyclic(commits)'
    BY <2>1, <2>2, StoreKeepsGraph DEF Stored
  <2>4. Stored \subseteq Stored'
    BY <2>2 DEF WithCommit, Stored
  <2>5. QED
    BY <2>2, <2>3, <2>4 DEF GraphOK
<1>3. ASSUME NEW p \in Client, NEW r \in Ref, NEW c \in CommitId, Moves(p, r, c)
      PROVE  GraphOK'
  BY <1>3 DEF Moves, UpsertBranch, GraphOK, Stored, TypeOK, StoreTypeOK
<1>4. ASSUME NEW p \in Client, ChecksOut(p) PROVE GraphOK'
  BY <1>4 DEF ChecksOut, CanAdvance, HasBranch, AdvanceBranch, GraphOK, Stored,
              TypeOK, StoreTypeOK
<1>5. QED
  BY <1>1, <1>2, <1>3, <1>4, StoreStep

(* The inductive invariant.                                                *)
IInv == TypeOK /\ GraphOK /\ ClientOK

LEMMA InitIInv == Init => IInv
<1> SUFFICES ASSUME Init PROVE IInv
  OBVIOUS
<1>1. TypeOK
  BY StoreAssumption
     DEF Init, TypeOK, StoreInit, StoreTypeOK, PCs, AllOps, Ref, MainOf, Stored
<1>2. GraphOK
  BY DEF Init, StoreInit, GraphOK, ParentClosed, Acyclic, Stored
<1>3. ClientOK
  BY MembersOfShort DEF Init, ClientOK, HoldsStored
<1>4. QED
  BY <1>1, <1>2, <1>3 DEF IInv

LEMMA Inductive == IInv /\ [Next]_vars => IInv'
BY TypeStep, GraphStep, ClientStep DEF IInv

LEMMA IInvAlways == Spec => []IInv
BY InitIInv, Inductive, PTL DEF Spec

(* For any number of clients that interleave their statements, fail and    *)
(* die: parents and heads are always stored, and no commit descends from   *)
(* itself, so that every walk over a history ends (history_from_head).     *)
THEOREM GraphCorrect == Spec => []GraphOK
<1>1. IInv => GraphOK
  BY DEF IInv
<1>2. QED
  BY <1>1, IInvAlways, PTL

-----------------------------------------------------------------------------
(* Sessions implement BranchHistory.                                       *)

(* A commit put into the graph changes the history of no branch.           *)
LEMMA PutKeepsLineage ==
  ASSUME TypeOK, GraphOK, NEW p \in Client, NEW c \in CommitId,
         NEW ps \in Seq(CommitId), Puts(p, c, ps), NEW r \in Ref
  PROVE  Lineage(r)' = Lineage(r)
<1>1. /\ Members(ps) \subseteq DOMAIN commits
      /\ commits' = WithCommit(commits, c, ps)
      /\ head' = head
  BY DEF Puts, PutCommit, Stored
<1>2. CASE c \in DOMAIN commits
  BY <1>1, <1>2 DEF WithCommit, Lineage
<1>3. CASE c \notin DOMAIN commits
  <2>1. CASE head[r] = None
    BY <1>1, <2>1 DEF Lineage
  <2>2. CASE head[r] # None
    <3>1. head[r] \in DOMAIN commits /\ ParentClosed(commits, DOMAIN commits)
      BY <2>2 DEF GraphOK, Stored
    <3>2. History(WithCommit(commits, c, ps), head[r]) = History(commits, head[r])
      BY <1>3, <3>1, OldHistory
    <3>3. QED
      BY <1>1, <2>2, <3>2 DEF Lineage
  <2>3. QED
    BY <2>1, <2>2
<1>4. QED
  BY <1>2, <1>3

(* A branch that exists has a history that is not empty and is stored.     *)
LEMMA LineageStored ==
  ASSUME GraphOK, NEW r \in Ref
  PROVE  /\ Lineage(r) \subseteq Stored
         /\ (Lineage(r) = {}) <=> (head[r] = None)
BY HistoryClosed DEF GraphOK, Lineage, Stored

(* What compare-and-swap is for: a checked out commit was not yet in the   *)
(* history of its branch, and it is all that the history gains.            *)
LEMMA CheckOutGrows ==
  ASSUME TypeOK, GraphOK, ClientOK, NEW p \in Client, ChecksOut(p),
         NEW r \in Ref, r = ref[p], NEW c \in CommitId, c = new[p]
  PROVE  /\ c \in Stored
         /\ c \notin Lineage(r)
         /\ Lineage(r)' = Lineage(r) \cup {c}
         /\ \A s \in Ref \ {r} : Lineage(s)' = Lineage(s)
<1> DEFINE h == head[r]
<1>1. /\ h = base[p][1] /\ h # None
      /\ head' = [head EXCEPT ![r] = c]
      /\ commits' = commits
      /\ c \in Stored
      /\ c # None
  BY StoreAssumption
     DEF ChecksOut, CanAdvance, HasBranch, AdvanceBranch, TypeOK, StoreTypeOK
<1>2. commits[c] = <<h>>
  <2>1. commits[c] = base[p] /\ Len(base[p]) = 1 /\ base[p] \in Seq(CommitId)
    BY DEF ChecksOut, ClientOK, HoldsStored, TypeOK
  <2>2. QED
    BY <1>1, <2>1
<1>3. ParentsOf(commits, c) = {h}
  BY <1>2 DEF ParentsOf, Members
<1>4. h \in DOMAIN commits /\ ParentClosed(commits, DOMAIN commits)
  BY <1>1 DEF GraphOK, Stored
<1>5. c \notin History(commits, h)
  BY <1>1, <1>3 DEF GraphOK, Acyclic, Stored
<1>6. History(commits, c) = History(commits, h) \cup {c}
  <2>1. /\ c \in History(commits, c)
        /\ History(commits, c) \subseteq DOMAIN commits
        /\ ParentClosed(commits, History(commits, c))
    BY <1>1, <1>4, HistoryClosed DEF Stored
  <2>2. /\ h \in History(commits, h)
        /\ History(commits, h) \subseteq DOMAIN commits
        /\ ParentClosed(commits, History(commits, h))
    BY <1>4, HistoryClosed
  <2>3. History(commits, h) \subseteq History(commits, c)
    <3>1. h \in History(commits, c)
      BY <1>3, <2>1 DEF ParentClosed
    <3>2. QED
      BY <2>1, <3>1, HistoryLeast
  <2>4. History(commits, c) \subseteq History(commits, h) \cup {c}
    <3>1. ParentClosed(commits, History(commits, h) \cup {c})
      BY <1>3, <2>2 DEF ParentClosed
    <3>2. History(commits, h) \cup {c} \subseteq DOMAIN commits
      BY <1>1, <2>2 DEF Stored
    <3>3. QED
      BY <3>1, <3>2, HistoryLeast
  <2>5. QED
    BY <2>1, <2>3, <2>4
<1>7. /\ Lineage(r)' = History(commits, c)
      /\ Lineage(r) = History(commits, h)
  <2>1. head'[r] = c
    BY <1>1 DEF TypeOK, StoreTypeOK
  <2>2. QED
    BY <1>1, <2>1 DEF Lineage
<1>8. ASSUME NEW s \in Ref \ {r} PROVE Lineage(s)' = Lineage(s)
  <2>1. head'[s] = head[s]
    BY <1>1 DEF TypeOK, StoreTypeOK
  <2>2. QED
    BY <1>1, <2>1 DEF Lineage
<1>9. QED
  BY <1>1, <1>5, <1>6, <1>7, <1>8

LEMMA PromiseInit == Init => Promise!Init
BY DEF Init, StoreInit, Promise!Init, Stored, Lineage

LEMMA PromiseStep == IInv /\ [Next]_vars => [Promise!Next]_(Promise!vars)
<1> SUFFICES ASSUME IInv, [Next]_vars PROVE [Promise!Next]_(Promise!vars)
  OBVIOUS
<1> USE DEF IInv
<1>1. CASE Same
  <2>1. \A r \in Ref : Lineage(r)' = Lineage(r)
    BY <1>1 DEF Same, Lineage
  <2>2. QED
    BY <1>1, <2>1 DEF Same, Promise!vars, Stored
<1>2. ASSUME NEW p \in Client, NEW c \in CommitId, NEW ps \in Seq(CommitId),
             Puts(p, c, ps)
      PROVE  [Promise!Next]_(Promise!vars)
  <2>1. \A r \in Ref : Lineage(r)' = Lineage(r)
    BY <1>2, PutKeepsLineage
  <2>2. Stored' = Stored \cup {c} /\ UNCHANGED <<checkedOut, repositioned>>
    BY <1>2 DEF Puts, PutCommit, WithCommit, Stored
  <2>3. CASE c \in Stored
    BY <2>1, <2>2, <2>3 DEF Promise!vars
  <2>4. CASE c \notin Stored
    <3>1. Promise!Preserve(c)
      BY <2>1, <2>2, <2>4 DEF Promise!Preserve
    <3>2. QED
      BY <3>1 DEF Promise!Next
  <2>5. QED
    BY <2>3, <2>4
<1>3. ASSUME NEW p \in Client, NEW r \in Ref, NEW c \in CommitId, Moves(p, r, c)
      PROVE  [Promise!Next]_(Promise!vars)
  <2> DEFINE L == History(commits, c)
  <2>1. /\ c \in Stored /\ c # None
        /\ head' = [head EXCEPT ![r] = c]
        /\ commits' = commits /\ checkedOut' = checkedOut
        /\ Repositions(r)
    BY <1>3, StoreAssumption DEF Moves, UpsertBranch
  <2>2. L \in (SUBSET Stored) \ {{}}
    BY <2>1, HistoryClosed DEF GraphOK, Stored
  <2>3. /\ Lineage(r)' = L
        /\ \A s \in Ref \ {r} : Lineage(s)' = Lineage(s)
    <3>1. head'[r] = c
      BY <2>1 DEF TypeOK, StoreTypeOK
    <3>2. ASSUME NEW s \in Ref \ {r} PROVE Lineage(s)' = Lineage(s)
      <4>1. head'[s] = head[s]
        BY <2>1 DEF TypeOK, StoreTypeOK
      <4>2. QED
        BY <2>1, <4>1 DEF Lineage
    <3>3. QED
      BY <2>1, <3>1, <3>2 DEF Lineage
  <2> DEFINE Lin == [s \in Ref |-> Lineage(s)]
  <2>4. Lin' = [Lin EXCEPT ![r] = L] /\ Lin'[r] = L /\ Lin[r] = Lineage(r)
    BY <2>3
  <2>5. Stored' = Stored
    BY <2>1 DEF Stored
  <2>6. CASE head[r] = None
    <3>1. Lineage(r) = {} /\ repositioned' = repositioned
      BY <2>1, <2>6 DEF Lineage, Repositions
    <3>2. Promise!Create(r)
      <4> HIDE DEF Lin, L
      <4>1. SUFFICES /\ UNCHANGED <<Stored, checkedOut, repositioned>>
                     /\ Lin[r] = {}
                     /\ Lin'[r] \in (SUBSET Stored) \ {{}}
                     /\ Lin' = [Lin EXCEPT ![r] = Lin'[r]]
        BY DEF Promise!Create, Lin
      <4>2. QED
        BY <2>1, <2>2, <2>4, <2>5, <3>1
    <3>3. QED
      BY <3>2 DEF Promise!Next
  <2>7. CASE head[r] # None
    <3>1. Lineage(r) # {} /\ repositioned' = repositioned \cup {r}
      BY <2>1, <2>7, LineageStored DEF Repositions
    <3>2. Promise!Reposition(r)
      <4> HIDE DEF Lin, L
      <4>1. SUFFICES /\ UNCHANGED <<Stored, checkedOut>>
                     /\ Lin[r] # {} /\ repositioned' = repositioned \cup {r}
                     /\ Lin'[r] \in (SUBSET Stored) \ {{}}
                     /\ Lin' = [Lin EXCEPT ![r] = Lin'[r]]
        BY DEF Promise!Reposition, Lin
      <4>2. QED
        BY <2>1, <2>2, <2>4, <2>5, <3>1
    <3>3. QED
      BY <3>2 DEF Promise!Next
  <2>8. QED
    BY <2>6, <2>7
<1>4. ASSUME NEW p \in Client, ChecksOut(p)
      PROVE  [Promise!Next]_(Promise!vars)
  <2>0. PICK r \in Ref, c \in CommitId : r = ref[p] /\ c = new[p]
    BY <1>4 DEF ChecksOut, CanAdvance, TypeOK, StoreTypeOK
  <2>1. /\ c \in Stored
        /\ c \notin Lineage(r)
        /\ Lineage(r)' = Lineage(r) \cup {c}
        /\ \A s \in Ref \ {r} : Lineage(s)' = Lineage(s)
    BY <1>4, <2>0, CheckOutGrows
  <2>2. [s \in Ref |-> Lineage(s)]'
          = [[s \in Ref |-> Lineage(s)] EXCEPT ![r] = @ \cup {c}]
    BY <2>1
  <2>3. /\ Stored' = Stored /\ repositioned' = repositioned
        /\ checkedOut' = checkedOut \cup {<<r, c>>}
    BY <1>4, <2>0 DEF ChecksOut, AdvanceBranch, Stored
  <2>4. Promise!CheckOut(r, c)
    BY <2>1, <2>2, <2>3 DEF Promise!CheckOut
  <2>5. QED
    BY <2>1, <2>4 DEF Promise!Next
<1>5. QED
  BY <1>1, <1>2, <1>3, <1>4, StoreStep

(* Sessions implement BranchHistory: whatever clients do, commits are      *)
(* preserved, and a turn or edit that reports success has added exactly    *)
(* its commit to exactly one branch (translate_turn, commit_scratchpad,    *)
(* advance_game_branch).                                                   *)
THEOREM Refinement == Spec => KeepsPromise
BY PromiseInit, PromiseStep, IInvAlways, PTL DEF Spec, KeepsPromise, Promise!Spec

-----------------------------------------------------------------------------
(* No turn is lost.                                                        *)

LEMMA LostStep ==
  IInv /\ NoTurnLost /\ [Next]_vars => NoTurnLost'
<1> SUFFICES ASSUME IInv, NoTurnLost, [Next]_vars PROVE NoTurnLost'
  OBVIOUS
<1> DEFINE Lin == [r \in Ref |-> Lineage(r)]
<1>1. checkedOut \subseteq Ref \X CommitId
  BY DEF IInv, TypeOK
<1>2. \A t \in checkedOut : t[1] \in repositioned \/ t[2] \in Lin[t[1]]
  BY DEF NoTurnLost, Promise!NoTurnLost
<1>3. CASE UNCHANGED <<Lin, checkedOut, repositioned>>
  BY <1>2, <1>3 DEF NoTurnLost, Promise!NoTurnLost
<1>4. ASSUME NEW r \in Ref, NEW c \in CommitId, Promise!CheckOut(r, c)
      PROVE  NoTurnLost'
  <2>1. /\ Lin' = [Lin EXCEPT ![r] = @ \cup {c}]
        /\ checkedOut' = checkedOut \cup {<<r, c>>}
        /\ repositioned' = repositioned
    BY <1>4 DEF Promise!CheckOut
  <2>2. \A t \in checkedOut' : t[1] \in repositioned' \/ t[2] \in Lin'[t[1]]
    <3> HIDE DEF Lin
    <3>1. DOMAIN Lin = Ref
      BY DEF Lin
    <3>2. QED
      BY <1>1, <1>2, <2>1, <3>1
  <2>3. QED
    BY <2>2 DEF NoTurnLost, Promise!NoTurnLost
<1>5. ASSUME NEW r \in Ref, Promise!Create(r) \/ Promise!Reposition(r)
      PROVE  NoTurnLost'
  <2>1. /\ Lin' = [Lin EXCEPT ![r] = Lin'[r]]
        /\ checkedOut' = checkedOut
        /\ repositioned \subseteq repositioned'
        /\ Lin[r] = {} \/ r \in repositioned'
    BY <1>5 DEF Promise!Create, Promise!Reposition
  <2>2. \A t \in checkedOut' : t[1] \in repositioned' \/ t[2] \in Lin'[t[1]]
    <3> HIDE DEF Lin
    <3>1. DOMAIN Lin = Ref
      BY DEF Lin
    <3>2. QED
      BY <1>1, <1>2, <2>1, <3>1
  <2>3. QED
    BY <2>2 DEF NoTurnLost, Promise!NoTurnLost
<1>6. QED
  BY <1>3, <1>4, <1>5, PromiseStep
     DEF Promise!Next, Promise!vars, Promise!Preserve

(* A turn a client was told is committed stays in the history of its       *)
(* branch unless create_game_branch moves that branch off a head it had:   *)
(* turns, edits, failures and deaths alone lose nothing.                   *)
THEOREM NoTurnLostCorrect == Spec => []NoTurnLost
<1>1. Init => NoTurnLost
  BY DEF Init, NoTurnLost, Promise!NoTurnLost
<1>2. QED
  BY <1>1, LostStep, IInvAlways, PTL DEF Spec

-----------------------------------------------------------------------------
(* Independent histories.                                                  *)

(* While ids of foreign commits are not used, parents, heads and what      *)
(* clients hold belong to one game.                                        *)
OwnGraph ==
  /\ \A c \in Stored : \A q \in ParentsOf(commits, c) : owner[q] = owner[c]
  /\ \A r \in Ref : head[r] # None => owner[head[r]] = r[1]

OwnHeld(p) ==
  /\ pc[p] \in {"idle", "closed"} => base[p] = <<>> /\ new[p] = None
  /\ \A q \in Members(base[p]) : owner[q] = ref[p][1]
  /\ new[p] # None => new[p] \in Stored /\ owner[new[p]] = ref[p][1]

OwnOK == ~RawIds => OwnGraph /\ \A p \in Client : OwnHeld(p)

(* A history of one game's head is a set of that game's commits.           *)
LEMMA OwnImplies == IInv /\ OwnOK => OwnHistory
<1> SUFFICES ASSUME IInv, OwnOK, ~RawIds, NEW r \in Ref, NEW c \in Lineage(r)
             PROVE  owner[c] = r[1]
  BY DEF OwnHistory
<1> DEFINE S == {x \in DOMAIN commits : owner[x] = r[1]}
<1>1. head[r] \in S /\ c \in History(commits, head[r])
  BY DEF IInv, GraphOK, Stored, Lineage, OwnOK, OwnGraph
<1>2. ParentClosed(commits, S)
  BY DEF IInv, GraphOK, Stored, OwnOK, OwnGraph, ParentClosed
<1>3. History(commits, head[r]) \subseteq S
  BY <1>1, <1>2, HistoryLeast
<1>4. QED
  BY <1>1, <1>3

(* A commit keeps the game it was made for.                                *)
LEMMA OwnersKept ==
  IInv /\ [Next]_vars => \A c \in Stored : owner'[c] = owner[c]
<1> SUFFICES ASSUME IInv, [Next]_vars, NEW c \in Stored PROVE owner'[c] = owner[c]
  OBVIOUS
<1>1. c \in Stored'
  BY KeepStep DEF IInv, CommitsKept
<1>2. ASSUME NEW p \in Client, NEW d \in CommitId, NEW ps \in Seq(CommitId),
             Puts(p, d, ps)
      PROVE  owner'[c] = owner[c]
  BY <1>1, <1>2 DEF Puts
<1>3. QED
  BY <1>2, StoreStep DEF IInv, Same, Moves, ChecksOut

LEMMA OwnGraphStep ==
  ASSUME IInv, OwnGraph, \A p \in Client : OwnHeld(p), [Next]_vars
  PROVE  OwnGraph'
<1> USE DEF IInv
<1>1. CASE Same
  BY <1>1 DEF Same, OwnGraph, Stored
<1>2. ASSUME NEW p \in Client, NEW c \in CommitId, NEW ps \in Seq(CommitId),
             Puts(p, c, ps)
      PROVE  OwnGraph'
  <2>1. \A x \in Stored : owner'[x] = owner[x]
    BY OwnersKept
  <2>2. /\ Members(ps) \subseteq Stored /\ head' = head
        /\ commits' = WithCommit(commits, c, ps)
        /\ \A q \in Members(ps) : owner[q] = ref[p][1]
    BY <1>2, MembersOfShort DEF Puts, PutCommit, OwnHeld
  <2>3. \A r \in Ref : head'[r] # None => owner'[head'[r]] = r[1]
    BY <2>1, <2>2 DEF OwnGraph, GraphOK
  <2>4. CASE c \in Stored
    <3>1. commits' = commits
      BY <2>2, <2>4 DEF WithCommit, Stored
    <3>2. QED
      BY <2>1, <2>3, <3>1 DEF OwnGraph, GraphOK, ParentClosed, Stored
  <2>5. CASE c \notin Stored
    <3>1. /\ Stored' = Stored \cup {c}
          /\ ParentsOf(commits, c)' = Members(ps)
          /\ \A x \in Stored : ParentsOf(commits', x) = ParentsOf(commits, x)
      BY <2>2, <2>5 DEF WithCommit, Stored, ParentsOf
    <3>2. owner'[c] = ref[p][1]
      BY <1>2, <3>1 DEF Puts
    <3>3. \A q \in ParentsOf(commits', c) : owner'[q] = owner'[c]
      BY <2>1, <2>2, <3>1, <3>2
    <3>4. ASSUME NEW x \in Stored, NEW q \in ParentsOf(commits', x)
          PROVE  owner'[q] = owner'[x]
      BY <2>1, <3>1, <3>4 DEF OwnGraph, GraphOK, ParentClosed
    <3>5. QED
      BY <2>3, <3>1, <3>3, <3>4 DEF OwnGraph
  <2>6. QED
    BY <2>4, <2>5
<1>3. ASSUME NEW p \in Client, NEW r \in Ref, NEW c \in CommitId, Moves(p, r, c)
      PROVE  OwnGraph'
  <2>1. c \in Stored /\ c # None /\ r[1] = ref[p][1]
    BY <1>3, StoreAssumption DEF Moves, UpsertBranch, MainOf
  <2>2. owner[c] = ref[p][1]
    <3>1. CASE c = new[p]
      BY <2>1, <3>1 DEF OwnHeld
    <3>2. CASE Len(base[p]) = 1 /\ c = base[p][1]
      <4>1. base[p] \in Seq(CommitId)
        BY DEF TypeOK
      <4>2. c \in Members(base[p])
        BY <3>2, <4>1 DEF Members
      <4>3. QED
        BY <4>2 DEF OwnHeld
    <3>3. QED
      BY <1>3, <3>1, <3>2 DEF Moves
  <2>3. head' = [head EXCEPT ![r] = c] /\ UNCHANGED <<commits, owner>>
    BY <1>3 DEF Moves, UpsertBranch
  <2>4. QED
    BY <2>1, <2>2, <2>3 DEF OwnGraph, Stored, TypeOK, StoreTypeOK
<1>4. ASSUME NEW p \in Client, ChecksOut(p) PROVE OwnGraph'
  <2>1. /\ ref[p] \in Ref /\ new[p] # None /\ owner[new[p]] = ref[p][1]
        /\ head' = [head EXCEPT ![ref[p]] = new[p]] /\ UNCHANGED <<commits, owner>>
    BY <1>4, StoreAssumption
       DEF ChecksOut, CanAdvance, AdvanceBranch, OwnHeld, TypeOK, StoreTypeOK
  <2>2. QED
    BY <2>1 DEF OwnGraph, Stored, TypeOK, StoreTypeOK
<1>5. QED
  BY <1>1, <1>2, <1>3, <1>4, StoreStep

LEMMA OwnHeldStep ==
  ASSUME IInv, OwnGraph, \A p \in Client : OwnHeld(p), ~RawIds, [Next]_vars
  PROVE  \A p \in Client : OwnHeld(p)'
<1> USE DEF IInv
<1>k. CommitsKept /\ \A c \in Stored : owner'[c] = owner[c]
  BY KeepStep, OwnersKept
<1>f. ASSUME NEW q \in Client,
             \/ pc'[q] = pc[q]
             \/ pc'[q] \notin {"idle", "closed"},
             base'[q] = base[q], new'[q] = new[q],
             ref'[q] = ref[q] \/ (base[q] = <<>> /\ new[q] = None)
      PROVE  OwnHeld(q)'
  BY <1>f, <1>k, MembersOfShort DEF OwnHeld, ClientOK, HoldsStored, CommitsKept
<1>e. ASSUME NEW p \in Client, NEW l \in {"idle", "closed"}, Finish(p, l)
      PROVE  \A q \in Client : OwnHeld(q)'
  <2>1. OwnHeld(p)'
    BY <1>e, MembersOfShort DEF Finish, Goto, TypeOK, OwnHeld
  <2>2. ASSUME NEW q \in Client \ {p} PROVE OwnHeld(q)'
    <3>1. pc'[q] = pc[q] /\ base'[q] = base[q] /\ new'[q] = new[q] /\ ref'[q] = ref[q]
      BY <1>e DEF Finish, Goto, TypeOK
    <3>2. QED
      BY <3>1, <1>f
  <2>3. QED
    BY <2>1, <2>2
<1>g. ASSUME NEW p \in Client, NEW l \in PCs \ {"idle", "closed"}, Goto(p, l), Keep
      PROVE  \A q \in Client : OwnHeld(q)'
  <2>1. ASSUME NEW q \in Client
        PROVE  /\ pc'[q] = pc[q] \/ pc'[q] \notin {"idle", "closed"}
               /\ base'[q] = base[q] /\ new'[q] = new[q] /\ ref'[q] = ref[q]
    BY <1>g DEF Goto, Keep, TypeOK
  <2>2. QED
    BY <2>1, <1>f
<1>1. ASSUME NEW p \in Client, AfterEnsure(p) PROVE \A q \in Client : OwnHeld(q)'
  BY <1>1, <1>e, <1>g DEF AfterEnsure, PCs
<1>2. ASSUME NEW p \in Client, Open(p) PROVE \A q \in Client : OwnHeld(q)'
  <2>1. ASSUME NEW q \in Client
        PROVE  /\ pc'[q] = pc[q] \/ (pc[q] = "closed" /\ pc'[q] \in {"root", "idle"})
               /\ base'[q] = base[q] /\ new'[q] = new[q] /\ ref'[q] = ref[q]
    BY <1>2 DEF Open, Goto, Keep, TypeOK
  <2>2. ASSUME NEW q \in Client, pc[q] = "closed" PROVE OwnHeld(q)'
    BY <2>1, <2>2, MembersOfShort DEF OwnHeld
  <2>3. QED
    BY <2>1, <2>2, <1>f
<1>3. ASSUME NEW p \in Client, NEW o \in Ops, NEW r \in Ref, Begin(p, o, r)
      PROVE  \A q \in Client : OwnHeld(q)'
  <2>1. /\ pc[p] = "idle" /\ base[p] = <<>> /\ new[p] = None
        /\ pc'[p] \notin {"idle", "closed"}
    BY <1>3 DEF Begin, Goto, OwnHeld, TypeOK
  <2>2. ASSUME NEW q \in Client
        PROVE  /\ base'[q] = base[q] /\ new'[q] = new[q]
               /\ q # p => ref'[q] = ref[q] /\ pc'[q] = pc[q]
    BY <1>3 DEF Begin, Goto, TypeOK
  <2>3. QED
    BY <2>1, <2>2, <1>f
<1>4. ASSUME NEW p \in Client,
             Lookup(p) \/ Register(p) \/ CheckMain(p) \/ Infer(p) \/ BeginPut(p)
      PROVE  \A q \in Client : OwnHeld(q)'
  BY <1>1, <1>4, <1>g DEF Lookup, Register, CheckMain, Infer, BeginPut, PCs
<1>5. ASSUME NEW p \in Client,
             BranchMoved(p) \/ Fail(p) \/ Crash(p) \/ Advance(p) \/ MoveBranch(p)
      PROVE  \A q \in Client : OwnHeld(q)'
  BY <1>5, <1>e DEF BranchMoved, Fail, Crash, Advance, MoveBranch
<1>6. ASSUME NEW p \in Client, CreateMain(p) PROVE \A q \in Client : OwnHeld(q)'
  BY <1>1, <1>6 DEF CreateMain
<1>7. ASSUME NEW p \in Client, PutRoot(p) \/ EndPut(p)
      PROVE  \A q \in Client : OwnHeld(q)'
  <2>1. PICK c \in CommitId :
          /\ new' = [new EXCEPT ![p] = c]
          /\ owner' = [x \in Stored' |-> IF x = c THEN ref[p][1] ELSE owner[x]]
          /\ c \in Stored'
    BY <1>7 DEF PutRoot, EndPut, PutCommit, WithCommit, Stored
  <2>2. /\ UNCHANGED <<base, ref>>
        /\ pc'[p] \notin {"idle", "closed"}
        /\ \A q \in Client \ {p} : pc'[q] = pc[q] /\ new'[q] = new[q]
    BY <1>7, <2>1 DEF PutRoot, EndPut, Goto, TypeOK
  <2>3. OwnHeld(p)'
    <3>1. new'[p] = c /\ owner'[c] = ref[p][1]
      BY <2>1 DEF TypeOK
    <3>2. \A q \in Members(base[p]) : owner'[q] = ref[p][1]
      BY <1>k DEF OwnHeld, ClientOK, HoldsStored
    <3>3. QED
      BY <2>1, <2>2, <3>1, <3>2 DEF OwnHeld
  <2>4. QED
    BY <2>2, <2>3, <1>f
<1>8. ASSUME NEW p \in Client, ReadHead(p) \/ ResolveBranch(p) \/ ResolveMerge(p)
      PROVE  \A q \in Client : OwnHeld(q)'
  <2>1. /\ UNCHANGED <<new, ref, owner, commits>>
        /\ pc'[p] \notin {"idle", "closed"}
        /\ \A q \in Client \ {p} : pc'[q] = pc[q] /\ base'[q] = base[q]
    BY <1>8 DEF ReadHead, ResolveBranch, ResolveMerge, Goto, TypeOK, storeVars,
                ghostVars
  <2>2. ref[p] \in Ref
    BY DEF TypeOK
  <2>3. ASSUME NEW c \in Resolvable(ref[p][1]) PROVE owner[c] = ref[p][1]
    <3>1. PICK n \in Name : c \in Lineage(<<ref[p][1], n>>)
      BY <2>3 DEF Resolvable
    <3>2. <<ref[p][1], n>> \in Ref
      BY <2>2 DEF Ref
    <3>3. QED
      BY <3>1, <3>2, OwnImplies DEF OwnOK, OwnHistory
  <2>4. \A q \in Members(base'[p]) : owner[q] = ref[p][1]
    <3>1. CASE ReadHead(p)
      <4>1. base'[p] = <<head[ref[p]]>> /\ head[ref[p]] # None
        BY <3>1 DEF ReadHead, HasBranch, TypeOK
      <4>2. QED
        BY <2>2, <4>1, MembersOfShort DEF OwnGraph
    <3>2. CASE ResolveBranch(p)
      <4>1. PICK c \in Resolvable(ref[p][1]) : base'[p] = <<c>>
        BY <3>2 DEF ResolveBranch, TypeOK
      <4>2. QED
        BY <2>3, <4>1, MembersOfShort
    <3>3. CASE ResolveMerge(p)
      <4>1. PICK l \in Resolvable(ref[p][1]), r \in Resolvable(ref[p][1]) :
              base'[p] = <<l, r>>
        BY <3>3 DEF ResolveMerge, TypeOK
      <4>2. QED
        BY <2>3, <4>1, MembersOfShort
    <3>4. QED
      BY <1>8, <3>1, <3>2, <3>3
  <2>5. OwnHeld(p)'
    BY <2>1, <2>4 DEF OwnHeld, Stored
  <2>6. QED
    BY <2>1, <2>5, <1>f
<1>9. CASE UNCHANGED vars
  BY <1>9, <1>f DEF vars, clientVars
<1>10. QED
  BY <1>2, <1>3, <1>4, <1>5, <1>6, <1>7, <1>8, <1>9 DEF Next, Step

(* Every game keeps an independent history: while nobody names a foreign   *)
(* commit by its id, all that is reachable from a branch of a game was     *)
(* made for that game (ensure_game, game_branch, advance_game_branch).     *)
THEOREM OwnHistoryCorrect == Spec => []OwnHistory
<1>1. Init => OwnOK
  BY MembersOfShort DEF Init, StoreInit, OwnOK, OwnGraph, OwnHeld, Stored
<1>2. IInv /\ OwnOK /\ [Next]_vars => OwnOK'
  BY OwnGraphStep, OwnHeldStep DEF OwnOK
<1>3. QED
  BY <1>1, <1>2, IInvAlways, OwnImplies, PTL DEF Spec
=============================================================================
