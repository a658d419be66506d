---------------------------- MODULE TurnsProofs ----------------------------
(***************************************************************************)
(* Theorems about Turns, for any programs, branches, slots and values and  *)
(* any number of commits: what the programs make of the histories they     *)
(* find.  What they compute of a commit graph is in CommitGraphProofs.     *)
(***************************************************************************)
EXTENDS Turns, CommitGraphProofs

-----------------------------------------------------------------------------
(* Storing a commit                                                        *)

(* One more commit, and what stays of the others.                          *)
WithNew(cs, k) == Upsert(cs, Cardinality(DOMAIN cs) + 1, k)
Grown(cs, ds) ==
  /\ DOMAIN cs \subseteq DOMAIN ds
  /\ \A c \in DOMAIN cs :
       ds[c] = cs[c] /\ History(GraphOf(ds), c) = History(GraphOf(cs), c)
NewCommit(cs, k) ==
  /\ k.context \in Context
  /\ k.parents \in Seq(DOMAIN cs) /\ IsInjective(k.parents)
  /\ Len(k.parents) = ParentCount(k.by)

(* The ids of commits are their numbers, and their graph is a graph in     *)
(* that order.                                                             *)
LEMMA StoredNumbered ==
  ASSUME NEW cs, Stored(cs)
  PROVE  /\ Numbered(GraphOf(cs)) /\ DOMAIN GraphOf(cs) = DOMAIN cs
         /\ Cardinality(DOMAIN cs) \in Nat
         /\ DOMAIN cs = 1 .. Cardinality(DOMAIN cs) /\ DOMAIN cs \subseteq Nat
         /\ \A c \in DOMAIN cs : GraphOf(cs)[c] = cs[c].parents
         /\ \A c \in DOMAIN cs : cs[c].parents \in Seq(DOMAIN cs)
<1> DEFINE g == GraphOf(cs)
<1>1. PICK n \in Nat : DOMAIN cs = 1 .. n
  BY TurnsAssumption DEF Stored
<1>2. Cardinality(DOMAIN cs) = n
  BY <1>1, FS_Interval
<1>3. DOMAIN g = DOMAIN cs /\ \A c \in DOMAIN cs : g[c] = cs[c].parents
  BY DEF GraphOf
<1>4. ASSUME NEW c \in DOMAIN cs
      PROVE  /\ g[c] \in Seq(DOMAIN g) /\ Len(g[c]) <= 2
             /\ \A q \in ParentsOf(g, c) : q < c
             /\ cs[c].parents \in Seq(DOMAIN cs)
  <2>1. cs[c].parents \in Seq(1 .. c - 1) /\ Len(cs[c].parents) = ParentCount(cs[c].by)
    BY DEF Stored
  <2>2. c \in 1 .. n /\ 1 .. c - 1 \subseteq DOMAIN cs
    BY <1>1
  <2>3. Len(cs[c].parents) <= 2
    BY <2>1 DEF ParentCount
  <2>4. \A i \in DOMAIN cs[c].parents : cs[c].parents[i] \in 1 .. c - 1
    BY <2>1, ElementOfSeq, LenProperties
  <2>5. \A q \in ParentsOf(g, c) : q < c
    BY <1>3, <2>2, <2>4 DEF ParentsOf, Members
  <2>6. cs[c].parents \in Seq(DOMAIN cs)
    BY <2>1, <2>2
  <2> QED
    BY <1>3, <2>3, <2>5, <2>6
<1>5. Numbered(g)
  BY <1>1, <1>3, <1>4 DEF Numbered
<1> QED
  BY <1>1, <1>2, <1>3, <1>4, <1>5

(* What storing a commit makes of a history.                               *)
LEMMA PutGrows ==
  ASSUME NEW cs, Stored(cs), Cardinality(DOMAIN cs) + 1 <= MaxCommits,
         NEW k, NewCommit(cs, k)
  PROVE  LET n == Cardinality(DOMAIN cs) + 1
             ds == WithNew(cs, k)
         IN  /\ Stored(ds) /\ Grown(cs, ds)
             /\ n \notin DOMAIN cs /\ DOMAIN ds = DOMAIN cs \cup {n} /\ ds[n] = k
             /\ GraphOf(ds) = WithCommit(GraphOf(cs), n, k.parents)
<1> DEFINE n == Cardinality(DOMAIN cs) + 1
           ds == WithNew(cs, k)
<1>1. /\ Cardinality(DOMAIN cs) \in Nat /\ DOMAIN cs = 1 .. Cardinality(DOMAIN cs)
      /\ DOMAIN GraphOf(cs) = DOMAIN cs /\ Numbered(GraphOf(cs))
      /\ \A c \in DOMAIN cs : GraphOf(cs)[c] = cs[c].parents
  BY StoredNumbered
<1>2. /\ n \in Nat /\ n \notin DOMAIN cs /\ DOMAIN cs \cup {n} = 1 .. n
      /\ n \in 0 .. MaxCommits /\ 1 .. n - 1 = DOMAIN cs
  BY <1>1, TurnsAssumption
<1> HIDE DEF n
<1>3. /\ DOMAIN ds = DOMAIN cs \cup {n} /\ ds[n] = k
      /\ \A c \in DOMAIN cs : ds[c] = cs[c]
  <2>1. ds = [c \in DOMAIN cs \cup {n} |-> IF c = n THEN k ELSE cs[c]]
    BY DEF n, WithNew, Upsert
  <2> QED
    BY <1>2, <2>1
<1> HIDE DEF ds
<1>4. GraphOf(ds) = WithCommit(GraphOf(cs), n, k.parents)
  BY <1>1, <1>2, <1>3 DEF GraphOf, WithCommit
<1>5. ASSUME NEW c \in DOMAIN cs
      PROVE  History(GraphOf(ds), c) = History(GraphOf(cs), c)
  BY <1>1, <1>2, <1>4, NumberedClosed, OldHistory
<1>6. Grown(cs, ds)
  BY <1>3, <1>5 DEF Grown
<1>7. Stored(ds)
  <2>1. \A c \in DOMAIN cs :
          /\ ds[c].context \in Context
          /\ ds[c].parents \in Seq(1 .. c - 1) /\ IsInjective(ds[c].parents)
          /\ Len(ds[c].parents) = ParentCount(ds[c].by)
    BY <1>3 DEF Stored
  <2>2. /\ k.context \in Context
        /\ k.parents \in Seq(1 .. n - 1) /\ IsInjective(k.parents)
        /\ Len(k.parents) = ParentCount(k.by)
    BY <1>2 DEF NewCommit
  <2>3. \E m \in 0 .. MaxCommits : DOMAIN ds = 1 .. m
    BY <1>2, <1>3
  <2> QED
    BY <1>3, <2>1, <2>2, <2>3 DEF Stored
<1> QED
  BY <1>2, <1>3, <1>4, <1>6, <1>7 DEF n, ds

(* A new commit accounts for its scratchpad if it does so by its parent.   *)
AccountsFor(cs, k) ==
  k.by \in {"turn", "edit"} =>
    LET old == cs[k.parents[1]].context[Scratchpad]
        new == k.context[Scratchpad]
    IN  IF k.edit # None THEN k.edit = <<old, new>>
        ELSE new = IF Retains(k.mode) THEN old ELSE Empty

(* Scratchpads stay accounted for.                                         *)
LEMMA AccountedGrows ==
  ASSUME NEW cs, Stored(cs), Accounted(cs), Cardinality(DOMAIN cs) + 1 <= MaxCommits,
         NEW k, NewCommit(cs, k), AccountsFor(cs, k)
  PROVE  Accounted(WithNew(cs, k))
<1> DEFINE n == Cardinality(DOMAIN cs) + 1
           ds == WithNew(cs, k)
<1>1. /\ DOMAIN ds = DOMAIN cs \cup {n} /\ ds[n] = k /\ \A c \in DOMAIN cs : ds[c] = cs[c]
      /\ Stored(ds) /\ Grown(cs, ds)
  BY PutGrows DEF Grown
<1> HIDE DEF n, ds
<1>2. ASSUME NEW c \in DOMAIN ds PROVE AccountsFor(ds, ds[c])
  <2>1. CASE ds[c].by \in {"turn", "edit"}
    <3>1. /\ c \in DOMAIN cs => AccountsFor(cs, ds[c]) /\ NewCommit(cs, ds[c])
          /\ c \notin DOMAIN cs => AccountsFor(cs, ds[c]) /\ NewCommit(cs, ds[c])
      <4>1. CASE c \in DOMAIN cs
        <5>1. AccountsFor(cs, cs[c])
          BY <4>1, Zenon DEF Accounted, AccountsFor
        <5>2. NewCommit(cs, cs[c])
          BY <4>1, StoredNumbered DEF NewCommit, Stored
        <5> QED
          BY <1>1, <4>1, <5>1, <5>2
      <4>2. CASE c \notin DOMAIN cs
        BY <1>1, <4>2
      <4> QED
        BY <4>1, <4>2
    <3>2. AccountsFor(cs, ds[c]) /\ NewCommit(cs, ds[c])
      BY <3>1
    <3>3. ds[c].parents[1] \in DOMAIN cs
      <4>1. Len(ds[c].parents) = 1
        BY <2>1, <3>2 DEF NewCommit, ParentCount
      <4>2. 1 \in 1 .. Len(ds[c].parents)
        BY <4>1
      <4> QED
        BY <3>2, <4>2, ElementOfSeq DEF NewCommit
    <3>4. ds[ds[c].parents[1]] = cs[ds[c].parents[1]]
      BY <1>1, <3>3
    <3> QED
      BY <3>2, <3>4, Zenon DEF AccountsFor
  <2>2. CASE ds[c].by \notin {"turn", "edit"}
    BY <2>2 DEF AccountsFor
  <2> QED
    BY <2>1, <2>2
<1>3. Accounted(ds)
  BY <1>2, Zenon DEF Accounted, AccountsFor
<1> QED
  BY <1>3 DEF ds

(* What two commits have in common last, and whether a history was ever    *)
(* merged, is as it was.                                                   *)
LEMMA BasesStay ==
  ASSUME NEW cs, NEW ds, Stored(cs), Stored(ds), Grown(cs, ds),
         NEW l \in DOMAIN cs, NEW r \in DOMAIN cs
  PROVE  /\ LowestCommon(GraphOf(ds), l, r) = LowestCommon(GraphOf(cs), l, r)
         /\ LowestCommon(GraphOf(cs), l, r) \subseteq DOMAIN cs
         /\ Linear(GraphOf(ds), l) <=> Linear(GraphOf(cs), l)
<1> DEFINE g == GraphOf(cs)
           h == GraphOf(ds)
<1>1. /\ Numbered(g) /\ DOMAIN g = DOMAIN cs /\ DOMAIN h = DOMAIN ds
      /\ \A c \in DOMAIN cs : g[c] = cs[c].parents
      /\ \A c \in DOMAIN ds : h[c] = ds[c].parents
  BY StoredNumbered
<1>2. \A c \in DOMAIN cs : h[c] = g[c] /\ History(h, c) = History(g, c)
  BY <1>1 DEF Grown
<1>3. History(g, l) \subseteq DOMAIN cs /\ History(g, r) \subseteq DOMAIN cs
  BY <1>1, NumberedHistory
<1> HIDE DEF g, h
<1>4. LowestCommon(h, l, r) = LowestCommon(g, l, r) /\ LowestCommon(g, l, r) \subseteq DOMAIN cs
  BY <1>2, <1>3 DEF LowestCommon
<1>5. Linear(h, l) <=> Linear(g, l)
  BY <1>2, <1>3 DEF Linear
<1> QED
  BY <1>4, <1>5 DEF g, h

(* A merge keeps what it must in the history it was stored in.             *)
KeepsAt(cs, k) ==
  PlannedForParents(k) /\ (\A p \in Members(k.parents) : Linear(GraphOf(cs), p))
    => Keeps(cs, k)

(* It keeps it in a history with more commits.                             *)
LEMMA KeepsStays ==
  ASSUME NEW cs, NEW ds, Stored(cs), Stored(ds), Grown(cs, ds),
         NEW k, NewCommit(cs, k), KeepsAt(cs, k)
  PROVE  KeepsAt(ds, k)
<1>1. SUFFICES ASSUME PlannedForParents(k), \A p \in Members(k.parents) : Linear(GraphOf(ds), p)
               PROVE  Keeps(ds, k)
  BY DEF KeepsAt
<1> DEFINE l == k.parents[1]
           r == k.parents[2]
<1>2. /\ l \in DOMAIN cs /\ r \in DOMAIN cs
      /\ Members(k.parents) \subseteq DOMAIN cs
  <2>1. k.parents \in Seq(DOMAIN cs) /\ Len(k.parents) = 2
    BY <1>1 DEF NewCommit, ParentCount, PlannedForParents
  <2>2. DOMAIN k.parents = 1 .. 2 /\ 1 \in 1 .. 2 /\ 2 \in 1 .. 2
    BY <2>1, LenProperties
  <2>3. \A i \in 1 .. 2 : k.parents[i] \in DOMAIN cs
    BY <2>1, ElementOfSeq
  <2> QED
    BY <2>2, <2>3 DEF Members
<1>3. \A p \in Members(k.parents) : Linear(GraphOf(cs), p)
  BY <1>1, <1>2, BasesStay
<1>4. Keeps(cs, k)
  BY <1>1, <1>3 DEF KeepsAt
<1>5. /\ LowestCommon(GraphOf(ds), l, r) = LowestCommon(GraphOf(cs), l, r)
      /\ LowestCommon(GraphOf(cs), l, r) \subseteq DOMAIN cs
  BY <1>2, BasesStay
<1>6. \A c \in DOMAIN cs : ds[c] = cs[c]
  BY DEF Grown
<1>7. ASSUME NEW base \in LowestCommon(GraphOf(ds), l, r)
      PROVE  /\ \A s \in OneSided(ds[base].context, ds[l].context, ds[r].context) :
                  k.context[s] = ds[l].context[s]
             /\ \A s \in OneSided(ds[base].context, ds[r].context, ds[l].context) :
                  k.context[s] = ds[r].context[s]
  <2>1. base \in LowestCommon(GraphOf(cs), l, r) /\ base \in DOMAIN cs
    BY <1>5, <1>7
  <2>2. ds[base] = cs[base] /\ ds[l] = cs[l] /\ ds[r] = cs[r]
    BY <1>2, <1>6, <2>1
  <2> QED
    BY <1>4, <2>1, <2>2, Zenon DEF Keeps
<1> QED
  BY <1>7, Zenon DEF Keeps

(* All merges keep what they must.                                         *)
LEMMA MergesKeepGrows ==
  ASSUME NEW cs, Stored(cs), MergesKeep(cs), Cardinality(DOMAIN cs) + 1 <= MaxCommits,
         NEW k, NewCommit(cs, k), KeepsAt(cs, k)
  PROVE  MergesKeep(WithNew(cs, k))
<1> DEFINE n == Cardinality(DOMAIN cs) + 1
           ds == WithNew(cs, k)
<1>1. /\ DOMAIN ds = DOMAIN cs \cup {n} /\ ds[n] = k /\ \A c \in DOMAIN cs : ds[c] = cs[c]
      /\ Stored(ds) /\ Grown(cs, ds)
  BY PutGrows DEF Grown
<1> HIDE DEF n, ds
<1>2. ASSUME NEW c \in DOMAIN ds PROVE KeepsAt(ds, ds[c])
  <2>1. CASE c \in DOMAIN cs
    <3>1. NewCommit(cs, cs[c])
      BY <2>1, StoredNumbered DEF NewCommit, Stored
    <3>2. KeepsAt(cs, cs[c])
      BY <2>1, Zenon DEF MergesKeep, KeepsAt
    <3> QED
      BY <1>1, <2>1, <3>1, <3>2, KeepsStays
  <2>2. CASE c \notin DOMAIN cs
    BY <1>1, <2>2, KeepsStays
  <2> QED
    BY <2>1, <2>2
<1>3. MergesKeep(ds)
  BY <1>2, Zenon DEF MergesKeep, KeepsAt
<1> QED
  BY <1>3 DEF ds

-----------------------------------------------------------------------------
(* What the programs are doing                                             *)

(* What a program works on is stored, and its contexts are those it read.  *)
(* A turn or an edit of main started from a commit between the head it     *)
(* read and the head that main has, unless a branch was moved by name.     *)
Between(hs, moved, j, basis) ==
  j.branch = Main /\ moved = {} => j.head <= basis /\ basis <= hs[Main]

ReadsOK(cs, hs, moved, j) ==
  /\ j.branch \in DOMAIN hs /\ j.head \in DOMAIN cs
  /\ j.context = cs[j.head].context
  /\ Between(hs, moved, j, j.head)

AsksOK(cs, hs, moved, j) ==
  /\ j.branch \in DOMAIN hs /\ j.head \in DOMAIN cs /\ j.basis \in DOMAIN cs
  /\ j.context \in Context
  /\ j.context[Scratchpad] = IF Retains(j.mode) THEN cs[j.head].context[Scratchpad] ELSE Empty
  /\ Between(hs, moved, j, j.basis)

AdvancesOK(cs, hs, moved, j) ==
  /\ j.branch \in DOMAIN hs /\ j.head \in DOMAIN cs /\ j.commit \in DOMAIN cs
  /\ cs[j.commit].parents = <<j.head>> /\ cs[j.commit].basis \in DOMAIN cs
  /\ Between(hs, moved, j, cs[j.commit].basis)

(* The base of a planned merge is what two histories that were never       *)
(* merged have in common last.                                             *)
PlanOK(cs, plan) ==
  \E p, l, r \in DOMAIN cs :
    /\ plan = <<p, l, r>>
    /\ Linear(GraphOf(cs), l) /\ Linear(GraphOf(cs), r)
         => \A a \in LowestCommon(GraphOf(cs), l, r) : a = p

JobOK(cs, hs, moved, j) ==
  /\ j.pc \in {"history", "edit"} => ReadsOK(cs, hs, moved, j)
  /\ j.pc = "ask" => AsksOK(cs, hs, moved, j)
  /\ j.pc = "advance" => AdvancesOK(cs, hs, moved, j)
  /\ j.pc = "merge" => j.left \in DOMAIN hs /\ j.right \in DOMAIN hs /\ PlanOK(cs, j.plan)
  /\ j.pc = "target" => j.commit \in DOMAIN cs

(* What other programs may have done: stored commits, and advanced main    *)
(* along its history or moved a branch.                                    *)
Later(cs, hs, moved, ds, is, gone) ==
  /\ Stored(cs) /\ Placed(cs, hs) /\ Stored(ds) /\ Placed(ds, is)
  /\ Grown(cs, ds) /\ DOMAIN hs \subseteq DOMAIN is
  /\ gone = {} => moved = {} /\ hs[Main] <= is[Main]

(* None of it disturbs a job.                                              *)
LEMMA JobStays ==
  ASSUME NEW cs, NEW hs, NEW moved, NEW ds, NEW is, NEW gone,
         Later(cs, hs, moved, ds, is, gone),
         NEW j, JobOK(cs, hs, moved, j)
  PROVE  JobOK(ds, is, gone, j)
<1>1. /\ DOMAIN cs \subseteq DOMAIN ds /\ \A c \in DOMAIN cs : ds[c] = cs[c]
      /\ DOMAIN hs \subseteq DOMAIN is
  BY DEF Later, Grown
<1>2. /\ DOMAIN cs \subseteq Nat /\ DOMAIN ds \subseteq Nat
      /\ hs[Main] \in DOMAIN cs /\ is[Main] \in DOMAIN ds
  BY StoredNumbered DEF Later, Placed
<1>3. ASSUME NEW basis \in DOMAIN cs, Between(hs, moved, j, basis)
      PROVE  Between(is, gone, j, basis)
  <2>1. SUFFICES ASSUME j.branch = Main, gone = {}
                 PROVE  j.head <= basis /\ basis <= is[Main]
    BY DEF Between
  <2>2. j.head <= basis /\ basis <= hs[Main] /\ hs[Main] <= is[Main]
    BY <1>3, <2>1 DEF Between, Later
  <2> QED
    BY <1>2, <1>3, <2>2
<1>4. CASE j.pc \in {"history", "edit"}
  <2>1. ReadsOK(cs, hs, moved, j)
    BY <1>4 DEF JobOK
  <2>2. ReadsOK(ds, is, gone, j)
    BY <1>1, <1>3, <2>1 DEF ReadsOK
  <2> QED
    BY <1>4, <2>2 DEF JobOK
<1>5. CASE j.pc = "ask"
  <2>1. AsksOK(cs, hs, moved, j)
    BY <1>5 DEF JobOK
  <2>2. AsksOK(ds, is, gone, j)
    BY <1>1, <1>3, <2>1 DEF AsksOK
  <2> QED
    BY <1>5, <2>2 DEF JobOK
<1>6. CASE j.pc = "advance"
  <2>1. AdvancesOK(cs, hs, moved, j)
    BY <1>6 DEF JobOK
  <2>2. AdvancesOK(ds, is, gone, j)
    BY <1>1, <1>3, <2>1 DEF AdvancesOK
  <2> QED
    BY <1>6, <2>2 DEF JobOK
<1>7. CASE j.pc = "merge"
  <2>1. PICK p \in DOMAIN cs, l \in DOMAIN cs, r \in DOMAIN cs :
          /\ j.plan = <<p, l, r>>
          /\ Linear(GraphOf(cs), l) /\ Linear(GraphOf(cs), r)
               => \A a \in LowestCommon(GraphOf(cs), l, r) : a = p
    BY <1>7 DEF JobOK, PlanOK
  <2>2. /\ LowestCommon(GraphOf(ds), l, r) = LowestCommon(GraphOf(cs), l, r)
        /\ Linear(GraphOf(ds), l) <=> Linear(GraphOf(cs), l)
        /\ Linear(GraphOf(ds), r) <=> Linear(GraphOf(cs), r)
    BY BasesStay DEF Later
  <2>3. PlanOK(ds, j.plan)
    BY <1>1, <2>1, <2>2 DEF PlanOK
  <2> QED
    BY <1>1, <1>7, <2>3 DEF JobOK
<1>8. CASE j.pc = "target"
  BY <1>1, <1>8 DEF JobOK
<1>9. CASE j.pc \notin {"history", "edit", "ask", "advance", "merge", "target"}
  BY <1>9 DEF JobOK
<1> QED
  BY <1>4, <1>5, <1>6, <1>7, <1>8, <1>9

(* The history is sound, and every program is at work on it.               *)
Inv ==
  /\ TypeOK /\ Accounted(commits) /\ MergesKeep(commits)
  /\ \A c \in Client : JobOK(commits, head, repositioned, job[c])

(* It is so at first.                                                      *)
LEMMA InvInit == Init => Inv
<1>1. SUFFICES ASSUME Init PROVE Inv
  OBVIOUS
<1>2. PICK s \in Start : commits = s.commits /\ head = s.head
  BY <1>1 DEF Init
<1>3. Stored(commits) /\ Placed(commits, head) /\ Accounted(commits) /\ MergesKeep(commits)
  BY <1>2, StartAssumption
<1>4. job = [c \in Client |-> Idle] /\ repositioned = {}
  BY <1>1 DEF Init
<1>5. \A c \in Client : JobOK(commits, head, repositioned, job[c])
  BY <1>4 DEF JobOK, Idle
<1> QED
  BY <1>3, <1>4, <1>5 DEF Inv, TypeOK

(* A step of one program: the jobs of the others stay.                     *)
LEMMA JobsGo ==
  ASSUME Inv, NEW c \in Client, NEW next, Goes(c, next),
         Later(commits, head, repositioned, commits', head', repositioned'),
         repositioned' \subseteq Branch, Accounted(commits'), MergesKeep(commits'),
         JobOK(commits', head', repositioned', next)
  PROVE  Inv'
<1>1. /\ DOMAIN job = Client
      /\ \A d \in Client : JobOK(commits, head, repositioned, job[d])
  BY DEF Inv, TypeOK
<1>2. job' = [job EXCEPT ![c] = next]
  BY DEF Goes
<1>3. ASSUME NEW d \in Client PROVE JobOK(commits', head', repositioned', job'[d])
  <2>1. CASE d = c
    BY <1>1, <1>2, <2>1
  <2>2. CASE d # c
    <3>1. JobOK(commits', head', repositioned', job[d])
      BY <1>1, JobStays
    <3>2. job'[d] = job[d]
      BY <1>1, <1>2, <2>2
    <3> QED
      BY <3>1, <3>2
  <2> QED
    BY <2>1, <2>2
<1>4. DOMAIN job' = Client
  BY <1>1, <1>2
<1>5. TypeOK'
  BY <1>4 DEF TypeOK, Later
<1> QED
  BY <1>3, <1>5 DEF Inv

(* Nothing is disturbed when nothing is stored and no branch moves.        *)
LEMMA LaterNow ==
  ASSUME Inv, UNCHANGED <<commits, head, repositioned>>
  PROVE  /\ Later(commits, head, repositioned, commits', head', repositioned')
         /\ repositioned' \subseteq Branch /\ Accounted(commits') /\ MergesKeep(commits')
<1>1. /\ Stored(commits) /\ Placed(commits, head) /\ repositioned \subseteq Branch
      /\ Accounted(commits) /\ MergesKeep(commits)
  BY DEF Inv, TypeOK
<1>2. head[Main] \in Nat
  BY <1>1, StoredNumbered DEF Placed
<1>3. Grown(commits, commits)
  BY DEF Grown
<1>4. Later(commits, head, repositioned, commits, head, repositioned)
  BY <1>1, <1>2, <1>3 DEF Later
<1>5. commits' = commits /\ head' = head /\ repositioned' = repositioned
  OBVIOUS
<1> QED
  BY <1>1, <1>4, <1>5

(* A commit is stored.                                                     *)
LEMMA LaterPut ==
  ASSUME Inv, NewId <= MaxCommits, NEW k, Put(k), UNCHANGED <<head, repositioned>>,
         NewCommit(commits, k), AccountsFor(commits, k), KeepsAt(commits, k)
  PROVE  /\ Later(commits, head, repositioned, commits', head', repositioned')
         /\ repositioned' \subseteq Branch /\ Accounted(commits') /\ MergesKeep(commits')
         /\ NewId \in DOMAIN commits' /\ commits'[NewId] = k
<1> DEFINE ds == WithNew(commits, k)
<1>1. /\ Stored(commits) /\ Placed(commits, head) /\ repositioned \subseteq Branch
      /\ Accounted(commits) /\ MergesKeep(commits)
  BY DEF Inv, TypeOK
<1>2. head[Main] \in Nat
  BY <1>1, StoredNumbered DEF Placed
<1>3. Cardinality(DOMAIN commits) + 1 <= MaxCommits
  BY DEF NewId
<1>4. /\ Stored(ds) /\ Grown(commits, ds) /\ Accounted(ds) /\ MergesKeep(ds)
      /\ NewId \in DOMAIN ds /\ ds[NewId] = k
  BY <1>1, <1>3, PutGrows, AccountedGrows, MergesKeepGrows DEF NewId
<1>5. commits' = ds /\ head' = head /\ repositioned' = repositioned
  BY DEF Put, WithNew, NewId
<1> HIDE DEF ds
<1>6. Placed(ds, head)
  BY <1>1, <1>4 DEF Placed, Grown
<1>7. Later(commits, head, repositioned, ds, head, repositioned)
  BY <1>1, <1>2, <1>4, <1>6 DEF Later
<1> QED
  BY <1>1, <1>4, <1>5, <1>7

-----------------------------------------------------------------------------
(* Turns and edits                                                         *)

(* A sequence of one commit is a list of parents.                          *)
LEMMA OneParent ==
  ASSUME NEW S, NEW p \in S
  PROVE  /\ <<p>> \in Seq(S) /\ IsInjective(<<p>>) /\ Len(<<p>>) = 1
         /\ <<p>>[1] = p
<1>1. <<p>> \in Seq(S) /\ Len(<<p>>) = 1 /\ DOMAIN <<p>> = 1 .. 1 /\ <<p>>[1] = p
  OBVIOUS
<1> QED
  BY <1>1 DEF IsInjective

(* What an answer makes of a context.                                      *)
LEMMA PatchedShape ==
  ASSUME NEW context \in Context, NEW mode, NEW patch \in Patches
  PROVE  /\ Patched(context, mode, patch) \in Context
         /\ ~Retains(mode) => Patched(context, mode, patch)[Scratchpad] = Empty
<1>1. PICK S \in SUBSET Slot : patch \in [S -> Value]
  BY DEF Patches
<1>2. Overlaid(patch, context) \in [Slot -> Value]
  BY <1>1 DEF Overlaid, Context
<1> DEFINE f == [s \in DOMAIN patch \ {Scratchpad} |-> patch[s]]
<1>3. Overlaid(f, context) \in [Slot -> Value]
  BY <1>1 DEF Overlaid, Context
<1> HIDE DEF f
<1>4. [Overlaid(f, context) EXCEPT ![Scratchpad] = Empty] \in [Slot -> Value]
  BY <1>3, TurnsAssumption
<1>5. [Overlaid(f, context) EXCEPT ![Scratchpad] = Empty][Scratchpad] = Empty
  BY <1>3, TurnsAssumption
<1>6. CASE Retains(mode)
  BY <1>2, <1>6 DEF Patched, Context
<1>7. CASE ~Retains(mode)
  <2>1. Patched(context, mode, patch) = [Overlaid(f, context) EXCEPT ![Scratchpad] = Empty]
    BY <1>7 DEF Patched, f
  <2> QED
    BY <1>4, <1>5, <2>1, <1>7 DEF Context
<1> QED
  BY <1>6, <1>7

(* The fields of a commit that a turn stores.                              *)
LEMMA TurnFields ==
  ASSUME NEW parent, NEW context, NEW edit, NEW mode, NEW basis
  PROVE  LET k == [Commit(<<parent>>, context) EXCEPT
                     !.edit = edit, !.by = "turn", !.mode = mode, !.basis = basis]
         IN  /\ k.parents = <<parent>> /\ k.context = context /\ k.edit = edit
             /\ k.by = "turn" /\ k.mode = mode /\ k.basis = basis
BY Zenon DEF Commit

(* The fields of a commit that an edit stores.                             *)
LEMMA EditFields ==
  ASSUME NEW parent, NEW context, NEW edit, NEW basis
  PROVE  LET k == [Commit(<<parent>>, context) EXCEPT
                     !.edit = edit, !.by = "edit", !.basis = basis]
         IN  /\ k.parents = <<parent>> /\ k.context = context /\ k.edit = edit
             /\ k.by = "edit" /\ k.basis = basis
BY Zenon DEF Commit

(* What such a commit does with the scratchpad of its parent.              *)
Continues(cs, parent, k) ==
  LET old == cs[parent].context[Scratchpad]
      new == k.context[Scratchpad]
  IN  \/ k.edit # None /\ k.edit = <<old, new>>
      \/ k.edit = None /\ (new = IF Retains(k.mode) THEN old ELSE Empty)

(* Its scratchpad is accounted for.                                        *)
LEMMA TurnAccounts ==
  ASSUME NEW cs, NEW parent \in DOMAIN cs,
         NEW k, k.parents = <<parent>>, k.context \in Context, k.by \in {"turn", "edit"},
         Continues(cs, parent, k)
  PROVE  NewCommit(cs, k) /\ AccountsFor(cs, k) /\ KeepsAt(cs, k)
<1>1. /\ <<parent>> \in Seq(DOMAIN cs) /\ IsInjective(<<parent>>) /\ Len(<<parent>>) = 1
      /\ <<parent>>[1] = parent
  BY OneParent
<1>2. ParentCount(k.by) = 1
  BY DEF ParentCount
<1>3. NewCommit(cs, k)
  BY <1>1, <1>2 DEF NewCommit
<1>4. AccountsFor(cs, k)
  <2>1. cs[k.parents[1]].context[Scratchpad] = cs[parent].context[Scratchpad]
    BY <1>1
  <2> QED
    BY <2>1 DEF AccountsFor, Continues
<1>5. KeepsAt(cs, k)
  BY DEF KeepsAt, PlannedForParents
<1> QED
  BY <1>3, <1>4, <1>5

(* Facts of a reachable state that every step needs.                       *)
LEMMA InvFacts ==
  ASSUME Inv
  PROVE  /\ Stored(commits) /\ Placed(commits, head) /\ repositioned \subseteq Branch
         /\ DOMAIN job = Client
         /\ DOMAIN commits \subseteq Nat /\ NewId \in Nat
         /\ NewId \notin DOMAIN commits /\ \A c \in DOMAIN commits : c < NewId
         /\ \A b \in DOMAIN head : head[b] \in DOMAIN commits
         /\ \A c \in DOMAIN commits : ContextOf(c) \in Context
         /\ Numbered(Graph) /\ DOMAIN Graph = DOMAIN commits
<1>1. /\ Stored(commits) /\ Placed(commits, head) /\ repositioned \subseteq Branch
      /\ DOMAIN job = Client
  BY DEF Inv, TypeOK
<1>2. /\ DOMAIN commits \subseteq Nat /\ Cardinality(DOMAIN commits) \in Nat
      /\ DOMAIN commits = 1 .. Cardinality(DOMAIN commits)
      /\ Numbered(Graph) /\ DOMAIN Graph = DOMAIN commits
  BY <1>1, StoredNumbered DEF Graph
<1>3. \A b \in DOMAIN head : head[b] \in DOMAIN commits
  BY <1>1 DEF Placed
<1>4. \A c \in DOMAIN commits : ContextOf(c) \in Context
  BY <1>1 DEF Stored, ContextOf
<1>5. /\ NewId \in Nat /\ NewId \notin DOMAIN commits /\ \A c \in DOMAIN commits : c < NewId
  BY <1>2 DEF NewId
<1> QED
  BY <1>1, <1>2, <1>3, <1>4, <1>5

(* A program that stops leaves what it stored.                             *)
LEMMA StopsInv ==
  ASSUME Inv, NEW c \in Client, Stops(c)
  PROVE  Inv'
<1>1. Goes(c, Idle) /\ UNCHANGED <<commits, head, repositioned>>
  BY DEF Stops, Ends
<1>2. JobOK(commits', head', repositioned', Idle)
  BY DEF JobOK, Idle
<1> QED
  BY <1>1, <1>2, LaterNow, JobsGo

(* A turn works on the head that it read.                                  *)
LEMMA BeginTurnInv ==
  ASSUME Inv, NEW c \in Client, BeginTurn(c)
  PROVE  Inv'
<1> DEFINE J(b, mode) == [pc |-> IF mode = "current" THEN "ask" ELSE "history",
                          branch |-> b, head |-> head[b], mode |-> mode, basis |-> head[b],
                          context |-> ContextOf(head[b])]
<1>1. PICK b \in DOMAIN head, mode \in Modes : Goes(c, J(b, mode))
  BY Zenon DEF BeginTurn
<1>2. UNCHANGED <<commits, head, repositioned>>
  BY DEF BeginTurn
<1> DEFINE j == J(b, mode)
<1>3. /\ j.pc = IF mode = "current" THEN "ask" ELSE "history"
      /\ j.branch = b /\ j.head = head[b] /\ j.mode = mode /\ j.basis = head[b]
      /\ j.context = ContextOf(head[b])
  OBVIOUS
<1>4. Goes(c, j)
  BY <1>1
<1> HIDE DEF j, J
<1>5. head[b] \in DOMAIN commits /\ head[b] \in Nat /\ ContextOf(head[b]) \in Context
  BY InvFacts
<1>6. Between(head, repositioned, j, head[b])
  BY <1>3, <1>5 DEF Between
<1>7. JobOK(commits, head, repositioned, j)
  <2>1. CASE mode = "current"
    <3>1. AsksOK(commits, head, repositioned, j)
      BY <1>3, <1>5, <1>6, <2>1 DEF AsksOK, ContextOf, Retains
    <3> QED
      BY <1>3, <2>1, <3>1 DEF JobOK
  <2>2. CASE mode # "current"
    <3>1. ReadsOK(commits, head, repositioned, j)
      BY <1>3, <1>5, <1>6 DEF ReadsOK, ContextOf
    <3> QED
      BY <1>3, <2>2, <3>1 DEF JobOK
  <2> QED
    BY <2>1, <2>2
<1>8. JobOK(commits', head', repositioned', j)
  BY <1>2, <1>7
<1> QED
  BY <1>2, <1>4, <1>8, LaterNow, JobsGo

(* The last commit of the history of main is its head.                     *)
LEMMA LastOfMain ==
  ASSUME Inv
  PROVE  Last(HistoryFromHead(Graph, head[Main])) = head[Main] /\ head[Main] \in DOMAIN commits
<1>1. head[Main] \in DOMAIN commits /\ Numbered(Graph) /\ DOMAIN Graph = DOMAIN commits
  BY InvFacts DEF Placed
<1>2. IsHistory(Graph, head[Main], HistoryFromHead(Graph, head[Main]))
  BY <1>1, HistoryFromHeadOrdered
<1> QED
  BY <1>1, <1>2 DEF IsHistory

(* In endless mode it goes on from the head that main has by then.         *)
LEMMA ReadHistoryInv ==
  ASSUME Inv, NEW c \in Client, ReadHistory(c)
  PROVE  Inv'
<1> DEFINE last == head[Main]
           context == Prepared(job[c].context, job[c].mode, ContextOf(last))
           j == [pc |-> "ask", branch |-> job[c].branch, head |-> job[c].head,
                 mode |-> job[c].mode, basis |-> last, context |-> context]
<1>1. /\ job[c].pc = "history" /\ Goes(c, j)
      /\ UNCHANGED <<commits, head, repositioned>>
  BY LastOfMain, Zenon DEF ReadHistory
<1>2. JobOK(commits, head, repositioned, job[c])
  BY DEF Inv
<1>3. ReadsOK(commits, head, repositioned, job[c])
  BY <1>1, <1>2 DEF JobOK
<1>4. /\ j.pc = "ask" /\ j.basis = last /\ j.context = context
      /\ j.branch = job[c].branch /\ j.head = job[c].head /\ j.mode = job[c].mode
  OBVIOUS
<1>5. last \in DOMAIN commits /\ last \in Nat /\ ContextOf(last) \in Context
  BY InvFacts, LastOfMain
<1>6. job[c].head \in DOMAIN commits /\ job[c].context = ContextOf(job[c].head)
      /\ job[c].context \in Context
  BY <1>3, InvFacts DEF ReadsOK, ContextOf
<1>7. /\ context \in Context
      /\ context[Scratchpad] = IF Retains(job[c].mode) THEN job[c].context[Scratchpad] ELSE Empty
  BY <1>5, <1>6, TurnsAssumption DEF Prepared, Context
<1> HIDE DEF context
<1>8. Between(head, repositioned, j, last)
  BY <1>3, <1>4, <1>5 DEF ReadsOK, Between
<1> HIDE DEF j
<1>9. AsksOK(commits, head, repositioned, j)
  BY <1>3, <1>4, <1>5, <1>6, <1>7, <1>8 DEF AsksOK, ReadsOK, ContextOf
<1>10. JobOK(commits, head, repositioned, j)
  BY <1>4, <1>9 DEF JobOK
<1>11. JobOK(commits', head', repositioned', j)
  BY <1>1, <1>10
<1> QED
  BY <1>1, <1>11, LaterNow, JobsGo

(* Storing a turn or an edit: the branch is then to advance from the head  *)
(* that was read.                                                          *)
LEMMA StoresInv ==
  ASSUME Inv, NEW c \in Client, NewId <= MaxCommits, UNCHANGED <<head, repositioned>>,
         NEW j, Goes(c, [pc |-> "advance", branch |-> j.branch, head |-> j.head,
                         commit |-> NewId]),
         j.branch \in DOMAIN head, j.head \in DOMAIN commits,
         NEW k, Put(k), k.parents = <<j.head>>, k.context \in Context, k.by \in {"turn", "edit"},
         k.basis \in DOMAIN commits, Between(head, repositioned, j, k.basis),
         Continues(commits, j.head, k)
  PROVE  Inv'
<1> DEFINE next == [pc |-> "advance", branch |-> j.branch, head |-> j.head, commit |-> NewId]
<1>1. Stored(commits)
  BY InvFacts
<1>2. NewCommit(commits, k) /\ AccountsFor(commits, k) /\ KeepsAt(commits, k)
  BY TurnAccounts
<1>3. k.parents = <<j.head>>
  OBVIOUS
<1>5. /\ Later(commits, head, repositioned, commits', head', repositioned')
      /\ repositioned' \subseteq Branch /\ Accounted(commits') /\ MergesKeep(commits')
      /\ NewId \in DOMAIN commits' /\ commits'[NewId] = k
  BY <1>2, LaterPut
<1>6. Goes(c, next)
  OBVIOUS
<1>7. /\ next.pc = "advance" /\ next.branch = j.branch /\ next.head = j.head
      /\ next.commit = NewId
  OBVIOUS
<1> HIDE DEF next
<1>8. DOMAIN commits \subseteq DOMAIN commits' /\ head' = head /\ repositioned' = repositioned
  BY <1>5 DEF Later, Grown
<1>9. Between(head, repositioned, next, k.basis)
  BY <1>7 DEF Between
<1>10. AdvancesOK(commits', head', repositioned', next)
  <2> DEFINE ds == commits'
  <2>1. /\ DOMAIN commits \subseteq DOMAIN ds /\ NewId \in DOMAIN ds /\ ds[NewId] = k
    BY <1>5, <1>8
  <2> HIDE DEF ds
  <2>2. AdvancesOK(ds, head, repositioned, next)
    BY <1>3, <1>7, <1>9, <2>1 DEF AdvancesOK
  <2> QED
    BY <1>8, <2>2 DEF ds
<1>11. JobOK(commits', head', repositioned', next)
  BY <1>7, <1>10 DEF JobOK
<1> QED
  BY <1>5, <1>6, <1>11, JobsGo

(* The commit of a turn.                                                   *)
LEMMA AnswerInv ==
  ASSUME Inv, NEW c \in Client, Answer(c)
  PROVE  Inv'
<1> DEFINE j == job[c]
           K(patch) == LET after == Patched(j.context, j.mode, patch)
                       IN  [Commit(<<j.head>>, after) EXCEPT
                              !.edit = EditOf(j.context, after), !.by = "turn",
                              !.mode = j.mode, !.basis = j.basis]
<1>1. PICK patch \in Patches : Put(K(patch))
  BY Zenon DEF Answer
<1>2. /\ j.pc = "ask" /\ NewId <= MaxCommits /\ UNCHANGED <<head, repositioned>>
      /\ Goes(c, [pc |-> "advance", branch |-> j.branch, head |-> j.head, commit |-> NewId])
  BY DEF Answer
<1>3. AsksOK(commits, head, repositioned, j)
  BY <1>2 DEF Inv, JobOK
<1>4. /\ j.branch \in DOMAIN head /\ j.head \in DOMAIN commits /\ j.basis \in DOMAIN commits
      /\ j.context \in Context /\ Between(head, repositioned, j, j.basis)
      /\ j.context[Scratchpad] = IF Retains(j.mode) THEN commits[j.head].context[Scratchpad]
                                 ELSE Empty
  BY <1>3 DEF AsksOK
<1> DEFINE context == Patched(j.context, j.mode, patch)
           edit == EditOf(j.context, context)
           k == K(patch)
<1>5. context \in Context /\ (~Retains(j.mode) => context[Scratchpad] = Empty)
  BY <1>4, PatchedShape
<1>6. /\ k.parents = <<j.head>> /\ k.context = context /\ k.edit = edit
      /\ k.by = "turn" /\ k.mode = j.mode /\ k.basis = j.basis
  BY TurnFields
<1>7. Put(k)
  BY <1>1
<1> HIDE DEF context, K, k
<1>8. j.context[Scratchpad] \in Value /\ context[Scratchpad] \in Value
  BY <1>4, <1>5, TurnsAssumption DEF Context
<1>9. /\ context[Scratchpad] = j.context[Scratchpad] => edit = None
      /\ context[Scratchpad] # j.context[Scratchpad] =>
           edit # None /\ edit = <<j.context[Scratchpad], context[Scratchpad]>>
  <2>1. <<j.context[Scratchpad], context[Scratchpad]>> \in Value \X Value
    BY <1>8
  <2> QED
    BY <2>1, TurnsAssumption DEF EditOf
<1> HIDE DEF edit
<1>10. Continues(commits, j.head, k)
  <2>1. CASE Retains(j.mode)
    BY <1>4, <1>6, <1>9, <2>1 DEF Continues
  <2>2. CASE ~Retains(j.mode)
    BY <1>4, <1>5, <1>6, <1>9, <2>2 DEF Continues
  <2> QED
    BY <2>1, <2>2
<1> HIDE DEF j
<1> QED
  BY <1>2, <1>4, <1>5, <1>6, <1>7, <1>10, StoresInv

(* An edit works on the head that it read.                                 *)
LEMMA BeginEditInv ==
  ASSUME Inv, NEW c \in Client, BeginEdit(c)
  PROVE  Inv'
<1> DEFINE J(b) == [pc |-> "edit", branch |-> b, head |-> head[b], context |-> ContextOf(head[b])]
<1>1. PICK b \in DOMAIN head : Goes(c, J(b))
  BY DEF BeginEdit
<1>2. UNCHANGED <<commits, head, repositioned>>
  BY DEF BeginEdit
<1> DEFINE j == J(b)
<1>3. /\ j.pc = "edit" /\ j.branch = b /\ j.head = head[b]
      /\ j.context = ContextOf(head[b]) /\ Goes(c, j)
  BY <1>1
<1> HIDE DEF j, J
<1>4. head[b] \in DOMAIN commits /\ head[b] \in Nat
  BY InvFacts
<1>5. ReadsOK(commits, head, repositioned, j)
  BY <1>3, <1>4 DEF ReadsOK, ContextOf, Between
<1>6. JobOK(commits', head', repositioned', j)
  BY <1>2, <1>3, <1>5 DEF JobOK
<1> QED
  BY <1>2, <1>3, <1>6, LaterNow, JobsGo

(* The commit of an edit.                                                  *)
LEMMA PutEditInv ==
  ASSUME Inv, NEW c \in Client, PutEdit(c)
  PROVE  Inv'
<1> DEFINE j == job[c]
           K(v) == [Commit(<<j.head>>, [j.context EXCEPT ![Scratchpad] = v]) EXCEPT
                      !.edit = <<j.context[Scratchpad], v>>, !.by = "edit", !.basis = j.head]
<1>1. PICK v \in Value : Put(K(v))
  BY Zenon DEF PutEdit
<1>2. /\ j.pc = "edit" /\ NewId <= MaxCommits /\ UNCHANGED <<head, repositioned>>
      /\ Goes(c, [pc |-> "advance", branch |-> j.branch, head |-> j.head, commit |-> NewId])
  BY DEF PutEdit
<1>3. ReadsOK(commits, head, repositioned, j)
  BY <1>2 DEF Inv, JobOK
<1>4. /\ j.branch \in DOMAIN head /\ j.head \in DOMAIN commits
      /\ j.context = commits[j.head].context /\ Between(head, repositioned, j, j.head)
  BY <1>3 DEF ReadsOK
<1> DEFINE context == [j.context EXCEPT ![Scratchpad] = v]
           edit == <<j.context[Scratchpad], v>>
           k == K(v)
<1>5. /\ k.parents = <<j.head>> /\ k.context = context /\ k.edit = edit
      /\ k.by = "edit" /\ k.basis = j.head
  BY EditFields
<1>6. j.context \in Context
  BY <1>4, InvFacts DEF ContextOf
<1>7. context \in Context /\ context[Scratchpad] = v /\ j.context[Scratchpad] \in Value
  BY <1>6, TurnsAssumption DEF Context
<1>8. edit # None /\ edit = <<commits[j.head].context[Scratchpad], context[Scratchpad]>>
  BY <1>4, <1>7, TurnsAssumption
<1>9. Put(k)
  BY <1>1
<1> HIDE DEF context, edit, K, k
<1>10. Continues(commits, j.head, k)
  BY <1>5, <1>8 DEF Continues
<1> HIDE DEF j
<1> QED
  BY <1>2, <1>4, <1>5, <1>7, <1>9, <1>10, StoresInv

-----------------------------------------------------------------------------
(* Branches and merges                                                     *)

(* A turn or an edit ends on a branch that is as it was read: main is then *)
(* at a later commit, and one that started from where main was.            *)
LEMMA AdvanceFacts ==
  ASSUME Inv, NEW c \in Client, Advance(c)
  PROVE  \/ head' = head
         \/ \E b \in DOMAIN head, k \in DOMAIN commits :
              /\ head' = [head EXCEPT ![b] = k] /\ head[b] < k
              /\ commits[k].parents = <<head[b]>>
              /\ b = Main /\ repositioned = {} => commits[k].basis = head[b]
<1> DEFINE j == job[c]
<1>1. j.pc = "advance" /\ AdvancesOK(commits, head, repositioned, j)
  BY DEF Advance, Inv, JobOK
<1>2. SUFFICES ASSUME head' # head
               PROVE  /\ j.branch \in DOMAIN head /\ j.commit \in DOMAIN commits
                      /\ head' = [head EXCEPT ![j.branch] = j.commit]
                      /\ head[j.branch] < j.commit
                      /\ commits[j.commit].parents = <<head[j.branch]>>
                      /\ j.branch = Main /\ repositioned = {} =>
                           commits[j.commit].basis = head[j.branch]
  OBVIOUS
<1>3. head[j.branch] = j.head /\ head' = [head EXCEPT ![j.branch] = j.commit]
  BY <1>2 DEF Advance, CanAdvance
<1>4. /\ j.branch \in DOMAIN head /\ j.head \in DOMAIN commits /\ j.commit \in DOMAIN commits
      /\ commits[j.commit].parents = <<j.head>> /\ commits[j.commit].basis \in DOMAIN commits
      /\ Between(head, repositioned, j, commits[j.commit].basis)
  BY <1>1 DEF AdvancesOK
<1>5. j.head < j.commit
  <2>1. Graph[j.commit] = <<j.head>>
    BY <1>4 DEF Graph, GraphOf
  <2>2. DOMAIN <<j.head>> = 1 .. 1 /\ <<j.head>>[1] = j.head
    OBVIOUS
  <2>3. j.head \in ParentsOf(Graph, j.commit)
    BY <2>1, <2>2 DEF ParentsOf, Members
  <2> QED
    BY <1>4, <2>3, InvFacts DEF Numbered
<1>6. ASSUME j.branch = Main, repositioned = {}
      PROVE  commits[j.commit].basis = j.head
  <2>1. j.head <= commits[j.commit].basis /\ commits[j.commit].basis <= j.head
    BY <1>3, <1>4, <1>6 DEF Between
  <2>2. j.head \in Nat /\ commits[j.commit].basis \in Nat
    BY <1>4, InvFacts
  <2> QED
    BY <2>1, <2>2
<1> QED
  BY <1>3, <1>4, <1>5, <1>6

(* So main is never behind what was read of it.                            *)
LEMMA AdvanceInv ==
  ASSUME Inv, NEW c \in Client, Advance(c)
  PROVE  Inv'
<1>1. /\ Stored(commits) /\ Placed(commits, head) /\ repositioned \subseteq Branch
      /\ DOMAIN commits \subseteq Nat
      /\ Accounted(commits) /\ MergesKeep(commits)
  BY InvFacts DEF Inv
<1>2. UNCHANGED <<commits, repositioned>> /\ Goes(c, Idle)
  BY DEF Advance, Ends
<1>3. Grown(commits, commits)
  BY DEF Grown
<1>4. DOMAIN head' = DOMAIN head /\ Placed(commits, head') /\ head[Main] <= head'[Main]
  <2>1. head[Main] \in Nat
    BY <1>1 DEF Placed
  <2>2. CASE head' = head
    BY <1>1, <2>1, <2>2
  <2>3. ASSUME NEW b \in DOMAIN head, NEW k \in DOMAIN commits,
               head' = [head EXCEPT ![b] = k], head[b] < k
        PROVE  DOMAIN head' = DOMAIN head /\ Placed(commits, head') /\ head[Main] <= head'[Main]
    <3>1. /\ DOMAIN head' = DOMAIN head
          /\ \A d \in DOMAIN head : head'[d] = IF d = b THEN k ELSE head[d]
      BY <2>3
    <3>2. Main \in DOMAIN head /\ k \in Nat
      BY <1>1 DEF Placed
    <3>3. head[Main] <= head'[Main]
      BY <2>1, <2>3, <3>1, <3>2
    <3>4. Placed(commits, head')
      BY <1>1, <3>1 DEF Placed
    <3> QED
      BY <3>1, <3>3, <3>4
  <2> QED
    BY <2>2, <2>3, AdvanceFacts
<1>5. Later(commits, head, repositioned, commits, head', repositioned)
  BY <1>1, <1>3, <1>4 DEF Later
<1>6. JobOK(commits', head', repositioned', Idle)
  BY DEF JobOK, Idle
<1>7. /\ Later(commits, head, repositioned, commits', head', repositioned')
      /\ repositioned' \subseteq Branch /\ Accounted(commits') /\ MergesKeep(commits')
  BY <1>1, <1>2, <1>5
<1> QED
  BY <1>2, <1>6, <1>7, JobsGo

(* A branch is created, or moved by name.                                  *)
LEMMA PlaceLater ==
  ASSUME Inv, NEW b \in Branch, NEW k \in DOMAIN commits, PlaceBranch(b, k),
         UNCHANGED commits
  PROVE  /\ Later(commits, head, repositioned, commits', head', repositioned')
         /\ repositioned' \subseteq Branch /\ Accounted(commits') /\ MergesKeep(commits')
<1>1. /\ Stored(commits) /\ Placed(commits, head) /\ repositioned \subseteq Branch
      /\ DOMAIN commits \subseteq Nat
      /\ Accounted(commits) /\ MergesKeep(commits)
  BY InvFacts DEF Inv
<1>2. Grown(commits, commits)
  BY DEF Grown
<1>3. /\ head' = [z \in DOMAIN head \cup {b} |-> IF z = b THEN k ELSE head[z]]
      /\ repositioned' = repositioned \cup ({b} \cap DOMAIN head)
  BY DEF PlaceBranch, Upsert
<1>4. /\ DOMAIN head' = DOMAIN head \cup {b}
      /\ \A z \in DOMAIN head \cup {b} : head'[z] = IF z = b THEN k ELSE head[z]
  BY <1>3
<1>5. Placed(commits, head')
  BY <1>1, <1>4 DEF Placed
<1>6. repositioned' = {} => repositioned = {} /\ b \notin DOMAIN head
  BY <1>3
<1>7. repositioned' = {} => repositioned = {} /\ head[Main] <= head'[Main]
  <2>1. Main \in DOMAIN head /\ head[Main] \in Nat
    BY <1>1 DEF Placed
  <2> QED
    BY <1>4, <1>6, <2>1
<1>8. Later(commits, head, repositioned, commits, head', repositioned')
  BY <1>1, <1>2, <1>4, <1>5, <1>7 DEF Later
<1>9. repositioned' \subseteq Branch
  BY <1>1, <1>3
<1>10. commits' = commits
  OBVIOUS
<1> QED
  BY <1>1, <1>8, <1>9, <1>10

(* The command line does so with the head of a branch.                     *)
LEMMA CreateBranchInv ==
  ASSUME Inv, NEW c \in Client, CreateBranch(c)
  PROVE  Inv'
<1>1. PICK b \in Branch, at \in DOMAIN head : b # at /\ PlaceBranch(b, head[at])
  BY DEF CreateBranch
<1>2. UNCHANGED <<commits, job>>
  BY DEF CreateBranch
<1>3. head[at] \in DOMAIN commits
  BY InvFacts
<1>4. /\ Later(commits, head, repositioned, commits', head', repositioned')
      /\ repositioned' \subseteq Branch /\ Accounted(commits') /\ MergesKeep(commits')
  BY <1>1, <1>2, <1>3, PlaceLater
<1>5. /\ DOMAIN job = Client
      /\ \A d \in Client : JobOK(commits, head, repositioned, job[d])
  BY DEF Inv, TypeOK
<1>6. \A d \in Client : JobOK(commits', head', repositioned', job'[d])
  BY <1>2, <1>4, <1>5, JobStays
<1>7. TypeOK'
  BY <1>2, <1>4, <1>5 DEF TypeOK, Later
<1> QED
  BY <1>4, <1>6, <1>7 DEF Inv

(* A merge does so with the commit it stored.                              *)
LEMMA PlaceMergeInv ==
  ASSUME Inv, NEW c \in Client, PlaceMerge(c)
  PROVE  Inv'
<1>1. PICK b \in Branch : PlaceBranch(b, job[c].commit)
  BY DEF PlaceMerge
<1>2. job[c].pc = "target" /\ UNCHANGED commits /\ Goes(c, Idle)
  BY DEF PlaceMerge, Ends
<1>3. job[c].commit \in DOMAIN commits
  BY <1>2 DEF Inv, JobOK
<1>4. JobOK(commits', head', repositioned', Idle)
  BY DEF JobOK, Idle
<1> QED
  BY <1>1, <1>2, <1>3, <1>4, PlaceLater, JobsGo

(* A plan is made of stored commits, and from the one base that histories  *)
(* without a merge can have.                                               *)
LEMMA MergePlanInv ==
  ASSUME Inv, NEW c \in Client, MergePlan(c)
  PROVE  Inv'
<1>1. PICK l \in DOMAIN head, r \in DOMAIN head : \E base \in MergeBases(Graph, head[l], head[r]) :
        Goes(c, [pc |-> "merge", left |-> l, right |-> r, plan |-> <<base, head[l], head[r]>>])
  BY DEF MergePlan
<1>2. PICK base \in MergeBases(Graph, head[l], head[r]) :
        Goes(c, [pc |-> "merge", left |-> l, right |-> r, plan |-> <<base, head[l], head[r]>>])
  BY <1>1
<1>3. UNCHANGED <<commits, head, repositioned>>
  BY DEF MergePlan
<1> DEFINE j == [pc |-> "merge", left |-> l, right |-> r, plan |-> <<base, head[l], head[r]>>]
<1>4. /\ j.pc = "merge" /\ j.left = l /\ j.right = r /\ j.plan = <<base, head[l], head[r]>>
      /\ Goes(c, j)
  BY <1>2
<1> HIDE DEF j
<1>5. /\ head[l] \in DOMAIN commits /\ head[r] \in DOMAIN commits
      /\ Numbered(Graph) /\ DOMAIN Graph = DOMAIN commits
  BY InvFacts
<1>6. base \in DOMAIN commits
  <2>1. /\ DOMAIN AncestorDistances(Graph, head[l]) = History(Graph, head[l])
        /\ History(Graph, head[l]) \subseteq DOMAIN Graph
    BY <1>5, DistancesOfHistory, NumberedHistory
  <2> QED
    BY <1>5, <2>1 DEF MergeBases
<1>7. Linear(Graph, head[l]) /\ Linear(Graph, head[r])
        => \A a \in LowestCommon(Graph, head[l], head[r]) : a = base
  BY <1>5, LinearBase
<1>8. PlanOK(commits, j.plan)
  BY <1>4, <1>5, <1>6, <1>7 DEF PlanOK, Graph
<1>9. JobOK(commits, head, repositioned, j)
  BY <1>4, <1>8 DEF JobOK
<1>10. JobOK(commits', head', repositioned', j)
  BY <1>3, <1>9
<1> QED
  BY <1>3, <1>4, <1>10, LaterNow, JobsGo

(* Any resolution of the conflicts keeps what one side alone changed.      *)
LEMMA ResolutionKeeps ==
  ASSUME NEW base \in Context, NEW left \in Context, NEW right \in Context,
         NEW context \in Resolutions(base, left, right)
  PROVE  /\ context \in Context
         /\ \A s \in OneSided(base, left, right) : context[s] = left[s]
         /\ \A s \in OneSided(base, right, left) : context[s] = right[s]
<1> DEFINE auto == AutoMerged(base, left, right)
           conflicts == Conflicts(base, left, right)
<1>1. PICK choice \in [conflicts -> Value] : context = Overlaid(choice, auto)
  BY DEF Resolutions
<1>2. DOMAIN base = Slot
  BY DEF Context
<1>3. DOMAIN auto = Slot
  BY <1>2 DEF AutoMerged
<1>4. ASSUME NEW s \in Slot
      PROVE  /\ auto[s] \in Value
             /\ s \in OneSided(base, left, right) => auto[s] = left[s]
             /\ s \in OneSided(base, right, left) => auto[s] = right[s]
  <2>1. auto[s] = CASE left[s] = right[s] -> left[s]
                    [] left[s] = base[s]  -> right[s]
                    [] right[s] = base[s] -> left[s]
                    [] OTHER              -> base[s]
    BY <1>2, Zenon DEF AutoMerged
  <2>2. base[s] \in Value /\ left[s] \in Value /\ right[s] \in Value
    BY DEF Context
  <2> HIDE DEF auto
  <2> DEFINE a == auto[s]
             b == base[s]
             l == left[s]
             r == right[s]
  <2>3. a = CASE l = r -> l [] l = b -> r [] r = b -> l [] OTHER -> b
    BY <2>1
  <2>4. s \in OneSided(base, left, right) => l # b /\ r = b
    BY DEF OneSided
  <2>5. s \in OneSided(base, right, left) => r # b /\ l = b
    BY DEF OneSided
  <2> HIDE DEF a, b, l, r
  <2>6. a \in {l, r, b}
    BY <2>3
  <2>7. l # b /\ r = b => a = l
    BY <2>3
  <2>8. r # b /\ l = b => a = r
    BY <2>3
  <2>9. b \in Value /\ l \in Value /\ r \in Value
    BY <2>2 DEF b, l, r
  <2> QED
    BY <2>4, <2>5, <2>6, <2>7, <2>8, <2>9 DEF a, l, r
<1>5. \A s \in Slot : s \in conflicts => /\ s \notin OneSided(base, left, right)
                                        /\ s \notin OneSided(base, right, left)
  BY DEF Conflicts, OneSided
<1>6. OneSided(base, left, right) \subseteq Slot /\ OneSided(base, right, left) \subseteq Slot
  BY DEF OneSided
<1> HIDE DEF auto, conflicts
<1>7. context = [s \in Slot |-> IF s \in conflicts THEN choice[s] ELSE auto[s]]
  BY <1>1, <1>3 DEF Overlaid
<1>8. context \in Context
  BY <1>1, <1>4, <1>7 DEF Context
<1> QED
  BY <1>4, <1>5, <1>6, <1>7, <1>8

(* The commit of a merge.                                                  *)
MergeCommit(parents, context, plan) ==
  [Commit(parents, context) EXCEPT !.by = "merge", !.plan = plan]

(* Its fields.                                                             *)
LEMMA MergeFields ==
  ASSUME NEW parents, NEW context, NEW plan
  PROVE  LET k == MergeCommit(parents, context, plan)
         IN  /\ k.parents = parents /\ k.context = context /\ k.by = "merge" /\ k.plan = plan
BY Zenon DEF MergeCommit, Commit

(* It is stored with the heads that its branches have by then, and keeps   *)
(* what it must if these are the ones it was planned for.                  *)
LEMMA PutMergeInv ==
  ASSUME Inv, NEW c \in Client, PutMerge(c)
  PROVE  Inv'
<1> DEFINE plan == job[c].plan
           parents == <<head[job[c].left], head[job[c].right]>>
<1>1. /\ job[c].pc = "merge" /\ NewId <= MaxCommits /\ ValidParents(parents)
      /\ UNCHANGED <<head, repositioned>>
      /\ Goes(c, [pc |-> "target", commit |-> NewId])
  BY DEF PutMerge
<1>2. PICK context \in Resolutions(ContextOf(plan[1]), ContextOf(plan[2]), ContextOf(plan[3])) :
        Put(MergeCommit(parents, context, plan))
  BY Zenon DEF PutMerge, MergeCommit
<1> DEFINE k == MergeCommit(parents, context, plan)
<1>3. /\ job[c].left \in DOMAIN head /\ job[c].right \in DOMAIN head /\ PlanOK(commits, plan)
  BY <1>1 DEF Inv, JobOK
<1>4. PICK p \in DOMAIN commits, l \in DOMAIN commits, r \in DOMAIN commits :
        /\ plan = <<p, l, r>>
        /\ Linear(GraphOf(commits), l) /\ Linear(GraphOf(commits), r)
             => \A a \in LowestCommon(GraphOf(commits), l, r) : a = p
  BY <1>3 DEF PlanOK
<1>5. /\ k.parents = parents /\ k.context = context /\ k.by = "merge" /\ k.plan = plan
  BY MergeFields
<1>6. Put(k)
  BY <1>2
<1>7. plan[1] = p /\ plan[2] = l /\ plan[3] = r /\ Tail(plan) = <<l, r>>
  BY <1>4
<1> HIDE DEF k, plan
<1>8. context \in Resolutions(ContextOf(p), ContextOf(l), ContextOf(r))
  BY <1>2, <1>7
<1>9. ContextOf(p) \in Context /\ ContextOf(l) \in Context /\ ContextOf(r) \in Context
  BY InvFacts
<1>10. /\ context \in Context
       /\ \A s \in OneSided(ContextOf(p), ContextOf(l), ContextOf(r)) :
            context[s] = ContextOf(l)[s]
       /\ \A s \in OneSided(ContextOf(p), ContextOf(r), ContextOf(l)) :
            context[s] = ContextOf(r)[s]
  BY <1>8, <1>9, ResolutionKeeps
<1>11. head[job[c].left] \in DOMAIN commits /\ head[job[c].right] \in DOMAIN commits
  BY <1>3, InvFacts
<1>12. /\ parents \in Seq(DOMAIN commits) /\ Len(parents) = 2 /\ DOMAIN parents = 1 .. 2
       /\ parents[1] # parents[2]
  BY <1>1, <1>11 DEF ValidParents
<1> HIDE DEF parents
<1>13. IsInjective(parents)
  BY <1>12 DEF IsInjective
<1>14. NewCommit(commits, k)
  BY <1>5, <1>10, <1>12, <1>13 DEF NewCommit, ParentCount
<1>15. AccountsFor(commits, k)
  BY <1>5 DEF AccountsFor
<1>16. KeepsAt(commits, k)
  <2>1. SUFFICES ASSUME PlannedForParents(k),
                        \A q \in Members(k.parents) : Linear(GraphOf(commits), q)
                 PROVE  Keeps(commits, k)
    BY DEF KeepsAt
  <2>2. k.parents = <<l, r>>
    BY <1>5, <1>7, <2>1 DEF PlannedForParents
  <2>3. k.parents[1] = l /\ k.parents[2] = r /\ Members(k.parents) = {l, r}
    BY <2>2 DEF Members
  <2>4. \A a \in LowestCommon(GraphOf(commits), l, r) : a = p
    BY <1>4, <2>1, <2>3
  <2>5. ASSUME NEW base \in LowestCommon(GraphOf(commits), l, r)
        PROVE  /\ \A s \in OneSided(commits[base].context, commits[l].context, commits[r].context) :
                    k.context[s] = commits[l].context[s]
               /\ \A s \in OneSided(commits[base].context, commits[r].context, commits[l].context) :
                    k.context[s] = commits[r].context[s]
    BY <1>5, <1>10, <2>4, <2>5 DEF ContextOf
  <2> QED
    BY <2>3, <2>5, Zenon DEF Keeps
<1>17. /\ Later(commits, head, repositioned, commits', head', repositioned')
       /\ repositioned' \subseteq Branch /\ Accounted(commits') /\ MergesKeep(commits')
       /\ NewId \in DOMAIN commits'
  BY <1>1, <1>6, <1>14, <1>15, <1>16, LaterPut
<1> DEFINE next == [pc |-> "target", commit |-> NewId]
<1>18. next.pc = "target" /\ next.commit = NewId /\ Goes(c, next)
  BY <1>1
<1> HIDE DEF next
<1>19. JobOK(commits', head', repositioned', next)
  BY <1>17, <1>18 DEF JobOK
<1> QED
  BY <1>17, <1>18, <1>19, JobsGo

-----------------------------------------------------------------------------
(* What holds of every behaviour                                           *)

(* Every step keeps the invariant.                                         *)
LEMMA InvNext == Inv /\ [Next]_vars => Inv'
<1>1. SUFFICES ASSUME Inv, [Next]_vars PROVE Inv'
  OBVIOUS
<1>2. CASE UNCHANGED vars
  BY <1>1, <1>2 DEF vars, Inv, TypeOK
<1>3. ASSUME NEW c \in Client,
             Turn(c) \/ Edit(c) \/ CreateBranch(c) \/ Merge(c) \/ Stops(c)
      PROVE  Inv'
  BY <1>1, <1>3, BeginTurnInv, ReadHistoryInv, AnswerInv, AdvanceInv, BeginEditInv, PutEditInv,
     CreateBranchInv, MergePlanInv, PutMergeInv, PlaceMergeInv, StopsInv, Zenon
     DEF Turn, Edit, Merge
<1> QED
  BY <1>1, <1>2, <1>3 DEF Next

(* It holds in every behaviour.                                            *)
LEMMA InvAlways == Spec => []Inv
BY InvInit, InvNext, PTL DEF Spec

(* A new session is such a history: it can be assumed of every one that a  *)
(* program finds, for InvNext says that the programs keep it so.           *)
THEOREM NewSessionSound ==
  /\ Stored(NewSession.commits) /\ Placed(NewSession.commits, NewSession.head)
  /\ Accounted(NewSession.commits) /\ MergesKeep(NewSession.commits)
<1> DEFINE cs == NewSession.commits
           k == Commit(<<>>, EmptyContext)
<1>1. cs = <<k>> /\ NewSession.head = [b \in {Main} |-> 1]
  BY DEF NewSession
<1>2. /\ k.parents = <<>> /\ k.context = EmptyContext /\ k.by = "root"
  BY DEF Commit
<1> HIDE DEF k
<1>3. DOMAIN cs = 1 .. 1 /\ cs[1] = k
  BY <1>1
<1> HIDE DEF cs
<1>4. /\ k.context \in Context /\ k.parents \in Seq(1 .. 0) /\ IsInjective(k.parents)
      /\ Len(k.parents) = ParentCount(k.by)
  BY <1>2, TurnsAssumption DEF EmptyContext, Context, IsInjective, ParentCount
<1>5. Stored(cs)
  <2>1. \A c \in DOMAIN cs : c = 1
    BY <1>3
  <2>2. 1 \in 0 .. MaxCommits
    BY TurnsAssumption
  <2> QED
    BY <1>3, <1>4, <2>1, <2>2 DEF Stored
<1>6. Placed(cs, NewSession.head)
  BY <1>1, <1>3, TurnsAssumption DEF Placed
<1>7. Accounted(cs) /\ MergesKeep(cs)
  BY <1>2, <1>3 DEF Accounted, MergesKeep, PlannedForParents
<1> QED
  BY <1>5, <1>6, <1>7 DEF cs

(* Commits, branches and jobs are what they should be.                     *)
THEOREM TurnTypes == Spec => []TypeOK
BY InvAlways, PTL DEF Inv

(* No scratchpad changes without a commit that says so.                    *)
THEOREM ScratchpadsHold == Spec => []ScratchpadAccounted
<1>1. Inv => ScratchpadAccounted
  BY DEF Inv, ScratchpadAccounted
<1> QED
  BY <1>1, InvAlways, PTL

(* A first merge loses no change that one side alone made.                 *)
THEOREM MergesHold == Spec => []FirstMergeKeepsOneSided
<1>1. Inv => FirstMergeKeepsOneSided
  BY DEF Inv, FirstMergeKeepsOneSided
<1> QED
  BY <1>1, InvAlways, PTL

(* The history of every branch is complete and in order.                   *)
THEOREM HistoriesOrdered == Spec => []HistoryOrdered
<1>1. Inv => HistoryOrdered
  <2>1. SUFFICES ASSUME Inv, NEW b \in DOMAIN head
                 PROVE  LET history == HistoryFromHead(Graph, head[b])
                        IN  /\ IsInjective(history)
                            /\ ToSet(history) = History(Graph, head[b])
                            /\ Last(history) = head[b]
                            /\ \A i \in DOMAIN history :
                                 ParentsOf(Graph, history[i]) \subseteq
                                   {history[j] : j \in 1 .. i - 1}
    BY Zenon DEF HistoryOrdered
  <2>2. IsHistory(Graph, head[b], HistoryFromHead(Graph, head[b]))
    BY <2>1, InvFacts, HistoryFromHeadOrdered
  <2> QED
    BY <2>2, Zenon DEF IsHistory
<1> QED
  BY <1>1, InvAlways, PTL

(* A turn or an edit replaces the head it goes on from.                    *)
THEOREM AdvancesHold == Spec => AdvancesOnNewest
<1> DEFINE Newest(b) ==
             LET new == commits'[head'[b]]
             IN  (head'[b] # head[b] /\ new.by \in {"turn", "edit"} /\ repositioned' = {}) =>
                   /\ new.parents = <<head[b]>>
                   /\ b = Main => new.basis = head[b]
<1>1. ASSUME Inv, [Next]_vars, NEW b \in DOMAIN head PROVE Newest(b)
  <2>1. CASE head' = head
    BY <2>1
  <2>2. ASSUME NEW c \in Client, Advance(c), head' # head PROVE Newest(b)
    <3>1. PICK d \in DOMAIN head, k \in DOMAIN commits :
              /\ head' = [head EXCEPT ![d] = k] /\ head[d] < k
              /\ commits[k].parents = <<head[d]>>
              /\ d = Main /\ repositioned = {} => commits[k].basis = head[d]
      BY <1>1, <2>2, AdvanceFacts
    <3>2. commits' = commits /\ repositioned' = repositioned
      BY <2>2 DEF Advance
    <3>3. CASE b = d
      <4>1. head'[b] = k
        BY <3>1, <3>3
      <4> QED
        BY <3>1, <3>2, <3>3, <4>1
    <3>4. CASE b # d
      BY <3>1, <3>4
    <3> QED
      BY <3>3, <3>4
  <2>3. ASSUME NEW d \in Branch, NEW k, PlaceBranch(d, k) PROVE Newest(b)
    <3>1. /\ head' = [z \in DOMAIN head \cup {d} |-> IF z = d THEN k ELSE head[z]]
          /\ repositioned' = repositioned \cup ({d} \cap DOMAIN head)
      BY <2>3 DEF PlaceBranch, Upsert
    <3>2. CASE b = d
      BY <3>1, <3>2
    <3>3. CASE b # d
      BY <3>1, <3>3
    <3> QED
      BY <3>2, <3>3
  <2>4. CASE UNCHANGED vars
    BY <2>1, <2>4 DEF vars
  <2>5. ASSUME NEW c \in Client,
               Turn(c) \/ Edit(c) \/ CreateBranch(c) \/ Merge(c) \/ Stops(c)
        PROVE  \/ head' = head
               \/ Advance(c)
               \/ \E d \in Branch : \E k : PlaceBranch(d, k)
    BY <2>5, Zenon DEF Turn, Edit, Merge, CreateBranch, Stops, BeginTurn, ReadHistory, Answer,
                       BeginEdit, PutEdit, MergePlan, PutMerge, PlaceMerge
  <2> QED
    BY <1>1, <2>1, <2>2, <2>3, <2>4, <2>5 DEF Next
<1>2. Inv /\ [Next]_vars =>
        [\A b \in DOMAIN head : Newest(b)]_vars
  BY <1>1
<1> QED
  BY <1>2, InvAlways, PTL DEF Spec, AdvancesOnNewest
=============================================================================
