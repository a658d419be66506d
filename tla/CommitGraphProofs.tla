-------------------------- MODULE CommitGraphProofs --------------------------
(***************************************************************************)
(* What holds of commit graphs, and of what the code computes of them:     *)
(* what storing one more commit does to the histories, that the loop of    *)
(* history_from_head collects all of a history and in order, and that a    *)
(* first merge is planned from the one commit it can be planned from.      *)
(***************************************************************************)
EXTENDS ContextMerge, FiniteSetTheorems, SequenceTheorems, TLAPS

(* A history is contained in every parent-closed set around its commit.    *)
LEMMA HistoryLeast ==
  ASSUME NEW g, NEW c, NEW S \in SUBSET DOMAIN g,
         c \in S, ParentClosed(g, S)
  PROVE  History(g, c) \subseteq S
BY DEF History

(* In a graph that holds all its parents, a history holds its own commit   *)
(* and the parents of its members.                                         *)
LEMMA HistoryClosed ==
  ASSUME NEW g, NEW c \in DOMAIN g, ParentClosed(g, DOMAIN g)
  PROVE  /\ c \in History(g, c)
         /\ History(g, c) \subseteq DOMAIN g
         /\ ParentClosed(g, History(g, c))
<1>1. c \in History(g, c) /\ History(g, c) \subseteq DOMAIN g
  BY DEF History
<1>2. ASSUME NEW x \in History(g, c), NEW q \in ParentsOf(g, x)
      PROVE  q \in History(g, c)
  <2>1. q \in DOMAIN g
    BY <1>1, <1>2 DEF ParentClosed
  <2>2. ASSUME NEW S \in SUBSET DOMAIN g, c \in S, ParentClosed(g, S)
        PROVE  q \in S
    <3>1. x \in S
      BY <2>2, HistoryLeast
    <3>2. QED
      BY <2>2, <3>1 DEF ParentClosed
  <2>3. QED
    BY <2>1, <2>2 DEF History
<1>3. QED
  BY <1>1, <1>2 DEF ParentClosed

(* Storing a commit changes no history that was there.                     *)
LEMMA OldHistory ==
  ASSUME NEW g, ParentClosed(g, DOMAIN g),
         NEW c, c \notin DOMAIN g, NEW ps,
         NEW x \in DOMAIN g
  PROVE  History(WithCommit(g, c, ps), x) = History(g, x)
<1> DEFINE h == WithCommit(g, c, ps)
<1> HIDE DEF h
<1>1. /\ DOMAIN h = DOMAIN g \cup {c}
      /\ \A y \in DOMAIN g : ParentsOf(h, y) = ParentsOf(g, y)
  BY DEF h, WithCommit, ParentsOf
<1>2. History(h, x) \subseteq History(g, x)
  <2>1. /\ x \in History(g, x)
        /\ History(g, x) \subseteq DOMAIN g
        /\ ParentClosed(g, History(g, x))
    BY HistoryClosed
  <2>2. ParentClosed(h, History(g, x))
    BY <1>1, <2>1 DEF ParentClosed
  <2>3. History(g, x) \in SUBSET DOMAIN h
    BY <1>1, <2>1
  <2>4. QED
    BY <2>1, <2>2, <2>3, HistoryLeast
<1>3. ASSUME NEW a \in History(g, x) PROVE a \in History(h, x)
  <2>1. ASSUME NEW S \in SUBSET DOMAIN h, x \in S, ParentClosed(h, S)
        PROVE  a \in S
    <3>1. ParentClosed(g, S \cap DOMAIN g)
      BY <1>1, <2>1 DEF ParentClosed
    <3>2. QED
      BY <2>1, <3>1, <1>3, HistoryLeast
  <2>2. a \in DOMAIN h
    BY <1>1, <1>3 DEF History
  <2>3. QED
    BY <2>1, <2>2 DEF History
<1>4. QED
  BY <1>2, <1>3 DEF h

(* parents and free of cycles.                                             *)
LEMMA StoreKeepsGraph ==
  ASSUME NEW g, ParentClosed(g, DOMAIN g), Acyclic(g),
         NEW c, NEW ps, Members(ps) \subseteq DOMAIN g
  PROVE  LET h == WithCommit(g, c, ps)
         IN  ParentClosed(h, DOMAIN h) /\ Acyclic(h)
<1> DEFINE h == WithCommit(g, c, ps)
<1>1. CASE c \in DOMAIN g
  BY <1>1 DEF WithCommit
<1>2. CASE c \notin DOMAIN g
  <2> HIDE DEF h
  <2>1. /\ DOMAIN h = DOMAIN g \cup {c}
        /\ ParentsOf(h, c) = Members(ps)
        /\ \A y \in DOMAIN g : ParentsOf(h, y) = ParentsOf(g, y)
    BY <1>2 DEF h, WithCommit, ParentsOf
  <2>2. ParentClosed(h, DOMAIN h)
    BY <2>1 DEF ParentClosed
  <2>3. ASSUME NEW x \in DOMAIN h, NEW q \in ParentsOf(h, x)
        PROVE  x \notin History(h, q)
    <3>1. q \in DOMAIN g
      BY <2>1, <2>3 DEF ParentClosed
    <3>2. History(h, q) = History(g, q) /\ History(g, q) \subseteq DOMAIN g
      BY <1>2, <3>1, OldHistory, HistoryClosed DEF h
    <3>3. CASE x = c
      BY <1>2, <3>2, <3>3
    <3>4. CASE x \in DOMAIN g
      BY <2>1, <2>3, <3>2, <3>4 DEF Acyclic
    <3>5. QED
      BY <2>1, <3>3, <3>4
  <2>4. QED
    BY <2>2, <2>3 DEF Acyclic, h
<1>3. QED
  BY <1>1, <1>2

-----------------------------------------------------------------------------
(* Numbers and sequences                                                   *)

(* A set of numbers that is not empty has a least one.  Among the initial  *)
(* segments of its members one has none below it, as finite sets are       *)
(* well-founded; what follows by induction is proved from this.            *)
LEMMA LeastNumber ==
  ASSUME NEW B \in SUBSET Nat, B # {}
  PROVE  \E n \in B : \A m \in B : n <= m
<1> DEFINE T == {1 .. n : n \in B}
           R == StrictSubsetOrdering(Nat)
<1>1. \A n \in B : 1 .. n \subseteq Nat /\ IsFiniteSet(1 .. n)
  BY FS_Interval
<1>2. T \subseteq FiniteSubsetsOf(Nat)
  BY <1>1 DEF FiniteSubsetsOf
<1>3. IsWellFoundedOn(R, FiniteSubsetsOf(Nat))
  BY FS_StrictSubsetOrderingWellFounded
<1>4. \E x \in T : \A y \in T : ~(<<y, x>> \in R)
  <2> HIDE DEF T, R
  <2>1. T # {}
    BY DEF T
  <2> QED
    BY <1>2, <1>3, <2>1, WFMin
<1>5. PICK n \in B : \A m \in B : <<1 .. m, 1 .. n>> \notin R
  BY <1>4
<1>6. ASSUME NEW m \in B, ~(n <= m) PROVE FALSE
  <2>1. 1 .. m \subseteq 1 .. n /\ n \in 1 .. n /\ n \notin 1 .. m
    BY <1>6
  <2>2. <<1 .. m, 1 .. n>> \in R
    BY <2>1, <1>1 DEF StrictSubsetOrdering
  <2> QED
    BY <1>5, <2>2
<1> QED
  BY <1>6

(* All but the last of a sequence.                                         *)
LEMMA FrontShape ==
  ASSUME NEW S, NEW s \in Seq(S), s # <<>>
  PROVE  /\ Len(s) \in Nat /\ Len(s) >= 1 /\ DOMAIN s = 1 .. Len(s) /\ s[Len(s)] \in S
         /\ Front(s) \in Seq(S) /\ Len(Front(s)) = Len(s) - 1
         /\ DOMAIN Front(s) = 1 .. Len(s) - 1
         /\ \A i \in 1 .. Len(s) - 1 : Front(s)[i] = s[i]
<1> DEFINE n == Len(s) - 1
           d == SubSeq(s, 1, n)
<1>1. /\ Len(s) \in Nat /\ Len(s) >= 1 /\ DOMAIN s = 1 .. Len(s)
      /\ \A i \in 1 .. Len(s) : s[i] \in S
  BY EmptySeq, LenProperties, ElementOfSeq
<1>2. /\ d \in Seq(S) /\ Len(d) = IF 1 <= n THEN n - 1 + 1 ELSE 0
      /\ \A i \in 1 .. n - 1 + 1 : d[i] = s[1 + i - 1]
  <2>1. 1 \in Int /\ n \in Int /\ \A i \in 1 .. n : s[i] \in S
    BY <1>1
  <2> HIDE DEF n
  <2> QED
    BY <2>1, SubSeqProperties
<1>3. DOMAIN d = 1 .. Len(d)
  BY <1>2, LenProperties
<1>4. Len(d) = n /\ \A i \in 1 .. n : d[i] = s[i]
  <2> HIDE DEF d
  <2>1. n \in Nat
    BY <1>1
  <2>3. Len(d) = IF 1 <= n THEN n - 1 + 1 ELSE 0
    BY <1>2
  <2>4. Len(d) = n
    <3> HIDE DEF n
    <3> QED
      BY <2>1, <2>3
  <2>2. ASSUME NEW i \in 1 .. n PROVE d[i] = s[i]
    <3>1. i \in 1 .. n - 1 + 1 /\ 1 + i - 1 = i
      BY <2>1, <2>2
    <3> HIDE DEF n
    <3> QED
      BY <1>2, <3>1
  <2> QED
    BY <2>2, <2>4
<1> QED
  BY <1>1, <1>2, <1>3, <1>4 DEF Front

-----------------------------------------------------------------------------
(* The loop of history_from_head, which is recursive in the model: f[n] is *)
(* what n turns of it lead to.                                             *)
Begun(tip) == [stack |-> <<Visit(tip, FALSE)>>, seen |-> {}, history |-> <<>>]
Continued(g, w) == IF w.stack = <<>> THEN w ELSE Popped(g, w)

IsWalk(f, g, tip, N) ==
  f = [n \in 0 .. N |-> IF n = 0 THEN Begun(tip) ELSE Continued(g, f[n - 1])]

(* There is such a function for any number of turns, as there is one for   *)
(* zero and each can be continued.                                         *)
LEMMA WalkExists ==
  ASSUME NEW g, NEW tip, NEW N \in Nat
  PROVE  \E f : IsWalk(f, g, tip, N)
<1> DEFINE B == {n \in Nat : ~\E f : IsWalk(f, g, tip, n)}
<1>1. CASE B = {}
  BY <1>1
<1>2. CASE B # {}
  <2>1. PICK n \in B : \A m \in B : n <= m
    <3> HIDE DEF B
    <3>1. B \subseteq Nat
      BY DEF B
    <3> QED
      BY <1>2, <3>1, LeastNumber
  <2>2. CASE n = 0
    <3> DEFINE f == [i \in 0 .. 0 |-> Begun(tip)]
    <3>1. IsWalk(f, g, tip, 0)
      BY DEF IsWalk
    <3> QED
      BY <2>2, <3>1
  <2>3. CASE n # 0
    <3>1. n - 1 \in Nat /\ n - 1 \notin B
      BY <2>1, <2>3
    <3>2. PICK e : IsWalk(e, g, tip, n - 1)
      BY <3>1
    <3> DEFINE f == [i \in 0 .. n |-> IF i = n THEN Continued(g, e[n - 1]) ELSE e[i]]
    <3>3. \A i \in 0 .. n - 1 : e[i] = IF i = 0 THEN Begun(tip) ELSE Continued(g, e[i - 1])
      BY <3>2 DEF IsWalk
    <3>4. \A i \in 0 .. n : f[i] = IF i = 0 THEN Begun(tip) ELSE Continued(g, f[i - 1])
      BY <2>3, <3>3
    <3>5. IsWalk(f, g, tip, n)
      BY <3>4 DEF IsWalk
    <3> QED
      BY <3>5
  <2> QED
    BY <2>2, <2>3
<1> QED
  BY <1>1, <1>2

(* The history is what the last turn of such a loop has recorded.          *)
LEMMA HistoryWalk ==
  ASSUME NEW g, NEW tip
  PROVE  HistoryFromHead(g, tip) =
           (CHOOSE f : IsWalk(f, g, tip, 3 * Cardinality(DOMAIN g) + 1))
             [3 * Cardinality(DOMAIN g) + 1].history
  BY Zenon DEF HistoryFromHead, IsWalk, Begun, Continued

(* Commits are numbered in the order of storing, and have at most two      *)
(* parents.                                                                *)
Numbered(g) ==
  /\ \E n \in Nat : DOMAIN g = 1 .. n
  /\ \A c \in DOMAIN g : g[c] \in Seq(DOMAIN g) /\ Len(g[c]) <= 2
  /\ \A c \in DOMAIN g : \A q \in ParentsOf(g, c) : q < c

Entries(g, tip) == [id : History(g, tip), expanded : BOOLEAN]
IsExpanded(e) == e.expanded = TRUE

(* What the stack s, the commits v seen and the history h are while a      *)
(* history is collected: above a commit that is expanded are only earlier  *)
(* ones, its parents that are not recorded yet among them; what is seen is *)
(* recorded or still expanded; and what is recorded comes after its        *)
(* parents.                                                                *)
StackOK(g, tip, s) ==
  /\ s \in Seq(Entries(g, tip))
  /\ \A i, j \in DOMAIN s : IsExpanded(s[i]) /\ i < j => s[j].id < s[i].id
  /\ s # <<>> => s[1].id = tip

Expanded(s) == {s[i].id : i \in {j \in DOMAIN s : IsExpanded(s[j])}}

SeenOK(s, v, h) ==
  v = Members(h) \cup Expanded(s) /\ Members(h) \cap Expanded(s) = {}

HistoryOK(g, tip, h) ==
  /\ h \in Seq(History(g, tip))
  /\ \A i, j \in DOMAIN h : h[i] = h[j] => i = j
  /\ \A i \in DOMAIN h : \A q \in ParentsOf(g, h[i]) : \E j \in 1 .. i - 1 : h[j] = q

PendingOK(g, s, h) ==
  \A i \in DOMAIN s : IsExpanded(s[i]) =>
    \A q \in ParentsOf(g, s[i].id) :
      q \in Members(h) \/ \E j \in DOMAIN s : i < j /\ s[j].id = q

RecordedOK(g, tip, s, v, h) ==
  SeenOK(s, v, h) /\ HistoryOK(g, tip, h) /\ PendingOK(g, s, h)

EndsOK(tip, s, v, h) ==
  IF s = <<>> THEN h # <<>> /\ h[Len(h)] = tip
  ELSE IsExpanded(s[1]) \/ (Len(s) = 1 /\ v = {})

WalkOK(g, tip, w) ==
  /\ w = [stack |-> w.stack, seen |-> w.seen, history |-> w.history]
  /\ StackOK(g, tip, w.stack)
  /\ RecordedOK(g, tip, w.stack, w.seen, w.history)
  /\ EndsOK(tip, w.stack, w.seen, w.history)

(* How many turns the loop can still take.                                 *)
Remaining(g, w) == 3 * Cardinality(DOMAIN g \ w.seen) + Len(w.stack)

(* A parent is stored, and before its child.                               *)
LEMMA NumberedClosed ==
  ASSUME NEW g, Numbered(g)
  PROVE  ParentClosed(g, DOMAIN g) /\ DOMAIN g \subseteq Nat /\ IsFiniteSet(DOMAIN g)
<1>1. PICK n \in Nat : DOMAIN g = 1 .. n
  BY DEF Numbered
<1>2. DOMAIN g \subseteq Nat /\ IsFiniteSet(DOMAIN g)
  BY <1>1, FS_Interval
<1>3. ASSUME NEW c \in DOMAIN g PROVE ParentsOf(g, c) \subseteq DOMAIN g
  <2>1. g[c] \in Seq(DOMAIN g)
    BY DEF Numbered
  <2> QED
    BY <2>1 DEF ParentsOf, Members
<1> QED
  BY <1>2, <1>3 DEF ParentClosed

(* The history of a commit: it, and the parents of what is in it.          *)
LEMMA NumberedHistory ==
  ASSUME NEW g, Numbered(g), NEW tip \in DOMAIN g
  PROVE  /\ tip \in History(g, tip) /\ History(g, tip) \subseteq DOMAIN g
         /\ History(g, tip) \subseteq Nat
         /\ \A c \in History(g, tip) : \A q \in ParentsOf(g, c) :
              q \in History(g, tip) /\ q < c
<1>1. /\ tip \in History(g, tip) /\ History(g, tip) \subseteq DOMAIN g
      /\ ParentClosed(g, History(g, tip))
  BY NumberedClosed, HistoryClosed
<1> QED
  BY <1>1, NumberedClosed DEF ParentClosed, Numbered

(* The expanded commits, without their places.                             *)
LEMMA ExpandedAre ==
  ASSUME NEW s
  PROVE  \A x : x \in Expanded(s) <=> \E i \in DOMAIN s : IsExpanded(s[i]) /\ s[i].id = x
  BY DEF Expanded

(* The top of the stack is expanded: it is recorded.                       *)
LEMMA RecordsTop ==
  ASSUME NEW g, Numbered(g), NEW tip \in DOMAIN g, NEW s, NEW v, NEW h,
         StackOK(g, tip, s), RecordedOK(g, tip, s, v, h), EndsOK(tip, s, v, h),
         s # <<>>, IsExpanded(s[Len(s)]),
         NEW t, NEW k, t = Front(s), k = Append(h, s[Len(s)].id)
  PROVE  StackOK(g, tip, t) /\ RecordedOK(g, tip, t, v, k) /\ EndsOK(tip, t, v, k)
<1> DEFINE S == History(g, tip)
           m == Len(s)
           id == s[Len(s)].id
<1>0. s \in Seq(Entries(g, tip)) /\ h \in Seq(S)
  BY DEF StackOK, RecordedOK, HistoryOK
<1>1. /\ m \in Nat /\ m >= 1 /\ DOMAIN s = 1 .. m /\ id \in S /\ id = s[m].id /\ IsExpanded(s[m])
      /\ t \in Seq(Entries(g, tip)) /\ DOMAIN t = 1 .. m - 1
      /\ \A i \in 1 .. m - 1 : t[i] = s[i]
      /\ (t = <<>> <=> m = 1)
  <2>1. /\ m \in Nat /\ m >= 1 /\ DOMAIN s = 1 .. m /\ s[m] \in Entries(g, tip)
        /\ t \in Seq(Entries(g, tip)) /\ Len(t) = m - 1 /\ DOMAIN t = 1 .. m - 1
        /\ \A i \in 1 .. m - 1 : t[i] = s[i]
    BY <1>0, FrontShape
  <2>2. s[m].id \in S
    BY <2>1 DEF Entries
  <2> HIDE DEF m
  <2>3. t = <<>> <=> m = 1
    BY <2>1, EmptySeq
  <2> QED
    BY <2>1, <2>2, <2>3 DEF m
<1> HIDE DEF S, m, id
<1>2. /\ k \in Seq(S) /\ Len(h) \in Nat /\ DOMAIN h = 1 .. Len(h) /\ DOMAIN k = 1 .. Len(h) + 1
      /\ \A i \in 1 .. Len(h) : k[i] = h[i]
      /\ k[Len(h) + 1] = id /\ Len(k) = Len(h) + 1 /\ k # <<>>
  BY <1>0, <1>1
<1>3. Members(k) = Members(h) \cup {id}
  BY <1>2 DEF Members
<1>4. StackOK(g, tip, t)
  <2>1. ASSUME NEW i \in DOMAIN t, NEW j \in DOMAIN t, IsExpanded(t[i]), i < j
        PROVE  t[j].id < t[i].id
    BY <1>1, <2>1 DEF StackOK
  <2>2. t # <<>> => t[1].id = tip
    BY <1>1 DEF StackOK
  <2> QED
    BY <1>1, <2>1, <2>2 DEF StackOK
<1>5. Expanded(s) = Expanded(t) \cup {id} /\ id \notin Expanded(t)
  <2>1. ASSUME NEW i \in 1 .. m - 1, IsExpanded(s[i]) PROVE s[i].id # id
    <3>1. s[m].id < s[i].id
      BY <1>1, <2>1 DEF StackOK
    <3>2. s[m].id \in Nat
      BY <1>1, NumberedHistory DEF S
    <3> QED
      BY <1>1, <3>1, <3>2
  <2>2. \A i \in DOMAIN s : i \in DOMAIN t \/ i = m
    BY <1>1
  <2>3. \A i \in DOMAIN t : i \in DOMAIN s /\ t[i] = s[i] /\ (IsExpanded(s[i]) => s[i].id # id)
    BY <1>1, <2>1
  <2>4. m \in DOMAIN s /\ IsExpanded(s[m])
    BY <1>1
  <2>7. \A x : x \in Expanded(s) <=> \E i \in DOMAIN s : IsExpanded(s[i]) /\ s[i].id = x
    BY ExpandedAre
  <2>8. \A x : x \in Expanded(t) <=> \E i \in DOMAIN t : IsExpanded(t[i]) /\ t[i].id = x
    BY ExpandedAre
  <2>5. \A x : x \in Expanded(s) <=> x \in Expanded(t) \/ x = id
    <3>1. ASSUME NEW x, x \in Expanded(s) PROVE x \in Expanded(t) \/ x = id
      BY <3>1, <2>2, <2>3, <2>7, <2>8, <1>1
    <3>2. ASSUME NEW x, x \in Expanded(t) PROVE x \in Expanded(s)
      BY <3>2, <2>3, <2>7, <2>8
    <3>3. id \in Expanded(s)
      BY <2>4, <2>7, <1>1
    <3> QED
      BY <3>1, <3>2, <3>3
  <2>6. id \notin Expanded(t)
    BY <2>3, <2>8, Zenon
  <2> QED
    BY <2>5, <2>6
<1>6. id \notin Members(h)
  BY <1>5 DEF RecordedOK, SeenOK
<1>7. \A i, j \in DOMAIN k : k[i] = k[j] => i = j
  BY <1>2, <1>6 DEF RecordedOK, HistoryOK, Members
<1>8. ASSUME NEW i \in DOMAIN k, NEW q \in ParentsOf(g, k[i]) PROVE \E j \in 1 .. i - 1 : k[j] = q
  <2>1. CASE i \in 1 .. Len(h)
    BY <1>2, <1>8, <2>1 DEF RecordedOK, HistoryOK
  <2>2. CASE i = Len(h) + 1
    <3>1. q \in Members(h)
      BY <1>1, <1>2, <1>8, <2>2 DEF RecordedOK, PendingOK
    <3> QED
      BY <1>2, <2>2, <3>1 DEF Members
  <2> QED
    BY <1>2, <2>1, <2>2
<1>9. PendingOK(g, t, k)
  <2>1. ASSUME NEW i \in DOMAIN t, IsExpanded(t[i]), NEW q \in ParentsOf(g, t[i].id)
        PROVE  q \in Members(k) \/ \E j \in DOMAIN t : i < j /\ t[j].id = q
    <3>1. i \in DOMAIN s /\ s[i] = t[i]
      BY <1>1, <2>1
    <3>2. q \in Members(h) \/ \E j \in DOMAIN s : i < j /\ s[j].id = q
      BY <2>1, <3>1 DEF RecordedOK, PendingOK
    <3> QED
      BY <1>1, <1>3, <3>2
  <2> QED
    BY <2>1 DEF PendingOK
<1>10. RecordedOK(g, tip, t, v, k)
  <2>1. SeenOK(t, v, k)
    BY <1>3, <1>5, <1>6 DEF RecordedOK, SeenOK
  <2>2. HistoryOK(g, tip, k)
    BY <1>2, <1>7, <1>8 DEF HistoryOK, S
  <2> QED
    BY <1>9, <2>1, <2>2 DEF RecordedOK
<1>11. EndsOK(tip, t, v, k)
  <2>1. CASE m = 1
    BY <1>1, <1>2, <2>1 DEF EndsOK, StackOK
  <2>2. CASE m # 1
    BY <1>1, <2>2 DEF EndsOK
  <2> QED
    BY <2>1, <2>2
<1> QED
  BY <1>4, <1>10, <1>11

(* The top of the stack was seen already: it is recorded, since all that   *)
(* is expanded below it is later.                                          *)
LEMMA DropsTop ==
  ASSUME NEW g, Numbered(g), NEW tip \in DOMAIN g, NEW s, NEW v, NEW h,
         StackOK(g, tip, s), RecordedOK(g, tip, s, v, h), EndsOK(tip, s, v, h),
         s # <<>>, ~IsExpanded(s[Len(s)]), s[Len(s)].id \in v,
         NEW t, t = Front(s)
  PROVE  StackOK(g, tip, t) /\ RecordedOK(g, tip, t, v, h) /\ EndsOK(tip, t, v, h)
<1> DEFINE m == Len(s)
           id == s[Len(s)].id
<1>0. s \in Seq(Entries(g, tip))
  BY DEF StackOK
<1>1. /\ m \in Nat /\ m >= 1 /\ DOMAIN s = 1 .. m /\ id \in History(g, tip)
      /\ id = s[m].id /\ ~IsExpanded(s[m]) /\ id \in v
      /\ t \in Seq(Entries(g, tip)) /\ DOMAIN t = 1 .. m - 1
      /\ \A i \in 1 .. m - 1 : t[i] = s[i]
      /\ (t = <<>> <=> m = 1)
  <2>1. /\ m \in Nat /\ m >= 1 /\ DOMAIN s = 1 .. m /\ s[m] \in Entries(g, tip)
        /\ t \in Seq(Entries(g, tip)) /\ Len(t) = m - 1 /\ DOMAIN t = 1 .. m - 1
        /\ \A i \in 1 .. m - 1 : t[i] = s[i]
    BY <1>0, FrontShape
  <2>2. s[m].id \in History(g, tip)
    BY <2>1 DEF Entries
  <2> HIDE DEF m
  <2>3. t = <<>> <=> m = 1
    BY <2>1, EmptySeq
  <2> QED
    BY <2>1, <2>2, <2>3 DEF m
<1> HIDE DEF m, id
<1>2. StackOK(g, tip, t)
  <2>1. ASSUME NEW i \in DOMAIN t, NEW j \in DOMAIN t, IsExpanded(t[i]), i < j
        PROVE  t[j].id < t[i].id
    BY <1>1, <2>1 DEF StackOK
  <2>2. t # <<>> => t[1].id = tip
    BY <1>1 DEF StackOK
  <2> QED
    BY <1>1, <2>1, <2>2 DEF StackOK
<1>3. /\ \A x : x \in Expanded(s) <=> \E i \in DOMAIN s : IsExpanded(s[i]) /\ s[i].id = x
      /\ \A x : x \in Expanded(t) <=> \E i \in DOMAIN t : IsExpanded(t[i]) /\ t[i].id = x
  BY ExpandedAre
<1>4. Expanded(t) = Expanded(s)
  <2>1. ASSUME NEW x, x \in Expanded(s) PROVE x \in Expanded(t)
    <3>1. PICK i \in DOMAIN s : IsExpanded(s[i]) /\ s[i].id = x
      BY <1>3, <2>1
    <3>2. i \in DOMAIN t /\ t[i] = s[i]
      BY <1>1, <3>1
    <3> QED
      BY <1>3, <3>1, <3>2
  <2>2. ASSUME NEW x, x \in Expanded(t) PROVE x \in Expanded(s)
    BY <1>1, <1>3, <2>2
  <2> QED
    BY <2>1, <2>2
<1>5. id \in Members(h)
  <2>1. ASSUME NEW i \in DOMAIN s, IsExpanded(s[i]), s[i].id = id PROVE FALSE
    <3>1. i \in 1 .. m /\ i # m
      BY <1>1, <2>1
    <3>2. m \in DOMAIN s /\ i < m
      BY <1>1, <3>1
    <3>3. id < id
      BY <1>1, <2>1, <3>2 DEF StackOK
    <3>4. id \in Nat
      BY <1>1, NumberedHistory
    <3> QED
      BY <3>3, <3>4
  <2> QED
    BY <1>1, <1>3, <2>1 DEF RecordedOK, SeenOK
<1>6. PendingOK(g, t, h)
  <2>1. ASSUME NEW i \in DOMAIN t, IsExpanded(t[i]), NEW q \in ParentsOf(g, t[i].id)
        PROVE  q \in Members(h) \/ \E j \in DOMAIN t : i < j /\ t[j].id = q
    <3>1. i \in DOMAIN s /\ s[i] = t[i]
      BY <1>1, <2>1
    <3>2. q \in Members(h) \/ \E j \in DOMAIN s : i < j /\ s[j].id = q
      BY <2>1, <3>1 DEF RecordedOK, PendingOK
    <3> QED
      BY <1>1, <1>5, <3>2
  <2> QED
    BY <2>1 DEF PendingOK
<1>7. RecordedOK(g, tip, t, v, h)
  BY <1>4, <1>6 DEF RecordedOK, SeenOK
<1>8. EndsOK(tip, t, v, h)
  <2>1. IsExpanded(s[1]) \/ (m = 1 /\ v = {})
    BY DEF EndsOK, m
  <2>2. IsExpanded(s[1]) /\ m # 1
    BY <1>1, <2>1
  <2>3. t # <<>> /\ t[1] = s[1]
    BY <1>1, <2>2
  <2> QED
    BY <2>2, <2>3 DEF EndsOK
<1> QED
  BY <1>2, <1>7, <1>8

(* t is s with commit c at its top expanded and the parents p above it.    *)
ParentsAbove(g, tip, s, c, p, t) ==
  /\ p \in Seq(DOMAIN g) /\ Members(p) = ParentsOf(g, c) /\ Len(p) <= 2
  /\ t \in Seq(Entries(g, tip)) /\ Len(t) = Len(s) + Len(p)
  /\ \A i \in 1 .. Len(s) - 1 : t[i] = s[i]
  /\ t[Len(s)] = Visit(c, TRUE)
  /\ \A i \in 1 .. Len(p) : t[Len(s) + i] = Visit(p[i], FALSE)

(* The top of the stack was not seen yet: it is expanded, and its parents  *)
(* are put above it.                                                       *)
LEMMA ExpandsTop ==
  ASSUME NEW g, Numbered(g), NEW tip \in DOMAIN g, NEW s, NEW v, NEW h,
         StackOK(g, tip, s), RecordedOK(g, tip, s, v, h), EndsOK(tip, s, v, h),
         s # <<>>, ~IsExpanded(s[Len(s)]), s[Len(s)].id \notin v,
         NEW p, NEW t, ParentsAbove(g, tip, s, s[Len(s)].id, p, t),
         NEW u, u = v \cup {s[Len(s)].id}
  PROVE  StackOK(g, tip, t) /\ RecordedOK(g, tip, t, u, h) /\ EndsOK(tip, t, u, h)
<1> DEFINE m == Len(s)
           id == s[Len(s)].id
<1>0. /\ s \in Seq(Entries(g, tip)) /\ t \in Seq(Entries(g, tip)) /\ p \in Seq(DOMAIN g)
      /\ Members(p) = ParentsOf(g, id)
  BY DEF StackOK, ParentsAbove
<1>1. /\ m \in Nat /\ m >= 1 /\ DOMAIN s = 1 .. m /\ id \in History(g, tip)
      /\ id = s[m].id /\ ~IsExpanded(s[m]) /\ id \notin v /\ u = v \cup {id}
      /\ Members(p) = ParentsOf(g, id)
  <2>1. m \in Nat /\ m >= 1 /\ DOMAIN s = 1 .. m /\ s[m] \in Entries(g, tip)
    BY <1>0, FrontShape
  <2>2. s[m].id \in History(g, tip)
    BY <2>1 DEF Entries
  <2> QED
    BY <1>0, <2>1, <2>2
<1>2. Len(p) \in Nat /\ DOMAIN p = 1 .. Len(p)
  BY <1>0, LenProperties
<1>3. /\ DOMAIN t = 1 .. m + Len(p) /\ t # <<>>
      /\ \A i \in 1 .. m - 1 : t[i] = s[i]
      /\ t[m].id = id /\ IsExpanded(t[m])
      /\ \A i \in 1 .. Len(p) : t[m + i].id = p[i] /\ ~IsExpanded(t[m + i])
  <2>1. DOMAIN t = 1 .. m + Len(p)
    BY <1>0, LenProperties DEF ParentsAbove
  <2>2. Visit(id, TRUE).id = id /\ IsExpanded(Visit(id, TRUE))
    BY DEF Visit, IsExpanded
  <2>3. \A i \in 1 .. Len(p) : Visit(p[i], FALSE).id = p[i] /\ ~IsExpanded(Visit(p[i], FALSE))
    BY DEF Visit, IsExpanded
  <2>4. t # <<>>
    BY <1>1, <1>2, <2>1
  <2> QED
    BY <2>1, <2>2, <2>3, <2>4 DEF ParentsAbove
<1> HIDE DEF m, id
<1>4. \A j \in DOMAIN t : \/ j \in 1 .. m - 1
                          \/ j = m
                          \/ \E i \in 1 .. Len(p) : j = m + i
  <2>1. ASSUME NEW j \in 1 .. m + Len(p), j > m PROVE \E i \in 1 .. Len(p) : j = m + i
    <3>1. j - m \in 1 .. Len(p) /\ j = m + (j - m)
      BY <1>1, <1>2, <2>1
    <3> QED
      BY <3>1
  <2>2. \A j \in 1 .. m + Len(p) : j \in 1 .. m - 1 \/ j = m \/ j > m
    BY <1>1, <1>2
  <2> QED
    BY <1>3, <2>1, <2>2
<1>5. \A i \in 1 .. Len(p) : p[i] \in Members(p) /\ p[i] < id
  <2>1. \A q \in ParentsOf(g, id) : q < id
    BY <1>1, NumberedHistory
  <2> QED
    BY <1>1, <1>2, <2>1 DEF Members
<1>6. StackOK(g, tip, t)
  <2>1. ASSUME NEW i \in DOMAIN t, NEW j \in DOMAIN t, IsExpanded(t[i]), i < j
        PROVE  t[j].id < t[i].id
    <3>1. CASE i = m
      <4>1. PICK k \in 1 .. Len(p) : j = m + k
        BY <1>1, <1>4, <2>1, <3>1
      <4> QED
        BY <1>3, <1>5, <3>1, <4>1
    <3>2. CASE i \in 1 .. m - 1
      <4>1. i \in DOMAIN s /\ t[i] = s[i] /\ m \in DOMAIN s /\ i < m
        BY <1>1, <1>3, <3>2
      <4>2. id < t[i].id
        BY <1>1, <2>1, <4>1 DEF StackOK
      <4>3. CASE j \in 1 .. m - 1
        <5>1. j \in DOMAIN s /\ t[j] = s[j]
          BY <1>1, <1>3, <4>3
        <5> QED
          BY <2>1, <4>1, <5>1 DEF StackOK
      <4>4. CASE j = m
        BY <1>3, <4>2, <4>4
      <4>5. CASE \E k \in 1 .. Len(p) : j = m + k
        <5>1. PICK k \in 1 .. Len(p) : j = m + k
          BY <4>5
        <5>2. t[j].id = p[k] /\ p[k] < id /\ p[k] \in DOMAIN g
          BY <1>0, <1>2, <1>3, <1>5, <5>1, ElementOfSeq
        <5>3. t[i].id \in History(g, tip)
          <6>1. t[i] \in Entries(g, tip)
            BY <1>0, <2>1
          <6> QED
            BY <6>1 DEF Entries
        <5>4. t[i].id \in Nat /\ id \in Nat /\ p[k] \in Nat
          BY <1>1, <5>2, <5>3, NumberedHistory, NumberedClosed
        <5> QED
          BY <4>2, <5>2, <5>4
      <4> QED
        BY <1>4, <4>3, <4>4, <4>5
    <3>3. CASE \E k \in 1 .. Len(p) : i = m + k
      BY <1>3, <2>1, <3>3
    <3> QED
      BY <1>4, <3>1, <3>2, <3>3
  <2>2. t[1].id = tip
    <3>1. s[1].id = tip
      BY DEF StackOK
    <3>2. CASE m = 1
      BY <1>1, <1>3, <3>1, <3>2
    <3>3. CASE m # 1
      BY <1>1, <1>3, <3>1, <3>3
    <3> QED
      BY <3>2, <3>3
  <2> QED
    BY <1>0, <2>1, <2>2 DEF StackOK
<1>7. /\ \A x : x \in Expanded(s) <=> \E i \in DOMAIN s : IsExpanded(s[i]) /\ s[i].id = x
      /\ \A x : x \in Expanded(t) <=> \E i \in DOMAIN t : IsExpanded(t[i]) /\ t[i].id = x
  BY ExpandedAre
<1>8. Expanded(t) = Expanded(s) \cup {id}
  <2>1. ASSUME NEW x, x \in Expanded(s) PROVE x \in Expanded(t)
    <3>1. PICK i \in DOMAIN s : IsExpanded(s[i]) /\ s[i].id = x
      BY <1>7, <2>1
    <3>2. i \in 1 .. m - 1
      BY <1>1, <3>1
    <3>3. i \in DOMAIN t /\ t[i] = s[i]
      BY <1>1, <1>2, <1>3, <3>2
    <3> QED
      BY <1>7, <3>1, <3>3
  <2>2. id \in Expanded(t)
    <3>1. m \in DOMAIN t
      BY <1>1, <1>2, <1>3
    <3> QED
      BY <1>3, <1>7, <3>1
  <2>3. ASSUME NEW x, x \in Expanded(t) PROVE x \in Expanded(s) \/ x = id
    <3>1. PICK i \in DOMAIN t : IsExpanded(t[i]) /\ t[i].id = x
      BY <1>7, <2>3
    <3>2. CASE i \in 1 .. m - 1
      <4>1. i \in DOMAIN s /\ t[i] = s[i]
        BY <1>1, <1>3, <3>2
      <4> QED
        BY <1>7, <3>1, <4>1
    <3> QED
      BY <1>3, <1>4, <3>1, <3>2
  <2> QED
    BY <2>1, <2>2, <2>3
<1>9. SeenOK(t, u, h)
  BY <1>1, <1>8 DEF RecordedOK, SeenOK
<1>10. PendingOK(g, t, h)
  <2>1. ASSUME NEW i \in DOMAIN t, IsExpanded(t[i]), NEW q \in ParentsOf(g, t[i].id)
        PROVE  q \in Members(h) \/ \E j \in DOMAIN t : i < j /\ t[j].id = q
    <3>1. CASE i = m
      <4>1. q \in Members(p)
        BY <1>1, <1>3, <2>1, <3>1
      <4>2. PICK k \in 1 .. Len(p) : p[k] = q
        BY <1>2, <4>1 DEF Members
      <4>3. m + k \in DOMAIN t /\ i < m + k /\ t[m + k].id = q
        BY <1>1, <1>2, <1>3, <3>1, <4>2
      <4> QED
        BY <4>3
    <3>2. CASE i \in 1 .. m - 1
      <4>1. i \in DOMAIN s /\ s[i] = t[i]
        BY <1>1, <1>3, <3>2
      <4>2. q \in Members(h) \/ \E j \in DOMAIN s : i < j /\ s[j].id = q
        BY <2>1, <4>1 DEF RecordedOK, PendingOK
      <4>3. \A j \in DOMAIN s : j \in DOMAIN t /\ t[j].id = s[j].id
        BY <1>1, <1>2, <1>3
      <4> QED
        BY <4>2, <4>3
    <3> QED
      BY <1>3, <1>4, <2>1, <3>1, <3>2
  <2> QED
    BY <2>1 DEF PendingOK
<1>11. RecordedOK(g, tip, t, u, h)
  BY <1>9, <1>10 DEF RecordedOK
<1>12. EndsOK(tip, t, u, h)
  <2>1. CASE m = 1
    BY <1>3, <2>1 DEF EndsOK
  <2>2. CASE m # 1
    <3>1. IsExpanded(s[1])
      BY <2>2 DEF EndsOK, m
    <3>2. t[1] = s[1]
      BY <1>1, <1>3, <2>2
    <3> QED
      BY <1>3, <3>1, <3>2 DEF EndsOK
  <2> QED
    BY <2>1, <2>2
<1> QED
  BY <1>6, <1>11, <1>12

(* One sequence after another.                                             *)
LEMMA ConcatShape ==
  ASSUME NEW S, NEW a \in Seq(S), NEW b \in Seq(S)
  PROVE  /\ a \o b \in Seq(S) /\ Len(a \o b) = Len(a) + Len(b)
         /\ \A i \in 1 .. Len(a) : (a \o b)[i] = a[i]
         /\ \A i \in 1 .. Len(b) : (a \o b)[Len(a) + i] = b[i]
<1>0. PICK c : c = a \o b
  OBVIOUS
<1>1. /\ c \in Seq(S) /\ Len(c) = Len(a) + Len(b)
      /\ \A i \in 1 .. Len(a) + Len(b) :
           c[i] = IF i <= Len(a) THEN a[i] ELSE b[i - Len(a)]
  BY <1>0, ConcatProperties
<1>2. Len(a) \in Nat /\ Len(b) \in Nat
  BY LenProperties
<1>3. ASSUME NEW i \in 1 .. Len(a) PROVE c[i] = a[i]
  <2>1. i \in 1 .. Len(a) + Len(b) /\ i <= Len(a)
    BY <1>2, <1>3
  <2> QED
    BY <1>1, <2>1
<1>4. ASSUME NEW i \in 1 .. Len(b) PROVE c[Len(a) + i] = b[i]
  <2>1. Len(a) + i \in 1 .. Len(a) + Len(b) /\ ~(Len(a) + i <= Len(a)) /\ (Len(a) + i) - Len(a) = i
    BY <1>2, <1>4
  <2> QED
    BY <1>1, <2>1
<1> QED
  BY <1>0, <1>1, <1>3, <1>4, Zenon

(* A sequence of one.                                                      *)
LEMMA SingleShape ==
  ASSUME NEW S, NEW x \in S
  PROVE  <<x>> \in Seq(S) /\ Len(<<x>>) = 1 /\ <<x>>[1] = x
  OBVIOUS

(* An element between two sequences.                                       *)
LEMMA BetweenShape ==
  ASSUME NEW S, NEW r \in Seq(S), NEW x \in S, NEW q \in Seq(S)
  PROVE  LET t == r \o <<x>> \o q IN
         /\ t \in Seq(S) /\ Len(t) = Len(r) + 1 + Len(q)
         /\ \A i \in 1 .. Len(r) : t[i] = r[i]
         /\ t[Len(r) + 1] = x
         /\ \A i \in 1 .. Len(q) : t[Len(r) + 1 + i] = q[i]
<1>0. ASSUME NEW e \in Seq(S), NEW f \in Seq(S)
      PROVE  /\ e \o f \in Seq(S) /\ Len(e \o f) = Len(e) + Len(f)
             /\ \A i \in 1 .. Len(e) : (e \o f)[i] = e[i]
             /\ \A i \in 1 .. Len(f) : (e \o f)[Len(e) + i] = f[i]
  BY ConcatShape
<1>1. PICK a : a = <<x>>
  OBVIOUS
<1>2. a \in Seq(S) /\ Len(a) = 1 /\ a[1] = x
  BY <1>1, SingleShape
<1>3. PICK d : d = r \o a
  OBVIOUS
<1>4. PICK t : t = d \o q
  OBVIOUS
<1>5. /\ d \in Seq(S) /\ Len(d) = Len(r) + Len(a)
      /\ \A i \in 1 .. Len(r) : d[i] = r[i]
      /\ \A i \in 1 .. Len(a) : d[Len(r) + i] = a[i]
  <2>1. /\ r \o a \in Seq(S) /\ Len(r \o a) = Len(r) + Len(a)
        /\ \A i \in 1 .. Len(r) : (r \o a)[i] = r[i]
        /\ \A i \in 1 .. Len(a) : (r \o a)[Len(r) + i] = a[i]
    BY <1>0, <1>2, Zenon
  <2> QED
    BY <1>3, <2>1, Zenon
<1>6. /\ t \in Seq(S) /\ Len(t) = Len(d) + Len(q)
      /\ \A i \in 1 .. Len(d) : t[i] = d[i]
      /\ \A i \in 1 .. Len(q) : t[Len(d) + i] = q[i]
  <2>1. /\ d \o q \in Seq(S) /\ Len(d \o q) = Len(d) + Len(q)
        /\ \A i \in 1 .. Len(d) : (d \o q)[i] = d[i]
        /\ \A i \in 1 .. Len(q) : (d \o q)[Len(d) + i] = q[i]
    BY <1>0, <1>5, Zenon
  <2> QED
    BY <1>4, <2>1, Zenon
<1>7. Len(r) \in Nat /\ Len(q) \in Nat
  BY LenProperties
<1>8. Len(d) = Len(r) + 1 /\ d[Len(r) + 1] = x
  BY <1>2, <1>5, <1>7
<1>9. \A i \in 1 .. Len(r) : i \in 1 .. Len(d) /\ t[i] = r[i]
  BY <1>5, <1>6, <1>7, <1>8
<1>10. t[Len(r) + 1] = x
  BY <1>6, <1>7, <1>8
<1>11. \A i \in 1 .. Len(q) : t[Len(r) + 1 + i] = q[i]
  BY <1>6, <1>8
<1>12. t = r \o <<x>> \o q
  BY <1>1, <1>3, <1>4, Zenon
<1> QED
  BY <1>6, <1>8, <1>9, <1>10, <1>11, <1>12

(* What is put above a commit that is expanded.                            *)
LEMMA UnvisitedShape ==
  ASSUME NEW g, Numbered(g), NEW tip \in DOMAIN g, NEW s \in Seq(Entries(g, tip)), s # <<>>,
         NEW c \in History(g, tip), NEW p, p = Reverse(g[c]),
         NEW t, t = Front(s) \o <<Visit(c, TRUE)>> \o Unvisited(p)
  PROVE  ParentsAbove(g, tip, s, c, p, t)
<1> DEFINE E == Entries(g, tip)
           m == Len(s)
           r == Front(s)
           q == Unvisited(p)
           n == Len(g[c])
<1>1. /\ m \in Nat /\ m >= 1 /\ r \in Seq(E) /\ Len(r) = m - 1
      /\ \A i \in 1 .. m - 1 : r[i] = s[i]
  BY FrontShape
<1>2. c \in DOMAIN g
  BY NumberedHistory
<1>3. g[c] \in Seq(DOMAIN g) /\ n <= 2 /\ n \in Nat /\ DOMAIN g[c] = 1 .. n
  BY <1>2, LenProperties DEF Numbered
<1>4. p = [i \in 1 .. n |-> g[c][n - i + 1]]
  BY DEF Reverse
<1>5. \A i \in 1 .. n : n - i + 1 \in 1 .. n /\ n - (n - i + 1) + 1 = i
  BY <1>3
<1>6. p \in Seq(DOMAIN g) /\ Len(p) = n /\ DOMAIN p = 1 .. n
  <2>1. \A i \in 1 .. n : g[c][i] \in DOMAIN g
    BY <1>3, ElementOfSeq
  <2>2. p \in [1 .. n -> DOMAIN g]
    BY <1>4, <1>5, <2>1
  <2>3. ASSUME NEW S, NEW f \in [1 .. n -> S] PROVE f \in Seq(S) /\ Len(f) = n
    BY <1>3, <2>3
  <2> HIDE DEF n
  <2> QED
    BY <2>2, <2>3
<1>7. Members(p) = ParentsOf(g, c)
  <2>1. ASSUME NEW i \in 1 .. n PROVE p[i] \in ParentsOf(g, c) /\ g[c][i] \in Members(p)
    <3>1. p[i] = g[c][n - i + 1] /\ p[n - i + 1] = g[c][n - (n - i + 1) + 1]
      BY <1>4, <1>5, <2>1
    <3> QED
      BY <1>3, <1>5, <1>6, <2>1, <3>1 DEF ParentsOf, Members
  <2> QED
    BY <1>3, <1>6, <2>1 DEF ParentsOf, Members
<1>8. /\ q \in Seq(E) /\ Len(q) = n
      /\ \A i \in 1 .. n : q[i] = Visit(p[i], FALSE)
  <2>1. ASSUME NEW i \in 1 .. n PROVE Visit(p[i], FALSE) \in E
    <3>1. p[i] \in ParentsOf(g, c)
      BY <1>6, <1>7, <2>1 DEF Members
    <3>2. p[i] \in History(g, tip)
      BY <3>1, NumberedHistory
    <3> QED
      BY <3>2 DEF Visit, Entries
  <2>2. q = [i \in 1 .. n |-> Visit(p[i], FALSE)]
    BY <1>6 DEF Unvisited
  <2>3. q \in [1 .. n -> E]
    BY <2>1, <2>2
  <2>4. ASSUME NEW S, NEW f \in [1 .. n -> S] PROVE f \in Seq(S) /\ Len(f) = n
    BY <1>3, <2>4
  <2> HIDE DEF E, q, n
  <2> QED
    BY <2>2, <2>3, <2>4
<1>9. Visit(c, TRUE) \in E
  BY DEF Visit, Entries
<1> HIDE DEF E, m, r, q, n
<1>10. /\ t \in Seq(E) /\ Len(t) = Len(r) + 1 + Len(q)
       /\ \A i \in 1 .. Len(r) : t[i] = r[i]
       /\ t[Len(r) + 1] = Visit(c, TRUE)
       /\ \A i \in 1 .. Len(q) : t[Len(r) + 1 + i] = q[i]
  <2>1. PICK x : x = Visit(c, TRUE)
    OBVIOUS
  <2>2. t = r \o <<x>> \o q
    BY <2>1, Zenon DEF r, q
  <2>3. LET y == r \o <<x>> \o q IN
         /\ y \in Seq(E) /\ Len(y) = Len(r) + 1 + Len(q)
         /\ \A i \in 1 .. Len(r) : y[i] = r[i]
         /\ y[Len(r) + 1] = x
         /\ \A i \in 1 .. Len(q) : y[Len(r) + 1 + i] = q[i]
    <3>1. ASSUME NEW e \in Seq(E), NEW z \in E, NEW f \in Seq(E)
          PROVE  LET y == e \o <<z>> \o f IN
                 /\ y \in Seq(E) /\ Len(y) = Len(e) + 1 + Len(f)
                 /\ \A i \in 1 .. Len(e) : y[i] = e[i]
                 /\ y[Len(e) + 1] = z
                 /\ \A i \in 1 .. Len(f) : y[Len(e) + 1 + i] = f[i]
      BY BetweenShape
    <3>2. r \in Seq(E) /\ x \in E /\ q \in Seq(E)
      BY <1>1, <1>8, <1>9, <2>1
    <3> QED
      BY <3>1, <3>2, Zenon
  <2> QED
    BY <2>1, <2>2, <2>3, Zenon
<1>11. Len(r) + 1 = m
  BY <1>1
<1>12. Len(t) = m + n
  BY <1>8, <1>10, <1>11
<1>13. \A i \in 1 .. m - 1 : t[i] = s[i]
  BY <1>1, <1>10
<1>14. t[m] = Visit(c, TRUE) /\ \A i \in 1 .. n : t[m + i] = q[i]
  BY <1>8, <1>10, <1>11
<1>15. \A i \in 1 .. n : t[m + i] = Visit(p[i], FALSE)
  BY <1>8, <1>14
<1> QED
  BY <1>3, <1>6, <1>7, <1>10, <1>12, <1>13, <1>14, <1>15 DEF E, m, ParentsAbove

(* A turn of the loop keeps all this, and one turn less remains.           *)
LEMMA PoppedOK ==
  ASSUME NEW g, Numbered(g), NEW tip \in DOMAIN g, NEW w, WalkOK(g, tip, w),
         w.stack # <<>>
  PROVE  /\ WalkOK(g, tip, Popped(g, w))
         /\ Remaining(g, Popped(g, w)) \in Nat
         /\ Remaining(g, Popped(g, w)) < Remaining(g, w)
<1> DEFINE s == w.stack
           v == w.seen
           h == w.history
           id == s[Len(s)].id
           C == Cardinality(DOMAIN g \ v)
<1>0. /\ w = [stack |-> s, seen |-> v, history |-> h]
      /\ StackOK(g, tip, s) /\ RecordedOK(g, tip, s, v, h) /\ EndsOK(tip, s, v, h)
      /\ s # <<>>
  BY DEF WalkOK
<1>1. /\ s \in Seq(Entries(g, tip)) /\ Len(s) \in Nat /\ Len(s) >= 1
      /\ Front(s) \in Seq(Entries(g, tip)) /\ Len(Front(s)) = Len(s) - 1
      /\ s[Len(s)] \in Entries(g, tip) /\ Last(s) = s[Len(s)]
  BY <1>0, FrontShape DEF StackOK, Last
<1>2. id \in History(g, tip) /\ id \in DOMAIN g /\ s[Len(s)].expanded \in BOOLEAN
  BY <1>1, NumberedHistory DEF Entries
<1>3. IsFiniteSet(DOMAIN g \ v) /\ C \in Nat
  BY NumberedClosed, FS_Difference, FS_CardinalityType, FS_Subset
<1> HIDE DEF s, v, h, id, C
<1>4. CASE s[Len(s)].expanded
  <2>1. Popped(g, w) = [w EXCEPT !.stack = Front(s), !.history = Append(@, id)]
    BY <1>1, <1>4 DEF Popped, s, id
  <2>2. Popped(g, w) = [stack |-> Front(s), seen |-> v, history |-> Append(h, id)]
    BY <1>0, <2>1
  <2>3. IsExpanded(s[Len(s)])
    BY <1>2, <1>4 DEF IsExpanded
  <2>4. /\ StackOK(g, tip, Front(s)) /\ RecordedOK(g, tip, Front(s), v, Append(h, id))
        /\ EndsOK(tip, Front(s), v, Append(h, id))
    BY <1>0, <2>3, RecordsTop DEF id
  <2>5. WalkOK(g, tip, Popped(g, w))
    BY <2>2, <2>4 DEF WalkOK
  <2>6. Remaining(g, Popped(g, w)) = 3 * C + (Len(s) - 1)
    BY <1>1, <2>2 DEF Remaining, C
  <2>7. Remaining(g, w) = 3 * C + Len(s)
    BY <1>0 DEF Remaining, C
  <2> QED
    BY <1>1, <1>3, <2>5, <2>6, <2>7
<1>5. CASE ~s[Len(s)].expanded /\ id \in v
  <2>1. Popped(g, w) = [w EXCEPT !.stack = Front(s)]
    BY <1>1, <1>5 DEF Popped, s, id, v
  <2>2. Popped(g, w) = [stack |-> Front(s), seen |-> v, history |-> h]
    BY <1>0, <2>1
  <2>3. ~IsExpanded(s[Len(s)])
    BY <1>2, <1>5 DEF IsExpanded
  <2>4. /\ StackOK(g, tip, Front(s)) /\ RecordedOK(g, tip, Front(s), v, h)
        /\ EndsOK(tip, Front(s), v, h)
    BY <1>0, <1>5, <2>3, DropsTop DEF id
  <2>5. WalkOK(g, tip, Popped(g, w))
    BY <2>2, <2>4 DEF WalkOK
  <2>6. Remaining(g, Popped(g, w)) = 3 * C + (Len(s) - 1)
    BY <1>1, <2>2 DEF Remaining, C
  <2>7. Remaining(g, w) = 3 * C + Len(s)
    BY <1>0 DEF Remaining, C
  <2> QED
    BY <1>1, <1>3, <2>5, <2>6, <2>7
<1>6. CASE ~s[Len(s)].expanded /\ id \notin v
  <2> DEFINE p == Reverse(g[id])
             t == Front(s) \o <<Visit(id, TRUE)>> \o Unvisited(p)
             u == v \cup {id}
  <2>1. Popped(g, w) = [w EXCEPT !.stack = t, !.seen = @ \cup {id}]
    BY <1>1, <1>6 DEF Popped, s, id, v
  <2>2. Popped(g, w) = [stack |-> t, seen |-> u, history |-> h]
    <3> HIDE DEF t
    <3> QED
      BY <1>0, <2>1
  <2>3. ~IsExpanded(s[Len(s)])
    BY <1>2, <1>6 DEF IsExpanded
  <2> HIDE DEF p, t, u
  <2>4. ParentsAbove(g, tip, s, id, p, t)
    <3>1. s \in Seq(Entries(g, tip)) /\ s # <<>> /\ id \in History(g, tip)
      BY <1>0, <1>1, <1>2
    <3>2. p = Reverse(g[id]) /\ t = Front(s) \o <<Visit(id, TRUE)>> \o Unvisited(p)
      BY Zenon DEF p, t
    <3> QED
      BY <3>1, <3>2, UnvisitedShape, Zenon
  <2>5. /\ StackOK(g, tip, t) /\ RecordedOK(g, tip, t, u, h)
        /\ EndsOK(tip, t, u, h)
    BY <1>0, <1>6, <2>3, <2>4, ExpandsTop DEF id, u
  <2>6. WalkOK(g, tip, Popped(g, w))
    BY <2>2, <2>5 DEF WalkOK
  <2>7. DOMAIN g \ u = (DOMAIN g \ v) \ {id} /\ id \in DOMAIN g \ v
    BY <1>2, <1>6 DEF u
  <2>8. Cardinality(DOMAIN g \ u) = C - 1 /\ C - 1 \in Nat
    <3>1. IsFiniteSet((DOMAIN g \ v) \ {id}) /\ Cardinality((DOMAIN g \ v) \ {id}) = C - 1
      BY <1>3, <2>7, FS_RemoveElement DEF C
    <3> QED
      BY <2>7, <3>1, FS_CardinalityType
  <2>9. Remaining(g, Popped(g, w)) = 3 * (C - 1) + (Len(s) + Len(p))
    BY <2>2, <2>4, <2>8 DEF Remaining, ParentsAbove
  <2>10. Remaining(g, w) = 3 * C + Len(s)
    BY <1>0 DEF Remaining, C
  <2>11. Len(p) \in Nat
    BY <2>4, LenProperties DEF ParentsAbove
  <2> QED
    BY <1>1, <1>3, <2>4, <2>6, <2>8, <2>9, <2>10, <2>11 DEF ParentsAbove
<1> QED
  BY <1>4, <1>5, <1>6

(* h has everything reachable from the tip: each commit once and after    *)
(* its parents, and the tip last.                                         *)
IsHistory(g, tip, h) ==
  /\ h \in Seq(History(g, tip)) /\ h # <<>> /\ Last(h) = tip
  /\ IsInjective(h) /\ ToSet(h) = History(g, tip)
  /\ \A i \in DOMAIN h : ParentsOf(g, h[i]) \subseteq {h[j] : j \in 1 .. i - 1}

(* Once the stack is empty, everything reachable is recorded.              *)
LEMMA RecordedAll ==
  ASSUME NEW g, Numbered(g), NEW tip \in DOMAIN g, NEW w, WalkOK(g, tip, w),
         w.stack = <<>>
  PROVE  IsHistory(g, tip, w.history)
<1> DEFINE h == w.history
<1>1. HistoryOK(g, tip, h) /\ h # <<>> /\ h[Len(h)] = tip
  BY DEF WalkOK, RecordedOK, EndsOK
<1> HIDE DEF h
<1>2. /\ h \in Seq(History(g, tip)) /\ Len(h) \in Nat /\ Len(h) >= 1 /\ DOMAIN h = 1 .. Len(h)
      /\ \A i, j \in DOMAIN h : h[i] = h[j] => i = j
      /\ \A i \in DOMAIN h : \A q \in ParentsOf(g, h[i]) : \E j \in 1 .. i - 1 : h[j] = q
  BY <1>1, FrontShape DEF HistoryOK
<1>3. IsInjective(h) /\ Last(h) = tip
  BY <1>1, <1>2 DEF IsInjective, Last
<1>4. \A i \in DOMAIN h : ParentsOf(g, h[i]) \subseteq {h[j] : j \in 1 .. i - 1}
  BY <1>2
<1>5. Members(h) \subseteq History(g, tip) /\ Members(h) \subseteq DOMAIN g
  BY <1>2, NumberedHistory, ElementOfSeq DEF Members
<1>6. tip \in Members(h)
  <2>1. Len(h) \in DOMAIN h
    BY <1>2
  <2> QED
    BY <1>1, <2>1 DEF Members
<1>7. ParentClosed(g, Members(h))
  <2>1. ASSUME NEW i \in DOMAIN h, NEW q \in ParentsOf(g, h[i]) PROVE q \in Members(h)
    <3>1. PICK j \in 1 .. i - 1 : h[j] = q
      BY <1>2, <2>1
    <3>2. j \in DOMAIN h
      BY <1>2, <2>1
    <3> QED
      BY <3>1, <3>2 DEF Members
  <2> QED
    BY <2>1 DEF ParentClosed, Members
<1>8. History(g, tip) \subseteq Members(h)
  BY <1>5, <1>6, <1>7, HistoryLeast
<1>9. ToSet(h) = History(g, tip)
  BY <1>5, <1>8 DEF ToSet, Members
<1> QED
  BY <1>1, <1>2, <1>3, <1>4, <1>9 DEF h, IsHistory

(* The loop begins with the tip alone.                                    *)
LEMMA BegunOK ==
  ASSUME NEW g, Numbered(g), NEW tip \in DOMAIN g
  PROVE  /\ WalkOK(g, tip, Begun(tip))
         /\ Remaining(g, Begun(tip)) = 3 * Cardinality(DOMAIN g) + 1
<1> DEFINE x == Visit(tip, FALSE)
           s == <<x>>
<1>1. x \in Entries(g, tip) /\ x.id = tip /\ ~IsExpanded(x)
  BY NumberedHistory DEF Entries, Visit, IsExpanded
<1> HIDE DEF x
<1>2. s \in Seq(Entries(g, tip)) /\ Len(s) = 1 /\ s[1] = x /\ DOMAIN s = {1} /\ s # <<>>
  BY <1>1
<1>3. Begun(tip) = [stack |-> s, seen |-> {}, history |-> <<>>]
  BY Zenon DEF Begun, s, x
<1> HIDE DEF s
<1>4. StackOK(g, tip, s)
  BY <1>1, <1>2 DEF StackOK
<1>5. Expanded(s) = {}
  BY <1>1, <1>2, ExpandedAre
<1>6. Members(<<>>) = {} /\ <<>> \in Seq(History(g, tip)) /\ DOMAIN <<>> = {}
  BY DEF Members
<1>7. SeenOK(s, {}, <<>>) /\ HistoryOK(g, tip, <<>>) /\ PendingOK(g, s, <<>>)
  BY <1>1, <1>2, <1>5, <1>6 DEF SeenOK, HistoryOK, PendingOK
<1>8. EndsOK(tip, s, {}, <<>>)
  BY <1>2 DEF EndsOK
<1>9. WalkOK(g, tip, Begun(tip))
  BY <1>3, <1>4, <1>7, <1>8 DEF WalkOK, RecordedOK
<1>10. Remaining(g, Begun(tip)) = 3 * Cardinality(DOMAIN g \ {}) + Len(s)
  BY <1>3 DEF Remaining
<1>11. DOMAIN g \ {} = DOMAIN g
  OBVIOUS
<1> QED
  BY <1>2, <1>9, <1>10, <1>11

(* history_from_head returns such a sequence, whatever was merged.         *)
THEOREM HistoryFromHeadOrdered ==
  ASSUME NEW g, Numbered(g), NEW tip \in DOMAIN g
  PROVE  IsHistory(g, tip, HistoryFromHead(g, tip))
<1> DEFINE N == 3 * Cardinality(DOMAIN g) + 1
           f == CHOOSE e : IsWalk(e, g, tip, N)
           Good(n) == /\ WalkOK(g, tip, f[n]) /\ Remaining(g, f[n]) \in Nat
                      /\ f[n].stack = <<>> \/ Remaining(g, f[n]) + n <= N
           B == {n \in Nat : n <= N /\ ~Good(n)}
<1>1. N \in Nat
  BY NumberedClosed, FS_CardinalityType
<1>2. HistoryFromHead(g, tip) = f[N].history
  BY HistoryWalk
<1>3. Remaining(g, Begun(tip)) = N
  BY BegunOK
<1> HIDE DEF N
<1>4. IsWalk(f, g, tip, N)
  BY <1>1, WalkExists
<1> HIDE DEF f
<1>5. \A n \in 0 .. N : f[n] = IF n = 0 THEN Begun(tip) ELSE Continued(g, f[n - 1])
  BY <1>4 DEF IsWalk
<1>6. B = {}
  <2>1. SUFFICES ASSUME B # {} PROVE FALSE
    OBVIOUS
  <2>2. PICK n \in B : \A m \in B : n <= m
    <3> HIDE DEF B
    <3>1. B \subseteq Nat
      BY DEF B
    <3> QED
      BY <2>1, <3>1, LeastNumber
  <2>3. n \in 0 .. N /\ ~Good(n)
    BY <1>1, <2>2
  <2>4. CASE n = 0
    <3>1. f[0] = Begun(tip)
      BY <1>5, <2>3, <2>4
    <3>2. Remaining(g, f[0]) + 0 <= N /\ Remaining(g, f[0]) \in Nat
      BY <1>1, <1>3, <3>1
    <3> QED
      BY <2>3, <2>4, <3>1, <3>2, BegunOK
  <2>5. CASE n # 0
    <3>1. n - 1 \in Nat /\ n - 1 <= N /\ n - 1 < n
      BY <1>1, <2>3, <2>5
    <3>2. Good(n - 1)
      <4>1. n - 1 \notin B
        BY <2>2, <3>1
      <4> QED
        BY <3>1, <4>1
    <3>3. f[n] = Continued(g, f[n - 1])
      BY <1>5, <2>3, <2>5
    <3> DEFINE w == f[n - 1]
    <3>4. WalkOK(g, tip, w) /\ Remaining(g, w) \in Nat
          /\ (w.stack = <<>> \/ Remaining(g, w) + (n - 1) <= N)
      BY <3>2
    <3> HIDE DEF w, Good, B
    <3>5. CASE w.stack = <<>>
      <4>1. f[n] = w
        BY <3>3, <3>5 DEF Continued, w
      <4> QED
        BY <2>3, <3>4, <3>5, <4>1 DEF Good
    <3>6. CASE w.stack # <<>>
      <4>1. f[n] = Popped(g, w)
        BY <3>3, <3>6 DEF Continued, w
      <4>2. /\ WalkOK(g, tip, f[n]) /\ Remaining(g, f[n]) \in Nat
            /\ Remaining(g, f[n]) < Remaining(g, w)
        BY <3>4, <3>6, <4>1, PoppedOK
      <4>3. Remaining(g, f[n]) + n <= N
        BY <1>1, <2>3, <3>4, <3>6, <4>2
      <4> QED
        BY <2>3, <4>2, <4>3 DEF Good
    <3> QED
      BY <3>5, <3>6
  <2> QED
    BY <2>4, <2>5
<1>7. Good(N)
  BY <1>1, <1>6
<1>8. WalkOK(g, tip, f[N]) /\ f[N].stack = <<>>
  <2>1. Remaining(g, f[N]) \in Nat /\ (f[N].stack = <<>> \/ Remaining(g, f[N]) + N <= N)
    BY <1>7
  <2>2. f[N].stack \in Seq(Entries(g, tip))
    BY <1>7 DEF WalkOK, StackOK
  <2>3. Len(f[N].stack) \in Nat
    BY <2>2, LenProperties
  <2>4. Cardinality(DOMAIN g \ f[N].seen) \in Nat
    BY NumberedClosed, FS_Subset, FS_CardinalityType
  <2>5. f[N].stack = <<>> \/ Len(f[N].stack) = 0
    BY <1>1, <2>1, <2>3, <2>4 DEF Remaining
  <2>6. f[N].stack = <<>>
    BY <2>2, <2>5, EmptySeq
  <2> QED
    BY <1>7, <2>6
<1> QED
  BY <1>2, <1>8, RecordedAll

-----------------------------------------------------------------------------
(* The base of a merge                                                     *)

(* The parents of the commits in S.                                        *)
Older(g, S) == UNION {ParentsOf(g, d) : d \in S}

(* f[n] is what n steps from c to a parent lead to.                        *)
IsGenerations(f, g, c, N) ==
  f = [n \in 0 .. N |-> IF n = 0 THEN {c} ELSE Older(g, f[n - 1])]

(* There is such a function for any number of steps.                       *)
LEMMA GenerationsExist ==
  ASSUME NEW g, NEW c, NEW N \in Nat
  PROVE  \E f : IsGenerations(f, g, c, N)
<1> DEFINE B == {n \in Nat : ~\E f : IsGenerations(f, g, c, n)}
<1>1. CASE B = {}
  BY <1>1
<1>2. CASE B # {}
  <2>1. PICK n \in B : \A m \in B : n <= m
    <3> HIDE DEF B
    <3>1. B \subseteq Nat
      BY DEF B
    <3> QED
      BY <1>2, <3>1, LeastNumber
  <2>2. CASE n = 0
    <3> DEFINE f == [i \in 0 .. 0 |-> {c}]
    <3>1. IsGenerations(f, g, c, 0)
      BY DEF IsGenerations
    <3> QED
      BY <2>2, <3>1
  <2>3. CASE n # 0
    <3>1. n - 1 \in Nat /\ n - 1 \notin B
      BY <2>1, <2>3
    <3>2. PICK e : IsGenerations(e, g, c, n - 1)
      BY <3>1
    <3> DEFINE f == [i \in 0 .. n |-> IF i = n THEN Older(g, e[n - 1]) ELSE e[i]]
    <3>3. \A i \in 0 .. n - 1 : e[i] = IF i = 0 THEN {c} ELSE Older(g, e[i - 1])
      BY <3>2 DEF IsGenerations
    <3>4. ASSUME NEW i \in 0 .. n
          PROVE  f[i] = IF i = 0 THEN {c} ELSE Older(g, f[i - 1])
      <4>1. CASE i = n
        <5>1. n - 1 \in 0 .. n /\ n - 1 # n
          BY <2>3
        <5>2. f[n - 1] = e[n - 1]
          BY <5>1
        <5> QED
          BY <2>3, <4>1, <5>2
      <4>2. CASE i # n /\ i = 0
        BY <3>3, <4>2, <2>3
      <4>3. CASE i # n /\ i # 0
        <5>1. i \in 0 .. n - 1 /\ i - 1 \in 0 .. n /\ i - 1 # n
          BY <4>3
        <5>2. f[i] = e[i] /\ f[i - 1] = e[i - 1]
          BY <4>3, <5>1
        <5> QED
          BY <3>3, <4>3, <5>1, <5>2
      <4> QED
        BY <4>1, <4>2, <4>3
    <3>5. IsGenerations(f, g, c, n)
      BY <3>4, Zenon DEF IsGenerations
    <3> QED
      BY <3>5
  <2> QED
    BY <2>2, <2>3
<1> QED
  BY <1>1, <1>2

(* What a generation has, by the one before it.                            *)
LEMMA GenerationsAre ==
  ASSUME NEW g, Numbered(g), NEW c
  PROVE  /\ Cardinality(DOMAIN g) \in Nat
         /\ DOMAIN Generations(g, c) = 0 .. Cardinality(DOMAIN g)
         /\ c \in Generations(g, c)[0] /\ Generations(g, c)[0] = {c}
         /\ \A n \in 1 .. Cardinality(DOMAIN g) :
              /\ \A x \in Generations(g, c)[n] :
                   \E d \in Generations(g, c)[n - 1] : x \in ParentsOf(g, d)
              /\ \A d \in Generations(g, c)[n - 1] :
                   ParentsOf(g, d) \subseteq Generations(g, c)[n]
<1> DEFINE N == Cardinality(DOMAIN g)
           f == CHOOSE e : IsGenerations(e, g, c, N)
<1>1. N \in Nat
  BY NumberedClosed, FS_CardinalityType
<1> HIDE DEF N
<1>2. Generations(g, c) = f
  BY Zenon DEF Generations, IsGenerations, Older, N
<1>3. IsGenerations(f, g, c, N)
  BY <1>1, GenerationsExist
<1> HIDE DEF f
<1>4. DOMAIN f = 0 .. N /\ \A n \in 0 .. N :
        f[n] = IF n = 0 THEN {c} ELSE Older(g, f[n - 1])
  BY <1>3 DEF IsGenerations
<1>5. f[0] = {c}
  BY <1>1, <1>4
<1>6. \A n \in 1 .. N : f[n] = Older(g, f[n - 1])
  BY <1>1, <1>4
<1>7. ASSUME NEW n \in 1 .. N
      PROVE  /\ \A x \in f[n] : \E d \in f[n - 1] : x \in ParentsOf(g, d)
             /\ \A d \in f[n - 1] : ParentsOf(g, d) \subseteq f[n]
  <2>1. f[n] = UNION {ParentsOf(g, d) : d \in f[n - 1]}
    BY <1>6 DEF Older
  <2> QED
    BY <2>1
<1> QED
  BY <1>1, <1>2, <1>4, <1>5, <1>7 DEF N

(* A generation has commits of the history, earlier by a step each time.   *)
LEMMA GenerationsEarlier ==
  ASSUME NEW g, Numbered(g), NEW c \in DOMAIN g
  PROVE  \A n \in 0 .. Cardinality(DOMAIN g) : \A x \in Generations(g, c)[n] :
           x \in History(g, c) /\ x + n <= c
<1> DEFINE N == Cardinality(DOMAIN g)
           f == Generations(g, c)
           Good(n) == \A x \in f[n] : x \in History(g, c) /\ x + n <= c
           B == {n \in Nat : n <= N /\ ~Good(n)}
<1>1. /\ N \in Nat /\ f[0] = {c}
      /\ \A n \in 1 .. N : \A x \in f[n] : \E d \in f[n - 1] : x \in ParentsOf(g, d)
  BY GenerationsAre
<1> HIDE DEF N, f
<1>2. SUFFICES ASSUME B # {} PROVE FALSE
  BY <1>1 DEF N, f
<1>3. PICK n \in B : \A m \in B : n <= m
  <2> HIDE DEF B
  <2>1. B \subseteq Nat
    BY DEF B
  <2> QED
    BY <1>2, <2>1, LeastNumber
<1>4. PICK x \in f[n] : ~(x \in History(g, c) /\ x + n <= c)
  BY <1>3
<1>5. CASE n = 0
  BY <1>1, <1>4, <1>5, NumberedHistory
<1>6. CASE n # 0
  <2>1. n - 1 \in Nat /\ n - 1 <= N /\ n - 1 < n /\ n \in 1 .. N
    BY <1>1, <1>3, <1>6
  <2>2. Good(n - 1)
    BY <1>3, <2>1
  <2>3. PICK d \in f[n - 1] : x \in ParentsOf(g, d)
    BY <1>1, <1>4, <2>1
  <2>4. d \in History(g, c) /\ d + (n - 1) <= c
    BY <2>2
  <2>5. x \in History(g, c) /\ x < d /\ x \in Nat /\ d \in Nat /\ c \in Nat
    BY <2>3, <2>4, NumberedHistory
  <2> QED
    BY <1>3, <1>4, <2>4, <2>5
<1> QED
  BY <1>5, <1>6

(* Every ancestor is found.                                                *)
LEMMA DistancesOfHistory ==
  ASSUME NEW g, Numbered(g), NEW c \in DOMAIN g
  PROVE  /\ DOMAIN AncestorDistances(g, c) = History(g, c)
         /\ \A a \in History(g, c) :
              /\ AncestorDistances(g, c)[a] \in 0 .. Cardinality(DOMAIN g)
              /\ a \in Generations(g, c)[AncestorDistances(g, c)[a]]
<1> DEFINE N == Cardinality(DOMAIN g)
           f == Generations(g, c)
           U == UNION {f[n] : n \in DOMAIN f}
<1>1. /\ N \in Nat /\ DOMAIN f = 0 .. N /\ c \in f[0]
      /\ \A n \in 1 .. N : \A d \in f[n - 1] : ParentsOf(g, d) \subseteq f[n]
      /\ \A n \in 0 .. N : \A x \in f[n] : x \in History(g, c) /\ x + n <= c
  BY GenerationsAre, GenerationsEarlier
<1>2. \A x : x \in U <=> \E n \in 0 .. N : x \in f[n]
  BY <1>1
<1>3. AncestorDistances(g, c) = [a \in U |-> Min({n \in DOMAIN f : a \in f[n]})]
  BY Zenon DEF AncestorDistances
<1> HIDE DEF N, f, U
<1>4. U \subseteq History(g, c)
  BY <1>1, <1>2
<1>5. c \in U
  BY <1>1, <1>2
<1>6. c \in Nat /\ c <= N /\ \A x \in History(g, c) : x \in Nat /\ x >= 1 /\ x \in DOMAIN g
  <2>1. PICK k \in Nat : DOMAIN g = 1 .. k
    BY DEF Numbered
  <2>2. N = k
    BY <2>1, FS_Interval DEF N
  <2> QED
    BY <2>1, <2>2, NumberedHistory
<1>7. ParentClosed(g, U)
  <2>1. ASSUME NEW a \in U, NEW q \in ParentsOf(g, a) PROVE q \in U
    <3>1. PICK n \in 0 .. N : a \in f[n]
      BY <1>2, <2>1
    <3>2. a \in Nat /\ a >= 1 /\ a + n <= c
      BY <1>1, <1>4, <1>6, <2>1, <3>1
    <3>3. n + 1 \in 1 .. N /\ (n + 1) - 1 = n
      BY <1>1, <1>6, <3>1, <3>2
    <3>4. ParentsOf(g, a) \subseteq f[n + 1]
      BY <1>1, <3>1, <3>3
    <3>5. n + 1 \in 0 .. N
      BY <1>1, <3>3
    <3> QED
      BY <1>2, <2>1, <3>4, <3>5
  <2> QED
    BY <2>1 DEF ParentClosed
<1>8. U = History(g, c)
  <2>1. U \in SUBSET DOMAIN g
    BY <1>4, <1>6
  <2> QED
    BY <1>4, <1>5, <1>7, <2>1, HistoryLeast
<1>9. ASSUME NEW a \in History(g, c)
      PROVE  /\ AncestorDistances(g, c)[a] \in 0 .. N
             /\ a \in f[AncestorDistances(g, c)[a]]
  <2> DEFINE S == {n \in DOMAIN f : a \in f[n]}
  <2>1. S \subseteq Nat /\ S # {}
    BY <1>1, <1>2, <1>8, <1>9
  <2>2. \E n \in S : \A m \in S : n <= m
    <3> HIDE DEF S
    <3> QED
      BY <2>1, LeastNumber
  <2>3. Min(S) \in S
    <3> HIDE DEF S
    <3> QED
      BY <2>2 DEF Min
  <2>4. AncestorDistances(g, c)[a] = Min(S)
    BY <1>3, <1>8, <1>9
  <2> QED
    BY <1>1, <2>3, <2>4
<1> QED
  BY <1>3, <1>8, <1>9 DEF N, f

(* In a history that was never merged a generation has one commit, and a   *)
(* later generation has an ancestor of it.                                 *)
LEMMA LinearGenerations ==
  ASSUME NEW g, Numbered(g), NEW c \in DOMAIN g, Linear(g, c),
         NEW i \in 0 .. Cardinality(DOMAIN g), NEW a \in Generations(g, c)[i]
  PROVE  \A j \in i .. Cardinality(DOMAIN g) : \A b \in Generations(g, c)[j] : b \in History(g, a)
<1> DEFINE N == Cardinality(DOMAIN g)
           f == Generations(g, c)
<1>1. /\ N \in Nat /\ f[0] = {c}
      /\ \A n \in 1 .. N : \A x \in f[n] : \E d \in f[n - 1] : x \in ParentsOf(g, d)
      /\ \A n \in 0 .. N : \A x \in f[n] : x \in History(g, c)
  BY GenerationsAre, GenerationsEarlier
<1>2. a \in History(g, c) /\ a \in DOMAIN g
  BY <1>1, NumberedHistory
<1>3. \A d \in History(g, c) : \A x, y \in ParentsOf(g, d) : x = y
  <2>1. ASSUME NEW d \in History(g, c), NEW x \in ParentsOf(g, d), NEW y \in ParentsOf(g, d)
        PROVE  x = y
    <3>1. g[d] \in Seq(DOMAIN g) /\ Len(g[d]) <= 1
      BY NumberedHistory DEF Numbered, Linear
    <3>2. DOMAIN g[d] = 1 .. Len(g[d]) /\ Len(g[d]) \in Nat
      BY <3>1, LenProperties
    <3>3. \A k, m \in DOMAIN g[d] : k = m
      BY <3>1, <3>2
    <3> QED
      BY <2>1, <3>3 DEF ParentsOf, Members
  <2> QED
    BY <2>1
<1> HIDE DEF N, f
<1> DEFINE One(n) == \A x, y \in f[n] : x = y
           B == {n \in Nat : n <= N /\ ~One(n)}
<1>4. B = {}
  <2>1. SUFFICES ASSUME B # {} PROVE FALSE
    OBVIOUS
  <2>2. PICK n \in B : \A m \in B : n <= m
    <3> HIDE DEF B
    <3>1. B \subseteq Nat
      BY DEF B
    <3> QED
      BY <2>1, <3>1, LeastNumber
  <2>3. PICK x \in f[n], y \in f[n] : x # y
    BY <2>2
  <2>4. CASE n = 0
    BY <1>1, <2>3, <2>4
  <2>5. CASE n # 0
    <3>1. n - 1 \in Nat /\ n - 1 <= N /\ n - 1 < n /\ n \in 1 .. N /\ n - 1 \in 0 .. N
      BY <1>1, <2>2, <2>5
    <3>2. One(n - 1)
      BY <2>2, <3>1
    <3>3. PICK d \in f[n - 1] : x \in ParentsOf(g, d)
      BY <1>1, <2>3, <3>1
    <3>4. PICK e \in f[n - 1] : y \in ParentsOf(g, e)
      BY <1>1, <2>3, <3>1
    <3> QED
      BY <1>1, <1>3, <2>3, <3>1, <3>2, <3>3, <3>4
  <2> QED
    BY <2>4, <2>5
<1> DEFINE Down(n) == \A b \in f[n] : b \in History(g, a)
           D == {n \in Nat : i <= n /\ n <= N /\ ~Down(n)}
<1>5. D = {}
  <2>1. SUFFICES ASSUME D # {} PROVE FALSE
    OBVIOUS
  <2>2. PICK n \in D : \A m \in D : n <= m
    <3> HIDE DEF D
    <3>1. D \subseteq Nat
      BY DEF D
    <3> QED
      BY <2>1, <3>1, LeastNumber
  <2>3. PICK b \in f[n] : b \notin History(g, a)
    BY <2>2
  <2>4. i \in 0 .. N /\ a \in f[i]
    BY DEF N, f
  <2>5. CASE n = i
    <3>1. One(i)
      BY <1>1, <1>4, <2>4
    <3>2. b = a
      BY <2>3, <2>4, <2>5, <3>1
    <3> QED
      BY <1>2, <2>3, <3>2, NumberedHistory
  <2>6. CASE n # i
    <3>1. n - 1 \in Nat /\ i <= n - 1 /\ n - 1 <= N /\ n - 1 < n /\ n \in 1 .. N
      BY <1>1, <2>2, <2>4, <2>6
    <3>2. Down(n - 1)
      BY <2>2, <3>1
    <3>3. PICK d \in f[n - 1] : b \in ParentsOf(g, d)
      BY <1>1, <2>3, <3>1
    <3> QED
      BY <1>2, <2>3, <3>2, <3>3, NumberedHistory
  <2> QED
    BY <2>5, <2>6
<1>6. ASSUME NEW j \in i .. N PROVE Down(j)
  <2>1. j \in Nat /\ i <= j /\ j <= N
    BY <1>1, <1>6
  <2> QED
    BY <1>5, <2>1
<1> QED
  BY <1>6 DEF N, f

(* Two histories that were never merged have at most one lowest common     *)
(* ancestor, and a base of their merge is that one.                        *)
THEOREM LinearBase ==
  ASSUME NEW g, Numbered(g), NEW l \in DOMAIN g, NEW r \in DOMAIN g,
         Linear(g, l), Linear(g, r),
         NEW p \in MergeBases(g, l, r), NEW a \in LowestCommon(g, l, r)
  PROVE  a = p
<1> DEFINE dl == AncestorDistances(g, l)
           dr == AncestorDistances(g, r)
           N == Cardinality(DOMAIN g)
<1>1. /\ DOMAIN dl = History(g, l) /\ DOMAIN dr = History(g, r)
      /\ \A x \in History(g, l) : dl[x] \in 0 .. N /\ x \in Generations(g, l)[dl[x]]
      /\ \A x \in History(g, r) : dr[x] \in 0 .. N /\ x \in Generations(g, r)[dr[x]]
      /\ N \in Nat
  BY DistancesOfHistory, GenerationsAre
<1>2. /\ p \in History(g, l) /\ p \in History(g, r)
      /\ \A b \in History(g, l) \cap History(g, r) : dl[p] + dr[p] <= dl[b] + dr[b]
  BY <1>1 DEF MergeBases
<1>3. /\ a \in History(g, l) /\ a \in History(g, r)
      /\ \A b \in History(g, l) \cap History(g, r) : a \in History(g, b) => a = b
  BY DEF LowestCommon
<1>4. CASE dl[p] <= dl[a]
  <2>1. dl[a] \in dl[p] .. N
    BY <1>1, <1>2, <1>3, <1>4
  <2>2. a \in History(g, p)
    BY <1>1, <1>2, <1>3, <2>1, LinearGenerations
  <2> QED
    BY <1>2, <1>3, <2>2
<1>5. CASE ~(dl[p] <= dl[a])
  <2>1. dr[a] \in dr[p] .. N
    <3>1. dl[p] + dr[p] <= dl[a] + dr[a]
      BY <1>2, <1>3
    <3>2. dl[p] \in 0 .. N /\ dl[a] \in 0 .. N /\ dr[p] \in 0 .. N /\ dr[a] \in 0 .. N
      BY <1>1, <1>2, <1>3
    <3> HIDE DEF dl, dr, N
    <3> QED
      BY <1>1, <1>5, <3>1, <3>2
  <2>2. a \in History(g, p)
    BY <1>1, <1>2, <1>3, <2>1, LinearGenerations
  <2> QED
    BY <1>2, <1>3, <2>2
<1> QED
  BY <1>4, <1>5
=============================================================================
