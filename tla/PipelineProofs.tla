--------------------------- MODULE PipelineProofs ---------------------------
(* Theorems about TurnPipeline, for any games, names, hooks and limits:    *)
(* the shape of its state, and the paths it holds.                         *)
EXTENDS TurnPipeline, FiniteSetTheorems, FunctionTheorems,
        WellFoundedInduction, TLAPS

(* A grouped turn has at least one text.                                   *)
Batch == Seq(HookedTexts) \ {<<>>}

(* The fields of the window.                                               *)
AppFields == {"game", "branch", "retained", "cursor", "detecting", "started",
              "manual", "buffer", "ready", "seen", "found"}

(* The texts of the turns of L.                                            *)
Texts(L) == UNION {Elements(b) : b \in Elements(L)}

(* The fields of the window that follow the active game.                   *)
AppOK(a) ==
  /\ DOMAIN a = AppFields
  /\ a.game \in Game /\ a.branch \in Branch
  /\ a.retained \in Branch \cup {None}
  /\ a.detecting \in BOOLEAN /\ a.started \in BOOLEAN /\ a.manual \in BOOLEAN
  /\ a.buffer \in Seq(Batch) /\ a.ready \in Seq(Batch)
  /\ a.cursor # None => /\ DOMAIN a.cursor = {"branch", "path", "position"}
                         /\ a.cursor.branch \in Branch
  /\ \A t \in Texts(a.buffer) \cup Texts(a.ready) : t.game = a.game

(* Turns are buffered for detection only, and the third ends it.           *)
BufferOK(a) == Len(a.buffer) <= IF a.detecting THEN 2 ELSE 0

(* The queue is bounded, and its texts are of the active game.             *)
QueueOK(q, a) ==
  /\ q \in Seq(HookedTexts) /\ Len(q) <= MaxPending
  /\ \A t \in Elements(q) : t.game = a.game

(* A turn has a game, a name and a batch.                                  *)
TurnOK ==
  turn = NoTurn \/
    /\ DOMAIN turn = {"stage", "game", "branch", "batch", "base"}
    /\ turn.stage \in {"queued", "running", "done", "failed"}
    /\ turn.game \in Game /\ turn.branch \in Branch /\ turn.batch \in Batch

(* One last text of each hook of each game.                                *)
LatestOK ==
  /\ latest \subseteq HookedTexts /\ IsFiniteSet(latest)
  /\ \A l, m \in latest : l.game = m.game /\ l.hook = m.hook => l = m

(* The store has a path for every name of every game.                      *)
StoreOK(ps) == DOMAIN ps = Game /\ \A g \in Game : DOMAIN ps[g] = Branch

(* What the parts of the state are.                                        *)
Shapes ==
  /\ StoreOK(paths)
  /\ AppOK(app) /\ BufferOK(app) /\ QueueOK(pending, app) /\ TurnOK
  /\ LatestOK
  /\ config \in [Hook -> HookSettings \cup {None}]
  /\ routes \subseteq Hook \X Source
  /\ settings \in [model : BOOLEAN, latest : BOOLEAN]
  /\ phase \in {"idle", "events", "start"}
  /\ texts \in Nat

(* What the operations on sequences do to their elements.                  *)
LEMMA ElementsShape ==
  ASSUME NEW T, NEW s \in Seq(T)
  PROVE  /\ Elements(s) \subseteq T
         /\ \A i \in DOMAIN s : s[i] \in Elements(s)
         /\ Elements(<<>>) = {}
         /\ \A x \in T : Append(s, x) \in Seq(T)
                           /\ Elements(Append(s, x)) = Elements(s) \cup {x}
         /\ \A r \in Seq(T) : s \o r \in Seq(T)
                           /\ Elements(s \o r) = Elements(s) \cup Elements(r)
         /\ s # <<>> => /\ Head(s) \in Elements(s) /\ Head(s) \in T
                        /\ Tail(s) \in Seq(T) /\ Len(Tail(s)) = Len(s) - 1
                        /\ Elements(s) = {Head(s)} \cup Elements(Tail(s))
<1>1. Elements(s) \subseteq T /\ \A i \in DOMAIN s : s[i] \in Elements(s)
  BY DEF Elements
<1>2. Elements(<<>>) = {}
  BY DEF Elements
<1>3. ASSUME NEW x \in T
      PROVE  Append(s, x) \in Seq(T) /\ Elements(Append(s, x)) = Elements(s) \cup {x}
  <2> DEFINE u == Append(s, x)
             n == Len(s)
  <2>1. u \in Seq(T) /\ n \in Nat /\ Len(u) = n + 1
        /\ (\A i \in 1 .. n : u[i] = s[i]) /\ u[n + 1] = x
    OBVIOUS
  <2>2. DOMAIN u = 1 .. n + 1 /\ DOMAIN s = 1 .. n
    BY <2>1
  <2> HIDE DEF u, n
  <2>3. \A i \in 1 .. n + 1 : i \in 1 .. n \/ i = n + 1
    BY <2>1
  <2>4. n + 1 \in 1 .. n + 1 /\ \A i \in 1 .. n : i \in 1 .. n + 1
    BY <2>1
  <2>5. Elements(u) = {u[i] : i \in 1 .. n + 1} /\ Elements(s) = {s[i] : i \in 1 .. n}
    BY <2>2 DEF Elements
  <2>6. Elements(u) = Elements(s) \cup {x}
    BY <2>1, <2>3, <2>4, <2>5
  <2> QED
    BY <2>1, <2>6 DEF u
<1>4. ASSUME NEW r \in Seq(T)
      PROVE  s \o r \in Seq(T) /\ Elements(s \o r) = Elements(s) \cup Elements(r)
  <2> DEFINE u == s \o r
             n == Len(s)
             k == Len(r)
  <2>1. /\ u \in Seq(T) /\ n \in Nat /\ k \in Nat /\ Len(u) = n + k
        /\ \A i \in 1 .. n : u[i] = s[i]
        /\ \A i \in n + 1 .. n + k : u[i] = r[i - n]
    OBVIOUS
  <2>2. DOMAIN u = 1 .. n + k /\ DOMAIN s = 1 .. n /\ DOMAIN r = 1 .. k
    BY <2>1
  <2> HIDE DEF u, n, k
  <2>3. \A i \in 1 .. n + k : i \in 1 .. n \/ (i \in n + 1 .. n + k /\ i - n \in 1 .. k)
    BY <2>1
  <2>4. (\A i \in 1 .. n : i \in 1 .. n + k) /\ \A i \in 1 .. k : n + i \in n + 1 .. n + k /\ n + i \in 1 .. n + k /\ (n + i) - n = i
    BY <2>1
  <2>5. /\ Elements(u) = {u[i] : i \in 1 .. n + k} /\ Elements(s) = {s[i] : i \in 1 .. n}
        /\ Elements(r) = {r[i] : i \in 1 .. k}
    BY <2>2 DEF Elements
  <2>6. \A i \in 1 .. n + k : u[i] \in Elements(s) \cup Elements(r)
    BY <2>1, <2>3, <2>5
  <2>7. \A i \in 1 .. k : r[i] = u[n + i]
    BY <2>1, <2>4
  <2>9. \A i \in 1 .. n : s[i] = u[i] /\ i \in 1 .. n + k
    BY <2>1, <2>4
  <2>8. Elements(u) = Elements(s) \cup Elements(r)
    <3>1. Elements(u) \subseteq Elements(s) \cup Elements(r)
      BY <2>5, <2>6
    <3>2. Elements(s) \subseteq Elements(u)
      BY <2>5, <2>9
    <3>3. Elements(r) \subseteq Elements(u)
      BY <2>4, <2>5, <2>7
    <3> QED
      BY <3>1, <3>2, <3>3
  <2> QED
    BY <2>1, <2>8 DEF u
<1>5. ASSUME s # <<>>
      PROVE  /\ Head(s) \in Elements(s) /\ Head(s) \in T
             /\ Tail(s) \in Seq(T) /\ Len(Tail(s)) = Len(s) - 1
             /\ Elements(s) = {Head(s)} \cup Elements(Tail(s))
  <2> DEFINE u == Tail(s)
             n == Len(s)
  <2>1. /\ n \in Nat /\ n > 0 /\ u \in Seq(T) /\ Len(u) = n - 1
        /\ \A i \in 1 .. n - 1 : u[i] = s[i + 1]
        /\ Head(s) = s[1] /\ DOMAIN s = 1 .. n
    BY <1>5
  <2>2. DOMAIN u = 1 .. n - 1
    BY <2>1
  <2> HIDE DEF u, n
  <2>3. Elements(u) = {u[i] : i \in 1 .. n - 1} /\ Elements(s) = {s[i] : i \in 1 .. n}
    BY <2>1, <2>2 DEF Elements
  <2>4. \A i \in 1 .. n : i = 1 \/ (i - 1 \in 1 .. n - 1 /\ (i - 1) + 1 = i)
    BY <2>1
  <2>5. 1 \in 1 .. n /\ \A i \in 1 .. n - 1 : i + 1 \in 1 .. n
    BY <2>1
  <2>8. \A i \in 1 .. n : i = 1 \/ s[i] = u[i - 1]
    BY <2>1, <2>4
  <2>6. Elements(s) = {s[1]} \cup Elements(u)
    <3>1. Elements(s) \subseteq {s[1]} \cup Elements(u)
      BY <2>3, <2>4, <2>8
    <3>2. Elements(u) \subseteq Elements(s)
      BY <2>1, <2>3, <2>5
    <3> QED
      BY <2>3, <2>5, <3>1, <3>2
  <2>7. s[1] \in Elements(s)
    BY <2>3, <2>5
  <2> QED
    BY <1>1, <2>1, <2>6, <2>7 DEF u, n
<1> QED
  BY <1>1, <1>2, <1>3, <1>4, <1>5

(* The least of a set of numbers that has one.                             *)
LEMMA LeastIn ==
  ASSUME NEW S \in SUBSET Nat, S # {}
  PROVE  Least(S) \in S /\ \A y \in S : Least(S) <= y
<1> DEFINE R == OpToRel(<, Nat)
<1>1. PICK x \in S : \A y \in S : ~ (<<y, x>> \in R)
  BY WFMin, NatLessThanWellFounded
<1>2. \A y \in S : ~ (y < x)
  BY <1>1 DEF OpToRel
<1>3. \A y \in S : x <= y
  BY <1>2
<1> QED
  BY <1>3 DEF Least

(* R orders the elements of S: a strict total order.                       *)
Orders(R, S) ==
  /\ \A x \in S : <<x, x>> \notin R
  /\ \A x, y \in S : x = y \/ <<x, y>> \in R \/ <<y, x>> \in R
  /\ \A x, y, z \in S : <<x, y>> \in R /\ <<y, z>> \in R => <<x, z>> \in R

(* The elements of S before x.                                             *)
Preds(S, R, x) == {y \in S : <<y, x>> \in R}

(* What comes before an element has a rank of its own.                     *)
LEMMA PredsGrow ==
  ASSUME NEW S, IsFiniteSet(S), NEW R, Orders(R, S), NEW x \in S, NEW y \in S
  PROVE  /\ Cardinality(Preds(S, R, x)) \in 0 .. Cardinality(S) - 1
         /\ <<x, y>> \in R =>
              Cardinality(Preds(S, R, x)) < Cardinality(Preds(S, R, y))
<1>1. \A T \in SUBSET S : IsFiniteSet(T) /\ Cardinality(T) \in Nat
  BY FS_Subset, FS_CardinalityType
<1>2. \A U \in SUBSET S : \A T \in SUBSET U : T # U =>
         Cardinality(T) < Cardinality(U)
  <2> TAKE U \in SUBSET S
  <2> TAKE T \in SUBSET U
  <2>1. IsFiniteSet(U) /\ Cardinality(U) \in Nat /\ Cardinality(T) \in Nat
    BY <1>1
  <2>2. Cardinality(T) <= Cardinality(U)
        /\ (Cardinality(U) = Cardinality(T) => U = T)
    BY <2>1, FS_Subset
  <2> QED
    BY <2>1, <2>2
<1>3. Preds(S, R, x) \in SUBSET S /\ Preds(S, R, y) \in SUBSET S
  BY DEF Preds
<1>4. x \notin Preds(S, R, x)
  BY DEF Preds, Orders
<1>5. Cardinality(Preds(S, R, x)) < Cardinality(S)
  <2>1. Preds(S, R, x) # S
    BY <1>4
  <2> QED
    BY <1>2, <1>3, <2>1
<1>6. Cardinality(S) \in Nat /\ Cardinality(Preds(S, R, x)) \in Nat
  BY <1>1, <1>3
<1>7. ASSUME <<x, y>> \in R
      PROVE  Cardinality(Preds(S, R, x)) < Cardinality(Preds(S, R, y))
  <2>1. Preds(S, R, x) \in SUBSET Preds(S, R, y)
    BY <1>7 DEF Preds, Orders
  <2>2. x \in Preds(S, R, y)
    BY <1>7 DEF Preds
  <2> QED
    BY <1>2, <1>3, <1>4, <2>1, <2>2
<1> QED
  BY <1>5, <1>6, <1>7

(* Sorted lists every element of a finite set once, in its order.          *)
LEMMA SortedOnce ==
  ASSUME NEW S, IsFiniteSet(S), NEW R, Orders(R, S)
  PROVE  /\ Cardinality(S) \in Nat
         /\ Sorted(S, R) \in [1 .. Cardinality(S) -> S]
         /\ \A x \in S : \E k \in 1 .. Cardinality(S) : Sorted(S, R)[k] = x
         /\ \A k, l \in 1 .. Cardinality(S) :
              k < l => <<Sorted(S, R)[k], Sorted(S, R)[l]>> \in R
<1> DEFINE N == Cardinality(S)
           Rank(x) == Cardinality(Preds(S, R, x))
           f == [x \in S |-> Rank(x) + 1]
<1>1. N \in Nat
  BY FS_CardinalityType
<1>2. \A x \in S : Rank(x) \in 0 .. N - 1
  BY PredsGrow
<1>3. \A x, y \in S : <<x, y>> \in R => Rank(x) < Rank(y)
  BY PredsGrow
<1>4. \A x, y \in S : Rank(x) = Rank(y) => x = y
  <2> HIDE DEF N, Rank
  <2> TAKE x, y \in S
  <2>1. x = y \/ <<x, y>> \in R \/ <<y, x>> \in R
    BY DEF Orders
  <2> QED
    BY <1>2, <1>3, <2>1
<1>5. f \in Injection(S, 1 .. N)
  <2> HIDE DEF Rank
  <2>1. f \in [S -> 1 .. N]
    <3> HIDE DEF N
    <3> QED BY <1>1, <1>2
  <2>2. \A x, y \in S : f[x] = f[y] => x = y
    <3> HIDE DEF N
    <3> QED BY <1>1, <1>2, <1>4
  <2> QED
    BY <2>1, <2>2, Fun_IsInj
<1>6. IsFiniteSet(1 .. N) /\ Cardinality(1 .. N) = N
  <2>1. IsFiniteSet(1 .. N) /\ Cardinality(1 .. N) = IF 1 > N THEN 0 ELSE N - 1 + 1
    BY <1>1, FS_Interval
  <2> QED
    BY <1>1, <2>1
<1>7. f \in Surjection(S, 1 .. N)
  BY <1>5, <1>6, FS_Injection
<1>8. \A k \in 1 .. N : \E x \in S : f[x] = k
  BY <1>7 DEF Surjection
<1>9. \A k \in 1 .. N : \E x \in S : Rank(x) = k - 1
  <2> HIDE DEF N, Rank
  <2> TAKE k \in 1 .. N
  <2>1. PICK x \in S : f[x] = k
    BY <1>8
  <2>2. Rank(x) + 1 = k
    BY <2>1
  <2> QED
    BY <1>1, <1>2, <2>2
<1>10. \A k \in 1 .. N : Sorted(S, R)[k] \in S /\ Rank(Sorted(S, R)[k]) = k - 1
  BY <1>9 DEF Sorted, Preds
<1>11. Sorted(S, R) \in [1 .. N -> S]
  BY <1>10 DEF Sorted
<1> HIDE DEF N, Rank, f
<1>12. \A x \in S : \E k \in 1 .. N : Sorted(S, R)[k] = x
  <2> TAKE x \in S
  <2>1. Rank(x) + 1 \in 1 .. N /\ (Rank(x) + 1) - 1 = Rank(x)
    BY <1>1, <1>2
  <2>2. Rank(Sorted(S, R)[Rank(x) + 1]) = Rank(x) /\ Sorted(S, R)[Rank(x) + 1] \in S
    BY <1>10, <2>1
  <2>3. Sorted(S, R)[Rank(x) + 1] = x
    BY <1>4, <2>2
  <2> QED
    BY <2>1, <2>3
<1>13. \A k, l \in 1 .. N : k < l =>
          <<Sorted(S, R)[k], Sorted(S, R)[l]>> \in R
  <2> SUFFICES ASSUME NEW k \in 1 .. N, NEW l \in 1 .. N, k < l
               PROVE  <<Sorted(S, R)[k], Sorted(S, R)[l]>> \in R
    OBVIOUS
  <2> DEFINE x == Sorted(S, R)[k]
             y == Sorted(S, R)[l]
  <2>1. x \in S /\ y \in S /\ Rank(x) = k - 1 /\ Rank(y) = l - 1
    BY <1>10
  <2> HIDE DEF x, y
  <2>2. x # y /\ ~ (Rank(y) < Rank(x))
    BY <1>1, <2>1
  <2>3. <<x, y>> \in R
    BY <1>3, <2>1, <2>2 DEF Orders
  <2> QED
    BY <2>3 DEF x, y
<1> QED
  BY <1>1, <1>11, <1>12, <1>13 DEF N

(* The positions a filter keeps.                                           *)
LEMMA SelectedShape ==
  ASSUME NEW T, NEW q \in Seq(T), NEW I \in SUBSET DOMAIN q
  PROVE  /\ Selected(q, I) \in Seq(T)
         /\ \A i \in I : \E k \in DOMAIN Selected(q, I) : Selected(q, I)[k] = q[i]
         /\ \A k \in DOMAIN Selected(q, I) : \E i \in I : Selected(q, I)[k] = q[i]
         /\ \A k, l \in DOMAIN Selected(q, I) : k < l =>
              \E i, j \in I :
                i < j /\ Selected(q, I)[k] = q[i] /\ Selected(q, I)[l] = q[j]
         /\ I # {} => Selected(q, I) # <<>>
         /\ Len(Selected(q, I)) <= Len(q)
<1> DEFINE R == {p \in I \X I : p[1] < p[2]}
           at == Sorted(I, R)
<1>1. Len(q) \in Nat /\ DOMAIN q = 1 .. Len(q)
  OBVIOUS
<1>2. I \in SUBSET Nat /\ IsFiniteSet(I) /\ Cardinality(I) <= Len(q)
  <2>1. IsFiniteSet(1 .. Len(q))
        /\ Cardinality(1 .. Len(q)) = IF 1 > Len(q) THEN 0 ELSE Len(q) - 1 + 1
    BY <1>1, FS_Interval
  <2>2. Cardinality(1 .. Len(q)) = Len(q)
    BY <1>1, <2>1
  <2>3. IsFiniteSet(I) /\ Cardinality(I) <= Cardinality(1 .. Len(q))
    BY <1>1, <2>1, FS_Subset
  <2> QED
    BY <1>1, <2>2, <2>3
<1>3. \A x, y \in I : <<x, y>> \in R <=> x < y
  OBVIOUS
<1>4. Orders(R, I)
  <2> HIDE DEF R
  <2> QED BY <1>2, <1>3 DEF Orders
<1> HIDE DEF R
<1> DEFINE n == Cardinality(I)
<1>5. /\ n \in Nat
      /\ at \in [1 .. n -> I]
      /\ \A x \in I : \E k \in 1 .. n : at[k] = x
      /\ \A k, l \in 1 .. n : k < l => <<at[k], at[l]>> \in R
  BY <1>2, <1>4, SortedOnce
<1>6. Selected(q, I) = [k \in DOMAIN at |-> q[at[k]]]
  BY DEF Selected, R
<1> HIDE DEF at, n
<1>7. DOMAIN at = 1 .. n
  BY <1>5
<1>8. Selected(q, I) = [k \in 1 .. n |-> q[at[k]]]
  BY <1>6, <1>7
<1>9. \A k \in 1 .. n : q[at[k]] \in T
  BY <1>1, <1>5
<1>10. Selected(q, I) \in Seq(T) /\ DOMAIN Selected(q, I) = 1 .. n /\ Len(Selected(q, I)) = n
  <2>1. Selected(q, I) \in [1 .. n -> T]
    BY <1>8, <1>9
  <2> QED
    BY <1>5, <2>1
<1>11. \A k, l \in 1 .. n : k < l => at[k] < at[l]
  BY <1>3, <1>5
<1>12. I # {} => Selected(q, I) # <<>>
  <2> SUFFICES ASSUME I # {} PROVE Selected(q, I) # <<>>
    OBVIOUS
  <2>1. PICK k \in 1 .. n : TRUE
    BY <1>5
  <2>2. n # 0
    BY <1>5, <2>1
  <2> QED
    BY <1>10, <2>2
<1>13. Len(Selected(q, I)) <= Len(q)
  BY <1>2, <1>10 DEF n
<1>14. \A i \in I : \E k \in 1 .. n : Selected(q, I)[k] = q[i]
  BY <1>5, <1>8
<1>15. \A k \in 1 .. n : at[k] \in I /\ Selected(q, I)[k] = q[at[k]]
  BY <1>5, <1>8
<1>16. \A k, l \in 1 .. n : k < l =>
         \E i, j \in I :
           i < j /\ Selected(q, I)[k] = q[i] /\ Selected(q, I)[l] = q[j]
  BY <1>11, <1>15
<1>17. \A k \in 1 .. n : \E i \in I : Selected(q, I)[k] = q[i]
  BY <1>15
<1> DEFINE D == DOMAIN Selected(q, I)
<1>18. D = 1 .. n
  BY <1>10
<1> HIDE DEF D
<1>19. /\ \A i \in I : \E k \in D : Selected(q, I)[k] = q[i]
       /\ \A k \in D : \E i \in I : Selected(q, I)[k] = q[i]
       /\ \A k, l \in D : k < l =>
            \E i, j \in I :
              i < j /\ Selected(q, I)[k] = q[i] /\ Selected(q, I)[l] = q[j]
  BY <1>14, <1>16, <1>17, <1>18
<1> QED
  BY <1>10, <1>12, <1>13, <1>19 DEF D

(* r is q without some of its elements.                                    *)
Thins(r, q) ==
  /\ Len(r) <= Len(q) /\ Elements(r) \subseteq Elements(q)
  /\ \A k, l \in DOMAIN r : k < l =>
       \E i, j \in DOMAIN q : i < j /\ r[k] = q[i] /\ r[l] = q[j]

(* The elements at some positions of a queue.                              *)
LEMMA SelectedThins ==
  ASSUME NEW T, NEW q \in Seq(T), NEW I \in SUBSET DOMAIN q
  PROVE  /\ Selected(q, I) \in Seq(T)
         /\ Thins(Selected(q, I), q)
         /\ Elements(Selected(q, I)) = {q[i] : i \in I}
         /\ I # {} => Selected(q, I) # <<>>
<1> DEFINE r == Selected(q, I)
<1>1. /\ r \in Seq(T)
      /\ \A i \in I : \E k \in DOMAIN r : r[k] = q[i]
      /\ \A k \in DOMAIN r : \E i \in I : r[k] = q[i]
      /\ \A k, l \in DOMAIN r : k < l =>
           \E i, j \in I : i < j /\ r[k] = q[i] /\ r[l] = q[j]
      /\ I # {} => r # <<>>
      /\ Len(r) <= Len(q)
  BY SelectedShape
<1> HIDE DEF r
<1>2. Elements(r) = {q[i] : i \in I}
  BY <1>1 DEF Elements
<1>3. Elements(r) \subseteq Elements(q)
  BY <1>2 DEF Elements
<1>4. \A k, l \in DOMAIN r : k < l =>
        \E i, j \in DOMAIN q : i < j /\ r[k] = q[i] /\ r[l] = q[j]
  BY <1>1
<1> QED
  BY <1>1, <1>2, <1>3, <1>4 DEF r, Thins

(* A part of a part.                                                       *)
LEMMA ThinsTwice ==
  ASSUME NEW T, NEW p \in Seq(T), NEW q \in Seq(T), NEW r \in Seq(T),
         Thins(q, p), Thins(r, q)
  PROVE  Thins(r, p)
<1>1. Len(r) <= Len(p)
  BY DEF Thins
<1>2. Elements(r) \subseteq Elements(p)
  BY DEF Thins
<1>3. \A k, l \in DOMAIN r : k < l =>
       \E i, j \in DOMAIN p : i < j /\ r[k] = p[i] /\ r[l] = p[j]
  <2> TAKE k, l \in DOMAIN r
  <2> HAVE k < l
  <2>1. PICK i, j \in DOMAIN q : i < j /\ r[k] = q[i] /\ r[l] = q[j]
    BY DEF Thins
  <2>2. PICK x, y \in DOMAIN p : x < y /\ q[i] = p[x] /\ q[j] = p[y]
    BY <2>1 DEF Thins
  <2> QED
    BY <2>1, <2>2
<1> QED
  BY <1>1, <1>2, <1>3 DEF Thins

(* Event splits a queue into a turn and what stays pending.                *)
LEMMA EventShape ==
  ASSUME NEW q \in Seq(HookedTexts), q # <<>>
  PROVE  /\ Event(q).batch \in Batch /\ Event(q).rest \in Seq(HookedTexts)
         /\ Thins(Event(q).batch, q) /\ Thins(Event(q).rest, q)
         /\ Head(q) \in Elements(q)
         /\ Head(q) = q[1] /\ 1 \in DOMAIN q
         /\ Elements(q) = Elements(Event(q).batch) \cup Elements(Event(q).rest)
         /\ \A t \in Elements(Event(q).batch) : Together(Head(q), t)
         /\ \A t \in Elements(Event(q).rest) : ~ Together(Head(q), t)
<1> DEFINE taken == {i \in DOMAIN q : Together(Head(q), q[i])}
           left == DOMAIN q \ taken
<1>1. Event(q) = [batch |-> Selected(q, taken), rest |-> Selected(q, left)]
  BY DEF Event
<1>2. Head(q) = q[1] /\ 1 \in DOMAIN q /\ q[1] \in HookedTexts
  OBVIOUS
<1>3. Together(q[1], q[1])
  BY <1>2, PipelineAssumption DEF Together, HookedTexts
<1>4. 1 \in taken
  BY <1>2, <1>3
<1>5. taken \in SUBSET DOMAIN q /\ left \in SUBSET DOMAIN q /\ taken # {}
  BY <1>4
<1>6. DOMAIN q = taken \cup left
  OBVIOUS
<1>7. \A i \in taken : Together(Head(q), q[i])
  OBVIOUS
<1>8. \A i \in left : ~ Together(Head(q), q[i])
  OBVIOUS
<1> HIDE DEF taken, left
<1>9. /\ Selected(q, taken) \in Batch /\ Thins(Selected(q, taken), q)
      /\ Elements(Selected(q, taken)) = {q[i] : i \in taken}
  BY <1>5, SelectedThins DEF Batch
<1>10. /\ Selected(q, left) \in Seq(HookedTexts) /\ Thins(Selected(q, left), q)
       /\ Elements(Selected(q, left)) = {q[i] : i \in left}
  BY <1>5, SelectedThins
<1>11. Elements(q) = {q[i] : i \in taken} \cup {q[i] : i \in left}
  BY <1>6 DEF Elements
<1>12. Head(q) \in Elements(q)
  BY <1>2 DEF Elements
<1> QED
  BY <1>1, <1>2, <1>7, <1>8, <1>9, <1>10, <1>11, <1>12

(* A snapshot's turn consists of last texts, and some texts stay pending.  *)
LEMMA SnapshotShape ==
  ASSUME LatestOK, NEW e, e.batch \in Batch, e.rest \in Seq(HookedTexts),
         Values(e) # {}
  PROVE  /\ Snapshot(e).batch \in Batch
         /\ Elements(Snapshot(e).batch) = Marked(e)
         /\ Snapshot(e).rest \in Seq(HookedTexts)
         /\ Thins(Snapshot(e).rest, e.rest)
         /\ Elements(Snapshot(e).rest) = {t \in Elements(e.rest) : ~ Shown(e, t)}
<1> DEFINE M == Marked(e)
           R == {p \in M \X M : Earlier(p[1], p[2])}
           left == {i \in DOMAIN e.rest : ~ Shown(e, e.rest[i])}
           fresh == {t.hook : t \in Elements(e.batch) \cup
                               {p \in Elements(e.rest) : Shown(e, p)}}
           marked(v) == [v EXCEPT !.updated = v.hook \in fresh]
<1>1. Snapshot(e) = [batch |-> InTimeOrder(M), rest |-> Selected(e.rest, left)]
  BY DEF Snapshot
<1>2. Values(e) \in SUBSET latest /\ IsFiniteSet(Values(e))
  BY FS_Subset DEF Values, LatestOK
<1>3. M = {marked(v) : v \in Values(e)}
  BY DEF Marked
<1>4. \A v \in Values(e) : v \in HookedTexts /\ v.game = Head(e.batch).game
  BY DEF Values, Alike, LatestOK
<1>5. \A v \in HookedTexts : /\ marked(v) \in HookedTexts /\ marked(v).hook = v.hook
                             /\ marked(v).at = v.at
  <2> TAKE v \in HookedTexts
  <2> DEFINE u == v.hook \in fresh
  <2>1. u \in BOOLEAN
    OBVIOUS
  <2>2. marked(v) = [v EXCEPT !.updated = u]
    OBVIOUS
  <2> HIDE DEF u, marked
  <2> QED
    BY <2>1, <2>2 DEF HookedTexts
<1> HIDE DEF fresh
<1>6. M \subseteq HookedTexts
  BY <1>3, <1>4, <1>5
<1>7. IsFiniteSet(M) /\ M # {}
  <2> DEFINE f == [v \in Values(e) |-> marked(v)]
  <2>1. f \in Surjection(Values(e), M)
    <3>1. f \in [Values(e) -> M]
      BY <1>3
    <3>2. \A m \in M : \E v \in Values(e) : f[v] = m
      BY <1>3
    <3> QED
      BY <3>1, <3>2, Fun_IsSurj
  <2>2. IsFiniteSet(M)
    BY <1>2, <2>1, FS_Surjection
  <2> QED
    BY <1>3, <2>2
<1>8. \A x, y \in M : x.hook = y.hook => x = y
  <2> SUFFICES ASSUME NEW v \in Values(e), NEW w \in Values(e),
                      marked(v).hook = marked(w).hook
               PROVE  marked(v) = marked(w)
    BY <1>3
  <2>1. v.hook = w.hook /\ v.game = w.game
    BY <1>4, <1>5
  <2>2. v = w
    BY <1>2, <2>1 DEF LatestOK
  <2> QED
    BY <2>2
<1>9. \A x, y \in M : <<x, y>> \in R <=> Earlier(x, y)
  OBVIOUS
<1>10. \A x \in M : x.at \in Nat /\ x.hook \in Nat
  <2>1. \A x \in HookedTexts : x.at \in 0 .. MaxTime /\ x.hook \in Hook
    BY DEF HookedTexts
  <2>2. MaxTime \in Nat /\ Hook \subseteq Nat
    BY PipelineAssumption
  <2>3. 0 .. MaxTime \subseteq Nat
    BY <2>2
  <2> QED
    BY <1>6, <2>1, <2>2, <2>3
<1>11. InTimeOrder(M) = Sorted(M, R)
  BY DEF InTimeOrder
<1> HIDE DEF M, R
<1>12. Orders(R, M)
  <2>1. \A x \in M : <<x, x>> \notin R
    BY <1>9, <1>10 DEF Earlier
  <2>2. ASSUME NEW x \in M, NEW y \in M
        PROVE  x = y \/ <<x, y>> \in R \/ <<y, x>> \in R
    <3>1. x = y \/ x.hook # y.hook
      BY <1>8
    <3>2. x.hook # y.hook => Earlier(x, y) \/ Earlier(y, x)
      BY <1>10 DEF Earlier
    <3> QED
      BY <1>9, <3>1, <3>2
  <2>3. \A x, y, z \in M : <<x, y>> \in R /\ <<y, z>> \in R => <<x, z>> \in R
    BY <1>9, <1>10 DEF Earlier
  <2> QED
    BY <2>1, <2>2, <2>3 DEF Orders
<1> DEFINE b == Sorted(M, R)
           n == Cardinality(M)
<1>13. /\ n \in Nat /\ b \in [1 .. n -> M]
       /\ \A x \in M : \E k \in 1 .. n : b[k] = x
  BY <1>7, <1>12, SortedOnce
<1> HIDE DEF b, n
<1>14. DOMAIN b = 1 .. n /\ b \in [1 .. n -> HookedTexts]
  BY <1>6, <1>13
<1>15. n # 0
  BY <1>7, <1>13
<1>16. b \in Batch
  BY <1>13, <1>14, <1>15 DEF Batch
<1>17. Elements(b) = M
  BY <1>13, <1>14 DEF Elements
<1>18. left \in SUBSET DOMAIN e.rest
  OBVIOUS
<1>19. {e.rest[i] : i \in left} = {t \in Elements(e.rest) : ~ Shown(e, t)}
  BY DEF Elements
<1> HIDE DEF left
<1>20. /\ Selected(e.rest, left) \in Seq(HookedTexts)
       /\ Thins(Selected(e.rest, left), e.rest)
       /\ Elements(Selected(e.rest, left)) = {e.rest[i] : i \in left}
  BY <1>18, SelectedThins
<1> QED
  BY <1>1, <1>11, <1>16, <1>17, <1>19, <1>20 DEF b, M

(* What the operations on sequences of turns do to their texts.            *)
LEMMA BatchesShape ==
  ASSUME NEW L \in Seq(Batch)
  PROVE  /\ Texts(<<>>) = {}
         /\ \A b \in Batch : /\ Append(L, b) \in Seq(Batch)
                             /\ Texts(Append(L, b)) = Texts(L) \cup Elements(b)
         /\ \A M \in Seq(Batch) : /\ L \o M \in Seq(Batch)
                                  /\ Texts(L \o M) = Texts(L) \cup Texts(M)
         /\ L # <<>> => /\ Head(L) \in Batch /\ Tail(L) \in Seq(Batch)
                        /\ Texts(L) = Elements(Head(L)) \cup Texts(Tail(L))
         /\ Texts(L) \subseteq HookedTexts
<1>1. Texts(<<>>) = {}
  BY ElementsShape DEF Texts
<1>2. ASSUME NEW b \in Batch
      PROVE  Append(L, b) \in Seq(Batch) /\ Texts(Append(L, b)) = Texts(L) \cup Elements(b)
  <2>1. Append(L, b) \in Seq(Batch) /\ Elements(Append(L, b)) = Elements(L) \cup {b}
    BY ElementsShape
  <2> QED
    BY <2>1 DEF Texts
<1>3. ASSUME NEW M \in Seq(Batch)
      PROVE  L \o M \in Seq(Batch) /\ Texts(L \o M) = Texts(L) \cup Texts(M)
  <2>1. L \o M \in Seq(Batch) /\ Elements(L \o M) = Elements(L) \cup Elements(M)
    BY ElementsShape
  <2> QED
    BY <2>1 DEF Texts
<1>4. ASSUME L # <<>>
      PROVE  /\ Head(L) \in Batch /\ Tail(L) \in Seq(Batch)
             /\ Texts(L) = Elements(Head(L)) \cup Texts(Tail(L))
  <2>1. Head(L) \in Batch /\ Tail(L) \in Seq(Batch)
        /\ Elements(L) = {Head(L)} \cup Elements(Tail(L))
    BY <1>4, ElementsShape
  <2> QED
    BY <2>1 DEF Texts
<1>5. Texts(L) \subseteq HookedTexts
  <2>1. Elements(L) \subseteq Batch
    BY ElementsShape
  <2>2. \A b \in Batch : Elements(b) \subseteq HookedTexts
    BY ElementsShape DEF Batch
  <2> QED
    BY <2>1, <2>2 DEF Texts
<1> QED
  BY <1>1, <1>2, <1>3, <1>4, <1>5

(* A game that is activated begins with empty queues.                      *)
LEMMA ActivatedShape ==
  ASSUME Shapes, NEW g \in Game, NEW ok \in BOOLEAN
  PROVE  /\ AppOK(AppAfter(g, ok)) /\ BufferOK(AppAfter(g, ok))
         /\ QueueOK(PendingAfter(g, ok), AppAfter(g, ok))
<1>1. CASE Switches(g, ok)
  <2>1. AppAfter(g, ok) = NewSession(app, g) /\ PendingAfter(g, ok) = <<>>
    BY <1>1 DEF AppAfter, PendingAfter, Switches, Activated
  <2> DEFINE a == NewSession(app, g)
  <2>2. /\ DOMAIN a = AppFields /\ a.game = g /\ a.branch = Main
        /\ a.retained = None /\ a.cursor = None /\ a.detecting = FALSE
        /\ a.started = FALSE /\ a.manual = FALSE
        /\ a.buffer = <<>> /\ a.ready = <<>>
    BY DEF Shapes, AppOK, AppFields, NewSession, Refreshed
  <2> HIDE DEF a
  <2>3. <<>> \in Seq(Batch) /\ Texts(<<>>) = {} /\ Len(<<>>) = 0
        /\ <<>> \in Seq(HookedTexts) /\ Elements(<<>>) = {}
    <3>1. <<>> \in Seq(Batch) /\ <<>> \in Seq(HookedTexts) /\ Len(<<>>) = 0
      OBVIOUS
    <3> QED
      BY <3>1, BatchesShape, ElementsShape
  <2>4. AppOK(a)
    BY <2>2, <2>3, PipelineAssumption DEF AppOK
  <2>5. BufferOK(a)
    BY <2>2, <2>3 DEF BufferOK
  <2>6. QueueOK(<<>>, a)
    BY <2>3, PipelineAssumption DEF QueueOK
  <2> QED
    BY <2>1, <2>4, <2>5, <2>6 DEF a
<1>2. CASE ~ Switches(g, ok)
  <2>1. AppAfter(g, ok) = app /\ PendingAfter(g, ok) = pending
    BY <1>2 DEF AppAfter, PendingAfter, Switches, Activated
  <2> QED
    BY <2>1 DEF Shapes
<1> QED
  BY <1>1, <1>2

(* Detection begins with an empty buffer.                                  *)
LEMMA DetectingShape ==
  ASSUME NEW a, AppOK(a)
  PROVE  /\ AppOK(Detecting(a)) /\ BufferOK(Detecting(a))
         /\ Detecting(a).game = a.game
<1> DEFINE d == Detecting(a)
<1>1. /\ DOMAIN d = AppFields /\ d.game = a.game /\ d.branch = a.branch
      /\ d.retained = a.retained /\ d.cursor = None /\ d.detecting = TRUE
      /\ d.started = TRUE /\ d.manual = FALSE
      /\ d.buffer = <<>> /\ d.ready = a.ready
  BY DEF AppOK, AppFields, Detecting
<1> HIDE DEF d
<1>2. <<>> \in Seq(Batch) /\ Texts(<<>>) = {} /\ Len(<<>>) = 0
  <2>1. <<>> \in Seq(Batch) /\ Len(<<>>) = 0
    OBVIOUS
  <2> QED
    BY <2>1, BatchesShape
<1>3. AppOK(d)
  BY <1>1, <1>2 DEF AppOK
<1>4. BufferOK(d)
  BY <1>1, <1>2 DEF BufferOK
<1> QED
  BY <1>1, <1>3, <1>4 DEF d

(* ResumeCandidates names branches of the store.                           *)
LEMMA CandidateBranch ==
  ASSUME NEW ps, DOMAIN ps = Branch, NEW observed,
         NEW c \in ResumeCandidates(ps, observed)
  PROVE  c.branch \in Branch
<1> DEFINE found == UNION {{b} \X Windows(ps[b], observed) : b \in DOMAIN ps}
           commit(f) == ps[f[1]][f[2]]
           holders(f) == {g[1] : g \in {h \in found : commit(h) = commit(f)}}
           shown(f) == IF Main \in holders(f) THEN Main ELSE Least(holders(f))
           record(f) == [branch |-> shown(f), next |-> commit(f).id,
                         position |-> f[2] - 1]
<1>0. ResumeCandidates(ps, observed) = {record(f) : f \in found}
  BY DEF ResumeCandidates
<1>1. PICK f \in found : c.branch = shown(f)
  <2> HIDE DEF found, shown, commit
  <2>1. PICK f \in found : c = record(f)
    BY <1>0
  <2> QED
    BY <2>1
<1>2. \A h \in found : h[1] \in Branch
  OBVIOUS
<1>3. f[1] \in holders(f)
  BY <1>1
<1>4. holders(f) \subseteq Branch
  BY <1>2
<1>5. holders(f) \in SUBSET Nat
  BY <1>4, PipelineAssumption
<1> HIDE DEF holders
<1>6. Least(holders(f)) \in holders(f)
  BY <1>3, <1>5, LeastIn
<1> QED
  BY <1>1, <1>4, <1>6

(* The end of a detection makes the buffered turns ready.                  *)
LEMMA ReleasedShape ==
  ASSUME NEW a, AppOK(a)
  PROVE  /\ AppOK(Released(a)) /\ BufferOK(Released(a))
         /\ Released(a).game = a.game /\ Released(a).branch = a.branch
         /\ Released(a).cursor = a.cursor /\ Released(a).retained = a.retained
         /\ Released(a).found = a.found /\ Released(a).seen = paths[a.game]
         /\ Released(a).detecting = FALSE
         /\ Released(a).buffer = <<>>
         /\ Released(a).ready = a.ready \o a.buffer
<1> DEFINE f == Released(a)
<1>3. /\ DOMAIN f = AppFields /\ f.game = a.game /\ f.retained = a.retained
      /\ f.branch = a.branch /\ f.cursor = a.cursor /\ f.started = a.started
      /\ f.detecting = FALSE /\ f.manual = FALSE
      /\ f.found = a.found /\ f.seen = paths[a.game]
      /\ f.buffer = <<>> /\ f.ready = a.ready \o a.buffer
  BY DEF AppFields, AppOK, Released, Refreshed
<1> HIDE DEF f
<1>4. /\ <<>> \in Seq(Batch) /\ Texts(<<>>) = {} /\ Len(<<>>) = 0
  <2>1. <<>> \in Seq(Batch) /\ Len(<<>>) = 0
    OBVIOUS
  <2> QED
    BY <2>1, BatchesShape
<1>5. a.ready \o a.buffer \in Seq(Batch)
      /\ Texts(a.ready \o a.buffer) = Texts(a.ready) \cup Texts(a.buffer)
  BY BatchesShape DEF AppOK
<1>6. AppOK(f)
  BY <1>3, <1>4, <1>5 DEF AppOK
<1>7. BufferOK(f)
  BY <1>3, <1>4 DEF BufferOK
<1> QED
  BY <1>3, <1>6, <1>7 DEF f

(* The end finds a place for the session first.                            *)
LEMMA LocatedShape ==
  ASSUME NEW a, AppOK(a), NEW chosen, \A c \in chosen : c.branch \in Branch
  PROVE  LET l == Located(a, chosen) IN
         /\ AppOK(l) /\ l.game = a.game /\ l.retained = a.retained
         /\ l.buffer = a.buffer /\ l.ready = a.ready
<1> DEFINE l == Located(a, chosen)
<1>1. CASE chosen = {}
  BY <1>1, PipelineAssumption DEF Located, AppOK, AppFields
<1>2. CASE chosen # {}
  <2> DEFINE c == CHOOSE c \in chosen : TRUE
             path == paths[a.game][c.branch]
             ns == {t \in UNION {Elements(b) : b \in Elements(a.buffer)} :
                      t.updated /\ Readable(path)}
             cursor == [branch |-> c.branch, position |-> c.position, path |-> path]
  <2>1. c \in chosen
    BY <1>2
  <2>2. c.branch \in Branch
    BY <2>1
  <2>3. l = [a EXCEPT !.branch = c.branch, !.found = ns, !.cursor = cursor]
    BY <1>2 DEF Located
  <2>4. DOMAIN cursor = {"branch", "path", "position"} /\ cursor.branch = c.branch
    OBVIOUS
  <2> HIDE DEF c, ns, l, path, cursor
  <2>5. /\ DOMAIN l = AppFields /\ l.game = a.game /\ l.retained = a.retained
        /\ l.branch = c.branch /\ l.cursor = cursor /\ l.started = a.started
        /\ l.detecting = a.detecting /\ l.manual = a.manual
        /\ l.buffer = a.buffer /\ l.ready = a.ready
    BY <2>3 DEF AppOK, AppFields
  <2>6. AppOK(l)
    BY <2>2, <2>4, <2>5 DEF AppOK
  <2> QED
    BY <2>5, <2>6 DEF l
<1> QED
  BY <1>1, <1>2

LEMMA FinishedShape ==
  ASSUME NEW a, AppOK(a), NEW chosen, \A c \in chosen : c.branch \in Branch
  PROVE  /\ AppOK(Finished(a, chosen)) /\ BufferOK(Finished(a, chosen))
         /\ Finished(a, chosen).game = a.game
         /\ Finished(a, chosen).detecting = FALSE
         /\ Finished(a, chosen).buffer = <<>>
         /\ Finished(a, chosen).ready = a.ready \o a.buffer
<1> DEFINE l == Located(a, chosen)
<1>1. AppOK(l) /\ l.game = a.game /\ l.buffer = a.buffer /\ l.ready = a.ready
  BY LocatedShape
<1>2. Finished(a, chosen) = Released(l)
  BY DEF Finished
<1> HIDE DEF l
<1> QED
  BY <1>1, <1>2, ReleasedShape

(* The list of the history may be left empty, which changes nothing else.  *)
LEMMA UnlistedShape ==
  ASSUME NEW a, AppOK(a), NEW u \in Ends(a)
  PROVE  /\ AppOK(u) /\ (BufferOK(a) => BufferOK(u))
         /\ \A q : QueueOK(q, a) => QueueOK(q, u)
         /\ u.game = a.game /\ u.branch = a.branch /\ u.retained = a.retained
         /\ u.cursor = a.cursor /\ u.detecting = a.detecting
         /\ u.started = a.started /\ u.manual = a.manual
         /\ u.buffer = a.buffer /\ u.ready = a.ready /\ u.found = a.found
         /\ \/ u.seen = a.seen
            \/ StoreFails /\ DOMAIN u.seen = Branch /\ \A b \in Branch : u.seen[b] = <<>>
<1>1. u = a \/ (StoreFails /\ u = Unlisted(a))
  BY DEF Ends
<1> DEFINE none == [b \in Branch |-> <<>>]
<1>2. CASE StoreFails /\ u = Unlisted(a)
  <2>1. u = [a EXCEPT !.seen = none] /\ DOMAIN none = Branch
        /\ \A b \in Branch : none[b] = <<>>
    BY <1>2 DEF Unlisted
  <2> HIDE DEF none
  <2>2. /\ DOMAIN u = AppFields
        /\ u.game = a.game /\ u.branch = a.branch /\ u.retained = a.retained
        /\ u.cursor = a.cursor /\ u.detecting = a.detecting
        /\ u.started = a.started /\ u.manual = a.manual
        /\ u.buffer = a.buffer /\ u.ready = a.ready /\ u.found = a.found
        /\ u.seen = none
    BY <2>1 DEF AppOK, AppFields
  <2>3. AppOK(u)
    BY <2>2 DEF AppOK
  <2> QED
    BY <1>2, <2>1, <2>2, <2>3 DEF BufferOK, QueueOK
<1> QED
  BY <1>1, <1>2

(* What a turn grouped from the pending texts consists of.                 *)
LEMMA TurnShape ==
  ASSUME Shapes, pending # <<>>
  PROVE  LET e == NextTurnOf(pending) IN
         /\ e.batch \in Batch /\ QueueOK(e.rest, app) /\ Thins(e.rest, pending)
         /\ \A t \in Elements(e.batch) : t.game = app.game
<1> DEFINE o == Event(pending)
           e == NextTurnOf(pending)
<1>1. /\ pending \in Seq(HookedTexts) /\ Len(pending) <= MaxPending
      /\ \A t \in Elements(pending) : t.game = app.game
  BY DEF Shapes, QueueOK
<1>2. /\ o.batch \in Batch /\ o.rest \in Seq(HookedTexts)
      /\ Thins(o.batch, pending) /\ Thins(o.rest, pending)
  BY <1>1, EventShape
<1> HIDE DEF o
<1>3. \A r \in Seq(HookedTexts) : Thins(r, pending) => QueueOK(r, app)
  <2>1. Len(pending) \in Nat /\ MaxPending \in Nat
    BY <1>1, PipelineAssumption
  <2> QED
    BY <1>1, <2>1 DEF Thins, QueueOK
<1>4. \A t \in Elements(o.batch) : t.game = app.game
  BY <1>1, <1>2 DEF Thins
<1>5. CASE e = o
  BY <1>2, <1>3, <1>4, <1>5
<1>6. CASE e # o
  <2>1. e = Snapshot(o) /\ Values(o) # {}
    BY <1>6 DEF NextTurnOf, Snapshot, o
  <2>2. /\ e.batch \in Batch /\ Elements(e.batch) = Marked(o)
        /\ e.rest \in Seq(HookedTexts) /\ Thins(e.rest, o.rest)
    BY <1>2, <2>1, SnapshotShape DEF Shapes
  <2>3. Thins(e.rest, pending)
    BY <1>1, <1>2, <2>2, ThinsTwice
  <2>4. Head(o.batch) \in Elements(o.batch)
    BY <1>2, ElementsShape DEF Batch
  <2>5. \A v \in Values(o) : v \in HookedTexts /\ v.game = app.game
    BY <1>4, <2>4 DEF Values, Alike, Shapes, LatestOK
  <2>6. \A t \in Marked(o) : t.game = app.game
    <3> DEFINE fresh == {t.hook : t \in Elements(o.batch) \cup
                                 {p \in Elements(o.rest) : Shown(o, p)}}
    <3>1. Marked(o) = {[v EXCEPT !.updated = v.hook \in fresh] : v \in Values(o)}
      BY DEF Marked
    <3> HIDE DEF fresh
    <3>2. \A v \in HookedTexts : [v EXCEPT !.updated = v.hook \in fresh].game = v.game
      BY DEF HookedTexts
    <3> QED
      BY <2>5, <3>1, <3>2
  <2> QED
    BY <1>3, <2>2, <2>3, <2>6
<1> QED
  BY <1>5, <1>6

(* What the processing of a turn leaves in the queues.                     *)
LEMMA DispatchShape ==
  ASSUME NEW a, AppOK(a), BufferOK(a), NEW q, QueueOK(q, a), TurnOK,
         NEW batch \in Batch, \A t \in Elements(batch) : t.game = a.game,
         Dispatch(a, q, batch)
  PROVE  /\ AppOK(app') /\ BufferOK(app') /\ QueueOK(pending', app') /\ TurnOK'
         /\ app'.game = a.game /\ app'.detecting = a.detecting
         /\ app'.buffer = a.buffer
         /\ \/ /\ app' = a /\ pending' = q
               /\ handled' = Append(handled, [how |-> "model", batch |-> batch])
            \/ /\ app'.ready = <<>> /\ pending' = <<>>
               /\ UNCHANGED <<turn, handled>>
<1>1. CASE settings.model
  <2>1. Head(batch) \in Elements(batch) /\ Head(batch) \in HookedTexts
    BY ElementsShape DEF Batch
  <2>2. Head(batch).game = a.game
    BY <2>1
  <2>3. TurnOK'
    BY <1>1, <2>2 DEF Dispatch, TurnOK, AppOK
  <2> QED
    BY <1>1, <2>3 DEF Dispatch
<1>2. CASE ~ settings.model
  <2> DEFINE b == [a EXCEPT !.ready = <<>>]
  <2>1. app' = b /\ pending' = <<>> /\ UNCHANGED <<turn, handled>>
    BY <1>2 DEF Dispatch
  <2>2. /\ DOMAIN b = AppFields /\ b.ready = <<>>
        /\ b.game = a.game /\ b.branch = a.branch /\ b.retained = a.retained
        /\ b.cursor = a.cursor /\ b.detecting = a.detecting
        /\ b.started = a.started /\ b.manual = a.manual /\ b.buffer = a.buffer
    BY DEF AppOK, AppFields
  <2> HIDE DEF b
  <2>3. <<>> \in Seq(Batch) /\ Texts(<<>>) = {} /\ Elements(<<>>) = {}
        /\ <<>> \in Seq(HookedTexts) /\ Len(<<>>) = 0
    <3>1. <<>> \in Seq(Batch) /\ <<>> \in Seq(HookedTexts) /\ Len(<<>>) = 0
      OBVIOUS
    <3> QED
      BY <3>1, BatchesShape, ElementsShape
  <2>4. AppOK(b)
    BY <2>2, <2>3 DEF AppOK
  <2>5. BufferOK(b)
    BY <2>2 DEF BufferOK
  <2>6. QueueOK(<<>>, b)
    BY <2>3, PipelineAssumption DEF QueueOK
  <2>7. TurnOK'
    BY <2>1 DEF TurnOK
  <2> QED
    BY <2>1, <2>2, <2>4, <2>5, <2>6, <2>7
<1> QED
  BY <1>1, <1>2

(* A window whose fields that the queues depend on are those of another.   *)
SameQueues(b, a) ==
  /\ DOMAIN b = AppFields /\ b.branch \in Branch
  /\ b.retained \in Branch \cup {None}
  /\ b.cursor # None => /\ DOMAIN b.cursor = {"branch", "path", "position"}
                        /\ b.cursor.branch \in Branch
  /\ b.game = a.game /\ b.detecting = a.detecting /\ b.started = a.started
  /\ b.manual = a.manual /\ b.buffer = a.buffer /\ b.ready = a.ready

(* Shapes depend on these fields alone.                                    *)
LEMMA SameQueuesShape ==
  ASSUME NEW a, AppOK(a), BufferOK(a), NEW b, SameQueues(b, a)
  PROVE  AppOK(b) /\ BufferOK(b) /\ \A q : QueueOK(q, a) => QueueOK(q, b)
BY DEF SameQueues, AppOK, BufferOK, QueueOK

(* A turn that is processed is replayed, dispatched, or dropped with the queues. *)
LEMMA ProcessShape ==
  ASSUME Shapes, NEW a, AppOK(a), BufferOK(a), NEW q, QueueOK(q, a),
         NEW batch \in Batch, \A t \in Elements(batch) : t.game = a.game,
         Process(a, q, batch)
  PROVE  /\ StoreOK(paths')
         /\ AppOK(app') /\ BufferOK(app') /\ QueueOK(pending', app') /\ TurnOK'
         /\ app'.game = a.game /\ app'.detecting = a.detecting
         /\ app'.buffer = a.buffer
         /\ \/ /\ app'.ready = a.ready /\ pending' = q
               /\ \E how \in {"replay", "model"} :
                    handled' = Append(handled, [how |-> how, batch |-> batch])
            \/ /\ app'.ready = <<>> /\ pending' = <<>> /\ UNCHANGED handled
         /\ phase' = "idle" \/ UNCHANGED phase
<1> DEFINE c == a.cursor
           step == CursorStep(c.path, c.position, Signature(batch))
           dropped == [a EXCEPT !.cursor = None]
           onCursor == [dropped EXCEPT !.branch = c.branch]
           moved == [a EXCEPT !.cursor.position = step.position]
           Result(b) ==
             /\ AppOK(app') /\ BufferOK(app') /\ QueueOK(pending', app') /\ TurnOK'
             /\ app'.game = a.game /\ app'.detecting = a.detecting
             /\ app'.buffer = a.buffer
             /\ \/ /\ app'.ready = a.ready /\ pending' = q
                   /\ \E how \in {"replay", "model"} :
                    handled' = Append(handled, [how |-> how, batch |-> batch])
                \/ /\ app'.ready = <<>> /\ pending' = <<>> /\ UNCHANGED handled
<1>1. ASSUME NEW b, SameQueues(b, a), Dispatch(b, q, batch)
      PROVE  Result(b)
  <2>1. AppOK(b) /\ BufferOK(b) /\ QueueOK(q, b) /\ b.game = a.game
    BY <1>1, SameQueuesShape DEF SameQueues
  <2>2. /\ AppOK(app') /\ BufferOK(app') /\ QueueOK(pending', app') /\ TurnOK'
        /\ app'.game = b.game /\ app'.detecting = b.detecting
        /\ app'.buffer = b.buffer
        /\ \/ /\ app' = b /\ pending' = q
              /\ handled' = Append(handled, [how |-> "model", batch |-> batch])
           \/ /\ app'.ready = <<>> /\ pending' = <<>>
              /\ UNCHANGED <<turn, handled>>
    BY <1>1, <2>1, DispatchShape DEF Shapes
  <2> QED
    BY <1>1, <2>2 DEF SameQueues
<1>2. CASE a.cursor = None
  <2>1. Dispatch(a, q, batch) /\ phase' = "idle" /\ UNCHANGED paths
    BY <1>2 DEF Process
  <2>2. SameQueues(a, a)
    BY DEF AppOK, SameQueues
  <2>3. Result(a)
    BY <1>1, <2>1, <2>2
  <2> QED
    BY <2>1, <2>3 DEF Shapes
<1>3. CASE a.cursor # None
  <2>1. /\ DOMAIN a = AppFields /\ DOMAIN c = {"branch", "path", "position"}
        /\ c.branch \in Branch
    BY <1>3 DEF AppOK
  <2>2. \A ps : SameQueues(Refreshed(onCursor, ps), a)
    BY <2>1 DEF SameQueues, Refreshed, AppOK, AppFields
  <2>3. \A ps : SameQueues(Refreshed(moved, ps), a)
    <3> DEFINE d == [c EXCEPT !.position = step.position]
    <3>1. moved = [a EXCEPT !.cursor = d]
      OBVIOUS
    <3>2. DOMAIN d = {"branch", "path", "position"} /\ d.branch = c.branch
      BY <2>1
    <3> HIDE DEF d, moved
    <3>3. /\ DOMAIN moved = AppFields /\ moved.cursor = d
          /\ moved.branch = a.branch /\ moved.retained = a.retained
          /\ moved.game = a.game /\ moved.detecting = a.detecting
          /\ moved.started = a.started /\ moved.manual = a.manual
          /\ moved.buffer = a.buffer /\ moved.ready = a.ready
      BY <2>1, <3>1 DEF AppFields
    <3> TAKE ps
    <3> DEFINE r == Refreshed(moved, ps)
    <3>4. /\ DOMAIN r = AppFields /\ r.cursor = d
          /\ r.branch = a.branch /\ r.retained = a.retained
          /\ r.game = a.game /\ r.detecting = a.detecting
          /\ r.started = a.started /\ r.manual = a.manual
          /\ r.buffer = a.buffer /\ r.ready = a.ready
      BY <3>3 DEF AppFields, Refreshed
    <3> HIDE DEF r
    <3>5. SameQueues(r, a)
      BY <2>1, <3>2, <3>4 DEF SameQueues, AppOK
    <3> QED
      BY <3>5 DEF r
  <2>4. \A b \in Branch : SameQueues([dropped EXCEPT !.branch = b], a)
    BY <2>1 DEF SameQueues, AppOK, AppFields
  <2>5. \A ps : \A b \in Branch :
          SameQueues(Refreshed([dropped EXCEPT !.branch = b, !.retained = b], ps), a)
    BY <2>1 DEF SameQueues, Refreshed, AppOK, AppFields
  <2>6. SameQueues([dropped EXCEPT !.branch = Main, !.retained = None], a)
    BY <2>1, PipelineAssumption DEF SameQueues, AppOK, AppFields
  <2> HIDE DEF dropped, onCursor, moved, step, Result
  <2>7. CASE /\ step.outcome = "matched"
             /\ app' = Refreshed(IF AtTranslatableHead(c.path, step.position)
                                 THEN onCursor ELSE moved, paths)
             /\ pending' = q
             /\ handled' = Append(handled, [how |-> "replay", batch |-> batch])
             /\ UNCHANGED <<phase, turn, paths>>
    <3>1. SameQueues(app', a)
      BY <2>2, <2>3, <2>7
    <3>2. AppOK(app') /\ BufferOK(app') /\ QueueOK(pending', app')
      BY <2>7, <3>1, SameQueuesShape
    <3>3. TurnOK'
      BY <2>7 DEF TurnOK, Shapes
    <3>4. Result(a)
      BY <2>7, <3>1, <3>2, <3>3 DEF Result, SameQueues
    <3> QED
      BY <2>7, <3>4 DEF Result, Shapes
  <2>8. CASE /\ step.outcome = "at_head"
             /\ Dispatch(Refreshed(onCursor, paths), q, batch)
             /\ phase' = "idle"
             /\ UNCHANGED paths
    BY <1>1, <2>2, <2>8 DEF Shapes, Result
  <2>9. CASE /\ step.outcome = "diverged"
             /\ Fork(dropped, q, batch, SubSeq(c.path, 1, step.position))
             /\ phase' = "idle"
    <3> DEFINE path == SubSeq(c.path, 1, step.position)
    <3>1. ASSUME NEW name \in ForkNames(dropped.game),
                 LET forked == [paths EXCEPT ![dropped.game][name] = path]
                 IN  /\ paths' = forked
                     /\ Dispatch(Refreshed([dropped EXCEPT !.branch = name,
                                             !.retained = name], forked), q, batch)
          PROVE  /\ StoreOK(paths')
                 /\ phase' = "idle"
                 /\ Result(a)
      <4> DEFINE forked == [paths EXCEPT ![dropped.game][name] = path]
      <4>2. name \in Branch
        BY DEF ForkNames, FreeNames, ResumeName
      <4> HIDE DEF path
      <4>1. paths' = forked
            /\ Dispatch(Refreshed([dropped EXCEPT !.branch = name, !.retained = name],
                                  forked), q, batch)
        BY <3>1
      <4>3. StoreOK(paths')
        BY <4>1 DEF StoreOK, Shapes
      <4> HIDE DEF forked
      <4>4. Result(Refreshed([dropped EXCEPT !.branch = name, !.retained = name], forked))
        BY <1>1, <2>5, <4>1, <4>2
      <4> QED
        BY <2>9, <4>3, <4>4 DEF Result
    <3>2. CASE /\ UNCHANGED paths
               /\ Dispatch([dropped EXCEPT !.branch = Main, !.retained = None], q, batch)
      BY <1>1, <2>6, <2>9, <3>2 DEF Shapes, Result
    <3> QED
      BY <2>9, <3>1, <3>2 DEF Fork, Result
  <2>10. CASE /\ step.outcome = "unavailable" \/ StoreFails
              /\ Dispatch([dropped EXCEPT !.branch = Main], q, batch)
              /\ phase' = "idle"
              /\ UNCHANGED paths
    <3>1. SameQueues([dropped EXCEPT !.branch = Main], a)
      BY <2>4, PipelineAssumption
    <3> QED
      BY <1>1, <2>10, <3>1 DEF Shapes, Result
  <2> QED
    BY <1>3, <2>7, <2>8, <2>9, <2>10 DEF Process, dropped, onCursor, moved, step
<1> QED
  BY <1>2, <1>3

(* A turn that is compared with the history is buffered, or ends the detection. *)
LEMMA ObservedShape ==
  ASSUME Shapes, app.detecting, NEW batch \in Batch,
         \A t \in Elements(batch) : t.game = app.game,
         NEW b, b = [app EXCEPT !.buffer = Append(app.buffer, batch)]
  PROVE  /\ AppOK(b) /\ b.game = app.game /\ b.ready = app.ready
         /\ b.buffer = Append(app.buffer, batch) /\ b.detecting
         /\ \A late \in BOOLEAN :
              LET o == Observed(app, batch, late)
              IN  \/ \E chosen : /\ o = Finished(b, chosen)
                                 /\ \A c \in chosen : c.branch \in Branch
                  \/ /\ AppOK(o) /\ BufferOK(o) /\ o.game = app.game
                     /\ o.ready = app.ready /\ o.buffer = b.buffer /\ o.detecting
<1>1. /\ DOMAIN b = AppFields /\ b.game = app.game /\ b.branch = app.branch
      /\ b.retained = app.retained /\ b.cursor = app.cursor
      /\ b.detecting = app.detecting /\ b.started = app.started
      /\ b.manual = app.manual /\ b.ready = app.ready
      /\ b.buffer = Append(app.buffer, batch)
  BY DEF Shapes, AppOK, AppFields
<1>2. /\ b.buffer \in Seq(Batch) /\ Texts(b.buffer) = Texts(app.buffer) \cup Elements(batch)
  BY <1>1, BatchesShape DEF Shapes, AppOK
<1>3. AppOK(b)
  BY <1>1, <1>2 DEF Shapes, AppOK
<1>4. ASSUME NEW late \in BOOLEAN
      PROVE  LET o == Observed(app, batch, late)
             IN  \/ \E chosen : /\ o = Finished(b, chosen)
                                /\ \A c \in chosen : c.branch \in Branch
                 \/ /\ AppOK(o) /\ BufferOK(o) /\ o.game = app.game
                    /\ o.ready = app.ready /\ o.buffer = b.buffer /\ o.detecting
  <2> DEFINE observed == [i \in DOMAIN b.buffer |-> Signature(b.buffer[i])]
             candidates == ResumeCandidates(paths[app.game], observed)
             o == Observed(app, batch, late)
  <2>6. Candidates(b) = candidates
    BY <1>1 DEF Candidates
  <2>1. o = IF Len(b.buffer) > 3 \/ candidates = {} \/ late THEN Finished(b, {})
            ELSE IF Unique(candidates) THEN Finished(b, candidates)
            ELSE IF Len(b.buffer) = 3 THEN Finished(b, {})
            ELSE Refreshed(b, paths)
    BY <2>6 DEF Observed
  <2>2. DOMAIN paths[app.game] = Branch
    BY DEF Shapes, StoreOK, AppOK
  <2>3. \A c \in candidates : c.branch \in Branch
    BY <2>2, CandidateBranch
  <2> HIDE DEF candidates, o
  <2>4. CASE o = Finished(b, {}) \/ o = Finished(b, candidates)
    <3>1. \A c \in {} : c.branch \in Branch
      OBVIOUS
    <3> QED
      BY <2>3, <2>4, <3>1 DEF o
  <2>5. CASE o = Refreshed(b, paths) /\ ~ (Len(b.buffer) > 3) /\ Len(b.buffer) # 3
    <3>1. /\ DOMAIN o = AppFields /\ o.game = b.game /\ o.branch = b.branch
          /\ o.retained = b.retained /\ o.cursor = b.cursor
          /\ o.detecting = b.detecting /\ o.started = b.started
          /\ o.manual = b.manual /\ o.ready = b.ready /\ o.buffer = b.buffer
      BY <1>1, <2>5 DEF Refreshed, AppFields
    <3>2. AppOK(o)
      BY <1>3, <3>1 DEF AppOK
    <3>3. BufferOK(o)
      <4>1. Len(b.buffer) \in Nat
        BY <1>2
      <4>2. Len(b.buffer) <= 2
        BY <2>5, <4>1
      <4> QED
        BY <1>1, <3>1, <4>2 DEF BufferOK
    <3> QED
      BY <1>1, <3>1, <3>2, <3>3 DEF o
  <2> QED
    BY <2>1, <2>4, <2>5
<1> QED
  BY <1>1, <1>3, <1>4

(* A full queue keeps its length.                                          *)
LEMMA QueueShape ==
  ASSUME NEW a, NEW q, QueueOK(q, a), NEW t \in HookedTexts, t.game = a.game
  PROVE  QueueOK(Queue(q, t), a)
<1> DEFINE r == IF Len(q) = MaxPending THEN Tail(q) ELSE q
<1>1. q \in Seq(HookedTexts) /\ Len(q) \in Nat /\ Len(q) <= MaxPending /\ MaxPending \in Nat \ {0}
  BY PipelineAssumption DEF QueueOK
<1>2. r \in Seq(HookedTexts) /\ Elements(r) \subseteq Elements(q) /\ Len(r) + 1 <= MaxPending
  <2>1. CASE Len(q) = MaxPending
    <3>1. q # <<>>
      BY <1>1, <2>1
    <3> QED
      BY <1>1, <2>1, <3>1, ElementsShape
  <2>2. CASE Len(q) # MaxPending
    BY <1>1, <2>2
  <2> QED
    BY <2>1, <2>2
<1>3. Queue(q, t) = Append(r, t)
  BY DEF Queue
<1> HIDE DEF r
<1>4. /\ Append(r, t) \in Seq(HookedTexts) /\ Elements(Append(r, t)) = Elements(r) \cup {t}
      /\ Len(Append(r, t)) = Len(r) + 1
  BY <1>2, ElementsShape
<1> QED
  BY <1>2, <1>3, <1>4 DEF QueueOK

(* A new game gets its main.                                               *)
LEMMA ActivateStore ==
  ASSUME StoreOK(paths), NEW g \in Game, NEW ok, Activate(g, ok)
  PROVE  StoreOK(paths')
BY DEF Activate, Ensured, StoreOK

(* A text that is accepted is of the active game.                          *)
LEMMA AcceptShape ==
  ASSUME Shapes, NEW a, AppOK(a), BufferOK(a), NEW q, QueueOK(q, a),
         NEW t \in HookedTexts, t.game = a.game, Enabled(t.hook),
         Accept(a, q, t)
  PROVE  AppOK(app') /\ BufferOK(app') /\ QueueOK(pending', app') /\ LatestOK'
<1> DEFINE post == config[t.hook].post
           u == [t EXCEPT !.post = post]
<1>1. t.hook \in Hook
  BY DEF HookedTexts
<1>2. config[t.hook] \in HookSettings
  BY <1>1 DEF Shapes, Enabled
<1>3. post \in BOOLEAN
  BY <1>2 DEF HookSettings
<1>4. /\ app' = IF ~a.started /\ ~a.manual THEN Detecting(a) ELSE a
      /\ latest' = {l \in latest : <<l.game, l.hook>> # <<t.game, t.hook>>} \cup {u}
      /\ pending' = Queue(q, u)
  BY DEF Accept
<1> HIDE DEF post
<1>5. u \in HookedTexts /\ u.game = t.game /\ u.hook = t.hook
  BY <1>3 DEF HookedTexts
<1> HIDE DEF u
<1>6. AppOK(app') /\ BufferOK(app') /\ app'.game = a.game
  BY <1>4, DetectingShape
<1>7. QueueOK(pending', a)
  BY <1>4, <1>5, QueueShape
<1>8. QueueOK(pending', app')
  BY <1>6, <1>7 DEF QueueOK
<1>9. LatestOK'
  <2> DEFINE kept == {l \in latest : <<l.game, l.hook>> # <<t.game, t.hook>>}
  <2>1. kept \in SUBSET latest /\ latest \subseteq HookedTexts /\ IsFiniteSet(latest)
    BY DEF Shapes, LatestOK
  <2>2. IsFiniteSet(kept)
    BY <2>1, FS_Subset
  <2>3. IsFiniteSet(latest')
    BY <1>4, <2>2, FS_AddElement
  <2>4. latest' \subseteq HookedTexts
    BY <1>4, <1>5, <2>1
  <2>5. \A l, m \in latest' : l.game = m.game /\ l.hook = m.hook => l = m
    BY <1>4, <1>5 DEF Shapes, LatestOK
  <2> QED
    BY <2>3, <2>4, <2>5 DEF LatestOK
<1> QED
  BY <1>6, <1>8, <1>9

(* A text is accepted or ignored.                                          *)
LEMMA QueueTextShape ==
  ASSUME Shapes, NEW a, AppOK(a), BufferOK(a), NEW q, QueueOK(q, a),
         NEW t \in HookedTexts, t.game = a.game,
         QueueText(a, q, t) \/ Ignore(a, q)
  PROVE  AppOK(app') /\ BufferOK(app') /\ QueueOK(pending', app') /\ LatestOK'
<1>1. CASE Enabled(t.hook) /\ QueueText(a, q, t)
  <2>1. Accept(a, q, t)
    BY <1>1 DEF QueueText
  <2> QED
    BY <1>1, <2>1, AcceptShape
<1>2. CASE Ignore(a, q)
  BY <1>2 DEF Ignore, Shapes, LatestOK
<1> QED
  BY <1>1, <1>2 DEF QueueText

(* The window starts with empty queues.                                    *)
LEMMA ShapesInit == Init => Shapes
<1> SUFFICES ASSUME Init PROVE Shapes
  OBVIOUS
<1>1. /\ <<>> \in Seq(Batch) /\ Texts(<<>>) = {} /\ Elements(<<>>) = {}
      /\ <<>> \in Seq(HookedTexts) /\ Len(<<>>) = 0
  <2>1. <<>> \in Seq(Batch) /\ <<>> \in Seq(HookedTexts) /\ Len(<<>>) = 0
    OBVIOUS
  <2> QED
    BY <2>1, BatchesShape, ElementsShape
<1>2. StoreOK(paths)
  BY HistoryAssumption DEF Init, StoreOK
<1>3. /\ DOMAIN app = AppFields /\ app.game = Default /\ app.branch = Main
      /\ app.retained = None /\ app.cursor = None /\ app.detecting = FALSE
      /\ app.started = FALSE /\ app.manual = FALSE
      /\ app.buffer = <<>> /\ app.ready = <<>>
  BY DEF Init, AppFields
<1>4. AppOK(app)
  BY <1>1, <1>3, PipelineAssumption DEF AppOK
<1>5. BufferOK(app)
  BY <1>1, <1>3 DEF BufferOK
<1>6. QueueOK(pending, app)
  BY <1>1, PipelineAssumption DEF Init, QueueOK
<1>7. LatestOK
  BY FS_EmptySet DEF Init, LatestOK
<1>8. config \in [Hook -> HookSettings \cup {None}]
  BY PipelineAssumption DEF Init, HookSettings
<1>9. TurnOK /\ routes \subseteq Hook \X Source /\ phase \in {"idle", "events", "start"}
      /\ settings \in [model : BOOLEAN, latest : BOOLEAN] /\ texts \in Nat
  BY DEF Init, TurnOK
<1> QED
  BY <1>2, <1>4, <1>5, <1>6, <1>7, <1>8, <1>9 DEF Shapes

(* What a renaming of settings does to the texts that wait.                *)
Renewed(t, h, p) == IF t.hook = h THEN [t EXCEPT !.post = p] ELSE t

(* What new settings of a hook change in what waits.                       *)
LEMMA ChangeHookShape ==
  ASSUME Shapes, NEW h \in Hook, NEW c \in HookSettings, ChangeHook(h, c)
  PROVE  /\ QueueOK(pending', app) /\ LatestOK'
         /\ DOMAIN pending' = DOMAIN pending
         /\ \A i \in DOMAIN pending :
              pending'[i] = IF c.enabled THEN Renewed(pending[i], h, c.post)
                            ELSE pending[i]
         /\ latest' = IF c.enabled THEN {Renewed(l, h, c.post) : l \in latest}
                      ELSE {l \in latest : l.hook # h}
<1>1. c.enabled \in BOOLEAN /\ c.post \in BOOLEAN
  BY DEF HookSettings
<1>2. \A t \in HookedTexts : /\ Renewed(t, h, c.post) \in HookedTexts
                             /\ Renewed(t, h, c.post).game = t.game
                             /\ Renewed(t, h, c.post).hook = t.hook
  BY <1>1 DEF Renewed, HookedTexts
<1>3. pending \in Seq(HookedTexts) /\ latest \subseteq HookedTexts
  BY DEF Shapes, QueueOK, LatestOK
<1>4. CASE c.enabled
  <2>1. /\ pending' = [i \in DOMAIN pending |-> Renewed(pending[i], h, c.post)]
        /\ latest' = {Renewed(t, h, c.post) : t \in latest}
    BY <1>4 DEF ChangeHook, Renewed
  <2> DEFINE r(t) == Renewed(t, h, c.post)
  <2>2. \A t \in HookedTexts : r(t) \in HookedTexts /\ r(t).game = t.game /\ r(t).hook = t.hook
    BY <1>2
  <2>3. pending' = [i \in DOMAIN pending |-> r(pending[i])] /\ latest' = {r(t) : t \in latest}
    BY <2>1
  <2> HIDE DEF r
  <2>4. pending' \in Seq(HookedTexts) /\ Len(pending') = Len(pending)
        /\ DOMAIN pending' = DOMAIN pending
    <3>1. DOMAIN pending = 1 .. Len(pending) /\ Len(pending) \in Nat
      BY <1>3
    <3>2. \A i \in 1 .. Len(pending) : pending[i] \in HookedTexts
      BY <1>3, <3>1
    <3>3. pending' \in [1 .. Len(pending) -> HookedTexts]
      BY <2>2, <2>3, <3>1, <3>2
    <3> QED
      BY <3>1, <3>3
  <2>5. \A t \in Elements(pending') : t.game = app.game
    <3>1. \A i \in DOMAIN pending : pending[i] \in HookedTexts /\ pending[i].game = app.game
      BY <1>3, ElementsShape DEF Shapes, QueueOK
    <3> QED
      BY <2>2, <2>3, <2>4, <3>1 DEF Elements
  <2>6. QueueOK(pending', app)
    BY <2>4, <2>5 DEF QueueOK, Shapes
  <2>7. LatestOK'
    <3> DEFINE f == [t \in latest |-> r(t)]
    <3>1. f \in Surjection(latest, latest')
      <4>1. f \in [latest -> latest']
        BY <2>3
      <4>2. \A m \in latest' : \E t \in latest : f[t] = m
        BY <2>3
      <4> QED
        BY <4>1, <4>2, Fun_IsSurj
    <3>2. IsFiniteSet(latest')
      BY <3>1, FS_Surjection DEF Shapes, LatestOK
    <3>3. latest' \subseteq HookedTexts
      BY <1>3, <2>2, <2>3
    <3>4. \A l, m \in latest' : l.game = m.game /\ l.hook = m.hook => l = m
      BY <1>3, <2>2, <2>3 DEF Shapes, LatestOK
    <3> QED
      BY <3>2, <3>3, <3>4 DEF LatestOK
  <2> QED
    BY <1>4, <2>3, <2>4, <2>6, <2>7 DEF r
<1>5. CASE ~ c.enabled
  <2>1. pending' = pending /\ latest' = {t \in latest : t.hook # h}
    BY <1>5 DEF ChangeHook
  <2>2. IsFiniteSet(latest')
    BY <2>1, FS_Subset DEF Shapes, LatestOK
  <2>3. LatestOK'
    BY <2>1, <2>2 DEF Shapes, LatestOK
  <2> QED
    BY <1>5, <2>1, <2>3 DEF Shapes, QueueOK
<1> QED
  BY <1>4, <1>5

(* Every event of a hook keeps the queues of the active game.              *)
LEMMA HookShapes ==
  ASSUME Shapes, NEW s \in Source,
         \/ Connected(s) \/ Disconnected(s)
         \/ \E h \in Hook : Candidate(s, h) \/ \E x \in Text : HookedText(s, h, x)
  PROVE  Shapes'
<1>1. GameOf[s] \in Game
  BY PipelineAssumption
<1>2. /\ phase' = "events"
      /\ UNCHANGED <<settings, turn, user, handled>>
  BY DEF Connected, Disconnected, Candidate, HookedText, Polling
<1>3. TurnOK' /\ phase' \in {"idle", "events", "start"}
      /\ settings' \in [model : BOOLEAN, latest : BOOLEAN]
  BY <1>2 DEF Shapes, TurnOK
<1>4. CASE Connected(s)
  <2>1. PICK ok \in Outcomes :
          /\ Activate(GameOf[s], ok)
          /\ app' = Detecting(AppAfter(GameOf[s], ok))
          /\ pending' = PendingAfter(GameOf[s], ok)
    BY <1>4 DEF Connected
  <2>2. ok \in BOOLEAN
    BY <2>1 DEF Outcomes
  <2>3. StoreOK(paths')
    BY <1>1, <2>1, ActivateStore DEF Shapes
  <2>4. AppOK(app') /\ BufferOK(app') /\ QueueOK(pending', app')
    BY <1>1, <2>1, <2>2, ActivatedShape, DetectingShape DEF QueueOK
  <2> QED
    BY <1>3, <1>4, <2>3, <2>4 DEF Connected, Shapes, LatestOK, textVars
<1>5. ASSUME NEW h \in Hook, Candidate(s, h) PROVE Shapes'
  <2>1. PICK ok \in Outcomes :
          /\ Activate(GameOf[s], ok)
          /\ app' = AppAfter(GameOf[s], ok)
          /\ pending' = PendingAfter(GameOf[s], ok)
    BY <1>5 DEF Candidate
  <2>2. ok \in BOOLEAN
    BY <2>1 DEF Outcomes
  <2>3. StoreOK(paths')
    BY <1>1, <2>1, ActivateStore DEF Shapes
  <2>4. AppOK(app') /\ BufferOK(app') /\ QueueOK(pending', app')
    BY <1>1, <2>1, <2>2, ActivatedShape
  <2>5. config' \in [Hook -> HookSettings \cup {None}]
    BY <1>5 DEF Candidate, Known, Shapes, HookSettings
  <2> QED
    BY <1>3, <1>5, <2>3, <2>4, <2>5 DEF Candidate, Shapes, LatestOK, textVars
<1>6. ASSUME NEW h \in Hook, NEW x \in Text, HookedText(s, h, x) PROVE Shapes'
  <2> DEFINE g == GameOf[s]
  <2>1. PICK ok \in Outcomes, at \in 0 .. MaxTime :
          LET a == AppAfter(g, ok)
              q == PendingAfter(g, ok)
              t == [n |-> texts + 1, from |-> g, game |-> a.game, hook |-> h,
                    text |-> x, at |-> at, post |-> FALSE, updated |-> TRUE]
          IN  /\ Activate(g, ok)
              /\ IF s \in NativeSource
                 THEN QueueText(IF a.started THEN a ELSE Detecting(a), q, t)
                 ELSE IF <<h, s>> \in routes THEN QueueText(a, q, t)
                      ELSE Ignore(a, q)
    BY <1>6 DEF HookedText
  <2> DEFINE a == AppAfter(g, ok)
             q == PendingAfter(g, ok)
             d == IF a.started THEN a ELSE Detecting(a)
             t == [n |-> texts + 1, from |-> g, game |-> a.game, hook |-> h,
                   text |-> x, at |-> at, post |-> FALSE, updated |-> TRUE]
  <2>2. ok \in BOOLEAN
    BY <2>1 DEF Outcomes
  <2>3. StoreOK(paths')
    BY <1>1, <2>1, ActivateStore DEF Shapes
  <2>4. AppOK(a) /\ BufferOK(a) /\ QueueOK(q, a)
    BY <1>1, <2>2, ActivatedShape
  <2>5. AppOK(d) /\ BufferOK(d) /\ QueueOK(q, d) /\ d.game = a.game
    BY <2>4, DetectingShape DEF QueueOK
  <2>6. texts' = texts + 1 /\ texts + 1 \in 1 .. MaxTexts
    <3>1. texts \in Nat /\ texts < MaxTexts /\ MaxTexts \in Nat /\ texts' = texts + 1
      BY <1>6, PipelineAssumption DEF HookedText, Shapes
    <3> QED
      BY <3>1
  <2>7. a.game \in Game
    BY <2>4 DEF AppOK
  <2>8. t \in HookedTexts /\ t.game = a.game
    <3> HIDE DEF a
    <3> QED BY <1>1, <2>6, <2>7 DEF HookedTexts
  <2>9. \/ QueueText(d, q, t) \/ Ignore(d, q)
        \/ QueueText(a, q, t) \/ Ignore(a, q)
    BY <2>1
  <2> HIDE DEF a, q, d, t
  <2>10. AppOK(app') /\ BufferOK(app') /\ QueueOK(pending', app') /\ LatestOK'
    BY <2>4, <2>5, <2>8, <2>9, QueueTextShape
  <2>11. config' \in [Hook -> HookSettings \cup {None}] /\ routes' = routes
    <3>1. (Known(h) \/ UNCHANGED config) /\ UNCHANGED routes
      BY <1>6 DEF HookedText
    <3>2. ASSUME Known(h) PROVE config' \in [Hook -> HookSettings \cup {None}]
      BY <3>2 DEF Known, Shapes, HookSettings
    <3>3. config \in [Hook -> HookSettings \cup {None}]
      BY DEF Shapes
    <3> QED
      BY <3>1, <3>2, <3>3
  <2>12. texts' \in Nat
    BY <2>6
  <2> QED
    BY <1>3, <2>3, <2>6, <2>10, <2>11, <2>12 DEF Shapes
<1>7. CASE Disconnected(s)
  <2> DEFINE b == [app EXCEPT !.started = FALSE, !.detecting = FALSE,
                              !.manual = FALSE, !.buffer = <<>>]
  <2>1. app' = b /\ routes' = {r \in routes : r[2] # s}
        /\ UNCHANGED <<queueVars, config, storeVars, textVars>>
    BY <1>7 DEF Disconnected
  <2>2. /\ DOMAIN b = AppFields /\ b.game = app.game /\ b.branch = app.branch
        /\ b.retained = app.retained /\ b.cursor = app.cursor /\ b.detecting = FALSE
        /\ b.started = FALSE /\ b.manual = FALSE
        /\ b.buffer = <<>> /\ b.ready = app.ready
    BY DEF Shapes, AppOK, AppFields
  <2> HIDE DEF b
  <2>3. <<>> \in Seq(Batch) /\ Texts(<<>>) = {} /\ Len(<<>>) = 0
    <3>1. <<>> \in Seq(Batch) /\ Len(<<>>) = 0
      OBVIOUS
    <3> QED
      BY <3>1, BatchesShape
  <2>6. AppOK(app)
    BY DEF Shapes
  <2>7. AppOK(b)
    BY <2>2, <2>3, <2>6 DEF AppOK
  <2>4. AppOK(b) /\ BufferOK(b)
    BY <2>2, <2>3, <2>7 DEF BufferOK
  <2>5. QueueOK(pending', b)
    BY <2>1, <2>2 DEF QueueOK, Shapes, queueVars
  <2> QED
    BY <1>3, <2>1, <2>4, <2>5 DEF Shapes, LatestOK, queueVars, storeVars, textVars
<1> QED
  BY <1>4, <1>5, <1>6, <1>7

(* The rest of the conjuncts of Shapes, which most steps leave alone.      *)
LEMMA QuietShapes ==
  ASSUME Shapes, UNCHANGED <<hookVars, texts>>,
         AppOK(app'), BufferOK(app'), QueueOK(pending', app'), TurnOK', LatestOK',
         StoreOK(paths'), phase' \in {"idle", "events", "start"},
         settings' \in [model : BOOLEAN, latest : BOOLEAN]
  PROVE  Shapes'
BY DEF Shapes, hookVars

(* So does every step of a poll.                                           *)
LEMMA PollShapes ==
  ASSUME Shapes, PollStart \/ Rest \/ DetectionTimesOut \/ TakeReady \/ TakePending
  PROVE  Shapes'
<1>1. UNCHANGED <<hookVars, texts>> /\ settings' \in [model : BOOLEAN, latest : BOOLEAN]
  BY DEF Shapes, PollStart, Rest, DetectionTimesOut, TakeReady, TakePending, Starting, textVars
<1>2. CASE PollStart \/ Rest
  <2>1. UNCHANGED <<app, queueVars, turn, storeVars>> /\ phase' \in {"start", "idle"}
    BY <1>2 DEF PollStart, Rest
  <2>2. /\ AppOK(app') /\ BufferOK(app') /\ QueueOK(pending', app') /\ TurnOK'
        /\ LatestOK' /\ StoreOK(paths')
    BY <2>1 DEF Shapes, TurnOK, LatestOK, queueVars, storeVars
  <2>3. phase' \in {"idle", "events", "start"}
    BY <2>1
  <2> QED
    BY <1>1, <2>2, <2>3, QuietShapes
<1>3. CASE DetectionTimesOut
  <2>1. app' \in Ends(Finished(app, {})) /\ UNCHANGED <<queueVars, phase, turn, storeVars>>
    BY <1>3 DEF DetectionTimesOut
  <2>2. /\ AppOK(Finished(app, {})) /\ BufferOK(Finished(app, {}))
        /\ Finished(app, {}).game = app.game
    <3>1. \A c \in {} : c.branch \in Branch
      OBVIOUS
    <3> QED
      BY <3>1, FinishedShape DEF Shapes
  <2>4. AppOK(app') /\ BufferOK(app') /\ app'.game = app.game
    BY <2>1, <2>2, UnlistedShape
  <2>3. /\ AppOK(app') /\ BufferOK(app') /\ QueueOK(pending', app') /\ TurnOK'
        /\ LatestOK' /\ StoreOK(paths') /\ phase' \in {"idle", "events", "start"}
    BY <2>1, <2>4 DEF Shapes, TurnOK, LatestOK, QueueOK, queueVars, storeVars
  <2> QED
    BY <1>1, <2>3, QuietShapes
<1>4. CASE TakeReady
  <2> DEFINE a == [app EXCEPT !.ready = Tail(app.ready)]
             batch == Head(app.ready)
  <2>1. Process(a, pending, batch) /\ app.ready # <<>> /\ UNCHANGED latest
    BY <1>4 DEF TakeReady
  <2>2. /\ batch \in Batch /\ Tail(app.ready) \in Seq(Batch)
        /\ Texts(app.ready) = Elements(batch) \cup Texts(Tail(app.ready))
    BY <2>1, BatchesShape DEF Shapes, AppOK
  <2>3. /\ DOMAIN a = AppFields /\ a.game = app.game /\ a.branch = app.branch
        /\ a.retained = app.retained /\ a.cursor = app.cursor
        /\ a.detecting = app.detecting /\ a.started = app.started
        /\ a.manual = app.manual /\ a.buffer = app.buffer
        /\ a.ready = Tail(app.ready)
    BY DEF Shapes, AppOK, AppFields
  <2> HIDE DEF a, batch
  <2>4. AppOK(app)
    BY DEF Shapes
  <2>5. AppOK(a)
    BY <2>2, <2>3, <2>4 DEF AppOK
  <2>6. BufferOK(a) /\ QueueOK(pending, a)
    BY <2>3 DEF Shapes, BufferOK, QueueOK
  <2>7. \A t \in Elements(batch) : t.game = a.game
    BY <2>2, <2>3, <2>4 DEF AppOK
  <2>8. /\ StoreOK(paths')
        /\ AppOK(app') /\ BufferOK(app') /\ QueueOK(pending', app') /\ TurnOK'
        /\ phase' = "idle" \/ UNCHANGED phase
    BY <2>1, <2>2, <2>5, <2>6, <2>7, ProcessShape
  <2>9. LatestOK' /\ phase' \in {"idle", "events", "start"}
    BY <2>1, <2>8 DEF Shapes, LatestOK
  <2> QED
    BY <1>1, <2>8, <2>9, QuietShapes
<1>5. CASE TakePending
  <2> DEFINE e == NextTurnOf(pending)
             b == [app EXCEPT !.buffer = Append(app.buffer, e.batch)]
  <2>1. /\ pending # <<>> /\ UNCHANGED latest
        /\ IF app.detecting
           THEN /\ pending' = e.rest
                /\ \/ \E late \in BOOLEAN : app' \in Ends(Observed(app, e.batch, late))
                   \/ app' \in Ends(Finished(b, {}))
                   \/ app' \in Ends(Released(b))
                /\ phase' = "idle"
                /\ UNCHANGED <<turn, paths, handled>>
           ELSE Process(app, e.rest, e.batch)
    BY <1>5 DEF TakePending
  <2>2. /\ e.batch \in Batch /\ QueueOK(e.rest, app)
        /\ \A t \in Elements(e.batch) : t.game = app.game
    BY <2>1, TurnShape
  <2> HIDE DEF e
  <2>3. LatestOK'
    BY <2>1 DEF Shapes, LatestOK
  <2>4. CASE app.detecting
    <3>1. /\ AppOK(b) /\ b.game = app.game
          /\ \A late \in BOOLEAN :
              LET o == Observed(app, e.batch, late)
              IN  \/ \E chosen : /\ o = Finished(b, chosen)
                                 /\ \A c \in chosen : c.branch \in Branch
                  \/ /\ AppOK(o) /\ BufferOK(o) /\ o.game = app.game
      BY <2>2, <2>4, ObservedShape
    <3> HIDE DEF b
    <3>2. \A chosen : (\A c \in chosen : c.branch \in Branch) =>
            /\ AppOK(Finished(b, chosen)) /\ BufferOK(Finished(b, chosen))
            /\ Finished(b, chosen).game = app.game
      BY <3>1, FinishedShape
    <3>3. \A c \in {} : c.branch \in Branch
      OBVIOUS
    <3>6. PICK o : /\ AppOK(o) /\ BufferOK(o) /\ o.game = app.game
                   /\ app' \in Ends(o)
      BY <2>1, <2>4, <3>1, <3>2, <3>3, ReleasedShape
    <3>4. AppOK(app') /\ BufferOK(app') /\ app'.game = app.game
      BY <3>6, UnlistedShape
    <3>5. QueueOK(pending', app') /\ TurnOK' /\ StoreOK(paths')
          /\ phase' \in {"idle", "events", "start"}
      BY <2>1, <2>2, <2>4, <3>4 DEF QueueOK, TurnOK, Shapes
    <3> QED
      BY <1>1, <2>3, <3>4, <3>5, QuietShapes
  <2>5. CASE ~ app.detecting
    <3>1. Process(app, e.rest, e.batch)
      BY <2>1, <2>5
    <3>2. /\ StoreOK(paths')
          /\ AppOK(app') /\ BufferOK(app') /\ QueueOK(pending', app') /\ TurnOK'
          /\ phase' = "idle" \/ UNCHANGED phase
      BY <2>2, <3>1, ProcessShape DEF Shapes
    <3>3. phase' \in {"idle", "events", "start"}
      BY <3>2 DEF Shapes
    <3> QED
      BY <1>1, <2>3, <3>2, <3>3, QuietShapes
  <2> QED
    BY <2>4, <2>5
<1> QED
  BY <1>2, <1>3, <1>4, <1>5

(* A refresh of the history list leaves the queues alone.                  *)
LEMMA RefreshedShape ==
  ASSUME NEW a, AppOK(a), NEW ps
  PROVE  /\ AppOK(Refreshed(a, ps)) /\ Refreshed(a, ps).game = a.game
         /\ BufferOK(a) => BufferOK(Refreshed(a, ps))
         /\ \A q : QueueOK(q, a) => QueueOK(q, Refreshed(a, ps))
         /\ Refreshed(a, ps).ready = a.ready /\ Refreshed(a, ps).buffer = a.buffer
         /\ Refreshed(a, ps).detecting = a.detecting
         /\ Refreshed(a, ps).branch = a.branch /\ Refreshed(a, ps).cursor = a.cursor
         /\ Refreshed(a, ps).retained = a.retained
         /\ Refreshed(a, ps).found = a.found
         /\ Refreshed(a, ps).seen = ps[a.game]
<1> DEFINE r == Refreshed(a, ps)
<1>1. /\ DOMAIN r = AppFields /\ r.game = a.game /\ r.branch = a.branch
      /\ r.retained = a.retained /\ r.cursor = a.cursor
      /\ r.detecting = a.detecting /\ r.started = a.started
      /\ r.manual = a.manual /\ r.buffer = a.buffer
      /\ r.ready = a.ready /\ r.found = a.found /\ r.seen = ps[a.game]
  BY DEF Refreshed, AppOK, AppFields
<1> HIDE DEF r
<1>2. AppOK(r)
  BY <1>1 DEF AppOK
<1> QED
  BY <1>1, <1>2 DEF r, BufferOK, QueueOK

(* So does the engine.                                                     *)
LEMMA EngineShapes ==
  ASSUME Shapes, EngineReads \/ EngineCommits \/ EngineFails \/ Complete
  PROVE  Shapes'
<1>1. UNCHANGED <<hookVars, texts, queueVars, settings>>
  BY DEF EngineReads, EngineCommits, EngineFails, Complete, Engine, textVars
<1>2. LatestOK' /\ pending' = pending /\ settings' \in [model : BOOLEAN, latest : BOOLEAN]
  BY <1>1 DEF Shapes, LatestOK, queueVars
<1>3. turn # NoTurn =>
        /\ DOMAIN turn = {"stage", "game", "branch", "batch", "base"}
        /\ turn.game \in Game /\ turn.branch \in Branch /\ turn.batch \in Batch
  BY DEF Shapes, TurnOK
<1>4. turn.stage # "none" => turn # NoTurn
  BY DEF NoTurn
<1>5. CASE EngineReads
  <2>1. /\ turn.stage = "queued" /\ UNCHANGED <<app, phase, storeVars>>
        /\ turn' = [turn EXCEPT !.stage = "running",
                      !.base = HeadId(turn.game, turn.branch)]
    BY <1>5 DEF EngineReads, Engine
  <2>2. TurnOK'
    BY <1>3, <1>4, <2>1 DEF TurnOK
  <2>3. AppOK(app') /\ BufferOK(app') /\ QueueOK(pending', app') /\ StoreOK(paths')
        /\ phase' \in {"idle", "events", "start"}
    BY <1>2, <2>1 DEF Shapes, storeVars
  <2> QED
    BY <1>1, <1>2, <2>2, <2>3, QuietShapes
<1>6. CASE EngineCommits
  <2>1. /\ turn.stage = "running" /\ UNCHANGED <<app, phase>>
        /\ turn' = [turn EXCEPT !.stage = "done"]
        /\ paths' = [paths EXCEPT ![turn.game][turn.branch] =
             Append(@, [id |-> commits + 1, sig |-> CommitSignature(turn.batch)])]
    BY <1>6 DEF EngineCommits, Engine
  <2>2. TurnOK'
    BY <1>3, <1>4, <2>1 DEF TurnOK
  <2>3. StoreOK(paths')
    BY <1>3, <1>4, <2>1 DEF StoreOK, Shapes
  <2>4. AppOK(app') /\ BufferOK(app') /\ QueueOK(pending', app')
        /\ phase' \in {"idle", "events", "start"}
    BY <1>2, <2>1 DEF Shapes
  <2> QED
    BY <1>1, <1>2, <2>2, <2>3, <2>4, QuietShapes
<1>7. CASE EngineFails
  <2>1. /\ turn.stage \in {"queued", "running"} /\ UNCHANGED <<app, phase, storeVars>>
        /\ turn' = [turn EXCEPT !.stage = "failed"]
    BY <1>7 DEF EngineFails, Engine
  <2>2. TurnOK'
    BY <1>3, <1>4, <2>1 DEF TurnOK
  <2>3. AppOK(app') /\ BufferOK(app') /\ QueueOK(pending', app') /\ StoreOK(paths')
        /\ phase' \in {"idle", "events", "start"}
    BY <1>2, <2>1 DEF Shapes, storeVars
  <2> QED
    BY <1>1, <1>2, <2>2, <2>3, QuietShapes
<1>8. CASE Complete
  <2>1. /\ app' = IF turn.stage = "done" THEN Refreshed(app, paths) ELSE app
        /\ turn' = NoTurn /\ phase' = "start" /\ UNCHANGED storeVars
    BY <1>8 DEF Complete
  <2>2. AppOK(app') /\ BufferOK(app') /\ QueueOK(pending', app')
    BY <1>2, <2>1, RefreshedShape DEF Shapes
  <2>3. TurnOK' /\ StoreOK(paths') /\ phase' \in {"idle", "events", "start"}
    BY <2>1 DEF TurnOK, Shapes, storeVars
  <2> QED
    BY <1>1, <1>2, <2>2, <2>3, QuietShapes
<1> QED
  BY <1>5, <1>6, <1>7, <1>8

(* So does every message of the user.                                      *)
LEMMA UserShapes ==
  ASSUME Shapes, UserMessage
  PROVE  Shapes'
<1>1. PICK h \in Hook \cup {0}, b \in Branch, c \in HookSettings :
        \/ h \in Hook /\ (Forget(h) \/ ChangeHook(h, c))
        \/ Detach \/ CommitScratchpad
        \/ \E setting \in {"model", "latest"} : Configure(setting)
        \/ \E i \in DOMAIN app.seen[b] : SelectCommit(b, i)
        \/ \E name \in UserBranch : CreateBranch(name)
  <2>1. Main \in Branch /\ [enabled |-> FALSE, post |-> FALSE] \in HookSettings
    BY PipelineAssumption DEF HookSettings
  <2> QED
    BY <2>1 DEF UserMessage
<1>2. UNCHANGED <<phase, turn, textVars, handled>>
  BY <1>1 DEF Forget, ChangeHook, Detach, CommitScratchpad, Configure,
       SelectCommit, CreateBranch, UserActs
<1>3. TurnOK' /\ phase' \in {"idle", "events", "start"} /\ texts' \in Nat
  BY <1>2 DEF Shapes, TurnOK, textVars
<1>4. CASE h \in Hook /\ Forget(h)
  <2>1. /\ config' = [config EXCEPT ![h] = None]
        /\ routes' = {r \in routes : r[1] # h}
        /\ latest' = {t \in latest : t.hook # h}
        /\ UNCHANGED <<app, pending, settings, storeVars>>
    BY <1>4 DEF Forget
  <2>2. config' \in [Hook -> HookSettings \cup {None}] /\ routes' \subseteq Hook \X Source
    BY <1>4, <2>1 DEF Shapes
  <2>3. IsFiniteSet(latest')
    BY <2>1, FS_Subset DEF Shapes, LatestOK
  <2>4. LatestOK'
    BY <2>1, <2>3 DEF Shapes, LatestOK
  <2>5. AppOK(app') /\ BufferOK(app') /\ QueueOK(pending', app') /\ StoreOK(paths')
        /\ settings' \in [model : BOOLEAN, latest : BOOLEAN]
    BY <2>1 DEF Shapes, storeVars
  <2> QED
    BY <1>3, <2>2, <2>4, <2>5 DEF Shapes
<1>5. CASE h \in Hook /\ ChangeHook(h, c)
  <2>1. config' = [config EXCEPT ![h] = c] /\ UNCHANGED <<app, routes, settings, storeVars>>
    BY <1>5 DEF ChangeHook
  <2>2. config' \in [Hook -> HookSettings \cup {None}]
    BY <1>5, <2>1 DEF Shapes
  <2>3. QueueOK(pending', app') /\ LatestOK'
    BY <1>5, <2>1, ChangeHookShape
  <2>4. AppOK(app') /\ BufferOK(app') /\ StoreOK(paths') /\ routes' \subseteq Hook \X Source
        /\ settings' \in [model : BOOLEAN, latest : BOOLEAN]
    BY <2>1 DEF Shapes, storeVars
  <2> QED
    BY <1>3, <2>2, <2>3, <2>4 DEF Shapes
<1>6. CASE Detach
  <2>1. routes' = {} /\ UNCHANGED <<app, queueVars, config, settings, storeVars>>
    BY <1>6 DEF Detach
  <2> QED
    BY <1>3, <2>1 DEF Shapes, LatestOK, queueVars, storeVars
<1>7. CASE \E setting \in {"model", "latest"} : Configure(setting)
  <2>1. PICK setting \in {"model", "latest"} :
          /\ settings' = [settings EXCEPT ![setting] = ~ settings[setting]]
          /\ UNCHANGED <<app, queueVars, hookVars, storeVars>>
    BY <1>7 DEF Configure
  <2>2. settings' \in [model : BOOLEAN, latest : BOOLEAN]
    <3> DEFINE u == ~ settings[setting]
    <3>1. u \in BOOLEAN
      OBVIOUS
    <3> HIDE DEF u
    <3> QED
      BY <2>1, <3>1 DEF Shapes, u
  <2> QED
    BY <1>3, <2>1, <2>2 DEF Shapes, LatestOK, queueVars, storeVars, hookVars
<1>8. CASE CommitScratchpad \/ \E name \in UserBranch : CreateBranch(name)
  <2>1. /\ app' = Refreshed(app, paths')
        /\ UNCHANGED <<queueVars, hookVars, settings>>
        /\ \/ \E x : paths' = [paths EXCEPT ![app.game][app.branch] = x]
           \/ \E x : \E name \in UserBranch : paths' = [paths EXCEPT ![app.game][name] = x]
    <3>1. CASE CommitScratchpad
      BY <3>1 DEF CommitScratchpad
    <3>2. CASE \E name \in UserBranch : CreateBranch(name)
      BY <3>2 DEF CreateBranch
    <3> QED
      BY <1>8, <3>1, <3>2
  <2>2. StoreOK(paths')
    BY <2>1, PipelineAssumption DEF Shapes, StoreOK, AppOK
  <2>3. AppOK(app') /\ BufferOK(app') /\ QueueOK(pending', app') /\ LatestOK'
    BY <2>1, RefreshedShape DEF Shapes, LatestOK, queueVars
  <2> QED
    BY <1>3, <2>1, <2>2, <2>3 DEF Shapes, hookVars
<1>9. CASE \E i \in DOMAIN app.seen[b] : SelectCommit(b, i)
  <2>1. PICK i \in DOMAIN app.seen[b] : SelectCommit(b, i)
    BY <1>9
  <2> DEFINE kept == IF app.retained = b THEN b ELSE None
             cursor == [branch |-> b, path |-> app.seen[b], position |-> i]
             a == [app EXCEPT !.retained = kept, !.cursor = cursor,
                     !.branch = b, !.detecting = FALSE, !.started = TRUE,
                     !.manual = TRUE, !.ready = app.ready \o app.buffer,
                     !.buffer = <<>>, !.found = {}]
  <2>2. app' = Refreshed(a, paths) /\ UNCHANGED <<queueVars, hookVars, settings, storeVars>>
    BY <2>1 DEF SelectCommit
  <2>3. /\ DOMAIN a = AppFields /\ a.game = app.game /\ a.branch = b
        /\ a.retained = kept /\ a.cursor = cursor /\ a.detecting = FALSE
        /\ a.started = TRUE /\ a.manual = TRUE
        /\ a.ready = app.ready \o app.buffer /\ a.buffer = <<>>
    BY DEF Shapes, AppOK, AppFields
  <2>4. kept \in Branch \cup {None} /\ DOMAIN cursor = {"branch", "path", "position"}
        /\ cursor.branch = b
    OBVIOUS
  <2> HIDE DEF a, kept, cursor
  <2>5. AppOK(app)
    BY DEF Shapes
  <2>6. app.ready \o app.buffer \in Seq(Batch)
        /\ Texts(app.ready \o app.buffer) = Texts(app.ready) \cup Texts(app.buffer)
    BY <2>5, BatchesShape DEF AppOK
  <2>7. <<>> \in Seq(Batch) /\ Texts(<<>>) = {} /\ Len(<<>>) = 0
    <3>1. <<>> \in Seq(Batch) /\ Len(<<>>) = 0
      OBVIOUS
    <3> QED
      BY <3>1, BatchesShape
  <2>8. AppOK(a)
    BY <2>3, <2>4, <2>5, <2>6, <2>7 DEF AppOK
  <2>9. BufferOK(a) /\ QueueOK(pending, a)
    BY <2>3, <2>7 DEF BufferOK, QueueOK, Shapes
  <2>10. AppOK(app') /\ BufferOK(app') /\ QueueOK(pending', app')
    BY <2>2, <2>8, <2>9, RefreshedShape DEF queueVars
  <2> QED
    BY <1>3, <2>2, <2>10 DEF Shapes, LatestOK, queueVars, hookVars, storeVars
<1> QED
  BY <1>1, <1>4, <1>5, <1>6, <1>7, <1>8, <1>9

(* Every step of the system keeps the shapes of its queues.                *)
LEMMA ShapesStep == Shapes /\ [Next]_vars => Shapes'
<1> SUFFICES ASSUME Shapes, [Next]_vars PROVE Shapes'
  OBVIOUS
<1>1. CASE HookEvent
  <2>1. PICK s \in Source : \/ Connected(s) \/ Disconnected(s)
                            \/ \E h \in Hook : Candidate(s, h) \/ \E x \in Text : HookedText(s, h, x)
    BY <1>1 DEF HookEvent
  <2> QED
    BY <2>1, HookShapes
<1>2. CASE PollStart \/ Rest \/ DetectionTimesOut \/ TakeReady \/ TakePending
  BY <1>2, PollShapes
<1>3. CASE EngineReads \/ EngineCommits \/ EngineFails \/ Complete
  BY <1>3, EngineShapes
<1>4. CASE UserMessage
  BY <1>4, UserShapes
<1>5. CASE UNCHANGED vars
  BY <1>5 DEF vars, queueVars, hookVars, storeVars, textVars, Shapes, AppOK,
       BufferOK, QueueOK, TurnOK, LatestOK, StoreOK
<1> QED
  BY <1>1, <1>2, <1>3, <1>4, <1>5 DEF Next

(* The queues of the control window and the running turn always have the   *)
(* shape the other theorems build on.                                      *)
THEOREM ShapesHold == Spec => []Shapes
<1>1. Init => Shapes
  BY ShapesInit
<1>2. Shapes /\ [Next]_vars => Shapes'
  BY ShapesStep
<1> QED
  BY <1>1, <1>2, PTL DEF Spec

(* Whatever waits in the queues belongs to the active game: activate_game  *)
(* empties every queue when it switches, and a text takes the game that is *)
(* active when it arrives.                                                 *)
THEOREM ActiveGameOnly == Spec => []QueuedForActiveGame
<1>1. Shapes => QueuedForActiveGame
  BY DEF Shapes, AppOK, QueueOK, QueuedForActiveGame, Queued, Texts, Elements
<1> QED
  BY <1>1, ShapesHold, PTL

(* The paths of a game that the store, the history list and the cursor     *)
(* hold.                                                                   *)
Held(ps, a, g) ==
  {ps[g][b] : b \in Branch} \cup
  (IF g # a.game THEN {}
   ELSE {a.seen[b] : b \in Branch} \cup
        (IF a.cursor = None THEN {} ELSE {a.cursor.path}))

(* The commits of a path were made.                                        *)
PathOK(p, n) == IsPath(p) /\ \A i \in DOMAIN p : p[i].id \in 0 .. n

(* A commit has one depth in the paths P.                                  *)
PathsOK(P, n) == OneDepth(P) /\ \A p \in P : PathOK(p, n)

(* The cursor stands on a commit of its path, and a commit has one depth.  *)
HistoriesOK(ps, a, n) ==
  /\ ps[a.game][Main] # <<>>
  /\ a.cursor # None => a.cursor.position \in DOMAIN a.cursor.path
  /\ \A g \in Game : PathsOK(Held(ps, a, g), n)

(* The paths that are held are paths of commits.                           *)
Histories == commits \in Nat /\ HistoriesOK(paths, app, commits)

-----------------------------------------------------------------------------
(* Paths                                                                   *)

(* The path p begins with q.                                               *)
Prefix(q, p) ==
  /\ q \in Seq(Elements(q)) /\ DOMAIN q \subseteq DOMAIN p
  /\ \A i \in DOMAIN q : q[i] = p[i]

(* Parts of paths that go together go together.                            *)
LEMMA PrefixesOK ==
  ASSUME NEW P, NEW n, PathsOK(P, n), NEW Q, \A q \in Q : \E p \in P : Prefix(q, p)
  PROVE  PathsOK(Q, n)
<1>1. OneDepth(Q)
  BY DEF PathsOK, OneDepth, Prefix
<1>2. \A q \in Q : PathOK(q, n)
  BY DEF PathsOK, PathOK, IsPath, Prefix
<1> QED
  BY <1>1, <1>2 DEF PathsOK

(* A path is a part of itself.                                             *)
LEMMA PrefixSelf ==
  ASSUME NEW P, NEW n, PathsOK(P, n), NEW p \in P
  PROVE  Prefix(p, p)
BY DEF PathsOK, PathOK, IsPath, Prefix

(* A new root goes with every path.                                        *)
LEMMA RootOK ==
  ASSUME NEW P, NEW n \in Nat, PathsOK(P, n)
  PROVE  PathsOK(P \cup {<<Root>>}, n)
<1> DEFINE r == <<Root>>
<1>1. DOMAIN r = {1} /\ r[1] = Root /\ Elements(r) = {Root} /\ Root.id = 0
  BY DEF Elements, Root
<1>2. r \in Seq(Elements(r))
  BY <1>1
<1> HIDE DEF r
<1>3. PathOK(r, n)
  BY <1>1, <1>2 DEF PathOK, IsPath
<1>4. OneDepth(P \cup {r})
  BY <1>1 DEF PathsOK, PathOK, IsPath, OneDepth
<1> QED
  BY <1>3, <1>4 DEF PathsOK, r

(* A new commit, with an id of its own, goes on a path.                    *)
LEMMA CommitOK ==
  ASSUME NEW P, NEW n \in Nat, PathsOK(P, n), NEW p \in P, NEW sig
  PROVE  PathsOK(P \cup {Append(p, [id |-> n + 1, sig |-> sig])}, n + 1)
<1> DEFINE c == [id |-> n + 1, sig |-> sig]
           q == Append(p, c)
           m == Len(p)
           T == Elements(p) \cup {c}
<1>1. c.id = n + 1 /\ c # Root
  BY DEF Root
<1> HIDE DEF c
<1>2. p \in Seq(Elements(p)) /\ \A i \in DOMAIN p : p[i].id \in 0 .. n
  BY DEF PathsOK, PathOK, IsPath
<1>3. p \in Seq(T)
  BY <1>2
<1>4. /\ m \in Nat /\ DOMAIN p = 1 .. m /\ q \in Seq(T) /\ DOMAIN q = 1 .. m + 1
      /\ \A i \in 1 .. m : q[i] = p[i]
      /\ q[m + 1] = c
  <2>1. q \in Seq(T) /\ Len(q) = m + 1
    BY <1>3
  <2> QED
    BY <1>3, <2>1
<1>5. Elements(q) = T
  BY <1>3, ElementsShape
<1>6. \A i \in 1 .. m + 1 : i \in 1 .. m \/ i = m + 1
  BY <1>4
<1>7. \A i \in 0 .. n : i \in 0 .. n + 1 /\ i # n + 1
  OBVIOUS
<1> HIDE DEF q, m, T
<1>8. PathOK(q, n + 1)
  <2>1. \A i \in 1 .. m : p[i] = Root => i = 1
    BY <1>4 DEF PathsOK, PathOK, IsPath
  <2>2. IsPath(q)
    BY <1>1, <1>4, <1>5, <1>6, <2>1 DEF IsPath
  <2>3. n + 1 \in 0 .. n + 1
    OBVIOUS
  <2>4. \A i \in 1 .. m + 1 : q[i].id \in 0 .. n + 1
    BY <1>1, <1>2, <1>4, <1>6, <1>7, <2>3
  <2> QED
    BY <1>4, <2>2, <2>4 DEF PathOK
<1>9. \A x \in P : PathOK(x, n + 1)
  BY <1>7 DEF PathsOK, PathOK
<1>10. \A x \in P : \A i \in DOMAIN x : x[i] # c
  BY <1>1, <1>7 DEF PathsOK, PathOK
<1>11. OneDepth(P \cup {q})
  <2>1. \A x \in P : \A i \in DOMAIN x, j \in DOMAIN q : x[i] = q[j] => i = j
    BY <1>4, <1>6, <1>10 DEF PathsOK, OneDepth
  <2>2. \A i, j \in DOMAIN q : q[i] = q[j] => i = j
    BY <1>4, <1>6, <1>10 DEF PathsOK, OneDepth
  <2>3. OneDepth(P)
    BY DEF PathsOK
  <2> QED
    BY <2>1, <2>2, <2>3 DEF OneDepth
<1> QED
  BY <1>8, <1>9, <1>11 DEF PathsOK, q, c

(* Where the next turn of a path is.                                       *)
LEMMA NextTurnIn ==
  ASSUME NEW S, NEW path \in Seq(S), NEW position \in DOMAIN path
  PROVE  NextTurn(path, position) \in position + 1 .. Len(path) + 1
<1> DEFINE later == {i \in position + 1 .. Len(path) : ~IsStructural(path[i])}
<1>1. Len(path) \in Nat /\ position \in 1 .. Len(path)
  OBVIOUS
<1>2. later \in SUBSET Nat /\ later \subseteq position + 1 .. Len(path)
  BY <1>1
<1>3. NextTurn(path, position) = IF later = {} THEN Len(path) + 1 ELSE Least(later)
  BY DEF NextTurn
<1> HIDE DEF later
<1>4. CASE later = {}
  BY <1>1, <1>3, <1>4
<1>5. CASE later # {}
  <2>1. Least(later) \in later
    BY <1>2, <1>5, LeastIn
  <2>2. NextTurn(path, position) \in position + 1 .. Len(path)
    BY <1>2, <1>3, <1>5, <2>1
  <2> DEFINE next == NextTurn(path, position)
             n == Len(path)
  <2>3. next \in position + 1 .. n /\ n \in Nat /\ position \in 1 .. n
    BY <1>1, <2>2
  <2> HIDE DEF next, n
  <2>4. next \in position + 1 .. n + 1
    BY <2>3
  <2> QED
    BY <2>4 DEF next, n
<1> QED
  BY <1>4, <1>5

(* The cursor never leaves its path.                                       *)
LEMMA StepIn ==
  ASSUME NEW S, NEW path \in Seq(S), NEW position \in DOMAIN path, NEW observed
  PROVE  CursorStep(path, position, observed).position \in DOMAIN path
<1> DEFINE next == NextTurn(path, position)
           outcome == Outcome(path, next, observed)
<1>1. Len(path) \in Nat /\ position \in 1 .. Len(path) /\ DOMAIN path = 1 .. Len(path)
  OBVIOUS
<1>2. next \in position + 1 .. Len(path) + 1
  BY NextTurnIn
<1>3. CursorStep(path, position, observed).position
        = IF outcome = "matched" THEN next ELSE next - 1
  BY DEF CursorStep
<1>4. outcome = "matched" => ~ (next > Len(path))
  BY <1>1, <1>2 DEF Outcome
<1> HIDE DEF next, outcome
<1> QED
  BY <1>1, <1>2, <1>3, <1>4

(* A row of turns is found on commits after the first of a path.           *)
LEMMA WindowIn ==
  ASSUME NEW S, NEW path \in Seq(S), NEW observed, NEW x \in Windows(path, observed)
  PROVE  x \in DOMAIN path /\ x > 1
<1> DEFINE turns == {i \in DOMAIN path : IsTurn(path[i])}
           R == {p \in turns \X turns : p[1] < p[2]}
<1>1. Len(path) \in Nat /\ DOMAIN path = 1 .. Len(path)
  OBVIOUS
<1>2. IsFiniteSet(turns)
  <2>1. IsFiniteSet(1 .. Len(path))
    BY <1>1, FS_Interval
  <2> QED
    BY <1>1, <2>1, FS_Subset
<1>3. Orders(R, turns)
  <2>1. turns \subseteq Nat
    BY <1>1
  <2> HIDE DEF turns
  <2> QED
    BY <2>1 DEF Orders
<1>4. Turns(path) = Sorted(turns, R)
  BY DEF Turns
<1> HIDE DEF R, turns
<1>5. \A s \in DOMAIN Turns(path) : Turns(path)[s] \in turns
  BY <1>2, <1>3, <1>4, SortedOnce
<1>6. PICK s \in DOMAIN Turns(path) : x = Turns(path)[s] /\ Turns(path)[s] > 1
  BY DEF Windows
<1> QED
  BY <1>5, <1>6 DEF turns

(* A candidate is in front of a commit of the branch it is shown on.       *)
LEMMA CandidateIn ==
  ASSUME NEW ps, DOMAIN ps = Branch, NEW n, PathsOK({ps[b] : b \in Branch}, n),
         NEW observed, NEW c \in ResumeCandidates(ps, observed)
  PROVE  /\ c.branch \in Branch /\ c.position \in DOMAIN ps[c.branch]
         /\ c.position + 1 \in Windows(ps[c.branch], observed)
<1> DEFINE found == UNION {{b} \X Windows(ps[b], observed) : b \in DOMAIN ps}
           commit(f) == ps[f[1]][f[2]]
           holders(f) == {g[1] : g \in {h \in found : commit(h) = commit(f)}}
           shown(f) == IF Main \in holders(f) THEN Main ELSE Least(holders(f))
           record(f) == [branch |-> shown(f), next |-> commit(f).id,
                         position |-> f[2] - 1]
<1>0. ResumeCandidates(ps, observed) = {record(f) : f \in found}
  BY DEF ResumeCandidates
<1>1. PICK f \in found : c.branch = shown(f) /\ c.position = f[2] - 1
  <2> HIDE DEF found, shown, commit
  <2>1. PICK f \in found : c = record(f)
    BY <1>0
  <2> QED
    BY <2>1
<1>2. \A h \in found : h[1] \in Branch /\ h[2] \in Windows(ps[h[1]], observed)
  OBVIOUS
<1>3. f[1] \in holders(f)
  BY <1>1
<1>4. holders(f) \subseteq Branch
  BY <1>2
<1>5. holders(f) \in SUBSET Nat
  BY <1>4, PipelineAssumption
<1>6. shown(f) \in holders(f)
  <2> HIDE DEF holders
  <2>1. Least(holders(f)) \in holders(f)
    BY <1>3, <1>5, LeastIn
  <2> QED
    BY <2>1
<1>7. PICK h \in found : h[1] = shown(f) /\ commit(h) = commit(f)
  <2> HIDE DEF shown
  <2> QED
    BY <1>6
<1> HIDE DEF holders, shown, found
<1>8. \A b \in Branch : ps[b] \in Seq(Elements(ps[b]))
  BY DEF PathsOK, PathOK, IsPath
<1>9. /\ h[2] \in DOMAIN ps[h[1]] /\ f[2] \in DOMAIN ps[f[1]] /\ f[2] > 1
  BY <1>1, <1>2, <1>7, <1>8, WindowIn
<1>10. h[2] = f[2]
  BY <1>1, <1>2, <1>7, <1>9 DEF PathsOK, OneDepth
<1>11. c.branch \in Branch /\ f[2] \in DOMAIN ps[c.branch]
  BY <1>1, <1>2, <1>7, <1>9, <1>10
<1>12. \A p : p \in Seq(Elements(p)) =>
         \A k \in DOMAIN p : k > 1 => k - 1 \in DOMAIN p /\ (k - 1) + 1 = k
  OBVIOUS
<1>13. f[2] \in Windows(ps[c.branch], observed)
  BY <1>1, <1>2, <1>7, <1>10
<1> QED
  BY <1>1, <1>8, <1>9, <1>11, <1>12, <1>13

-----------------------------------------------------------------------------
(* Steps and the histories                                                 *)

(* The window has the game of another, and of its history no more than     *)
(* that one or the store has.                                              *)
Kept(b, a, ps) ==
  /\ b.game = a.game
  /\ b.cursor = a.cursor \/ b.cursor = None
  /\ b.seen = a.seen \/ b.seen = ps[a.game]

(* What a window holds less of stays sound.                                *)
LEMMA HistoryKept ==
  ASSUME NEW ps, NEW a, a.game \in Game, NEW n, HistoriesOK(ps, a, n),
         NEW b, Kept(b, a, ps)
  PROVE  HistoriesOK(ps, b, n)
<1>1. \A g \in Game : Held(ps, b, g) \subseteq Held(ps, a, g)
  BY DEF Held, Kept
<1>2. \A g \in Game : PathsOK(Held(ps, b, g), n)
  BY <1>1 DEF HistoriesOK, PathsOK, OneDepth
<1> QED
  BY <1>2 DEF HistoriesOK, Kept

(* Parts of the paths that are held may take their places.                 *)
LEMMA HistoryMoved ==
  ASSUME NEW ps, NEW a, NEW n, HistoriesOK(ps, a, n), NEW qs, NEW b,
         qs[b.game][Main] # <<>>,
         b.cursor # None => b.cursor.position \in DOMAIN b.cursor.path,
         \A g \in Game : \A q \in Held(qs, b, g) :
           \E p \in Held(ps, a, g) : Prefix(q, p)
  PROVE  HistoriesOK(qs, b, n)
<1>1. \A g \in Game : PathsOK(Held(qs, b, g), n)
  BY PrefixesOK DEF HistoriesOK
<1> QED
  BY <1>1 DEF HistoriesOK

(* The part of a path up to a commit.                                      *)
LEMMA SubSeqPrefix ==
  ASSUME NEW S, NEW p \in Seq(S), NEW m \in DOMAIN p
  PROVE  Prefix(SubSeq(p, 1, m), p)
<1> DEFINE q == SubSeq(p, 1, m)
<1>1. Len(p) \in Nat /\ DOMAIN p = 1 .. Len(p) /\ m \in 1 .. Len(p)
  OBVIOUS
<1>2. q \in Seq(S) /\ Len(q) = m /\ \A i \in 1 .. m : q[i] = p[i]
  BY <1>1
<1> HIDE DEF q
<1>3. DOMAIN q = 1 .. m
  BY <1>1, <1>2
<1>4. q \in Seq(Elements(q))
  <2>1. \A i \in DOMAIN q : q[i] \in Elements(q)
    BY DEF Elements
  <2> QED
    BY <1>1, <1>2, <1>3, <2>1
<1> QED
  BY <1>1, <1>2, <1>3, <1>4 DEF Prefix, q

(* A dispatched turn leaves what the window knows of the history alone.    *)
LEMMA DispatchKept ==
  ASSUME NEW a, AppOK(a), NEW q, NEW batch, Dispatch(a, q, batch)
  PROVE  app'.game = a.game /\ app'.cursor = a.cursor /\ app'.seen = a.seen
BY DEF Dispatch, AppOK, AppFields

(* A turn that is processed moves the cursor along its path, drops it, or  *)
(* puts the part of the path before it on a new branch.                    *)
LEMMA ProcessHistory ==
  ASSUME Shapes, NEW a, AppOK(a), BufferOK(a), NEW n, HistoriesOK(paths, a, n),
         NEW q, NEW batch, Process(a, q, batch)
  PROVE  HistoriesOK(paths', app', n)
<1> DEFINE c == a.cursor
           step == CursorStep(c.path, c.position, Signature(batch))
           dropped == [a EXCEPT !.cursor = None]
           onCursor == [dropped EXCEPT !.branch = c.branch]
           moved == [a EXCEPT !.cursor.position = step.position]
<1>0. a.game \in Game /\ Main \in Branch
  BY PipelineAssumption DEF AppOK
<1>1. ASSUME NEW b, AppOK(b), Kept(b, a, paths), Dispatch(b, q, batch), UNCHANGED paths
      PROVE  HistoriesOK(paths', app', n)
  <2>1. Kept(app', a, paths)
    BY <1>1, DispatchKept DEF Kept
  <2> QED
    BY <1>0, <1>1, <2>1, HistoryKept
<1>2. CASE a.cursor = None
  <2>1. Dispatch(a, q, batch) /\ UNCHANGED paths
    BY <1>2 DEF Process
  <2> QED
    BY <1>1, <2>1 DEF Kept
<1>3. CASE a.cursor # None
  <2>1. /\ DOMAIN a = AppFields /\ DOMAIN c = {"branch", "path", "position"}
        /\ c.branch \in Branch
    BY <1>3 DEF AppOK
  <2>2. c.path \in Held(paths, a, a.game)
    BY <1>3 DEF Held
  <2>3. c.path \in Seq(Elements(c.path)) /\ c.position \in DOMAIN c.path
    BY <1>0, <1>3, <2>2 DEF HistoriesOK, PathsOK, PathOK, IsPath
  <2>4. step.position \in DOMAIN c.path
    BY <2>3, StepIn
  <2>5. \A b \in Branch : SameQueues([dropped EXCEPT !.branch = b], a)
                          /\ Kept([dropped EXCEPT !.branch = b], a, paths)
    BY <2>1 DEF SameQueues, AppOK, AppFields, Kept
  <2>6. SameQueues([dropped EXCEPT !.branch = Main, !.retained = None], a)
        /\ Kept([dropped EXCEPT !.branch = Main, !.retained = None], a, paths)
    BY <1>0, <2>1 DEF SameQueues, AppOK, AppFields, Kept
  <2>7. SameQueues(Refreshed(onCursor, paths), a) /\ Kept(Refreshed(onCursor, paths), a, paths)
    BY <2>1 DEF SameQueues, Refreshed, AppOK, AppFields, Kept
  <2>8. \A ps : \A b \in Branch :
          LET d == Refreshed([dropped EXCEPT !.branch = b, !.retained = b], ps)
          IN  SameQueues(d, a) /\ d.game = a.game /\ d.cursor = None /\ d.seen = ps[a.game]
    BY <2>1 DEF SameQueues, Refreshed, AppOK, AppFields
  <2>9. LET d == Refreshed(moved, paths)
        IN  /\ d.game = a.game /\ d.seen = paths[a.game] /\ d.cursor.path = c.path
            /\ d.cursor.position = step.position
    <3> DEFINE e == [c EXCEPT !.position = step.position]
    <3>1. moved = [a EXCEPT !.cursor = e]
      OBVIOUS
    <3>2. e.path = c.path /\ e.position = step.position
      BY <2>1
    <3> HIDE DEF e, moved
    <3>3. DOMAIN moved = AppFields /\ moved.cursor = e /\ moved.game = a.game
      BY <2>1, <3>1 DEF AppFields
    <3> QED
      BY <3>2, <3>3 DEF Refreshed, AppFields
  <2> HIDE DEF dropped, onCursor, moved, step
  <2>10. CASE /\ step.outcome = "matched"
              /\ app' = Refreshed(IF AtTranslatableHead(c.path, step.position)
                                  THEN onCursor ELSE moved, paths)
              /\ UNCHANGED <<phase, turn, paths>>
    <3>1. CASE app' = Refreshed(onCursor, paths)
      BY <1>0, <2>7, <2>10, <3>1, HistoryKept
    <3>2. CASE app' = Refreshed(moved, paths)
      <4>1. /\ app'.game = a.game /\ app'.seen = paths[a.game] /\ app'.cursor.path = c.path
            /\ app'.cursor.position = step.position
        BY <2>9, <3>2
      <4>2. \A g \in Game : Held(paths, app', g) \subseteq Held(paths, a, g)
        BY <1>3, <4>1 DEF Held
      <4>3. \A g \in Game : PathsOK(Held(paths, app', g), n)
        BY <4>2 DEF HistoriesOK, PathsOK, OneDepth
      <4> QED
        BY <2>4, <2>10, <4>1, <4>3 DEF HistoriesOK
    <3> QED
      BY <2>10, <3>1, <3>2
  <2>11. CASE /\ Dispatch(Refreshed(onCursor, paths), q, batch) /\ UNCHANGED paths
    BY <1>1, <2>7, <2>11, SameQueuesShape
  <2>12. CASE Fork(dropped, q, batch, SubSeq(c.path, 1, step.position))
    <3> DEFINE path == SubSeq(c.path, 1, step.position)
    <3>1. ASSUME NEW name \in ForkNames(dropped.game),
                 LET forked == [paths EXCEPT ![dropped.game][name] = path]
                 IN  /\ paths' = forked
                     /\ Dispatch(Refreshed([dropped EXCEPT !.branch = name,
                                             !.retained = name], forked), q, batch)
          PROVE  HistoriesOK(paths', app', n)
      <4> DEFINE forked == [paths EXCEPT ![dropped.game][name] = path]
                 d == Refreshed([dropped EXCEPT !.branch = name, !.retained = name], forked)
      <4>0. dropped.game = a.game
        BY <2>1 DEF dropped, AppFields
      <4>2. name \in Branch /\ name # Main
        BY DEF ForkNames, FreeNames, ResumeName
      <4>1. paths' = forked /\ Dispatch(d, q, batch)
        BY <3>1
      <4>3. Prefix(path, c.path)
        BY <2>3, <2>4, SubSeqPrefix
      <4> HIDE DEF path
      <4>4. /\ \A b \in Branch : forked[a.game][b] = IF b = name THEN path ELSE paths[a.game][b]
            /\ \A g \in Game \ {a.game} : forked[g] = paths[g]
        BY <1>0, <4>0, <4>2 DEF Shapes, StoreOK
      <4> HIDE DEF forked
      <4>5. AppOK(d) /\ d.game = a.game /\ d.cursor = None /\ d.seen = forked[a.game]
        BY <2>8, <4>2, SameQueuesShape
      <4>6. app'.game = a.game /\ app'.cursor = None /\ app'.seen = forked[a.game]
        BY <4>1, <4>5, DispatchKept
      <4>7. ASSUME NEW g \in Game, NEW x \in Held(forked, app', g)
            PROVE  \E p \in Held(paths, a, g) : Prefix(x, p)
        <5>1. PICK b \in Branch : x = forked[g][b]
          BY <4>6 DEF Held
        <5>2. CASE g = a.game /\ b = name
          BY <2>2, <4>3, <4>4, <5>1, <5>2
        <5>3. CASE g # a.game \/ b # name
          <6>1. x = paths[g][b]
            BY <4>4, <5>1, <5>3
          <6>2. x \in Held(paths, a, g)
            BY <6>1 DEF Held
          <6> QED
            BY <6>2, PrefixSelf DEF HistoriesOK
        <5> QED
          BY <5>2, <5>3
      <4>8. forked[app'.game][Main] # <<>>
        BY <1>0, <4>2, <4>4, <4>6 DEF HistoriesOK
      <4> QED
        BY <4>1, <4>6, <4>7, <4>8, HistoryMoved
    <3>2. CASE /\ UNCHANGED paths
               /\ Dispatch([dropped EXCEPT !.branch = Main, !.retained = None], q, batch)
      BY <1>1, <2>6, <3>2, SameQueuesShape
    <3> QED
      BY <2>12, <3>1, <3>2 DEF Fork
  <2>13. CASE Dispatch([dropped EXCEPT !.branch = Main], q, batch) /\ UNCHANGED paths
    BY <1>0, <1>1, <2>5, <2>13, SameQueuesShape
  <2> QED
    BY <1>3, <2>10, <2>11, <2>12, <2>13 DEF Process, dropped, onCursor, moved, step
<1> QED
  BY <1>2, <1>3

(* A game that is activated has a main, and the window no cursor.          *)
LEMMA ActivatedHistory ==
  ASSUME Shapes, NEW n \in Nat, HistoriesOK(paths, app, n), NEW g \in Game,
         NEW ok \in BOOLEAN, Activate(g, ok)
  PROVE  HistoriesOK(paths', AppAfter(g, ok), n)
<1> DEFINE a == AppAfter(g, ok)
<1>1. CASE Switches(g, ok)
  <2>1. a = NewSession(app, g) /\ paths' = Ensured(g)
    BY <1>1 DEF Switches, AppAfter, Activated, Activate
  <2>2. a.game = g /\ a.cursor = None /\ a.seen = Ensured(g)[g]
    BY <2>1 DEF Shapes, AppOK, AppFields, NewSession, Refreshed
  <2>3. DOMAIN paths = Game /\ DOMAIN paths[g] = Branch /\ Main \in Branch
    BY PipelineAssumption DEF Shapes, StoreOK
  <2>4. Ensured(g)[g][Main] # <<>>
    BY <2>3 DEF Ensured, Exists
  <2> HIDE DEF a
  <2>5. ASSUME NEW x \in Game PROVE PathsOK(Held(paths', a, x), n)
    <3>1. \A b \in Branch : Ensured(g)[x][b] \in {paths[x][b], <<Root>>}
      BY <2>3 DEF Ensured, Shapes, StoreOK
    <3>2. Held(paths', a, x) \subseteq Held(paths, app, x) \cup {<<Root>>}
      BY <2>1, <2>2, <3>1 DEF Held
    <3>3. PathsOK(Held(paths, app, x) \cup {<<Root>>}, n)
      BY RootOK DEF HistoriesOK
    <3> QED
      BY <3>2, <3>3 DEF PathsOK, OneDepth
  <2> QED
    BY <2>1, <2>2, <2>4, <2>5 DEF HistoriesOK, a
<1>2. CASE ~ Switches(g, ok)
  <2>1. a = app /\ paths' = paths
    BY <1>2 DEF Switches, AppAfter, Activated, Activate
  <2> QED
    BY <2>1
<1> QED
  BY <1>1, <1>2

(* A new commit on a branch.                                               *)
LEMMA CommitHistory ==
  ASSUME Shapes, NEW n \in Nat, HistoriesOK(paths, app, n),
         NEW g \in Game, NEW b \in Branch, NEW sig,
         paths' = [paths EXCEPT ![g][b] = Append(paths[g][b], [id |-> n + 1, sig |-> sig])],
         Kept(app', app, paths')
  PROVE  HistoriesOK(paths', app', n + 1)
<1> DEFINE p == paths[g][b]
           q == Append(p, [id |-> n + 1, sig |-> sig])
<1>1. DOMAIN paths = Game /\ (\A x \in Game : DOMAIN paths[x] = Branch)
      /\ Main \in Branch /\ app.game \in Game
  BY PipelineAssumption DEF Shapes, StoreOK, AppOK
<1>2. p \in Held(paths, app, g)
  BY DEF Held
<1>3. p \in Seq(Elements(p))
  BY <1>2 DEF HistoriesOK, PathsOK, PathOK, IsPath
<1>4. q # <<>>
  BY <1>3
<1>5. PathsOK(Held(paths, app, g) \cup {q}, n + 1)
  BY <1>2, CommitOK DEF HistoriesOK
<1>6. \A x \in Game : PathsOK(Held(paths, app, x), n + 1)
  <2>1. \A i \in 0 .. n : i \in 0 .. n + 1
    OBVIOUS
  <2> QED
    BY <2>1 DEF HistoriesOK, PathsOK, PathOK
<1> HIDE DEF p, q
<1>7. \A x \in Game, y \in Branch :
        paths'[x][y] = IF x = g /\ y = b THEN q ELSE paths[x][y]
  BY <1>1 DEF p, q
<1>8. ASSUME NEW x \in Game PROVE PathsOK(Held(paths', app', x), n + 1)
  <2>1. CASE x = g
    <3>1. Held(paths', app', x) \subseteq Held(paths, app, g) \cup {q}
      <4> SUFFICES ASSUME NEW y \in Held(paths', app', g)
                   PROVE  y \in Held(paths, app, g) \cup {q}
        BY <2>1
      <4>1. ASSUME NEW z \in Branch
            PROVE  paths'[g][z] \in Held(paths, app, g) \cup {q}
        <5>1. paths'[g][z] = q \/ paths'[g][z] = paths[g][z]
          BY <1>7
        <5>2. paths[g][z] \in Held(paths, app, g)
          BY DEF Held
        <5> QED
          BY <5>1, <5>2
      <4>2. CASE \E z \in Branch : y = paths'[g][z]
        BY <4>1, <4>2
      <4>3. CASE g = app.game /\ (app'.cursor # None /\ y = app'.cursor.path)
        BY <4>3 DEF Held, Kept
      <4>4. CASE g = app.game /\ \E z \in Branch : y = app'.seen[z]
        <5>1. PICK z \in Branch : y = app'.seen[z]
          BY <4>4
        <5>2. app'.seen = app.seen \/ app'.seen = paths'[g]
          BY <4>4 DEF Kept
        <5> QED
          BY <4>1, <4>4, <5>1, <5>2 DEF Held
      <4> QED
        BY <4>2, <4>3, <4>4 DEF Held, Kept
    <3> QED
      BY <1>5, <3>1 DEF PathsOK, OneDepth
  <2>2. CASE x # g
    <3>1. Held(paths', app', x) \subseteq Held(paths, app, x)
      BY <1>1, <1>7, <2>2 DEF Held, Kept
    <3> QED
      BY <1>6, <3>1 DEF PathsOK, OneDepth
  <2> QED
    BY <2>1, <2>2
<1>9. paths'[app'.game][Main] # <<>>
  BY <1>1, <1>4, <1>7 DEF HistoriesOK, Kept
<1> QED
  BY <1>8, <1>9 DEF HistoriesOK, Kept

(* A detection that ends puts the cursor on a commit, or drops it.         *)
LEMMA FinishedHistory ==
  ASSUME NEW a, AppOK(a), NEW n, HistoriesOK(paths, a, n), StoreOK(paths),
         NEW observed, NEW chosen \in SUBSET ResumeCandidates(paths[a.game], observed)
  PROVE  HistoriesOK(paths, Finished(a, chosen), n)
<1> DEFINE f == Finished(a, chosen)
           c == CHOOSE c \in chosen : TRUE
           cursor == [branch |-> c.branch, position |-> c.position,
                      path |-> paths[a.game][c.branch]]
           l == Located(a, chosen)
<1>0. DOMAIN a = AppFields /\ a.game \in Game /\ DOMAIN paths[a.game] = Branch
  BY DEF AppOK, StoreOK
<1>1. CASE chosen = {}
  <2>1. DOMAIN l = AppFields /\ l.game = a.game /\ l.cursor = None
    BY <1>0, <1>1 DEF Located, AppFields
  <2> HIDE DEF l
  <2>2. f.game = a.game /\ f.cursor = None /\ f.seen = paths[a.game]
    BY <2>1 DEF l, Finished, Released, Refreshed, AppFields
  <2> HIDE DEF f
  <2>3. Kept(f, a, paths)
    BY <2>2 DEF Kept
  <2> QED
    BY <1>0, <2>3, HistoryKept DEF f
<1>2. CASE chosen # {}
  <2>1. c \in chosen
    BY <1>2
  <2>2. PathsOK({paths[a.game][b] : b \in Branch}, n)
    BY <1>0 DEF HistoriesOK, PathsOK, OneDepth, Held
  <2>3. c.branch \in Branch /\ c.position \in DOMAIN paths[a.game][c.branch]
    BY <1>0, <2>1, <2>2, CandidateIn
  <2> HIDE DEF c, cursor
  <2>4. DOMAIN l = AppFields /\ l.game = a.game /\ l.cursor = cursor
    BY <1>0, <1>2 DEF Located, AppFields, c, cursor
  <2> HIDE DEF l
  <2>5. f.game = a.game /\ f.cursor = cursor /\ f.seen = paths[a.game]
    BY <2>4 DEF l, Finished, Released, Refreshed, AppFields
  <2>6. cursor.path = paths[a.game][c.branch] /\ cursor.position = c.position
    BY DEF cursor
  <2> HIDE DEF f
  <2>7. \A g \in Game : Held(paths, f, g) \subseteq Held(paths, a, g)
    BY <2>3, <2>5, <2>6 DEF Held
  <2>8. \A g \in Game : PathsOK(Held(paths, f, g), n)
    BY <2>7 DEF HistoriesOK, PathsOK, OneDepth
  <2>9. HistoriesOK(paths, f, n)
    BY <2>3, <2>5, <2>6, <2>8 DEF HistoriesOK
  <2> QED
    BY <2>9 DEF f
<1> QED
  BY <1>1, <1>2

(* An empty list holds no path, and the end of a detection that finds      *)
(* nothing leaves the cursor where it is.                                  *)
LEMMA UnlistedHistory ==
  ASSUME NEW a, AppOK(a), NEW n, HistoriesOK(paths, a, n), NEW u \in Ends(a)
  PROVE  HistoriesOK(paths, u, n)
<1>1. /\ u.game = a.game /\ u.cursor = a.cursor /\ a.game \in Game /\ Main \in Branch
      /\ u.seen = a.seen \/ \A b \in Branch : u.seen[b] = <<>>
  BY UnlistedShape, PipelineAssumption DEF AppOK
<1>2. \A p : Prefix(<<>>, p)
  BY DEF Prefix
<1>3. ASSUME NEW g \in Game, NEW q \in Held(paths, u, g)
      PROVE  \E p \in Held(paths, a, g) : Prefix(q, p)
  <2>1. CASE q \in Held(paths, a, g)
    BY <2>1, PrefixSelf DEF HistoriesOK
  <2>2. CASE q = <<>>
    <3>1. paths[g][Main] \in Held(paths, a, g)
      BY <1>1 DEF Held
    <3> QED
      BY <1>2, <2>2, <3>1
  <2> QED
    BY <1>1, <2>1, <2>2 DEF Held
<1> QED
  BY <1>1, <1>3, HistoryMoved DEF HistoriesOK

LEMMA ReleasedHistory ==
  ASSUME NEW a, AppOK(a), NEW n, HistoriesOK(paths, a, n)
  PROVE  HistoriesOK(paths, Released(a), n)
<1>1. Kept(Released(a), a, paths) /\ a.game \in Game
  BY ReleasedShape DEF Kept, AppOK
<1> QED
  BY <1>1, HistoryKept

(* What a turn does to a session whose position is sought.                 *)
LEMMA ObservedHistory ==
  ASSUME Shapes, NEW n, HistoriesOK(paths, app, n), NEW batch \in Batch,
         app.detecting, \A t \in Elements(batch) : t.game = app.game,
         NEW late \in BOOLEAN
  PROVE  /\ HistoriesOK(paths, Observed(app, batch, late), n)
         /\ HistoriesOK(paths, Finished([app EXCEPT !.buffer = Append(@, batch)], {}), n)
         /\ HistoriesOK(paths, Released([app EXCEPT !.buffer = Append(@, batch)]), n)
         /\ AppOK(Observed(app, batch, late))
         /\ AppOK(Finished([app EXCEPT !.buffer = Append(@, batch)], {}))
         /\ AppOK(Released([app EXCEPT !.buffer = Append(@, batch)]))
<1> DEFINE b == [app EXCEPT !.buffer = Append(app.buffer, batch)]
           signatures == [i \in DOMAIN b.buffer |-> Signature(b.buffer[i])]
           candidates == ResumeCandidates(paths[app.game], signatures)
           o == Observed(app, batch, late)
<1>1. AppOK(b)
  BY ObservedShape
<1>2. b.game = app.game /\ b.cursor = app.cursor /\ b.seen = app.seen /\ app.game \in Game
  BY DEF Shapes, AppOK, AppFields
<1>3. /\ o \in {Finished(b, {}), Finished(b, candidates), Refreshed(b, paths)}
      /\ Finished([app EXCEPT !.buffer = Append(@, batch)], {}) = Finished(b, {})
      /\ Released([app EXCEPT !.buffer = Append(@, batch)]) = Released(b)
  <2>1. Candidates(b) = candidates
    BY <1>2 DEF Candidates
  <2> QED
    BY <2>1 DEF Observed
<1>9. AppOK(o)
  <2>1. \A chosen : (\A c \in chosen : c.branch \in Branch) => AppOK(Finished(b, chosen))
    BY <1>1, FinishedShape
  <2> QED
    BY <2>1, ObservedShape
<1>10. AppOK(Finished(b, {})) /\ AppOK(Released(b))
  <2>1. \A c \in {} : c.branch \in Branch
    OBVIOUS
  <2> QED
    BY <1>1, <2>1, FinishedShape, ReleasedShape
<1> HIDE DEF b, o, signatures
<1>4. Kept(b, app, paths)
  BY <1>2 DEF Kept
<1>5. HistoriesOK(paths, b, n)
  BY <1>2, <1>4, HistoryKept
<1>6. StoreOK(paths) /\ candidates \in SUBSET ResumeCandidates(paths[b.game], signatures)
      /\ {} \in SUBSET ResumeCandidates(paths[b.game], signatures)
  BY <1>2 DEF Shapes
<1> HIDE DEF candidates
<1>7. HistoriesOK(paths, Finished(b, {}), n) /\ HistoriesOK(paths, Finished(b, candidates), n)
  BY <1>1, <1>5, <1>6, FinishedHistory
<1>8. HistoriesOK(paths, Refreshed(b, paths), n)
  <2>1. Kept(Refreshed(b, paths), b, paths)
    BY <1>1, RefreshedShape DEF Kept
  <2> QED
    BY <1>2, <1>5, <2>1, HistoryKept
<1>11. HistoriesOK(paths, Released(b), n)
  BY <1>1, <1>5, ReleasedHistory
<1> QED
  BY <1>3, <1>7, <1>8, <1>9, <1>10, <1>11 DEF o

(* A detection that begins drops the cursor.                               *)
LEMMA DetectingKept ==
  ASSUME NEW a, AppOK(a), NEW ps
  PROVE  Kept(Detecting(a), a, ps) /\ Kept(a, a, ps)
BY DEF Kept, Detecting, AppOK, AppFields

(* An event of a hook may activate a game and begin a detection.           *)
LEMMA EventApp ==
  ASSUME Shapes, NEW s \in Source,
         \/ Connected(s)
         \/ \E h \in Hook : Candidate(s, h) \/ \E x \in Text : HookedText(s, h, x)
  PROVE  \E ok \in BOOLEAN :
           /\ Activate(GameOf[s], ok)
           /\ LET a == AppAfter(GameOf[s], ok)
              IN  app' = a \/ app' = Detecting(a) \/ app' = Detecting(Detecting(a))
<1> DEFINE g == GameOf[s]
<1>1. g \in Game
  BY PipelineAssumption
<1> HIDE DEF g
<1> SUFFICES \E ok \in BOOLEAN :
               /\ Activate(g, ok)
               /\ LET a == AppAfter(g, ok)
                  IN  app' = a \/ app' = Detecting(a) \/ app' = Detecting(Detecting(a))
  BY DEF g
<1>2. CASE Connected(s)
  BY <1>2 DEF Connected, Outcomes, g
<1>3. CASE \E h \in Hook : Candidate(s, h)
  BY <1>3 DEF Candidate, Outcomes, g
<1>4. CASE \E h \in Hook : \E x \in Text : HookedText(s, h, x)
  <2>1. PICK h \in Hook, x \in Text : HookedText(s, h, x)
    BY <1>4
  <2>2. PICK ok \in Outcomes, at \in 0 .. MaxTime :
          LET a == AppAfter(g, ok)
              q == PendingAfter(g, ok)
              t == [n |-> texts + 1, from |-> g, game |-> a.game, hook |-> h,
                    text |-> x, at |-> at, post |-> FALSE, updated |-> TRUE]
          IN  /\ Activate(g, ok)
              /\ IF s \in NativeSource
                 THEN QueueText(IF a.started THEN a ELSE Detecting(a), q, t)
                 ELSE IF <<h, s>> \in routes THEN QueueText(a, q, t)
                      ELSE Ignore(a, q)
    BY <2>1 DEF HookedText, g
  <2>3. ok \in BOOLEAN
    BY <2>2 DEF Outcomes
  <2> DEFINE a == AppAfter(g, ok)
  <2>4. AppOK(a)
    BY <1>1, <2>3, ActivatedShape
  <2>5. ASSUME NEW b, NEW q, NEW t, QueueText(b, q, t) \/ Ignore(b, q)
        PROVE  app' = b \/ app' = Detecting(b)
    BY <2>5 DEF QueueText, Ignore, Accept
  <2>6. app' = a \/ app' = Detecting(a) \/ app' = Detecting(Detecting(a))
    <3> HIDE DEF a
    <3>1. a.started \in BOOLEAN
      BY <2>4 DEF AppOK
    <3> QED
      BY <2>2, <2>5, <3>1 DEF a
  <2> QED
    BY <2>2, <2>3, <2>6
<1> QED
  BY <1>2, <1>3, <1>4

(* Every event of a hook keeps the histories sound.                        *)
LEMMA HookHistory ==
  ASSUME Shapes, Histories, NEW s \in Source,
         \/ Connected(s) \/ Disconnected(s)
         \/ \E h \in Hook : Candidate(s, h) \/ \E x \in Text : HookedText(s, h, x)
  PROVE  Histories'
<1> DEFINE g == GameOf[s]
<1>1. g \in Game
  BY PipelineAssumption
<1> HIDE DEF g
<1>2. CASE Disconnected(s)
  <2> DEFINE b == [app EXCEPT !.started = FALSE, !.detecting = FALSE,
                              !.manual = FALSE, !.buffer = <<>>]
  <2>1. app' = b /\ UNCHANGED <<paths, commits>>
    BY <1>2 DEF Disconnected, storeVars
  <2>2. Kept(b, app, paths) /\ app.game \in Game
    BY DEF Shapes, AppOK, AppFields, Kept
  <2> HIDE DEF b
  <2> QED
    BY <2>1, <2>2, HistoryKept DEF Histories
<1>3. CASE ~ Disconnected(s)
  <2>1. PICK ok \in BOOLEAN :
          /\ Activate(g, ok)
          /\ LET a == AppAfter(g, ok)
             IN  app' = a \/ app' = Detecting(a) \/ app' = Detecting(Detecting(a))
    BY <1>3, EventApp DEF g
  <2> DEFINE a == AppAfter(g, ok)
  <2>3. HistoriesOK(paths', a, commits) /\ AppOK(a)
    BY <1>1, <2>1, ActivatedHistory, ActivatedShape DEF Histories
  <2>4. app' = a \/ app' = Detecting(a) \/ app' = Detecting(Detecting(a))
    BY <2>1
  <2>5. commits' = commits
    BY <2>1 DEF Activate
  <2> HIDE DEF a
  <2>6. HistoriesOK(paths', Detecting(a), commits) /\ AppOK(Detecting(a))
    BY <2>3, DetectingKept, DetectingShape, HistoryKept DEF AppOK
  <2>7. HistoriesOK(paths', Detecting(Detecting(a)), commits)
    BY <2>6, DetectingKept, HistoryKept DEF AppOK
  <2> QED
    BY <2>3, <2>4, <2>5, <2>6, <2>7 DEF Histories
<1> QED
  BY <1>2, <1>3

(* So does every step of a poll.                                           *)
LEMMA PollHistory ==
  ASSUME Shapes, Histories, PollStart \/ Rest \/ DetectionTimesOut \/ TakeReady \/ TakePending
  PROVE  Histories'
<1>1. CASE PollStart \/ Rest
  <2>1. UNCHANGED <<app, paths, commits>>
    BY <1>1 DEF PollStart, Rest, storeVars
  <2> QED
    BY <2>1 DEF Histories
<1>2. CASE DetectionTimesOut
  <2>1. app' \in Ends(Finished(app, {})) /\ UNCHANGED <<paths, commits>>
    BY <1>2 DEF DetectionTimesOut, storeVars
  <2>2. {} \in SUBSET ResumeCandidates(paths[app.game], <<>>) /\ \A c \in {} : c.branch \in Branch
    OBVIOUS
  <2>3. HistoriesOK(paths, Finished(app, {}), commits) /\ AppOK(Finished(app, {}))
    BY <2>2, FinishedHistory, FinishedShape DEF Histories, Shapes
  <2> QED
    BY <2>1, <2>3, UnlistedHistory DEF Histories
<1>3. CASE TakeReady
  <2> DEFINE a == [app EXCEPT !.ready = Tail(app.ready)]
             batch == Head(app.ready)
  <2>1. Process(a, pending, batch) /\ app.ready # <<>> /\ UNCHANGED commits
    BY <1>3 DEF TakeReady
  <2>2. /\ batch \in Batch /\ Tail(app.ready) \in Seq(Batch)
        /\ Texts(app.ready) = Elements(batch) \cup Texts(Tail(app.ready))
    BY <2>1, BatchesShape DEF Shapes, AppOK
  <2>3. /\ DOMAIN a = AppFields /\ a.game = app.game /\ a.branch = app.branch
        /\ a.retained = app.retained /\ a.cursor = app.cursor
        /\ a.detecting = app.detecting /\ a.started = app.started
        /\ a.manual = app.manual /\ a.buffer = app.buffer
        /\ a.ready = Tail(app.ready) /\ a.seen = app.seen
    BY DEF Shapes, AppOK, AppFields
  <2> HIDE DEF a, batch
  <2>4. AppOK(app)
    BY DEF Shapes
  <2>5. AppOK(a)
    BY <2>2, <2>3, <2>4 DEF AppOK
  <2>6. BufferOK(a) /\ Kept(a, app, paths)
    BY <2>3 DEF Shapes, BufferOK, Kept
  <2>7. HistoriesOK(paths, a, commits)
    BY <2>4, <2>6, HistoryKept DEF Histories, AppOK
  <2> QED
    BY <2>1, <2>5, <2>6, <2>7, ProcessHistory DEF Histories
<1>4. CASE TakePending
  <2> DEFINE e == NextTurnOf(pending)
  <2>1. /\ pending # <<>> /\ UNCHANGED commits
        /\ IF app.detecting
           THEN /\ \/ \E late \in BOOLEAN : app' \in Ends(Observed(app, e.batch, late))
                   \/ app' \in Ends(Finished([app EXCEPT !.buffer = Append(@, e.batch)], {}))
                   \/ app' \in Ends(Released([app EXCEPT !.buffer = Append(@, e.batch)]))
                /\ UNCHANGED paths
           ELSE Process(app, e.rest, e.batch)
    BY <1>4 DEF TakePending
  <2>2. /\ e.batch \in Batch /\ \A t \in Elements(e.batch) : t.game = app.game
    BY <2>1, TurnShape
  <2> HIDE DEF e
  <2>3. CASE app.detecting
    <3>1. PICK o : AppOK(o) /\ HistoriesOK(paths, o, commits) /\ app' \in Ends(o)
      BY <2>1, <2>2, <2>3, ObservedHistory DEF Histories
    <3>2. HistoriesOK(paths, app', commits)
      BY <3>1, UnlistedHistory
    <3> QED
      BY <2>1, <2>3, <3>2 DEF Histories
  <2>4. CASE ~ app.detecting
    BY <2>1, <2>4, ProcessHistory DEF Histories, Shapes
  <2> QED
    BY <2>3, <2>4
<1> QED
  BY <1>1, <1>2, <1>3, <1>4

(* So does the engine, and every message of the user.                      *)
LEMMA EngineHistory ==
  ASSUME Shapes, Histories, EngineReads \/ EngineCommits \/ EngineFails \/ Complete
  PROVE  Histories'
<1>1. AppOK(app) /\ app.game \in Game /\ Kept(app, app, paths')
  BY DEF Shapes, AppOK, Kept
<1>2. CASE EngineReads \/ EngineFails \/ Complete
  <2>1. (app' = app \/ app' = Refreshed(app, paths)) /\ UNCHANGED <<paths, commits>>
    BY <1>2 DEF EngineReads, EngineFails, Complete, Engine, storeVars
  <2>2. Kept(app', app, paths)
    BY <1>1, <2>1, RefreshedShape DEF Kept
  <2> QED
    BY <1>1, <2>1, <2>2, HistoryKept DEF Histories
<1>3. CASE EngineCommits
  <2>1. /\ turn.stage = "running" /\ app' = app /\ commits' = commits + 1
        /\ paths' = [paths EXCEPT ![turn.game][turn.branch] =
             Append(paths[turn.game][turn.branch],
                    [id |-> commits + 1, sig |-> CommitSignature(turn.batch)])]
    BY <1>3 DEF EngineCommits, Engine
  <2>2. turn.game \in Game /\ turn.branch \in Branch
    BY <2>1 DEF Shapes, TurnOK, NoTurn
  <2>3. commits \in Nat /\ HistoriesOK(paths, app, commits)
    BY DEF Histories
  <2>4. HistoriesOK(paths', app', commits + 1)
    BY <1>1, <2>1, <2>2, <2>3, CommitHistory
  <2> QED
    BY <2>1, <2>3, <2>4 DEF Histories
<1> QED
  BY <1>2, <1>3

(* A branch made by the user begins with the path of the active one, and a *)
(* commit selected in the list is on a path the window has.                *)
LEMMA UserHistory ==
  ASSUME Shapes, Histories, UserMessage
  PROVE  Histories'
<1>1. PICK h \in Hook \cup {0}, b \in Branch, c \in HookSettings :
        \/ h \in Hook /\ (Forget(h) \/ ChangeHook(h, c))
        \/ Detach \/ CommitScratchpad
        \/ \E setting \in {"model", "latest"} : Configure(setting)
        \/ \E i \in DOMAIN app.seen[b] : SelectCommit(b, i)
        \/ \E name \in UserBranch : CreateBranch(name)
  <2>1. Main \in Branch /\ [enabled |-> FALSE, post |-> FALSE] \in HookSettings
    BY PipelineAssumption DEF HookSettings
  <2> QED
    BY <2>1 DEF UserMessage
<1>2. AppOK(app) /\ app.game \in Game /\ app.branch \in Branch /\ commits \in Nat
      /\ HistoriesOK(paths, app, commits) /\ DOMAIN app = AppFields
  BY DEF Shapes, AppOK, Histories
<1>3. CASE \/ h \in Hook /\ (Forget(h) \/ ChangeHook(h, c))
           \/ Detach \/ \E setting \in {"model", "latest"} : Configure(setting)
  <2>1. UNCHANGED <<app, paths, commits>>
    BY <1>3 DEF Forget, ChangeHook, Detach, Configure, storeVars
  <2> QED
    BY <2>1 DEF Histories
<1>4. CASE CommitScratchpad
  <2>1. /\ app' = Refreshed(app, paths') /\ commits' = commits + 1
        /\ paths' = [paths EXCEPT ![app.game][app.branch] =
             Append(paths[app.game][app.branch],
                    [id |-> commits + 1, sig |-> Structural])]
    BY <1>4 DEF CommitScratchpad
  <2> DEFINE ps == paths'
  <2>2. Kept(Refreshed(app, ps), app, ps)
    <3> HIDE DEF ps
    <3> QED
      BY <1>2, RefreshedShape DEF Kept
  <2>3. HistoriesOK(paths', app', commits + 1)
    BY <1>2, <2>1, <2>2, CommitHistory
  <2> QED
    BY <1>2, <2>1, <2>3 DEF Histories
<1>5. CASE \E name \in UserBranch : CreateBranch(name)
  <2>1. PICK name \in UserBranch : CreateBranch(name)
    BY <1>5
  <2> DEFINE path == paths[app.game][app.branch]
             ps == paths'
  <2>2. /\ path # <<>> /\ ps = [paths EXCEPT ![app.game][name] = path]
        /\ app' = Refreshed(app, ps) /\ commits' = commits
    BY <2>1 DEF CreateBranch, Exists
  <2>3. name \in Branch /\ DOMAIN paths = Game /\ Main \in Branch
        /\ \A g \in Game : DOMAIN paths[g] = Branch
    BY PipelineAssumption DEF Shapes, StoreOK
  <2>4. path \in Held(paths, app, app.game)
    BY <1>2 DEF Held
  <2> HIDE DEF path
  <2>5. \A g \in Game, x \in Branch :
          ps[g][x] = IF g = app.game /\ x = name THEN path ELSE paths[g][x]
    BY <1>2, <2>2, <2>3
  <2> HIDE DEF ps
  <2>6. app'.game = app.game /\ app'.cursor = app.cursor /\ app'.seen = ps[app.game]
    BY <1>2, <2>2, RefreshedShape
  <2>7. ASSUME NEW g \in Game, NEW q \in Held(ps, app', g)
        PROVE  q \in Held(paths, app, g)
    <3>1. \A x \in Branch : ps[g][x] \in Held(paths, app, g)
      <4> TAKE x \in Branch
      <4>1. paths[g][x] \in Held(paths, app, g)
        BY DEF Held
      <4> QED
        BY <2>4, <2>5, <4>1
    <3>2. \/ \E x \in Branch : q = ps[g][x]
          \/ g = app.game /\ app.cursor # None /\ q = app.cursor.path
      BY <2>6 DEF Held
    <3>3. CASE g = app.game /\ app.cursor # None /\ q = app.cursor.path
      BY <3>3 DEF Held
    <3> QED
      BY <3>1, <3>2, <3>3
  <2>8. \A g \in Game : \A q \in Held(ps, app', g) : \E p \in Held(paths, app, g) : Prefix(q, p)
    BY <1>2, <2>7, PrefixSelf DEF HistoriesOK
  <2>9. ps[app'.game][Main] # <<>>
    BY <1>2, <2>2, <2>3, <2>5, <2>6 DEF HistoriesOK
  <2>10. app'.cursor # None => app'.cursor.position \in DOMAIN app'.cursor.path
    BY <1>2, <2>6 DEF HistoriesOK
  <2> DEFINE d == app'
  <2>11. HistoriesOK(ps, d, commits)
    <3>1. /\ ps[d.game][Main] # <<>>
          /\ d.cursor # None => d.cursor.position \in DOMAIN d.cursor.path
          /\ \A g \in Game : \A q \in Held(ps, d, g) : \E p \in Held(paths, app, g) : Prefix(q, p)
      BY <2>8, <2>9, <2>10
    <3> HIDE DEF d
    <3> QED
      BY <1>2, <3>1, HistoryMoved
  <2> QED
    BY <1>2, <2>2, <2>11 DEF Histories, ps
<1>6. CASE \E i \in DOMAIN app.seen[b] : SelectCommit(b, i)
  <2>1. PICK i \in DOMAIN app.seen[b] : SelectCommit(b, i)
    BY <1>6
  <2> DEFINE kept == IF app.retained = b THEN b ELSE None
             cursor == [branch |-> b, path |-> app.seen[b], position |-> i]
             a == [app EXCEPT !.retained = kept, !.cursor = cursor,
                     !.branch = b, !.detecting = FALSE, !.started = TRUE,
                     !.manual = TRUE, !.ready = app.ready \o app.buffer,
                     !.buffer = <<>>, !.found = {}]
  <2>2. app' = Refreshed(a, paths) /\ UNCHANGED <<paths, commits>>
    BY <2>1 DEF SelectCommit, storeVars
  <2>3. DOMAIN a = AppFields /\ a.game = app.game /\ a.cursor = cursor
    BY <1>2 DEF AppFields
  <2>4. cursor.path = app.seen[b] /\ cursor.position = i
    OBVIOUS
  <2> HIDE DEF a, cursor
  <2>5. app'.game = app.game /\ app'.cursor = cursor /\ app'.seen = paths[app.game]
    BY <2>2, <2>3 DEF Refreshed, AppFields
  <2>6. \A g \in Game : Held(paths, app', g) \subseteq Held(paths, app, g)
    BY <2>4, <2>5 DEF Held
  <2>7. \A g \in Game : PathsOK(Held(paths, app', g), commits)
    BY <1>2, <2>6 DEF HistoriesOK, PathsOK, OneDepth
  <2>8. HistoriesOK(paths, app', commits)
    BY <1>2, <2>1, <2>4, <2>5, <2>7 DEF HistoriesOK
  <2> QED
    BY <1>2, <2>2, <2>8 DEF Histories
<1> QED
  BY <1>1, <1>3, <1>4, <1>5, <1>6

(* The histories of earlier launches are sound.                            *)
LEMMA HistoryInit == Init => Histories
<1> SUFFICES ASSUME Init PROVE Histories
  OBVIOUS
<1>1. /\ paths \in History /\ commits = FirstId /\ app.game = Default /\ app.cursor = None
      /\ app.seen = paths[Default]
  BY DEF Init
<1>2. /\ paths[Default][Main] # <<>>
      /\ \A g \in Game : /\ OneDepth({paths[g][b] : b \in Branch})
                         /\ \A b \in Branch : PathOK(paths[g][b], FirstId)
  BY <1>1, HistoryAssumption DEF PathOK
<1>3. \A g \in Game : Held(paths, app, g) \subseteq {paths[g][b] : b \in Branch}
  BY <1>1 DEF Held
<1>4. \A g \in Game : PathsOK(Held(paths, app, g), FirstId)
  BY <1>2, <1>3 DEF PathsOK, OneDepth
<1>5. FirstId \in Nat
  BY PipelineAssumption
<1> QED
  BY <1>1, <1>2, <1>4, <1>5 DEF Histories, HistoriesOK

(* Every step of the system keeps the histories sound.                     *)
LEMMA HistoryStep == Shapes /\ Histories /\ [Next]_vars => Histories'
<1> SUFFICES ASSUME Shapes, Histories, [Next]_vars PROVE Histories'
  OBVIOUS
<1>1. CASE HookEvent
  <2>1. PICK s \in Source : \/ Connected(s) \/ Disconnected(s)
                            \/ \E h \in Hook : Candidate(s, h) \/ \E x \in Text : HookedText(s, h, x)
    BY <1>1 DEF HookEvent
  <2> QED
    BY <2>1, HookHistory
<1>2. CASE PollStart \/ Rest \/ DetectionTimesOut \/ TakeReady \/ TakePending
  BY <1>2, PollHistory
<1>3. CASE EngineReads \/ EngineCommits \/ EngineFails \/ Complete
  BY <1>3, EngineHistory
<1>4. CASE UserMessage
  BY <1>4, UserHistory
<1>5. CASE UNCHANGED vars
  BY <1>5 DEF vars, storeVars, Histories
<1> QED
  BY <1>1, <1>2, <1>3, <1>4, <1>5 DEF Next

(* In every state of the window the cursor stands on a commit of its path, *)
(* the active game has a main, and the paths of a game agree on how deep a *)
(* commit lies in it.                                                      *)
THEOREM HistoriesHold == Spec => []Histories
<1> QED
  BY ShapesHold, HistoryInit, HistoryStep, PTL DEF Spec

(* Every queue, cursor, setting and message of the window keeps its type.  *)
THEOREM TypesHold == Spec => []TypeOK
<1>1. Shapes /\ Histories => TypeOK
  <2> SUFFICES ASSUME Shapes, Histories PROVE TypeOK
    OBVIOUS
  <2>1. AppOK(app) /\ BufferOK(app) /\ QueueOK(pending, app) /\ TurnOK /\ LatestOK
    BY DEF Shapes
  <2>2. /\ app.cursor # None => /\ app.cursor.branch \in Branch
                                /\ app.cursor.position \in DOMAIN app.cursor.path
        /\ \A g \in Game : app.game = g => Exists(g, Main)
    BY <2>1 DEF AppOK, Histories, HistoriesOK, Exists
  <2>3. \A b \in Elements(app.buffer) \cup Elements(app.ready) :
          b # <<>> /\ b \in Seq(HookedTexts)
    BY <2>1, ElementsShape DEF AppOK, Batch
  <2>4. Queued \cup latest \subseteq HookedTexts
    <3>1. Elements(pending) \subseteq HookedTexts /\ latest \subseteq HookedTexts
      BY <2>1, ElementsShape DEF QueueOK, LatestOK
    <3>2. \A b \in Elements(app.buffer) \cup Elements(app.ready) :
            Elements(b) \subseteq HookedTexts
      BY <2>3, ElementsShape
    <3> QED
      BY <3>1, <3>2 DEF Queued
  <2>5. Len(pending) <= MaxPending /\ Len(app.buffer) <= 3
    <3>1. Len(app.buffer) \in Nat
      BY <2>1 DEF AppOK
    <3>2. Len(app.buffer) <= 2 \/ Len(app.buffer) <= 0
      BY <2>1 DEF BufferOK
    <3> QED
      BY <2>1, <3>1, <3>2 DEF QueueOK
  <2>6. turn.stage \in {"none", "queued", "running", "done", "failed"}
    BY <2>1 DEF TurnOK, NoTurn
  <2>7. <<app.detecting, app.started, app.manual>> \in BOOLEAN \X BOOLEAN \X BOOLEAN
    BY <2>1 DEF AppOK
  <2> QED
    BY <2>1, <2>2, <2>3, <2>4, <2>5, <2>6, <2>7 DEF TypeOK, Shapes, AppOK
<1> QED
  BY <1>1, ShapesHold, HistoriesHold, PTL

=============================================================================
