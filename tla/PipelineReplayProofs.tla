------------------------ MODULE PipelineReplayProofs ------------------------
(* Theorems about TurnPipeline: what detection and a replay identify.      *)
EXTENDS PipelineOrderProofs

(* The texts of X with one number are of one hook.                         *)
Named(X) == \A s, t \in X : s.n = t.n => s.hook = t.hook

(* The turns of L are the next turns of a path.                            *)
Follows(path, position, L) ==
  \E f \in [DOMAIN L -> DOMAIN path] : \A k \in DOMAIN L :
    /\ IsTurn(path[f[k]]) /\ path[f[k]].sig = Signature(L[k])
    /\ LET p == IF k = 1 THEN position ELSE f[k - 1]
       IN  p < f[k] /\ \A i \in p + 1 .. f[k] - 1 : IsStructural(path[i])

(* What a session whose position was found still has to handle follows the *)
(* cursor.                                                                 *)
FoundFollows(a) ==
  a.found # {} =>
    /\ ~ a.detecting
    /\ a.ready # <<>> => /\ a.cursor # None
                         /\ Follows(a.cursor.path, a.cursor.position, a.ready)

(* The texts found come before those that wait, and their numbers are      *)
(* their own.                                                              *)
FoundOlder(O, a, q, last, n) ==
  /\ a.found \subseteq HookedTexts
  /\ \A s \in a.found : s.updated /\ s.n <= n
  /\ Before(O, a.found, Elements(q))
  /\ Named(a.found \cup Texts(a.buffer) \cup Elements(q) \cup last)

(* The model is not asked for a new text that was found, unless it is one  *)
(* that has overtaken another.                                             *)
Unanswered(O, a, t) ==
  t # NoTurn =>
    \A x \in Elements(t.batch) :
      x.updated => (\E o \in O : o[1] = x.n) \/ \A s \in a.found : s.n # x.n

(* The texts of Y are, but for their settings, texts of X, or the next     *)
(* text of hook h.                                                         *)
Renames(Y, X, n, h) ==
  \A y \in Y : \/ \E x \in X : x.n = y.n /\ x.hook = y.hook
               \/ y.n = n + 1 /\ y.hook = h

(* The inductive invariant of detection.                                   *)
Detections ==
  /\ FoundFollows(app)
  /\ FoundOlder(overtaken, app, pending, latest, texts)
  /\ Unanswered(overtaken, app, turn)

(* A turn the cursor is followed by matches, and the others follow on.     *)
LEMMA FollowsStep ==
  ASSUME NEW S, NEW path \in Seq(S), NEW position \in DOMAIN path,
         NEW L \in Seq(Batch), L # <<>>, Follows(path, position, L)
  PROVE  LET step == CursorStep(path, position, Signature(Head(L)))
         IN  /\ step.outcome = "matched"
             /\ step.position \in DOMAIN path
             /\ Follows(path, step.position, Tail(L))
             /\ AtTranslatableHead(path, step.position) => Tail(L) = <<>>
<1> DEFINE n == Len(path)
           m == Len(L)
           T == Tail(L)
           observed == Signature(Head(L))
           later(p) == {i \in p + 1 .. n : ~IsStructural(path[i])}
<1>1. /\ n \in Nat /\ DOMAIN path = 1 .. n /\ m \in Nat \ {0} /\ DOMAIN L = 1 .. m
      /\ DOMAIN T = 1 .. m - 1 /\ \A k \in 1 .. m - 1 : T[k] = L[k + 1]
      /\ T # <<>> => m - 1 >= 1
      /\ Head(L) = L[1]
  <2>1. L \in Seq(Batch) /\ Len(L) \in Nat /\ Len(L) # 0
    OBVIOUS
  <2>2. T \in Seq(Batch) /\ Len(T) = m - 1
    BY <2>1
  <2>3. T # <<>> => Len(T) # 0
    BY <2>2
  <2> QED
    BY <2>1, <2>2, <2>3
<1>2. PICK f \in [1 .. m -> 1 .. n] : \A k \in 1 .. m :
        /\ IsTurn(path[f[k]]) /\ path[f[k]].sig = Signature(L[k])
        /\ LET p == IF k = 1 THEN position ELSE f[k - 1]
           IN  p < f[k] /\ \A i \in p + 1 .. f[k] - 1 : IsStructural(path[i])
  BY <1>1 DEF Follows
<1> HIDE DEF n, m, T
<1>3. 1 \in 1 .. m /\ f[1] \in 1 .. n
  BY <1>1, <1>2
<1>4. ASSUME NEW p \in 1 .. n, NEW k \in 1 .. m, p < f[k],
             \A i \in p + 1 .. f[k] - 1 : IsStructural(path[i])
      PROVE  NextTurn(path, p) = f[k] /\ NextTurn(path, p) \in 1 .. n
  <2>1. f[k] \in 1 .. n /\ ~ IsStructural(path[f[k]])
    BY <1>2 DEF IsTurn, IsStructural
  <2>2. f[k] \in later(p)
    BY <1>1, <1>4, <2>1
  <2>3. later(p) \in SUBSET Nat /\ later(p) \subseteq p + 1 .. n
    BY <1>1, <1>4
  <2>4. Least(later(p)) \in later(p) /\ Least(later(p)) <= f[k]
    BY <2>2, <2>3, LeastIn
  <2>5. ~ (Least(later(p)) \in p + 1 .. f[k] - 1)
    BY <1>4, <2>4
  <2>6. NextTurn(path, p) = Least(later(p))
    BY <2>2 DEF NextTurn, n
  <2> DEFINE x == Least(later(p))
  <2>7. x \in p + 1 .. n /\ x <= f[k] /\ ~ (x \in p + 1 .. f[k] - 1)
    BY <2>3, <2>4, <2>5
  <2> HIDE DEF x
  <2>8. x = f[k]
    BY <1>1, <1>4, <2>1, <2>7
  <2> QED
    BY <2>1, <2>6, <2>8 DEF x
<1>5. NextTurn(path, position) = f[1]
  <2>1. position < f[1] /\ \A i \in position + 1 .. f[1] - 1 : IsStructural(path[i])
    BY <1>2, <1>3
  <2> QED
    BY <1>1, <1>3, <1>4, <2>1
<1>6. /\ path[f[1]].sig = observed /\ path[f[1]].sig # Unreadable
      /\ f[1] <= n /\ ~ (f[1] > n)
  <2>1. IsTurn(path[f[1]]) /\ path[f[1]].sig = Signature(L[1])
    BY <1>2, <1>3
  <2> QED
    BY <1>1, <1>3, <2>1 DEF IsTurn
<1>7. Outcome(path, f[1], observed) = "matched"
  BY <1>6 DEF Outcome, n
<1>8. CursorStep(path, position, observed).outcome = "matched"
      /\ CursorStep(path, position, observed).position = f[1]
  BY <1>5, <1>7 DEF CursorStep
<1>9. Follows(path, f[1], T)
  <2> DEFINE g == [k \in 1 .. m - 1 |-> f[k + 1]]
  <2>1. \A k \in 1 .. m - 1 : k + 1 \in 1 .. m /\ k + 1 # 1 /\ (k + 1) - 1 = k /\ k \in 1 .. m
    BY <1>1
  <2>2. g \in [1 .. m - 1 -> 1 .. n]
    BY <1>2, <2>1
  <2>3. ASSUME NEW k \in 1 .. m - 1
        PROVE  /\ IsTurn(path[g[k]]) /\ path[g[k]].sig = Signature(T[k])
               /\ LET p == IF k = 1 THEN f[1] ELSE g[k - 1]
                  IN  p < g[k] /\ \A i \in p + 1 .. g[k] - 1 : IsStructural(path[i])
    <3>1. g[k] = f[k + 1] /\ T[k] = L[k + 1]
      BY <1>1
    <3>2. (IF k = 1 THEN f[1] ELSE g[k - 1]) = f[k]
      <4>1. CASE k = 1
        BY <4>1
      <4>2. CASE k # 1
        <5>1. k - 1 \in 1 .. m - 1 /\ (k - 1) + 1 = k
          BY <1>1, <4>2
        <5> QED
          BY <4>2, <5>1
      <4> QED
        BY <4>1, <4>2
    <3>3. /\ IsTurn(path[f[k + 1]]) /\ path[f[k + 1]].sig = Signature(L[k + 1])
          /\ f[k] < f[k + 1] /\ \A i \in f[k] + 1 .. f[k + 1] - 1 : IsStructural(path[i])
      BY <1>2, <2>1
    <3> HIDE DEF g
    <3> QED
      BY <3>1, <3>2, <3>3
  <2> HIDE DEF g
  <2> QED
    BY <1>1, <2>2, <2>3 DEF Follows
<1>10. ASSUME T # <<>> PROVE ~ AtTranslatableHead(path, f[1])
  <2>1. 2 \in 1 .. m /\ 2 # 1 /\ 2 - 1 = 1
    BY <1>1, <1>10
  <2>2. f[1] < f[2] /\ \A i \in f[1] + 1 .. f[2] - 1 : IsStructural(path[i])
    BY <1>2, <2>1
  <2>3. NextTurn(path, f[1]) \in 1 .. n
    BY <1>3, <1>4, <2>1, <2>2
  <2> QED
    BY <1>1, <2>3 DEF AtTranslatableHead, n
<1> QED
  BY <1>1, <1>3, <1>8, <1>9, <1>10 DEF T

(* The turns of a row that was found follow the commit in front of it.     *)
LEMMA WindowFollows ==
  ASSUME NEW S, NEW path \in Seq(S), Readable(path), NEW L \in Seq(Batch),
         NEW position \in DOMAIN path,
         position + 1 \in Windows(path, [i \in DOMAIN L |-> Signature(L[i])])
  PROVE  Follows(path, position, L)
<1> DEFINE observed == [i \in DOMAIN L |-> Signature(L[i])]
           turns == {i \in DOMAIN path : IsTurn(path[i])}
           R == {p \in turns \X turns : p[1] < p[2]}
           t == Turns(path)
           N == Cardinality(turns)
           n == Len(path)
           m == Len(L)
<1>1. n \in Nat /\ DOMAIN path = 1 .. n /\ m \in Nat /\ DOMAIN L = 1 .. m
  OBVIOUS
<1>2. IsFiniteSet(turns)
  <2>1. IsFiniteSet(1 .. n)
    BY <1>1, FS_Interval
  <2> QED
    BY <1>1, <2>1, FS_Subset
<1>3. Orders(R, turns)
  <2>1. turns \subseteq Nat
    BY <1>1
  <2> HIDE DEF turns
  <2> QED
    BY <2>1 DEF Orders
<1>4. t = Sorted(turns, R)
  BY DEF Turns
<1> HIDE DEF R, t, N
<1>5. /\ N \in Nat /\ t \in [1 .. N -> turns]
      /\ \A x \in turns : \E k \in 1 .. N : t[k] = x
      /\ \A k, l \in 1 .. N : k < l => <<t[k], t[l]>> \in R
  <2> HIDE DEF turns
  <2> QED
    BY <1>2, <1>3, <1>4, SortedOnce DEF N
<1>6. \A k, l \in 1 .. N : k < l => t[k] < t[l]
  BY <1>5 DEF R
<1>7. \A k \in 1 .. N : t[k] \in 1 .. n /\ IsTurn(path[t[k]])
  BY <1>1, <1>5
<1>8. Len(observed) = m /\ DOMAIN observed = 1 .. m
      /\ \A k \in 1 .. m : observed[k] = Signature(L[k])
  <2> DEFINE sig(i) == Signature(L[i])
             Q == {sig(i) : i \in 1 .. m}
  <2>1. observed = [i \in 1 .. m |-> sig(i)]
    BY <1>1
  <2> HIDE DEF sig, observed
  <2>2. observed \in [1 .. m -> Q]
    BY <2>1
  <2> HIDE DEF Q, m
  <2>3. observed \in Seq(Q)
    BY <1>1, <2>2
  <2>4. Len(observed) = m
    BY <1>1, <2>2, <2>3
  <2> QED
    BY <1>1, <2>1, <2>4 DEF sig
<1>9. PICK s \in 1 .. N :
        /\ position + 1 = t[s]
        /\ s + m - 1 <= N
        /\ \A k \in 1 .. m : path[t[s + k - 1]].sig = Signature(L[k])
  <2>1. Len(t) = N /\ DOMAIN t = 1 .. N
    <3>1. t \in Seq(turns)
      BY <1>5
    <3> QED
      BY <1>5, <3>1
  <2>2. PICK s \in DOMAIN t :
          /\ position + 1 = t[s]
          /\ s + Len(observed) - 1 <= Len(t)
          /\ \A k \in DOMAIN observed : path[t[s + k - 1]].sig = observed[k]
    BY DEF Windows, t
  <2> HIDE DEF observed, turns
  <2> QED
    BY <1>8, <2>1, <2>2
<1> DEFINE f == [k \in 1 .. m |-> t[s + k - 1]]
<1>10. \A k \in 1 .. m : s + k - 1 \in 1 .. N
  BY <1>1, <1>5, <1>9
<1> HIDE DEF turns, observed
<1>11. f \in [1 .. m -> 1 .. n]
  BY <1>7, <1>10
<1>12. ASSUME NEW k \in 1 .. m
       PROVE  /\ IsTurn(path[f[k]]) /\ path[f[k]].sig = Signature(L[k])
              /\ LET p == IF k = 1 THEN position ELSE f[k - 1]
                 IN  p < f[k] /\ \A i \in p + 1 .. f[k] - 1 : IsStructural(path[i])
  <2>1. f[k] = t[s + k - 1] /\ f[k] \in 1 .. n
    BY <1>11
  <2>2. IsTurn(path[f[k]]) /\ path[f[k]].sig = Signature(L[k])
    BY <1>7, <1>9, <1>10, <2>1
  <2>3. CASE k = 1
    <3>1. f[k] = position + 1
      BY <1>9, <2>1, <2>3
    <3>2. position \in Nat
      BY <1>1
    <3>3. position < f[k] /\ \A i \in position + 1 .. f[k] - 1 : IsStructural(path[i])
      BY <3>1, <3>2
    <3> QED
      BY <2>2, <2>3, <3>3
  <2>4. CASE k # 1
    <3>1. k - 1 \in 1 .. m /\ (s + k - 1) - 1 = s + (k - 1) - 1
      BY <1>1, <2>4
    <3> DEFINE j == s + k - 1
    <3>2. j \in 1 .. N /\ j - 1 \in 1 .. N /\ f[k - 1] = t[j - 1] /\ f[k] = t[j]
      BY <1>10, <2>1, <3>1
    <3> HIDE DEF j, f
    <3>3. f[k - 1] < f[k]
      BY <1>6, <3>2
    <3>4. ASSUME NEW i \in f[k - 1] + 1 .. f[k] - 1, ~ IsStructural(path[i])
          PROVE  FALSE
      <4>1. f[k - 1] \in 1 .. n
        BY <1>11, <3>1
      <4>2. i \in 1 .. n /\ f[k - 1] < i /\ i < f[k]
        BY <1>1, <2>1, <4>1
      <4>3. i \in turns
        BY <1>1, <3>4, <4>2 DEF turns, IsTurn, IsStructural, Readable
      <4>4. PICK l \in 1 .. N : t[l] = i
        BY <1>5, <4>3
      <4>5. CASE l <= j - 1
        <5>1. l = j - 1 \/ t[l] < t[j - 1]
          BY <1>6, <3>2, <4>5
        <5> QED
          BY <1>1, <3>2, <4>1, <4>2, <4>4, <5>1
      <4>6. CASE j <= l
        <5>1. l = j \/ t[j] < t[l]
          BY <1>6, <3>2, <4>6
        <5> QED
          BY <1>1, <2>1, <3>2, <4>2, <4>4, <5>1
      <4> QED
        BY <1>5, <3>2, <4>5, <4>6
    <3> QED
      BY <2>2, <2>4, <3>3, <3>4
  <2> QED
    BY <2>3, <2>4
<1> HIDE DEF f
<1> QED
  BY <1>1, <1>11, <1>12 DEF Follows

(* The numbers of texts and of their successors tell their hooks.          *)
LEMMA NamedOn ==
  ASSUME NEW X, Named(X), NEW n \in Nat, \A x \in X : x.n \in Nat /\ x.n <= n,
         NEW h, NEW Y, Renames(Y, X, n, h)
  PROVE  Named(Y)
<1> SUFFICES ASSUME NEW s \in Y, NEW t \in Y, s.n = t.n
             PROVE  s.hook = t.hook
  BY DEF Named
<1>1. \/ \E x \in X : x.n = s.n /\ x.hook = s.hook
      \/ s.n = n + 1 /\ s.hook = h
  BY DEF Renames
<1>2. \/ \E x \in X : x.n = t.n /\ x.hook = t.hook
      \/ t.n = n + 1 /\ t.hook = h
  BY DEF Renames
<1>3. \A x \in X : x.n # n + 1
  OBVIOUS
<1> QED
  BY <1>1, <1>2, <1>3 DEF Named

(* All texts that the window holds have been hooked.                       *)
LEMMA NamesHooked ==
  ASSUME Shapes, Orderly, Detections
  PROVE  LET X == app.found \cup Texts(app.buffer) \cup Elements(pending) \cup latest
         IN  /\ X \subseteq HookedTexts
             /\ texts \in Nat
             /\ \A x \in X : x.n \in Nat /\ x.n <= texts
<1>1. app.found \subseteq HookedTexts /\ \A s \in app.found : s.n <= texts
  BY DEF Detections, FoundOlder
<1>2. Texts(app.buffer) \subseteq HookedTexts
  BY BatchesShape DEF Shapes, AppOK
<1>3. \A t \in Texts(app.buffer) : t.n <= texts
  BY DEF Orderly, InLine
<1>4. pending \in Seq(HookedTexts) /\ latest \subseteq HookedTexts
  BY DEF Shapes, QueueOK, LatestOK
<1>5. Elements(pending) \subseteq HookedTexts
  BY <1>4, ElementsShape
<1>6. \A t \in Elements(pending) \cup latest : t.n <= texts
  BY DEF Orderly, QueueSound, LatestSound
<1>7. \A t \in HookedTexts : t.n \in Nat
  BY PipelineAssumption DEF HookedTexts
<1>8. texts \in Nat
  BY DEF Shapes
<1> QED
  BY <1>1, <1>2, <1>3, <1>4, <1>5, <1>6, <1>7, <1>8

(* Texts found stay older than those that wait.                            *)
LEMMA OlderKept ==
  ASSUME Shapes, Orderly, Detections, NEW h, app'.found \subseteq app.found,
         Renames(Texts(app'.buffer),
                 Texts(app.buffer) \cup Elements(pending) \cup latest, texts, h),
         Renames(Elements(pending'), Elements(pending), texts, h),
         Renames(latest', latest, texts, h),
         texts' \in {texts, texts + 1}, overtaken \subseteq overtaken'
  PROVE  FoundOlder(overtaken', app', pending', latest', texts')
<1> DEFINE X == app.found \cup Texts(app.buffer) \cup Elements(pending) \cup latest
           Y == app'.found \cup Texts(app'.buffer) \cup Elements(pending') \cup latest'
<1>1. X \subseteq HookedTexts /\ texts \in Nat /\ \A x \in X : x.n \in Nat /\ x.n <= texts
  BY NamesHooked
<1>3. Renames(Y, X, texts, h)
  BY DEF Renames
<1>4. Named(X)
  BY DEF Detections, FoundOlder
<1> HIDE DEF X, Y
<1>5. Named(Y)
  BY <1>1, <1>3, <1>4, NamedOn
<1>6. Before(overtaken', app'.found, Elements(pending'))
  <2> SUFFICES ASSUME NEW s \in app'.found, NEW t \in Elements(pending'),
                      s.hook = t.hook, s.updated
               PROVE  Precedes(overtaken', s, t)
    BY DEF Before
  <2>1. s \in app.found /\ s.n \in Nat /\ s.n <= texts
    BY <1>1 DEF X
  <2>2. CASE t.n = texts + 1
    <3>1. s.n < t.n
      BY <1>1, <2>1, <2>2
    <3> QED
      BY <3>1 DEF Precedes
  <2>3. CASE t.n # texts + 1
    <3>1. PICK x \in Elements(pending) : x.n = t.n /\ x.hook = t.hook
      BY <2>3 DEF Renames
    <3>2. x.updated
      BY DEF Orderly, QueueSound
    <3>3. Precedes(overtaken, s, x)
      BY <2>1, <3>1, <3>2 DEF Detections, FoundOlder, Before
    <3> QED
      BY <3>1, <3>3 DEF Precedes
  <2> QED
    BY <2>2, <2>3
<1>7. FoundOlder(overtaken', app', pending', latest', texts')
  <2>1. \A s \in app'.found : s \in HookedTexts /\ s.updated /\ s.n <= texts /\ s.n \in Nat
    BY <1>1 DEF Detections, FoundOlder, X
  <2>2. \A s \in app'.found : s.n <= texts'
    BY <1>1, <2>1
  <2> QED
    BY <1>5, <1>6, <2>1, <2>2 DEF FoundOlder, Y
<1> QED
  BY <1>7

(* Steps that handle no turn: what was found stays with its cursor and its *)
(* turns or is given up, and only texts with numbers of their own arrive.  *)
LEMMA DetectionsKept ==
  ASSUME Shapes, Orderly, Detections, NEW h,
         \/ app'.found = {}
         \/ /\ app'.found = app.found /\ app'.ready = app.ready
            /\ app'.cursor = app.cursor /\ (app'.detecting => app.detecting),
         Texts(app'.buffer) \subseteq Texts(app.buffer),
         Renames(Elements(pending'), Elements(pending), texts, h),
         Renames(latest', latest, texts, h),
         texts' \in {texts, texts + 1}, overtaken' = overtaken,
         turn' = turn \/ turn' = NoTurn \/ (turn # NoTurn /\ turn'.batch = turn.batch)
  PROVE  Detections'
<1>1. app'.found \subseteq app.found
  OBVIOUS
<1>2. Renames(Texts(app'.buffer),
              Texts(app.buffer) \cup Elements(pending) \cup latest, texts, h)
  BY DEF Renames
<1>7. FoundOlder(overtaken', app', pending', latest', texts')
  BY <1>1, <1>2, OlderKept
<1>8. FoundFollows(app')
  <2>1. CASE app'.found = {}
    BY <2>1 DEF FoundFollows
  <2>2. CASE app'.found # {}
    BY <2>2 DEF FoundFollows, Detections
  <2> QED
    BY <2>1, <2>2
<1>9. Unanswered(overtaken', app', turn')
  <2>1. turn' # NoTurn => turn # NoTurn /\ turn'.batch = turn.batch
    OBVIOUS
  <2> QED
    BY <1>1, <2>1 DEF Unanswered, Detections
<1> QED
  BY <1>7, <1>8, <1>9 DEF Detections

(* A queue takes up a text and may lose another.                           *)
LEMMA QueueTexts ==
  ASSUME NEW q \in Seq(HookedTexts), NEW t \in HookedTexts
  PROVE  Elements(Queue(q, t)) \subseteq Elements(q) \cup {t}
<1> DEFINE r == IF Len(q) = MaxPending THEN Tail(q) ELSE q
<1>1. r \in Seq(HookedTexts) /\ Elements(r) \subseteq Elements(q)
  <2>1. CASE q = <<>>
    <3>1. Len(q) = 0 /\ MaxPending # 0
      BY <2>1, PipelineAssumption
    <3>2. r = q
      BY <3>1
    <3> QED
      BY <3>2
  <2>2. CASE q # <<>>
    BY <2>2, ElementsShape
  <2> QED
    BY <2>1, <2>2
<1>2. Queue(q, t) = Append(r, t)
  BY DEF Queue
<1> HIDE DEF r
<1> QED
  BY <1>1, <1>2, ElementsShape

(* A session that begins or detects its position has found nothing.        *)
LEMMA ActivatedFound ==
  ASSUME Shapes, NEW g \in Game, NEW ok \in BOOLEAN
  PROVE  LET a == AppAfter(g, ok)
             q == PendingAfter(g, ok)
         IN  /\ a = app \/ (a.found = {} /\ a.buffer = <<>>)
             /\ Elements(q) \subseteq Elements(pending)
<1>1. CASE Switches(g, ok)
  <2>1. AppAfter(g, ok) = NewSession(app, g) /\ PendingAfter(g, ok) = <<>>
    BY <1>1 DEF AppAfter, PendingAfter, Switches, Activated
  <2>2. NewSession(app, g).found = {} /\ NewSession(app, g).buffer = <<>>
    BY DEF Shapes, AppOK, AppFields, NewSession, Refreshed
  <2> QED
    BY <2>1, <2>2, NothingQueued
<1>2. CASE ~ Switches(g, ok)
  <2>1. AppAfter(g, ok) = app /\ PendingAfter(g, ok) = pending
    BY <1>2 DEF AppAfter, PendingAfter, Switches, Activated
  <2> QED
    BY <2>1
<1> QED
  BY <1>1, <1>2

(* The events of the hooks keep the turns of a position that was found.    *)
LEMMA HookDetections ==
  ASSUME Shapes, Orderly, Detections, NEW s \in Source,
         \/ Connected(s) \/ Disconnected(s)
         \/ \E h \in Hook : Candidate(s, h) \/ \E x \in Text : HookedText(s, h, x)
  PROVE  Detections'
<1> DEFINE g == GameOf[s]
<1>1. g \in Game
  BY PipelineAssumption
<1>2. DOMAIN app = AppFields /\ Texts(<<>>) = {} /\ pending \in Seq(HookedTexts)
  BY NothingQueued DEF Shapes, AppOK, QueueOK
<1>3. turn' = turn /\ overtaken' = overtaken
  BY DEF Connected, Disconnected, Candidate, HookedText, Polling, textVars
<1> HIDE DEF g
<1>4. CASE Disconnected(s)
  <2> DEFINE b == [app EXCEPT !.started = FALSE, !.detecting = FALSE,
                              !.manual = FALSE, !.buffer = <<>>]
  <2>1. app' = b /\ UNCHANGED <<pending, latest, texts>>
    BY <1>4 DEF Disconnected, queueVars, textVars
  <2>2. /\ b.found = app.found /\ b.ready = app.ready /\ b.cursor = app.cursor
        /\ b.detecting = FALSE /\ b.buffer = <<>>
    BY <1>2 DEF AppFields
  <2> HIDE DEF b
  <2> QED
    BY <1>2, <1>3, <2>1, <2>2, DetectionsKept DEF Renames
<1>5. ASSUME NEW ok \in BOOLEAN, NEW b, NEW N, NEW h,
             b \in {AppAfter(g, ok), Detecting(AppAfter(g, ok)),
                    Detecting(Detecting(AppAfter(g, ok)))},
             app' = b,
             Elements(pending') \subseteq Elements(PendingAfter(g, ok)) \cup N,
             latest' \subseteq latest \cup N,
             \A t \in N : t.n = texts + 1 /\ t.hook = h,
             texts' \in {texts, texts + 1}
      PROVE  Detections'
  <2> DEFINE a == AppAfter(g, ok)
  <2>1. a = app \/ (a.found = {} /\ a.buffer = <<>>)
    BY <1>1, ActivatedFound
  <2>2. Elements(PendingAfter(g, ok)) \subseteq Elements(pending)
    BY <1>1, ActivatedFound
  <2>3. AppOK(a) /\ AppOK(Detecting(a))
    BY <1>1, ActivatedShape, DetectingShape
  <2>4. \A c : AppOK(c) => Detecting(c).found = {} /\ Detecting(c).buffer = <<>>
    BY DEF Detecting, AppOK, AppFields
  <2> HIDE DEF a
  <2>5. b = app \/ (b.found = {} /\ b.buffer = <<>>)
    BY <1>5, <2>1, <2>3, <2>4 DEF a
  <2>6. Renames(Elements(pending'), Elements(pending), texts, h)
    BY <1>5, <2>2 DEF Renames
  <2>7. Renames(latest', latest, texts, h)
    BY <1>5 DEF Renames
  <2> QED
    BY <1>2, <1>3, <1>5, <2>5, <2>6, <2>7, DetectionsKept
<1>6. CASE Connected(s) \/ \E h \in Hook : Candidate(s, h)
  <2>1. PICK ok \in BOOLEAN :
          /\ app' \in {AppAfter(g, ok), Detecting(AppAfter(g, ok))}
          /\ pending' = PendingAfter(g, ok)
    BY <1>6 DEF Connected, Candidate, Outcomes, g
  <2>2. latest' = latest /\ texts' = texts
    BY <1>6 DEF Connected, Candidate, textVars
  <2> DEFINE b == app'
             h == 0
             N == {}
  <2>3. /\ b \in {AppAfter(g, ok), Detecting(AppAfter(g, ok)),
                  Detecting(Detecting(AppAfter(g, ok)))}
        /\ app' = b
        /\ Elements(pending') \subseteq Elements(PendingAfter(g, ok)) \cup N
        /\ latest' \subseteq latest \cup N
        /\ \A t \in N : t.n = texts + 1 /\ t.hook = h
    BY <2>1, <2>2
  <2> HIDE DEF b, h, N
  <2> QED
    BY <1>5, <2>2, <2>3
<1>7. CASE \E h \in Hook : \E x \in Text : HookedText(s, h, x)
  <2>1. PICK h \in Hook, x \in Text : HookedText(s, h, x)
    BY <1>7
  <2>2. PICK ok \in BOOLEAN, at \in 0 .. MaxTime :
          LET a == AppAfter(g, ok)
              q == PendingAfter(g, ok)
              t == [n |-> texts + 1, from |-> g, game |-> a.game, hook |-> h,
                    text |-> x, at |-> at, post |-> FALSE, updated |-> TRUE]
          IN  IF s \in NativeSource
              THEN QueueText(IF a.started THEN a ELSE Detecting(a), q, t)
              ELSE IF <<h, s>> \in routes THEN QueueText(a, q, t)
                   ELSE Ignore(a, q)
    BY <2>1 DEF HookedText, g, Outcomes
  <2>3. texts' = texts + 1 /\ texts < MaxTexts
    BY <2>1 DEF HookedText
  <2> DEFINE a == AppAfter(g, ok)
             q == PendingAfter(g, ok)
             t == [n |-> texts + 1, from |-> g, game |-> a.game, hook |-> h,
                   text |-> x, at |-> at, post |-> FALSE, updated |-> TRUE]
             post == config[h].post
             accepted == [t EXCEPT !.post = post]
  <2>4. AppOK(a) /\ QueueOK(q, a)
    BY <1>1, ActivatedShape
  <2>5. a.started \in BOOLEAN /\ a.game \in Game /\ q \in Seq(HookedTexts)
    BY <2>4 DEF AppOK, QueueOK
  <2>6. PICK b \in {a, Detecting(a)} : QueueText(b, q, t) \/ Ignore(b, q)
    <3> HIDE DEF a, q, t
    <3> QED
      BY <2>2, <2>5 DEF a, q, t
  <2>7. CASE Enabled(h) /\ QueueText(b, q, t)
    <3>1. t.hook = h
      OBVIOUS
    <3>2. /\ app' \in {b, Detecting(b)}
          /\ latest' \subseteq latest \cup {accepted}
          /\ pending' = Queue(q, accepted)
      <4> HIDE DEF t, q
      <4> QED
        BY <2>7, <3>1 DEF QueueText, Accept
    <3>3. post \in BOOLEAN
      BY <2>7 DEF Enabled, Shapes, HookSettings
    <3>4. texts + 1 \in 1 .. MaxTexts
      BY <2>3, PipelineAssumption DEF Shapes
    <3>5. t \in HookedTexts /\ t.n = texts + 1
      <4> HIDE DEF a
      <4> QED
        BY <1>1, <2>1, <2>5, <3>4 DEF HookedTexts
    <3>6. accepted \in HookedTexts /\ accepted.n = texts + 1 /\ accepted.hook = h
      <4> HIDE DEF a, t, post
      <4> QED
        BY <3>1, <3>3, <3>5 DEF HookedTexts
    <3> HIDE DEF t, accepted
    <3>7. Elements(pending') \subseteq Elements(q) \cup {accepted}
      BY <2>5, <3>2, <3>6, QueueTexts
    <3> DEFINE d == app'
               N == {accepted}
    <3>8. /\ d \in {a, Detecting(a), Detecting(Detecting(a))} /\ app' = d
          /\ Elements(pending') \subseteq Elements(q) \cup N
          /\ latest' \subseteq latest \cup N
          /\ \A y \in N : y.n = texts + 1 /\ y.hook = h
      BY <2>6, <3>2, <3>6, <3>7
    <3> HIDE DEF d, N, post
    <3>9. /\ d \in {AppAfter(g, ok), Detecting(AppAfter(g, ok)),
                   Detecting(Detecting(AppAfter(g, ok)))}
          /\ Elements(pending') \subseteq Elements(PendingAfter(g, ok)) \cup N
      BY <3>8
    <3> HIDE DEF a, q
    <3> QED
      BY <1>5, <2>3, <3>8, <3>9
  <2>8. CASE ~ (Enabled(h) /\ QueueText(b, q, t))
    <3>1. app' = b /\ pending' = q /\ latest' = latest
      BY <2>6, <2>8 DEF QueueText, Ignore
    <3> DEFINE d == app'
               N == {}
    <3>2. /\ d \in {a, Detecting(a), Detecting(Detecting(a))} /\ app' = d
          /\ Elements(pending') \subseteq Elements(q) \cup N
          /\ latest' \subseteq latest \cup N
          /\ \A y \in N : y.n = texts + 1 /\ y.hook = h
      BY <2>6, <3>1
    <3> HIDE DEF d, N
    <3> QED
      BY <1>5, <2>3, <3>2
  <2> QED
    BY <2>7, <2>8
<1> QED
  BY <1>4, <1>6, <1>7

(* What stays or shrinks brings no new text.                               *)
LEMMA RenamesPart ==
  ASSUME NEW X, NEW Y \in SUBSET X, NEW n, NEW h
  PROVE  Renames(Y, X, n, h)
BY DEF Renames

(* The steps that handle no text keep the turns of a position found.       *)
LEMMA IdleDetections ==
  ASSUME Shapes, Orderly, Detections,
         PollStart \/ Rest \/ DetectionTimesOut
           \/ EngineReads \/ EngineCommits \/ EngineFails \/ Complete
  PROVE  Detections'
<1>1. UNCHANGED <<pending, latest, texts, overtaken>>
  BY DEF PollStart, Rest, DetectionTimesOut, Starting, EngineReads,
         EngineCommits, EngineFails, Complete, Engine, queueVars, textVars
<1>2. /\ Renames(Elements(pending'), Elements(pending), texts, 0)
      /\ Renames(latest', latest, texts, 0)
      /\ AppOK(app) /\ DOMAIN app = AppFields
  BY <1>1, RenamesPart DEF Shapes, AppOK
<1>3. CASE DetectionTimesOut
  <2> DEFINE l == Located(app, {})
             f == Finished(app, {})
  <2>1. app' \in Ends(f) /\ turn' = turn /\ app.detecting
    BY <1>3 DEF DetectionTimesOut, WaitsForText
  <2>2. app.found = {}
    BY <2>1 DEF Detections, FoundFollows
  <2>3. l.found = app.found /\ AppOK(l)
    <3>1. \A c \in {} : c.branch \in Branch
      OBVIOUS
    <3> QED
      BY <1>2, <3>1, LocatedShape DEF Located, AppFields
  <2>6. f = Released(l)
    BY DEF Finished
  <2> HIDE DEF l, f
  <2>7. f.found = {} /\ f.buffer = <<>> /\ AppOK(f)
    BY <2>2, <2>3, <2>6, ReleasedShape
  <2>4. app'.found = {} /\ app'.buffer = <<>>
    BY <2>1, <2>7, UnlistedShape
  <2>5. Texts(app'.buffer) = {}
    BY <2>1, <2>4, NothingQueued
  <2> QED
    BY <1>1, <1>2, <2>1, <2>2, <2>3, <2>4, <2>5, DetectionsKept
<1>4. CASE ~ DetectionTimesOut
  <2>1. /\ app' = app \/ app' = Refreshed(app, paths)
        /\ turn' = turn \/ turn' = NoTurn
           \/ turn' = [turn EXCEPT !.stage = "failed"]
           \/ turn' = [turn EXCEPT !.stage = "done"]
           \/ turn' = [turn EXCEPT !.stage = "running", !.base = HeadId(turn.game, turn.branch)]
        /\ turn' # turn => turn.stage # "none"
    BY <1>4 DEF PollStart, Rest, EngineReads, EngineCommits, EngineFails, Complete, Engine
  <2>2. /\ app'.found = app.found /\ app'.ready = app.ready /\ app'.buffer = app.buffer
        /\ app'.cursor = app.cursor /\ app'.detecting = app.detecting
    BY <1>2, <2>1, RefreshedShape
  <2>3. turn' = turn \/ turn' = NoTurn \/ (turn # NoTurn /\ turn'.batch = turn.batch)
    <3>1. CASE turn' = turn \/ turn' = NoTurn
      BY <3>1
    <3>2. CASE turn' # turn /\ turn' # NoTurn
      <4> DEFINE base == HeadId(turn.game, turn.branch)
      <4>1. turn # NoTurn /\ "batch" \in DOMAIN turn
        BY <2>1, <3>2 DEF Shapes, TurnOK, NoTurn
      <4>2. \/ turn' = [turn EXCEPT !.stage = "failed"]
            \/ turn' = [turn EXCEPT !.stage = "done"]
            \/ turn' = [turn EXCEPT !.stage = "running", !.base = base]
        BY <2>1, <3>2
      <4> HIDE DEF base
      <4> QED
        BY <4>1, <4>2
    <3> QED
      BY <3>1, <3>2
  <2> QED
    BY <1>1, <1>2, <2>2, <2>3, DetectionsKept
<1> QED
  BY <1>3, <1>4

(* So does every message of the user.                                      *)
LEMMA UserDetections ==
  ASSUME Shapes, Orderly, Detections, UserMessage
  PROVE  Detections'
<1>1. PICK h \in Hook \cup {0}, b \in Branch, c \in HookSettings :
        \/ h \in Hook /\ (Forget(h) \/ ChangeHook(h, c))
        \/ Detach \/ CommitScratchpad
        \/ \E setting \in {"model", "latest"} : Configure(setting)
        \/ \E i \in DOMAIN app.seen[b] : SelectCommit(b, i)
        \/ \E name \in UserBranch : CreateBranch(name)
  <2>1. Main \in Branch /\ [enabled |-> FALSE, post |-> FALSE] \in HookSettings
    BY PipelineAssumption DEF HookSettings
  <2> QED
    BY <2>1 DEF UserMessage
<1>2. turn' = turn /\ texts' = texts /\ overtaken' = overtaken
  BY <1>1 DEF Forget, ChangeHook, Detach, CommitScratchpad, Configure, SelectCommit,
              CreateBranch, UserActs, textVars
<1>3. AppOK(app) /\ DOMAIN app = AppFields
  BY DEF Shapes, AppOK
<1>4. Renames(Elements(pending), Elements(pending), texts, 0) /\ Renames(latest, latest, texts, 0)
  BY RenamesPart
<1>5. CASE h \in Hook /\ (Forget(h) \/ ChangeHook(h, c))
  <2>1. app' = app
    BY <1>5 DEF Forget, ChangeHook
  <2>2. CASE Forget(h)
    <3>1. pending' = pending /\ latest' \subseteq latest
      BY <2>2 DEF Forget
    <3>2. Renames(latest', latest, texts, 0)
      BY <3>1, RenamesPart
    <3> QED
      BY <1>2, <1>4, <2>1, <3>1, <3>2, DetectionsKept
  <2>3. CASE ChangeHook(h, c)
    <3>1. /\ DOMAIN pending' = DOMAIN pending
          /\ \A i \in DOMAIN pending :
               pending'[i] = IF c.enabled THEN Renewed(pending[i], h, c.post)
                             ELSE pending[i]
          /\ latest' = IF c.enabled THEN {Renewed(l, h, c.post) : l \in latest}
                       ELSE {l \in latest : l.hook # h}
      BY <1>5, <2>3, ChangeHookShape
    <3>2. \A t \in HookedTexts : Renewed(t, h, c.post).n = t.n /\ Renewed(t, h, c.post).hook = t.hook
      BY DEF Renewed, HookedTexts
    <3>3. pending \in Seq(HookedTexts) /\ latest \subseteq HookedTexts
      BY DEF Shapes, QueueOK, LatestOK
    <3>4. Renames(Elements(pending'), Elements(pending), texts, 0)
      <4> SUFFICES ASSUME NEW i \in DOMAIN pending
                   PROVE  \E x \in Elements(pending) : x.n = pending'[i].n /\ x.hook = pending'[i].hook
        BY <3>1 DEF Renames, Elements
      <4>1. pending[i] \in HookedTexts /\ pending[i] \in Elements(pending)
        BY <3>3 DEF Elements
      <4>2. pending'[i].n = pending[i].n /\ pending'[i].hook = pending[i].hook
        BY <3>1, <3>2, <4>1
      <4> QED
        BY <4>1, <4>2
    <3>5. Renames(latest', latest, texts, 0)
      <4>1. CASE c.enabled
        BY <3>1, <3>2, <3>3, <4>1 DEF Renames
      <4>2. CASE ~ c.enabled
        BY <3>1, <4>2 DEF Renames
      <4> QED
        BY <4>1, <4>2
    <3> QED
      BY <1>2, <2>1, <3>4, <3>5, DetectionsKept
  <2> QED
    BY <1>5, <2>2, <2>3
<1>6. CASE Detach \/ \E setting \in {"model", "latest"} : Configure(setting)
  <2>1. UNCHANGED <<app, pending, latest>>
    BY <1>6 DEF Detach, Configure, queueVars
  <2> QED
    BY <1>2, <1>4, <2>1, DetectionsKept
<1>7. CASE CommitScratchpad \/ \E name \in UserBranch : CreateBranch(name)
  <2> DEFINE ps == paths'
  <2>1. app' = Refreshed(app, ps) /\ UNCHANGED <<pending, latest>>
    BY <1>7 DEF CommitScratchpad, CreateBranch, queueVars
  <2> HIDE DEF ps
  <2>2. /\ app'.found = app.found /\ app'.ready = app.ready /\ app'.buffer = app.buffer
        /\ app'.cursor = app.cursor /\ app'.detecting = app.detecting
    BY <1>3, <2>1, RefreshedShape
  <2> QED
    BY <1>2, <1>4, <2>1, <2>2, DetectionsKept
<1>8. CASE \E i \in DOMAIN app.seen[b] : SelectCommit(b, i)
  <2>1. PICK i \in DOMAIN app.seen[b] : SelectCommit(b, i)
    BY <1>8
  <2> DEFINE kept == IF app.retained = b THEN b ELSE None
             cursor == [branch |-> b, path |-> app.seen[b], position |-> i]
             a == [app EXCEPT !.retained = kept, !.cursor = cursor,
                     !.branch = b, !.detecting = FALSE, !.started = TRUE,
                     !.manual = TRUE, !.ready = app.ready \o app.buffer,
                     !.buffer = <<>>, !.found = {}]
  <2>2. app' = Refreshed(a, paths) /\ UNCHANGED <<pending, latest>>
    BY <2>1 DEF SelectCommit, queueVars
  <2>3. DOMAIN a = AppFields /\ a.found = {} /\ a.buffer = <<>>
    BY <1>3 DEF AppFields
  <2> HIDE DEF a
  <2>4. app'.found = {} /\ app'.buffer = <<>>
    BY <2>2, <2>3 DEF Refreshed, AppFields
  <2>5. Texts(app'.buffer) = {}
    BY <2>4, NothingQueued
  <2> QED
    BY <1>2, <1>4, <2>2, <2>4, <2>5, DetectionsKept
<1> QED
  BY <1>1, <1>5, <1>6, <1>7, <1>8

(* The texts of a turn have waited or were the last of their hooks.        *)
LEMMA TurnNames ==
  ASSUME Shapes, pending # <<>>
  PROVE  /\ Renames(Elements(NextTurnOf(pending).batch), Elements(pending) \cup latest, texts, 0)
         /\ Elements(NextTurnOf(pending).rest) \subseteq Elements(pending)
<1> DEFINE e == Event(pending)
           o == NextTurnOf(pending)
<1>1. /\ e.batch \in Batch /\ e.rest \in Seq(HookedTexts)
      /\ Elements(pending) = Elements(e.batch) \cup Elements(e.rest)
  BY EventShape DEF Shapes, QueueOK
<1>2. Elements(o.rest) \subseteq Elements(pending)
  BY TurnShape DEF Thins
<1>3. LatestOK /\ latest \subseteq HookedTexts
  BY DEF Shapes, LatestOK
<1>4. CASE settings.latest /\ Values(e) # {}
  <2>1. Elements(o.batch) = Marked(e)
    BY <1>1, <1>3, <1>4, SnapshotShape DEF NextTurnOf
  <2> HIDE DEF e, o
  <2>2. ASSUME NEW t \in Marked(e)
        PROVE  \E x \in latest : x.n = t.n /\ x.hook = t.hook
    <3>1. PICK v \in Values(e) : \E y : t = [v EXCEPT !.updated = y]
      BY DEF Marked
    <3>2. v \in latest /\ v \in HookedTexts
      BY <1>3 DEF Values
    <3>3. t.n = v.n /\ t.hook = v.hook
      BY <3>1, <3>2 DEF HookedTexts
    <3> QED
      BY <3>2, <3>3
  <2> QED
    BY <1>2, <2>1, <2>2 DEF Renames, o
<1>5. CASE ~ (settings.latest /\ Values(e) # {})
  <2>1. o = e
    BY <1>5 DEF NextTurnOf, Snapshot
  <2>2. Elements(o.batch) \subseteq Elements(pending) \cup latest
    BY <1>1, <2>1
  <2> HIDE DEF e, o
  <2> QED
    BY <1>2, <2>2, RenamesPart DEF o
<1> QED
  BY <1>4, <1>5

(* A turn that is processed keeps what was found, and is the only one that *)
(* may be sent.                                                            *)
LEMMA DispatchFound ==
  ASSUME NEW a, AppOK(a), NEW q, NEW batch, Dispatch(a, q, batch)
  PROVE  app'.found = a.found /\ (turn' = turn \/ turn'.batch = batch)
BY DEF Dispatch, AppOK, AppFields

(* So does every way a turn is processed.                                  *)
LEMMA ProcessFound ==
  ASSUME Shapes, NEW a, AppOK(a), BufferOK(a), NEW q, NEW batch, Process(a, q, batch)
  PROVE  app'.found = a.found /\ (turn' = turn \/ turn'.batch = batch)
<1> DEFINE c == a.cursor
           step == CursorStep(c.path, c.position, Signature(batch))
           dropped == [a EXCEPT !.cursor = None]
           onCursor == [dropped EXCEPT !.branch = c.branch]
           moved == [a EXCEPT !.cursor.position = step.position]
<1>0. Main \in Branch /\ DOMAIN a = AppFields
  BY PipelineAssumption DEF AppOK
<1>1. ASSUME NEW b, SameQueues(b, a), b.found = a.found, Dispatch(b, q, batch)
      PROVE  app'.found = a.found /\ (turn' = turn \/ turn'.batch = batch)
  <2>1. AppOK(b)
    BY <1>1, SameQueuesShape
  <2> QED
    BY <1>1, <2>1, DispatchFound
<1>2. CASE a.cursor = None
  BY <1>2, DispatchFound DEF Process
<1>3. CASE a.cursor # None
  <2>1. /\ DOMAIN a = AppFields /\ DOMAIN c = {"branch", "path", "position"}
        /\ c.branch \in Branch
    BY <1>3 DEF AppOK
  <2>2. \A b \in Branch : LET d == [dropped EXCEPT !.branch = b]
                          IN  SameQueues(d, a) /\ d.found = a.found
    BY <2>1 DEF SameQueues, AppOK, AppFields
  <2>3. LET d == [dropped EXCEPT !.branch = Main, !.retained = None]
        IN  SameQueues(d, a) /\ d.found = a.found
    BY <1>0, <2>1 DEF SameQueues, AppOK, AppFields
  <2>4. LET d == Refreshed(onCursor, paths)
        IN  SameQueues(d, a) /\ d.found = a.found
    BY <2>1 DEF SameQueues, Refreshed, AppOK, AppFields
  <2>5. \A ps : \A b \in Branch :
          LET d == Refreshed([dropped EXCEPT !.branch = b, !.retained = b], ps)
          IN  SameQueues(d, a) /\ d.found = a.found
    BY <2>1 DEF SameQueues, Refreshed, AppOK, AppFields
  <2>6. Refreshed(moved, paths).found = a.found
    BY <2>1 DEF Refreshed, AppFields
  <2>7. dropped.game = a.game
    BY <2>1 DEF AppFields
  <2> HIDE DEF dropped, onCursor, moved, step
  <2>8. CASE /\ app' = Refreshed(IF AtTranslatableHead(c.path, step.position)
                                 THEN onCursor ELSE moved, paths)
             /\ UNCHANGED turn
    BY <2>4, <2>6, <2>8
  <2>9. CASE Dispatch(Refreshed(onCursor, paths), q, batch)
    BY <1>1, <2>4, <2>9
  <2>10. CASE Fork(dropped, q, batch, SubSeq(c.path, 1, step.position))
    <3> DEFINE path == SubSeq(c.path, 1, step.position)
    <3>1. ASSUME NEW name \in ForkNames(dropped.game),
                 LET forked == [paths EXCEPT ![dropped.game][name] = path]
                 IN  Dispatch(Refreshed([dropped EXCEPT !.branch = name,
                                          !.retained = name], forked), q, batch)
          PROVE  app'.found = a.found /\ (turn' = turn \/ turn'.batch = batch)
      <4> DEFINE forked == [paths EXCEPT ![dropped.game][name] = path]
                 d == Refreshed([dropped EXCEPT !.branch = name, !.retained = name], forked)
      <4>1. Dispatch(d, q, batch)
        BY <3>1
      <4>2. name \in Branch
        BY DEF ForkNames, FreeNames, ResumeName
      <4> HIDE DEF forked
      <4>3. SameQueues(d, a) /\ d.found = a.found
        BY <2>5, <4>2
      <4> HIDE DEF d
      <4> QED
        BY <1>1, <4>1, <4>3
    <3>2. CASE Dispatch([dropped EXCEPT !.branch = Main, !.retained = None], q, batch)
      BY <1>1, <2>3, <3>2
    <3> QED
      BY <2>10, <3>1, <3>2 DEF Fork
  <2>11. CASE Dispatch([dropped EXCEPT !.branch = Main], q, batch)
    BY <1>0, <1>1, <2>2, <2>11
  <2> QED
    BY <1>3, <2>8, <2>9, <2>10, <2>11 DEF Process, dropped, onCursor, moved, step
<1> QED
  BY <1>2, <1>3

(* None stands for no cursor, and is none.                                 *)
NoneIsNoCursor ==
  \A b, i, p : None # [branch |-> b, position |-> i, path |-> p]

(* A turn that matches is replayed and not sent, while the store works.    *)
LEMMA MatchedReplays ==
  ASSUME ~ StoreFails, NoneIsNoCursor, NEW a, AppOK(a), a.cursor # None, NEW q, NEW batch,
         Process(a, q, batch),
         CursorStep(a.cursor.path, a.cursor.position, Signature(batch)).outcome = "matched"
  PROVE  LET c == a.cursor
             p == CursorStep(c.path, c.position, Signature(batch)).position
         IN  /\ turn' = turn /\ app'.ready = a.ready /\ app'.detecting = a.detecting
             /\ \/ AtTranslatableHead(c.path, p)
                \/ /\ app'.cursor # None /\ app'.cursor.path = c.path
                   /\ app'.cursor.position = p
<1> DEFINE c == a.cursor
           step == CursorStep(c.path, c.position, Signature(batch))
           dropped == [a EXCEPT !.cursor = None]
           onCursor == [dropped EXCEPT !.branch = c.branch]
           e == [c EXCEPT !.position = step.position]
           moved == [a EXCEPT !.cursor = e]
<1>1. /\ app' = Refreshed(IF AtTranslatableHead(c.path, step.position)
                          THEN onCursor ELSE moved, paths)
      /\ turn' = turn
  BY DEF Process
<1>2. DOMAIN a = AppFields /\ DOMAIN c = {"branch", "path", "position"}
  BY DEF AppOK
<1>3. LET d == Refreshed(onCursor, paths)
      IN  d.ready = a.ready /\ d.detecting = a.detecting
  BY <1>2 DEF Refreshed, AppFields
<1>4. e.path = c.path /\ e.position = step.position /\ DOMAIN e = {"branch", "path", "position"}
  BY <1>2
<1>6. e # None
  <2>1. e = [branch |-> c.branch, position |-> step.position, path |-> c.path]
    <3> HIDE DEF step, c
    <3> QED
      BY <1>2
  <2> QED
    BY <2>1 DEF NoneIsNoCursor
<1> HIDE DEF e, step
<1>5. LET d == Refreshed(moved, paths)
      IN  d.ready = a.ready /\ d.detecting = a.detecting /\ d.cursor = e
  BY <1>2 DEF Refreshed, AppFields
<1> HIDE DEF onCursor, moved
<1> QED
  BY <1>1, <1>3, <1>4, <1>5, <1>6 DEF step

(* Turns that are ready while a position was found are replayed.           *)
LEMMA ReadyDetections ==
  ASSUME ~ StoreFails, NoneIsNoCursor, Shapes, Orderly, Histories, Detections, TakeReady
  PROVE  Detections'
<1> DEFINE a == [app EXCEPT !.ready = Tail(app.ready)]
           batch == Head(app.ready)
           c == app.cursor
           step == CursorStep(c.path, c.position, Signature(batch))
<1>1. /\ Process(a, pending, batch) /\ app.ready # <<>> /\ latest' = latest
      /\ texts' = texts /\ overtaken' = overtaken
  BY DEF TakeReady, Starting
<1>2. /\ batch \in Batch /\ Tail(app.ready) \in Seq(Batch) /\ app.ready \in Seq(Batch)
      /\ Texts(app.ready) = Elements(batch) \cup Texts(Tail(app.ready))
      /\ \A t \in Elements(batch) : t.game = app.game
  BY <1>1, BatchesShape DEF Shapes, AppOK
<1>3. /\ DOMAIN a = AppFields /\ a.game = app.game /\ a.branch = app.branch
      /\ a.retained = app.retained /\ a.cursor = app.cursor
      /\ a.detecting = app.detecting /\ a.started = app.started
      /\ a.manual = app.manual /\ a.buffer = app.buffer
      /\ a.ready = Tail(app.ready) /\ a.found = app.found
  BY DEF Shapes, AppOK, AppFields
<1> HIDE DEF a, batch
<1>4. AppOK(app) /\ BufferOK(app) /\ QueueOK(pending, app)
  BY DEF Shapes
<1>5. AppOK(a) /\ BufferOK(a) /\ QueueOK(pending, a)
  BY <1>2, <1>3, <1>4 DEF AppOK, BufferOK, QueueOK
<1>6. /\ app'.found = app.found /\ app'.buffer = app.buffer
      /\ pending' = pending \/ pending' = <<>>
      /\ turn' = turn \/ turn'.batch = batch
  BY <1>1, <1>2, <1>3, <1>5, ProcessFound, ProcessShape
<1>7. /\ Renames(Texts(app'.buffer),
                 Texts(app.buffer) \cup Elements(pending) \cup latest, texts, 0)
      /\ Renames(Elements(pending'), Elements(pending), texts, 0)
      /\ Renames(latest', latest, texts, 0)
  BY <1>1, <1>6, NothingQueued, RenamesPart
<1>8. CASE app.found = {}
  <2>1. FoundFollows(app')
    BY <1>6, <1>8 DEF FoundFollows
  <2>2. Unanswered(overtaken', app', turn')
    BY <1>6, <1>8 DEF Unanswered
  <2> QED
    BY <1>1, <1>6, <1>7, <1>8, <2>1, <2>2, OlderKept DEF Detections
<1>9. CASE app.found # {}
  <2>1. /\ ~ app.detecting /\ c # None
        /\ Follows(c.path, c.position, app.ready)
    BY <1>1, <1>9 DEF Detections, FoundFollows
  <2>2. c.path \in Seq(Elements(c.path)) /\ c.position \in DOMAIN c.path
    <3>1. app.game \in Game
      BY <1>4 DEF AppOK
    <3>2. c.path \in Held(paths, app, app.game)
      BY <2>1 DEF Held
    <3> QED
      BY <2>1, <3>1, <3>2 DEF Histories, HistoriesOK, PathsOK, PathOK, IsPath
  <2>3. /\ step.outcome = "matched"
        /\ Follows(c.path, step.position, Tail(app.ready))
        /\ AtTranslatableHead(c.path, step.position) => Tail(app.ready) = <<>>
    BY <1>1, <1>2, <2>1, <2>2, FollowsStep DEF batch
  <2>4. /\ turn' = turn /\ app'.ready = Tail(app.ready) /\ app'.detecting = app.detecting
        /\ \/ AtTranslatableHead(c.path, step.position)
           \/ /\ app'.cursor # None /\ app'.cursor.path = c.path
              /\ app'.cursor.position = step.position
    <3> HIDE DEF NoneIsNoCursor
    <3> QED
      BY <1>1, <1>3, <1>5, <2>1, <2>3, MatchedReplays
  <2> HIDE DEF c, step
  <2>5. FoundFollows(app')
    BY <2>1, <2>3, <2>4 DEF FoundFollows
  <2>6. Unanswered(overtaken', app', turn')
    BY <1>1, <1>6, <2>4 DEF Unanswered, Detections
  <2> QED
    BY <1>1, <1>6, <1>7, <2>5, <2>6, OlderKept DEF Detections
<1> QED
  BY <1>8, <1>9

(* A detection that ends with a candidate leaves the turns it was observed *)
(* by in front of the cursor.                                              *)
LEMMA FinishedFound ==
  ASSUME NoneIsNoCursor, NEW a, AppOK(a), a.found = {}, a.ready = <<>>,
         StoreOK(paths), NEW n, HistoriesOK(paths, a, n),
         NEW chosen \in SUBSET ResumeCandidates(paths[a.game],
           [i \in DOMAIN a.buffer |-> Signature(a.buffer[i])])
  PROVE  LET f == Finished(a, chosen)
         IN  /\ FoundFollows(f) /\ f.buffer = <<>> /\ f.ready = a.buffer
             /\ \A t \in f.found : t.updated /\ t \in Texts(a.buffer)
<1> DEFINE f == Finished(a, chosen)
           c == CHOOSE c \in chosen : TRUE
           path == paths[a.game][c.branch]
           cursor == [branch |-> c.branch, position |-> c.position, path |-> path]
           found == {t \in Texts(a.buffer) : t.updated /\ Readable(path)}
           observed == [i \in DOMAIN a.buffer |-> Signature(a.buffer[i])]
           l == Located(a, chosen)
<1>0. /\ DOMAIN a = AppFields /\ a.game \in Game /\ DOMAIN paths[a.game] = Branch
      /\ a.buffer \in Seq(Batch)
  BY DEF AppOK, StoreOK
<1>1. f.detecting = FALSE /\ f.buffer = <<>> /\ f.ready = a.buffer
  <2>1. DOMAIN l = AppFields /\ l.ready = <<>> /\ l.buffer = a.buffer
    BY <1>0 DEF Located, AppFields
  <2>2. <<>> \o a.buffer = a.buffer
    BY <1>0
  <2> HIDE DEF l
  <2> QED
    BY <2>1, <2>2 DEF Finished, Released, Refreshed, AppFields, l
<1>2. CASE chosen = {}
  <2>1. DOMAIN l = AppFields /\ l.found = {}
    BY <1>0, <1>2 DEF Located, AppFields
  <2> HIDE DEF l
  <2>2. f.found = {}
    BY <2>1 DEF l, Finished, Released, Refreshed, AppFields
  <2> HIDE DEF f
  <2> QED
    BY <1>1, <2>2 DEF f, FoundFollows
<1>3. CASE chosen # {}
  <2>1. c \in chosen
    BY <1>3
  <2>2. PathsOK({paths[a.game][b] : b \in Branch}, n)
    BY <1>0 DEF HistoriesOK, PathsOK, OneDepth, Held
  <2>3. /\ c.branch \in Branch /\ c.position \in DOMAIN path
        /\ c.position + 1 \in Windows(path, observed)
    BY <1>0, <2>1, <2>2, CandidateIn
  <2>4. path \in Seq(Elements(path))
    BY <2>2, <2>3 DEF PathsOK, PathOK, IsPath
  <2> HIDE DEF c, path, cursor
  <2>5. Readable(path) => Follows(path, c.position, a.buffer)
    BY <1>0, <2>3, <2>4, WindowFollows
  <2> HIDE DEF observed
  <2>6. DOMAIN l = AppFields /\ l.found = found /\ l.cursor = cursor
    BY <1>0, <1>3 DEF Located, AppFields, c, cursor, path, Texts
  <2> HIDE DEF l, found
  <2>7. f.found = found /\ f.cursor = cursor
    BY <2>6 DEF l, Finished, Released, Refreshed, AppFields
  <2>8. cursor # None /\ cursor.path = path /\ cursor.position = c.position
    BY DEF cursor, NoneIsNoCursor
  <2> HIDE DEF f
  <2>9. FoundFollows(f)
    BY <1>1, <2>5, <2>7, <2>8 DEF f, FoundFollows, found
  <2> QED
    BY <1>1, <2>7, <2>9 DEF f, found
<1> QED
  BY <1>2, <1>3

(* A turn of pending texts is newer than what was found, or helps to find. *)
LEMMA PendingDetections ==
  ASSUME ~ StoreFails, NoneIsNoCursor, Shapes, Orderly, Histories, Detections,
         TakePending
  PROVE  Detections'
<1> DEFINE e == NextTurnOf(pending)
           b == [app EXCEPT !.buffer = Append(app.buffer, e.batch)]
           O == overtaken \cup PassedBy(e)
<1>1. /\ pending # <<>> /\ app.ready = <<>> /\ turn = NoTurn
      /\ latest' = latest /\ texts' = texts /\ overtaken' = O
      /\ IF app.detecting
         THEN /\ pending' = e.rest /\ turn' = turn
              /\ \E late \in BOOLEAN : app' = Observed(app, e.batch, late)
         ELSE Process(app, e.rest, e.batch)
  BY DEF TakePending, Starting, Ends
<1>2. /\ e.batch \in Batch /\ QueueOK(e.rest, app)
      /\ \A t \in Elements(e.batch) : t.game = app.game
  BY <1>1, TurnShape
<1>3. /\ Renames(Elements(e.batch), Elements(pending) \cup latest, texts, 0)
      /\ Elements(e.rest) \subseteq Elements(pending)
  BY <1>1, TurnNames
<1>4. /\ OvertakenSound(O, texts)
      /\ \A t \in Elements(e.batch) : t.updated => \E p \in Elements(pending) :
           /\ p.hook = t.hook /\ p.updated
           /\ p.n = t.n \/ (p.n <= t.n /\ \A o \in overtaken : o[2] = p.n => o[1] <= t.n)
  BY <1>1, TurnOrder DEF Orderly
<1> HIDE DEF e, O
<1>8. overtaken \subseteq O
  BY DEF O
<1>5. /\ AppOK(app) /\ BufferOK(app) /\ DOMAIN app = AppFields
      /\ Renames(latest', latest, texts, 0)
  BY <1>1, RenamesPart DEF Shapes, AppOK
<1>6. CASE ~ app.detecting
  <2>1. Process(app, e.rest, e.batch)
    BY <1>1, <1>6
  <2>2. /\ app'.found = app.found /\ app'.buffer = app.buffer /\ app'.detecting = app.detecting
        /\ app'.ready = <<>>
        /\ pending' = e.rest \/ pending' = <<>>
        /\ turn' = turn \/ turn'.batch = e.batch
    BY <1>1, <1>2, <1>5, <2>1, ProcessFound, ProcessShape
  <2>3. Renames(Elements(pending'), Elements(pending), texts, 0)
    BY <1>3, <2>2, NothingQueued, RenamesPart
  <2>4. Renames(Texts(app'.buffer),
                Texts(app.buffer) \cup Elements(pending) \cup latest, texts, 0)
    BY <2>2, RenamesPart
  <2>5. FoundOlder(overtaken', app', pending', latest', texts')
    BY <1>1, <1>5, <1>8, <2>2, <2>3, <2>4, OlderKept
  <2>6. FoundFollows(app')
    BY <1>6, <2>2 DEF FoundFollows
  <2>9. Before(overtaken, app.found, Elements(e.batch))
    <3>1. /\ app.found \in SUBSET HookedTexts /\ Elements(pending) \in SUBSET HookedTexts
          /\ Elements(e.batch) \in SUBSET HookedTexts
      <4>1. e.batch \in Seq(HookedTexts)
        BY <1>2 DEF Batch
      <4> QED
        BY <4>1, NamesHooked, ElementsShape
    <3>2. Before(overtaken, app.found, Elements(pending))
      BY DEF Detections, FoundOlder
    <3> HIDE DEF Detections
    <3> QED
      BY <1>4, <3>1, <3>2, BeforeTurn
  <2>7. ASSUME NEW t \in Elements(e.batch), t.updated, NEW s \in app.found, s.n = t.n,
               ~ \E o \in O : o[1] = t.n
        PROVE  FALSE
    <3>2. texts \in Nat /\ s.n \in Nat /\ s.n <= texts /\ s.updated
      BY NamesHooked DEF Detections, FoundOlder
    <3>3. t.n # texts + 1
      BY <2>7, <3>2
    <3>4. PICK y \in Elements(pending) \cup latest : y.n = t.n /\ y.hook = t.hook
      BY <1>3, <3>3 DEF Renames
    <3>5. s.hook = t.hook
      BY <2>7, <3>4 DEF Detections, FoundOlder, Named
    <3>6. Precedes(overtaken, s, t)
      BY <2>7, <2>9, <3>2, <3>5 DEF Before
    <3>7. \E o \in overtaken : o[1] = s.n
      <4>1. CASE <<s.n, t.n>> \in overtaken
        BY <4>1
      <4> QED
        BY <2>7, <3>2, <3>6, <4>1 DEF Precedes
    <3> QED
      BY <1>8, <2>7, <3>7
  <2>8. Unanswered(overtaken', app', turn')
    BY <1>1, <2>2, <2>7 DEF Unanswered
  <2> QED
    BY <2>5, <2>6, <2>8 DEF Detections
<1>7. CASE app.detecting
  <2>1. app.found = {}
    BY <1>7 DEF Detections, FoundFollows
  <2>2. PICK late \in BOOLEAN : app' = Observed(app, e.batch, late)
    BY <1>1, <1>7
  <2>3. /\ b.buffer = Append(app.buffer, e.batch) /\ b.found = {} /\ b.ready = <<>>
        /\ b.game = app.game /\ b.cursor = app.cursor /\ b.seen = app.seen
    BY <1>1, <1>5, <2>1 DEF AppFields
  <2>4. AppOK(b)
    BY <1>2, <1>7, ObservedShape
  <2> DEFINE observed == [i \in DOMAIN b.buffer |-> Signature(b.buffer[i])]
             candidates == ResumeCandidates(paths[app.game], observed)
  <2>5. app' \in {Finished(b, {}), Finished(b, candidates), Refreshed(b, paths)}
    <3>1. Candidates(b) = candidates
      BY <2>3 DEF Candidates
    <3> QED
      BY <2>2, <3>1 DEF Observed
  <2> HIDE DEF b
  <2>6. /\ HistoriesOK(paths, b, commits) /\ StoreOK(paths)
    <3>1. Kept(b, app, paths) /\ app.game \in Game
      BY <1>5, <2>3 DEF Kept, AppOK
    <3> QED
      BY <3>1, HistoryKept DEF Histories, Shapes
  <2>7. candidates \in SUBSET ResumeCandidates(paths[b.game], observed)
        /\ {} \in SUBSET ResumeCandidates(paths[b.game], observed)
    BY <2>3
  <2> HIDE DEF observed, candidates
  <2>8. /\ FoundFollows(app')
        /\ \A t \in app'.found : t.updated /\ t \in Texts(app'.ready)
        /\ Texts(app'.buffer) \subseteq Texts(b.buffer)
        /\ Texts(app'.ready) \subseteq Texts(b.buffer)
    <3>1. CASE app' = Refreshed(b, paths)
      <4>1. app'.found = {} /\ app'.buffer = b.buffer /\ app'.ready = <<>>
        BY <2>3, <2>4, <3>1, RefreshedShape
      <4> QED
        BY <4>1, NothingQueued DEF FoundFollows
    <3>2. ASSUME NEW chosen \in {{}, candidates}, app' = Finished(b, chosen)
          PROVE  /\ FoundFollows(app') /\ app'.buffer = <<>> /\ app'.ready = b.buffer
                 /\ \A t \in app'.found : t.updated /\ t \in Texts(b.buffer)
      <4> DEFINE d == Finished(b, chosen)
      <4>1. /\ FoundFollows(d) /\ d.buffer = <<>> /\ d.ready = b.buffer
            /\ \A t \in d.found : t.updated /\ t \in Texts(b.buffer)
        <5> HIDE DEF NoneIsNoCursor, d
        <5>1. chosen \in SUBSET ResumeCandidates(paths[b.game], observed)
          BY <2>7
        <5> QED
          BY <2>3, <2>4, <2>6, <5>1, FinishedFound DEF d, observed
      <4> HIDE DEF d
      <4>2. app' = d
        BY <3>2 DEF d
      <4> QED
        BY <4>1, <4>2
    <3>3. Texts(<<>>) = {}
      BY NothingQueued
    <3> QED
      BY <2>5, <3>1, <3>2, <3>3
  <2>9. Orderly' /\ Shapes'
    <3>1. TakePending
      OBVIOUS
    <3> QED
      BY <3>1, PollOrder, PollShapes
  <2>10. Before(overtaken', Texts(app'.ready), Elements(pending'))
         /\ \A t \in Texts(app'.ready) : t.n <= texts'
    BY <2>9 DEF Orderly, InLine
  <2>11. Before(overtaken', app'.found, Elements(pending'))
    BY <2>8, <2>10 DEF Before
  <2>12. Texts(app'.ready) \subseteq HookedTexts
    BY <2>9, BatchesShape DEF Shapes, AppOK
  <2> DEFINE X == app.found \cup Texts(app.buffer) \cup Elements(pending) \cup latest
             Y == app'.found \cup Texts(app'.buffer) \cup Elements(pending') \cup latest'
  <2>13. Texts(b.buffer) = Texts(app.buffer) \cup Elements(e.batch)
    BY <1>2, <1>5, <2>3, BatchesShape DEF AppOK
  <2>14. Elements(pending') \subseteq Elements(pending)
    BY <1>1, <1>3, <1>7
  <2>15. Renames(Y, X, texts, 0)
    <3>1. Texts(app'.buffer) \cup app'.found \subseteq Texts(app.buffer) \cup Elements(e.batch)
      BY <2>8, <2>13
    <3> QED
      BY <1>1, <1>3, <2>14, <3>1 DEF Renames
  <2>16. Named(X)
    BY DEF Detections, FoundOlder
  <2>17. texts \in Nat /\ \A x \in X : x.n \in Nat /\ x.n <= texts
    BY NamesHooked
  <2> HIDE DEF X, Y
  <2>18. Named(Y)
    BY <2>15, <2>16, <2>17, NamedOn
  <2>19. FoundOlder(overtaken', app', pending', latest', texts')
    BY <2>8, <2>10, <2>11, <2>12, <2>18 DEF FoundOlder, Y
  <2>20. Unanswered(overtaken', app', turn')
    BY <1>1, <1>7 DEF Unanswered
  <2> QED
    BY <2>8, <2>19, <2>20 DEF Detections
<1> QED
  BY <1>6, <1>7

(* In the beginning nothing was found and nothing waits.                   *)
LEMMA DetectionsInit == Init => Detections
<1> SUFFICES ASSUME Init PROVE Detections
  OBVIOUS
<1>1. /\ app.found = {} /\ app.buffer = <<>> /\ pending = <<>> /\ latest = {}
      /\ turn = NoTurn
  BY DEF Init
<1>2. Texts(<<>>) = {} /\ Elements(<<>>) = {}
  BY NothingQueued
<1> QED
  BY <1>1, <1>2 DEF Detections, FoundFollows, FoundOlder, Named, Before, Unanswered

(* Every step keeps the turns of a position found in front of its cursor.  *)
LEMMA DetectionsStep ==
  ASSUME ~ StoreFails, NoneIsNoCursor
  PROVE  Shapes /\ Orderly /\ Histories /\ Detections /\ [Next]_vars => Detections'
<1> SUFFICES ASSUME Shapes, Orderly, Histories, Detections, [Next]_vars
             PROVE  Detections'
  OBVIOUS
<1> HIDE DEF NoneIsNoCursor
<1>1. CASE HookEvent
  <2>1. PICK s \in Source : \/ Connected(s) \/ Disconnected(s)
                            \/ \E h \in Hook : Candidate(s, h) \/ \E x \in Text : HookedText(s, h, x)
    BY <1>1 DEF HookEvent
  <2> QED
    BY <2>1, HookDetections
<1>2. CASE \/ PollStart \/ Rest \/ DetectionTimesOut
           \/ EngineReads \/ EngineCommits \/ EngineFails \/ Complete
  BY <1>2, IdleDetections
<1>3. CASE TakeReady
  BY <1>3, ReadyDetections
<1>4. CASE TakePending
  BY <1>4, PendingDetections
<1>5. CASE UserMessage
  BY <1>5, UserDetections
<1>6. CASE UNCHANGED vars
  BY <1>6 DEF vars, queueVars, textVars, Detections
<1> QED
  BY <1>1, <1>2, <1>3, <1>4, <1>5, <1>6 DEF Next

(* While the store works, the new texts of the turns by which detection    *)
(* identified a position on a readable path are never sent to the model:   *)
(* the turns stay in line in front of the cursor (Follows), each matches,  *)
(* and all that is sent comes after them.                                  *)
THEOREM DetectedTurnsReplayed ==
  ASSUME ~ StoreFails, NoneIsNoCursor
  PROVE  Spec => []DetectedReplayed
<1>1. Init => Detections
  BY DetectionsInit
<1>2. Shapes /\ Orderly /\ Histories /\ Detections /\ [Next]_vars => Detections'
  BY DetectionsStep
<1>3. Detections => DetectedReplayed
  BY DEF Detections, Unanswered, DetectedReplayed, Jumped
<1> QED
  BY <1>1, <1>2, <1>3, ShapesHold, OrderlyHolds, HistoriesHold, PTL DEF Spec

(* The window shows beginnings of the paths the store has, and the cursor  *)
(* follows the active branch.                                              *)
Placed(ps, a) ==
  /\ \A b \in Branch : Prefix(a.seen[b], ps[a.game][b])
  /\ a.cursor # None => /\ a.cursor.branch = a.branch
                        /\ Prefix(a.cursor.path, ps[a.game][a.branch])

(* The inductive invariant of a replay.                                    *)
Placement == Placed(paths, app)

(* Every game has finitely many branches.                                  *)
FewBranches == \A g \in Game : IsFiniteSet({b \in Branch : Exists(g, b)})

(* The path of one branch of one game may change.                          *)
OneMoves(ps, qs) ==
  \E g \in Game, b \in Branch : \A x \in Game, y \in Branch :
    qs[x][y] = ps[x][y] \/ (x = g /\ y = b)

(* What changes the path of one branch.                                    *)
LEMMA PathMoves ==
  ASSUME NEW ps, StoreOK(ps), NEW qs
  PROVE  /\ qs = ps => OneMoves(ps, qs)
         /\ \A g \in Game, b \in Branch :
              (\E p : qs = [ps EXCEPT ![g][b] = p]) => OneMoves(ps, qs)
<1>1. Default \in Game /\ Main \in Branch
  BY PipelineAssumption
<1>2. qs = ps => OneMoves(ps, qs)
  BY <1>1 DEF OneMoves
<1>3. ASSUME NEW g \in Game, NEW b \in Branch, NEW p, qs = [ps EXCEPT ![g][b] = p]
      PROVE  OneMoves(ps, qs)
  <2>1. \A x \in Game, y \in Branch : qs[x][y] = ps[x][y] \/ (x = g /\ y = b)
    BY <1>3 DEF StoreOK
  <2> QED
    BY <2>1 DEF OneMoves
<1> QED
  BY <1>2, <1>3

(* A step changes the path of one branch at most.                          *)
LEMMA StoreStep ==
  ASSUME Shapes, [Next]_vars
  PROVE  OneMoves(paths, paths')
<1> DEFINE ps == paths'
<1> SUFFICES OneMoves(paths, ps)
  OBVIOUS
<1>1. StoreOK(paths) /\ app.game \in Game /\ app.branch \in Branch /\ Main \in Branch
      /\ AppOK(app)
  BY PipelineAssumption DEF Shapes, AppOK
<1>2. ASSUME ps = paths PROVE OneMoves(paths, ps)
  <2> HIDE DEF ps
  <2> QED
    BY <1>1, <1>2, PathMoves
<1>3. ASSUME NEW g \in Game, NEW b \in Branch, NEW p, ps = [paths EXCEPT ![g][b] = p]
      PROVE  OneMoves(paths, ps)
  <2> HIDE DEF ps
  <2> QED
    BY <1>1, <1>3, PathMoves
<1>4. ASSUME NEW g \in Game, NEW ok, Activate(g, ok) PROVE OneMoves(paths, ps)
  <2>1. ps = paths \/ ps = [paths EXCEPT ![g][Main] = <<Root>>]
    BY <1>4 DEF Activate, Ensured
  <2> HIDE DEF ps
  <2> QED
    BY <1>1, <1>2, <1>3, <2>1
<1>5. ASSUME NEW a, a.game \in Game, NEW q, NEW batch, Process(a, q, batch)
      PROVE  OneMoves(paths, ps)
  <2> DEFINE d == [a EXCEPT !.cursor = None]
  <2>1. ps = paths \/ \E name \in ForkNames(d.game) : \E p :
                        ps = [paths EXCEPT ![d.game][name] = p]
    <3>1. \A r : Fork(d, q, batch, r) =>
            \/ ps = paths
            \/ \E name \in ForkNames(d.game) : ps = [paths EXCEPT ![d.game][name] = r]
      BY DEF Fork
    <3> HIDE DEF d
    <3>2. ps = paths \/ \E r : Fork(d, q, batch, r)
      <4> HIDE DEF ps
      <4> QED
        BY <1>5 DEF Process, ps, d
    <3> HIDE DEF ps
    <3> QED
      BY <3>1, <3>2
  <2>2. d.game = a.game
    OBVIOUS
  <2>3. ForkNames(d.game) \subseteq Branch
    BY DEF ForkNames, FreeNames, ResumeName
  <2> HIDE DEF ps, d
  <2> QED
    BY <1>2, <1>3, <1>5, <2>1, <2>2, <2>3
<1>6. CASE HookEvent
  <2>1. PICK s \in Source : \/ Connected(s) \/ Disconnected(s)
                            \/ \E h \in Hook : Candidate(s, h) \/ \E x \in Text : HookedText(s, h, x)
    BY <1>6 DEF HookEvent
  <2>2. GameOf[s] \in Game
    BY PipelineAssumption
  <2>3. ps = paths \/ \E ok \in Outcomes : Activate(GameOf[s], ok)
    BY <2>1 DEF Connected, Disconnected, Candidate, HookedText, storeVars
  <2> QED
    BY <1>2, <1>4, <2>2, <2>3
<1>7. CASE \/ PollStart \/ Rest \/ DetectionTimesOut \/ EngineReads \/ EngineFails
           \/ Complete \/ UNCHANGED vars
  <2>1. ps = paths
    BY <1>7 DEF PollStart, Rest, DetectionTimesOut, EngineReads, EngineFails, Complete,
                Engine, vars, storeVars
  <2> QED
    BY <1>2, <2>1
<1>8. CASE TakeReady
  <2> DEFINE a == [app EXCEPT !.ready = Tail(app.ready)]
  <2>1. Process(a, pending, Head(app.ready))
    BY <1>8 DEF TakeReady
  <2>2. a.game = app.game
    BY <1>1 DEF AppOK, AppFields
  <2> HIDE DEF a, ps
  <2> QED
    BY <1>1, <1>5, <2>1, <2>2
<1>9. CASE TakePending
  <2>1. ps = paths \/ Process(app, NextTurnOf(pending).rest, NextTurnOf(pending).batch)
    BY <1>9 DEF TakePending
  <2> HIDE DEF ps
  <2> QED
    BY <1>1, <1>2, <1>5, <2>1
<1>10. CASE EngineCommits
  <2>1. /\ turn.stage = "running"
        /\ \E p : ps = [paths EXCEPT ![turn.game][turn.branch] = p]
    BY <1>10 DEF EngineCommits
  <2>2. turn.game \in Game /\ turn.branch \in Branch
    BY <2>1 DEF Shapes, TurnOK, NoTurn
  <2> HIDE DEF ps
  <2> QED
    BY <1>3, <2>1, <2>2
<1>11. CASE UserMessage
  <2>1. ps = paths \/ \E b \in Branch : \E p : ps = [paths EXCEPT ![app.game][b] = p]
    <3>1. UserBranch \subseteq Branch
      BY PipelineAssumption
    <3> QED
      BY <1>1, <1>11, <3>1 DEF UserMessage, Forget, ChangeHook, Detach, CommitScratchpad,
                         Configure, SelectCommit, CreateBranch, storeVars
  <2> HIDE DEF ps
  <2> QED
    BY <1>1, <1>2, <1>3, <2>1
<1> QED
  BY <1>6, <1>7, <1>8, <1>9, <1>10, <1>11 DEF Next

(* So the store of a game keeps finitely many branches.                    *)
LEMMA FewKept ==
  ASSUME Shapes, FewBranches, [Next]_vars
  PROVE  FewBranches'
<1>1. PICK g \in Game, b \in Branch : \A x \in Game, y \in Branch :
        paths'[x][y] = paths[x][y] \/ (x = g /\ y = b)
  BY StoreStep DEF OneMoves
<1> SUFFICES ASSUME NEW x \in Game
             PROVE  IsFiniteSet({y \in Branch : paths'[x][y] # <<>>})
  BY DEF FewBranches, Exists
<1> DEFINE F == {y \in Branch : paths[x][y] # <<>>}
           G == {y \in Branch : paths'[x][y] # <<>>}
<1>2. IsFiniteSet(F)
  BY DEF FewBranches, Exists
<1>3. G \subseteq F \cup {b}
  BY <1>1
<1> HIDE DEF F, G
<1>4. IsFiniteSet(F \cup {b})
  BY <1>2, FS_AddElement
<1>5. IsFiniteSet(G)
  BY <1>3, <1>4, FS_Subset
<1> QED
  BY <1>5 DEF G

(* Games begin with finitely many branches.                                *)
LEMMA FewInit == Init => FewBranches
BY HistoryAssumption DEF Init, FewBranches, Exists

(* A beginning of a beginning is one.                                      *)
LEMMA PrefixTwice ==
  ASSUME NEW q, NEW p, NEW r, Prefix(q, p), Prefix(p, r)
  PROVE  Prefix(q, r)
BY DEF Prefix

(* The paths of the store are sequences, and grow at their ends.           *)
LEMMA PathsBegin ==
  ASSUME Histories, NEW g \in Game, NEW b \in Branch
  PROVE  /\ Prefix(paths[g][b], paths[g][b])
         /\ \A c : LET q == Append(paths[g][b], c)
                   IN  Prefix(paths[g][b], q) /\ Prefix(q, q)
         /\ \A r : Prefix(<<>>, r)
<1> DEFINE p == paths[g][b]
<1>1. p \in Held(paths, app, g)
  BY DEF Held
<1>2. p \in Seq(Elements(p))
  BY <1>1 DEF Histories, HistoriesOK, PathsOK, PathOK, IsPath
<1> HIDE DEF p
<1>3. Prefix(p, p)
  BY <1>2 DEF Prefix
<1>4. ASSUME NEW c PROVE Prefix(p, Append(p, c)) /\ Prefix(Append(p, c), Append(p, c))
  <2> DEFINE T == Elements(p) \cup {c}
             q == Append(p, c)
  <2>1. p \in Seq(T)
    BY <1>2
  <2>2. q \in Seq(T) /\ Len(q) = Len(p) + 1 /\ \A i \in 1 .. Len(p) : q[i] = p[i]
    BY <2>1
  <2>3. DOMAIN p = 1 .. Len(p) /\ DOMAIN q = 1 .. Len(p) + 1 /\ Len(p) \in Nat
    BY <2>1, <2>2
  <2>4. Elements(q) = T
    BY <2>1, ElementsShape
  <2> HIDE DEF q, T
  <2>5. DOMAIN p \subseteq DOMAIN q
    BY <2>3
  <2>6. Prefix(p, q) /\ Prefix(q, q)
    BY <1>2, <2>2, <2>3, <2>4, <2>5 DEF Prefix
  <2> QED
    BY <2>6 DEF q
<1>5. ASSUME NEW r PROVE Prefix(<<>>, r)
  <2>1. Elements(<<>>) = {} /\ <<>> \in Seq({}) /\ DOMAIN <<>> = {}
    BY NothingQueued
  <2> QED
    BY <2>1 DEF Prefix
<1> QED
  BY <1>3, <1>4, <1>5 DEF p

(* The window has the game of another, and of its history no more than     *)
(* that one, or what the store has.                                        *)
Follower(b, a, ps) ==
  /\ b.game = a.game
  /\ b.cursor = None \/ (b.cursor = a.cursor /\ b.branch = a.branch)
  /\ b.seen = a.seen \/ b.seen = ps[a.game]

(* A window that follows another is placed as that is, and paths may grow. *)
LEMMA PlacedStays ==
  ASSUME NEW ps, NEW a, Placed(ps, a), NEW qs,
         \A b \in Branch : /\ Prefix(ps[a.game][b], qs[a.game][b])
                           /\ Prefix(qs[a.game][b], qs[a.game][b]),
         NEW d, Follower(d, a, qs), a.branch \in Branch
  PROVE  Placed(qs, d)
<1>1. \A b \in Branch : Prefix(a.seen[b], qs[a.game][b])
  BY PrefixTwice DEF Placed
<1>2. \A b \in Branch : Prefix(d.seen[b], qs[d.game][b])
  BY <1>1 DEF Follower
<1>3. d.cursor # None => /\ d.cursor.branch = d.branch
                         /\ Prefix(d.cursor.path, qs[d.game][d.branch])
  BY PrefixTwice DEF Placed, Follower
<1> QED
  BY <1>2, <1>3 DEF Placed

(* So is one of the same store.                                            *)
LEMMA PlacedHere ==
  ASSUME Histories, NEW a, AppOK(a), Placed(paths, a), NEW d, Follower(d, a, paths)
  PROVE  Placed(paths, d)
<1>1. \A b \in Branch : Prefix(paths[a.game][b], paths[a.game][b])
  BY PathsBegin DEF AppOK
<1> QED
  BY <1>1, PlacedStays DEF AppOK

(* A turn that is sent keeps the place of the window.                      *)
LEMMA DispatchPlace ==
  ASSUME NEW a, AppOK(a), NEW q, NEW batch, Dispatch(a, q, batch)
  PROVE  /\ app'.game = a.game /\ app'.cursor = a.cursor /\ app'.seen = a.seen
         /\ app'.branch = a.branch
BY DEF Dispatch, AppOK, AppFields

(* A cursor that moves or is dropped stays on its branch, and a branch the *)
(* rest of a session is put on is new.                                     *)
LEMMA ProcessPlaced ==
  ASSUME Shapes, Histories, NEW a, AppOK(a), BufferOK(a), Placed(paths, a),
         a.cursor # None => a.cursor.position \in DOMAIN a.cursor.path,
         NEW q, NEW batch, Process(a, q, batch)
  PROVE  Placed(paths', app')
<1> DEFINE c == a.cursor
           step == CursorStep(c.path, c.position, Signature(batch))
           dropped == [a EXCEPT !.cursor = None]
           onCursor == [dropped EXCEPT !.branch = c.branch]
           moved == [a EXCEPT !.cursor.position = step.position]
<1>0. a.game \in Game /\ Main \in Branch
  BY PipelineAssumption DEF AppOK
<1>1. ASSUME NEW b, AppOK(b), Follower(b, a, paths), Dispatch(b, q, batch), UNCHANGED paths
      PROVE  Placed(paths', app')
  <2>1. Follower(app', a, paths)
    BY <1>1, DispatchPlace DEF Follower
  <2> QED
    BY <1>0, <1>1, <2>1, PlacedHere
<1>2. CASE a.cursor = None
  <2>1. Dispatch(a, q, batch) /\ UNCHANGED paths
    BY <1>2 DEF Process
  <2> QED
    BY <1>1, <2>1 DEF Follower
<1>3. CASE a.cursor # None
  <2>1. /\ DOMAIN a = AppFields /\ DOMAIN c = {"branch", "path", "position"}
        /\ c.branch \in Branch
    BY <1>3 DEF AppOK
  <2>2. \A b \in Branch : SameQueues([dropped EXCEPT !.branch = b], a)
                          /\ Follower([dropped EXCEPT !.branch = b], a, paths)
    BY <2>1 DEF SameQueues, AppOK, AppFields, Follower
  <2>3. SameQueues([dropped EXCEPT !.branch = Main, !.retained = None], a)
        /\ Follower([dropped EXCEPT !.branch = Main, !.retained = None], a, paths)
    BY <1>0, <2>1 DEF SameQueues, AppOK, AppFields, Follower
  <2>4. SameQueues(Refreshed(onCursor, paths), a)
        /\ Follower(Refreshed(onCursor, paths), a, paths)
    BY <2>1 DEF SameQueues, Refreshed, AppOK, AppFields, Follower
  <2>5. \A ps : \A b \in Branch :
          LET d == Refreshed([dropped EXCEPT !.branch = b, !.retained = b], ps)
          IN  SameQueues(d, a) /\ d.game = a.game /\ d.cursor = None /\ d.seen = ps[a.game]
    BY <2>1 DEF SameQueues, Refreshed, AppOK, AppFields
  <2>6. LET d == Refreshed(moved, paths)
        IN  /\ d.game = a.game /\ d.seen = paths[a.game] /\ d.cursor.path = c.path
            /\ d.cursor.branch = c.branch /\ d.branch = a.branch
    <3> DEFINE e == [c EXCEPT !.position = step.position]
    <3>1. moved = [a EXCEPT !.cursor = e]
      OBVIOUS
    <3>2. e.path = c.path /\ e.branch = c.branch
      BY <2>1
    <3> HIDE DEF e, moved
    <3>3. DOMAIN moved = AppFields /\ moved.cursor = e /\ moved.game = a.game
          /\ moved.branch = a.branch
      BY <2>1, <3>1 DEF AppFields
    <3> QED
      BY <3>2, <3>3 DEF Refreshed, AppFields
  <2> HIDE DEF dropped, onCursor, moved, step
  <2>7. CASE /\ app' = Refreshed(IF AtTranslatableHead(c.path, step.position)
                                 THEN onCursor ELSE moved, paths)
             /\ UNCHANGED paths
    <3>1. CASE app' = Refreshed(onCursor, paths)
      BY <2>4, <2>7, <3>1, PlacedHere
    <3>2. CASE app' = Refreshed(moved, paths)
      <4>1. /\ app'.game = a.game /\ app'.seen = paths[a.game] /\ app'.cursor.path = c.path
            /\ app'.cursor.branch = c.branch /\ app'.branch = a.branch
        BY <2>6, <3>2
      <4>2. \A b \in Branch : Prefix(paths[a.game][b], paths[a.game][b])
        BY <1>0, PathsBegin
      <4> QED
        BY <1>3, <2>7, <4>1, <4>2 DEF Placed
    <3> QED
      BY <2>7, <3>1, <3>2
  <2>8. CASE Dispatch(Refreshed(onCursor, paths), q, batch) /\ UNCHANGED paths
    BY <1>1, <2>4, <2>8, SameQueuesShape
  <2>9. CASE Fork(dropped, q, batch, SubSeq(c.path, 1, step.position))
    <3> DEFINE path == SubSeq(c.path, 1, step.position)
    <3>1. ASSUME NEW name \in ForkNames(dropped.game),
                 LET forked == [paths EXCEPT ![dropped.game][name] = path]
                 IN  /\ paths' = forked
                     /\ Dispatch(Refreshed([dropped EXCEPT !.branch = name,
                                             !.retained = name], forked), q, batch)
          PROVE  Placed(paths', app')
      <4> DEFINE forked == [paths EXCEPT ![dropped.game][name] = path]
                 d == Refreshed([dropped EXCEPT !.branch = name, !.retained = name], forked)
      <4>0. dropped.game = a.game
        BY <2>1 DEF dropped, AppFields
      <4>1. paths' = forked /\ Dispatch(d, q, batch)
        BY <3>1
      <4>2. name \in Branch
        BY DEF ForkNames, FreeNames, ResumeName
      <4>3. Prefix(path, path)
        <5>1. Prefix(c.path, paths[a.game][a.branch])
          BY <1>3 DEF Placed
        <5>2. c.path \in Seq(Elements(c.path))
          BY <5>1 DEF Prefix
        <5>3. step.position \in DOMAIN c.path
          BY <1>3, <5>2, StepIn DEF step
        <5>4. Prefix(path, c.path)
          BY <5>2, <5>3, SubSeqPrefix
        <5> QED
          BY <5>4 DEF Prefix
      <4> HIDE DEF path
      <4>4. \A b \in Branch : forked[a.game][b] = IF b = name THEN path ELSE paths[a.game][b]
        BY <1>0, <4>0, <4>2 DEF Shapes, StoreOK
      <4> HIDE DEF forked
      <4>5. AppOK(d) /\ d.game = a.game /\ d.cursor = None /\ d.seen = forked[a.game]
        BY <2>5, <4>2, SameQueuesShape
      <4>6. app'.game = a.game /\ app'.cursor = None /\ app'.seen = forked[a.game]
        BY <4>1, <4>5, DispatchPlace
      <4>7. \A b \in Branch : Prefix(forked[a.game][b], forked[a.game][b])
        BY <1>0, <4>3, <4>4, PathsBegin
      <4> QED
        BY <4>1, <4>6, <4>7 DEF Placed
    <3>2. CASE /\ UNCHANGED paths
               /\ Dispatch([dropped EXCEPT !.branch = Main, !.retained = None], q, batch)
      BY <1>1, <2>3, <3>2, SameQueuesShape
    <3> QED
      BY <2>9, <3>1, <3>2 DEF Fork
  <2>10. CASE Dispatch([dropped EXCEPT !.branch = Main], q, batch) /\ UNCHANGED paths
    BY <1>0, <1>1, <2>2, <2>10, SameQueuesShape
  <2> QED
    BY <1>3, <2>7, <2>8, <2>9, <2>10 DEF Process, dropped, onCursor, moved, step
<1> QED
  BY <1>2, <1>3

(* A detection that ends puts the cursor on the branch it chooses.         *)
LEMMA FinishedPlaced ==
  ASSUME Histories, NEW a, AppOK(a), Placed(paths, a),
         NEW chosen, \A c \in chosen : c.branch \in Branch
  PROVE  Placed(paths, Finished(a, chosen))
<1> DEFINE f == Finished(a, chosen)
           c == CHOOSE c \in chosen : TRUE
           cursor == [branch |-> c.branch, position |-> c.position,
                      path |-> paths[a.game][c.branch]]
           l == Located(a, chosen)
<1>0. DOMAIN a = AppFields /\ a.game \in Game
  BY DEF AppOK
<1>1. \A b \in Branch : Prefix(paths[a.game][b], paths[a.game][b])
  BY <1>0, PathsBegin
<1>2. CASE chosen = {}
  <2>1. DOMAIN l = AppFields /\ l.game = a.game /\ l.cursor = None
    BY <1>0, <1>2 DEF Located, AppFields
  <2> HIDE DEF l
  <2>2. f.game = a.game /\ f.cursor = None /\ f.seen = paths[a.game]
    BY <2>1 DEF l, Finished, Released, Refreshed, AppFields
  <2> HIDE DEF f
  <2>3. Placed(paths, f)
    BY <1>1, <2>2 DEF Placed
  <2> QED
    BY <2>3 DEF f
<1>3. CASE chosen # {}
  <2>1. c \in chosen
    BY <1>3
  <2>2. c.branch \in Branch
    BY <2>1
  <2> HIDE DEF c, cursor
  <2>3. DOMAIN l = AppFields /\ l.game = a.game /\ l.cursor = cursor /\ l.branch = c.branch
    BY <1>0, <1>3 DEF Located, AppFields, c, cursor
  <2> HIDE DEF l
  <2>4. f.game = a.game /\ f.cursor = cursor /\ f.seen = paths[a.game] /\ f.branch = c.branch
    BY <2>3 DEF l, Finished, Released, Refreshed, AppFields
  <2>5. cursor.path = paths[a.game][c.branch] /\ cursor.branch = c.branch
    BY DEF cursor
  <2> HIDE DEF f
  <2>6. Placed(paths, f)
    BY <1>1, <2>2, <2>4, <2>5 DEF Placed
  <2> QED
    BY <2>6 DEF f
<1> QED
  BY <1>2, <1>3

(* So does one that releases its turns only.                               *)
LEMMA ReleasedPlaced ==
  ASSUME Histories, NEW a, AppOK(a), Placed(paths, a)
  PROVE  Placed(paths, Released(a))
<1>1. Follower(Released(a), a, paths)
  BY ReleasedShape DEF Follower
<1> QED
  BY <1>1, PlacedHere

(* A window without its list is where it was.                              *)
LEMMA UnlistedPlaced ==
  ASSUME Histories, NEW a, AppOK(a), Placed(paths, a), NEW u \in Ends(a)
  PROVE  Placed(paths, u)
<1>1. /\ u.game = a.game /\ u.branch = a.branch /\ u.cursor = a.cursor /\ a.game \in Game
      /\ u.seen = a.seen \/ \A b \in Branch : u.seen[b] = <<>>
  BY UnlistedShape DEF AppOK
<1>2. \A b \in Branch : Prefix(<<>>, paths[a.game][b])
  BY <1>1, PathsBegin
<1> QED
  BY <1>1, <1>2 DEF Placed

(* The events of the hooks keep the place of the window.                   *)
LEMMA HookPlaced ==
  ASSUME Shapes, Histories, Placement, NEW s \in Source,
         \/ Connected(s) \/ Disconnected(s)
         \/ \E h \in Hook : Candidate(s, h) \/ \E x \in Text : HookedText(s, h, x)
  PROVE  Placed(paths', app')
<1> DEFINE g == GameOf[s]
<1>1. g \in Game /\ AppOK(app) /\ DOMAIN app = AppFields /\ Placed(paths, app)
  BY PipelineAssumption DEF Shapes, AppOK, Placement
<1> HIDE DEF g
<1>2. CASE Disconnected(s)
  <2> DEFINE b == [app EXCEPT !.started = FALSE, !.detecting = FALSE,
                              !.manual = FALSE, !.buffer = <<>>]
  <2>1. app' = b /\ paths' = paths
    BY <1>2 DEF Disconnected, storeVars
  <2>2. Follower(b, app, paths)
    BY <1>1 DEF AppFields, Follower
  <2> HIDE DEF b
  <2> QED
    BY <1>1, <2>1, <2>2, PlacedHere
<1>3. CASE ~ Disconnected(s)
  <2>1. PICK ok \in BOOLEAN :
          /\ Activate(g, ok)
          /\ \/ app' = AppAfter(g, ok) \/ app' = Detecting(AppAfter(g, ok))
             \/ app' = Detecting(Detecting(AppAfter(g, ok)))
    BY <1>3, EventApp DEF g
  <2> DEFINE a == AppAfter(g, ok)
  <2>2. AppOK(a)
    BY <1>1, ActivatedShape
  <2>3. Placed(paths', a)
    <3>1. CASE Switches(g, ok)
      <4>1. a = NewSession(app, g) /\ paths' = Ensured(g)
        BY <2>1, <3>1 DEF Switches, AppAfter, Activated, Activate
      <4>2. a.game = g /\ a.cursor = None /\ a.seen = Ensured(g)[g]
        BY <1>1, <4>1 DEF AppFields, NewSession, Refreshed
      <4>3. \A b \in Branch : Ensured(g)[g][b] \in {paths[g][b], <<Root>>}
        BY <1>1 DEF Ensured, Shapes, StoreOK
      <4>4. Prefix(<<Root>>, <<Root>>)
        <5> DEFINE r == <<Root>>
        <5>1. DOMAIN r = {1} /\ Elements(r) = {Root}
          BY DEF Elements
        <5>2. r \in Seq(Elements(r))
          BY <5>1
        <5> HIDE DEF r
        <5>3. Prefix(r, r)
          BY <5>2 DEF Prefix
        <5> QED
          BY <5>3 DEF r
      <4>5. \A b \in Branch : Prefix(Ensured(g)[g][b], Ensured(g)[g][b])
        BY <1>1, <4>3, <4>4, PathsBegin
      <4> HIDE DEF a
      <4> QED
        BY <4>1, <4>2, <4>5 DEF Placed
    <3>2. CASE ~ Switches(g, ok)
      <4>1. a = app /\ paths' = paths
        BY <2>1, <3>2 DEF Switches, AppAfter, Activated, Activate
      <4> QED
        BY <1>1, <4>1
    <3> QED
      BY <3>1, <3>2
  <2> DEFINE ps == paths'
  <2>4. ASSUME NEW b, AppOK(b), Placed(ps, b)
        PROVE  AppOK(Detecting(b)) /\ Placed(ps, Detecting(b))
    <3>1. /\ Detecting(b).game = b.game /\ Detecting(b).cursor = None
          /\ Detecting(b).seen = b.seen
      BY <2>4 DEF Detecting, AppOK, AppFields
    <3>2. AppOK(Detecting(b))
      BY <2>4, DetectingShape
    <3> HIDE DEF ps
    <3> QED
      BY <2>4, <3>1, <3>2 DEF Placed
  <2> HIDE DEF a
  <2>5. app' \in {a, Detecting(a), Detecting(Detecting(a))}
    BY <2>1 DEF a
  <2>6. AppOK(Detecting(a)) /\ Placed(ps, Detecting(a))
    BY <2>2, <2>3, <2>4
  <2>7. Placed(ps, Detecting(Detecting(a)))
    BY <2>4, <2>6
  <2> DEFINE d == app'
  <2>8. d \in {a, Detecting(a), Detecting(Detecting(a))} /\ Placed(ps, a)
    BY <2>3, <2>5
  <2> HIDE DEF d, ps
  <2>9. Placed(ps, d)
    BY <2>6, <2>7, <2>8
  <2> QED
    BY <2>9 DEF d, ps
<1> QED
  BY <1>2, <1>3

(* So does every step of a poll.                                           *)
LEMMA PollPlaced ==
  ASSUME Shapes, Histories, Placement,
         PollStart \/ Rest \/ DetectionTimesOut \/ TakeReady \/ TakePending
  PROVE  Placed(paths', app')
<1>1. /\ AppOK(app) /\ DOMAIN app = AppFields /\ BufferOK(app) /\ Placed(paths, app)
      /\ app.cursor # None => app.cursor.position \in DOMAIN app.cursor.path
  BY DEF Shapes, AppOK, Placement, Histories, HistoriesOK
<1>2. CASE PollStart \/ Rest
  <2>1. UNCHANGED <<app, paths>>
    BY <1>2 DEF PollStart, Rest, storeVars
  <2> QED
    BY <1>1, <2>1
<1>3. CASE DetectionTimesOut
  <2> DEFINE f == Finished(app, {})
  <2>1. app' \in Ends(f) /\ paths' = paths
    BY <1>3 DEF DetectionTimesOut, storeVars
  <2>2. \A c \in {} : c.branch \in Branch
    OBVIOUS
  <2>3. AppOK(f) /\ Placed(paths, f)
    BY <1>1, <2>2, FinishedPlaced, FinishedShape
  <2> HIDE DEF f
  <2> QED
    BY <2>1, <2>3, UnlistedPlaced
<1>4. CASE TakeReady
  <2> DEFINE a == [app EXCEPT !.ready = Tail(app.ready)]
             batch == Head(app.ready)
  <2>1. Process(a, pending, batch) /\ app.ready # <<>>
    BY <1>4 DEF TakeReady
  <2>2. Tail(app.ready) \in Seq(Batch)
        /\ Texts(app.ready) = Elements(batch) \cup Texts(Tail(app.ready))
    BY <2>1, BatchesShape DEF Shapes, AppOK
  <2>3. /\ DOMAIN a = AppFields /\ a.game = app.game /\ a.branch = app.branch
        /\ a.retained = app.retained /\ a.cursor = app.cursor
        /\ a.detecting = app.detecting /\ a.started = app.started
        /\ a.manual = app.manual /\ a.buffer = app.buffer
        /\ a.ready = Tail(app.ready) /\ a.seen = app.seen
    BY <1>1 DEF AppFields
  <2> HIDE DEF a, batch
  <2>4. AppOK(a)
    BY <1>1, <2>2, <2>3 DEF AppOK
  <2>5. BufferOK(a) /\ Follower(a, app, paths)
    BY <1>1, <2>3 DEF BufferOK, Follower
  <2>6. Placed(paths, a)
    BY <1>1, <2>5, PlacedHere
  <2> QED
    BY <1>1, <2>1, <2>3, <2>4, <2>5, <2>6, ProcessPlaced
<1>5. CASE TakePending
  <2> DEFINE e == NextTurnOf(pending)
             b == [app EXCEPT !.buffer = Append(app.buffer, e.batch)]
  <2>1. /\ pending # <<>>
        /\ IF app.detecting
           THEN /\ \/ \E late \in BOOLEAN : app' \in Ends(Observed(app, e.batch, late))
                   \/ app' \in Ends(Finished(b, {})) \/ app' \in Ends(Released(b))
                /\ paths' = paths
           ELSE Process(app, e.rest, e.batch)
    BY <1>5 DEF TakePending
  <2>2. /\ e.batch \in Batch /\ \A t \in Elements(e.batch) : t.game = app.game
    BY <2>1, TurnShape
  <2> HIDE DEF e
  <2>3. CASE app.detecting
    <3>1. AppOK(b)
      BY <2>2, <2>3, ObservedShape
    <3>2. Follower(b, app, paths)
      BY <1>1 DEF Follower, AppFields
    <3>3. Placed(paths, b)
      BY <1>1, <3>2, PlacedHere
    <3> DEFINE candidates == ResumeCandidates(paths[app.game],
                 [i \in DOMAIN b.buffer |-> Signature(b.buffer[i])])
    <3>9. Candidates(b) = candidates
      <4>1. b.game = app.game
        BY <1>1 DEF AppFields
      <4> QED
        BY <4>1 DEF Candidates
    <3>4. PICK d \in {Finished(b, {}), Finished(b, candidates), Released(b),
                      Refreshed(b, paths)} : app' \in Ends(d)
      BY <2>1, <2>3, <3>9 DEF Observed
    <3> HIDE DEF b
    <3>5. \A c \in candidates : c.branch \in Branch
      <4>1. DOMAIN paths[app.game] = Branch
        BY <1>1 DEF Shapes, StoreOK, AppOK
      <4> QED
        BY <4>1, CandidateBranch
    <3> HIDE DEF candidates
    <3>6. ASSUME NEW chosen \in {{}, candidates}
          PROVE  Placed(paths, Finished(b, chosen)) /\ AppOK(Finished(b, chosen))
      <4>1. \A c \in chosen : c.branch \in Branch
        BY <3>5
      <4> QED
        BY <3>1, <3>3, <4>1, FinishedPlaced, FinishedShape
    <3>8. Placed(paths, Released(b)) /\ AppOK(Released(b))
      BY <3>1, <3>3, ReleasedPlaced, ReleasedShape
    <3>7. Placed(paths, Refreshed(b, paths)) /\ AppOK(Refreshed(b, paths))
      <4>1. Follower(Refreshed(b, paths), b, paths)
        BY <3>1, RefreshedShape DEF Follower
      <4> QED
        BY <3>1, <3>3, <4>1, PlacedHere, RefreshedShape
    <3>10. Placed(paths, d) /\ AppOK(d)
      BY <3>4, <3>6, <3>7, <3>8
    <3> QED
      BY <2>1, <2>3, <3>4, <3>10, UnlistedPlaced
  <2>4. CASE ~ app.detecting
    BY <1>1, <2>1, <2>4, ProcessPlaced
  <2> QED
    BY <2>3, <2>4
<1> QED
  BY <1>2, <1>3, <1>4, <1>5

(* A commit makes a path longer.                                           *)
LEMMA CommitPlaced ==
  ASSUME Shapes, Histories, Placement, NEW g \in Game, NEW b \in Branch, NEW c,
         NEW ps, ps = [paths EXCEPT ![g][b] = Append(paths[g][b], c)],
         NEW d, Follower(d, app, ps)
  PROVE  Placed(ps, d)
<1>1. app.game \in Game /\ app.branch \in Branch /\ Placed(paths, app)
  BY DEF Shapes, AppOK, Placement
<1>2. \A x \in Branch : ps[app.game][x] \in {paths[app.game][x], Append(paths[app.game][x], c)}
  BY <1>1 DEF Shapes, StoreOK
<1>3. \A x \in Branch : Prefix(paths[app.game][x], ps[app.game][x])
  BY <1>1, <1>2, PathsBegin
<1>4. \A x \in Branch : Prefix(ps[app.game][x], ps[app.game][x])
  BY <1>1, <1>2, PathsBegin
<1> QED
  BY <1>1, <1>3, <1>4, PlacedStays

(* So do the engine and the messages of the user.                          *)
LEMMA EnginePlaced ==
  ASSUME Shapes, Histories, Placement, EngineReads \/ EngineCommits \/ EngineFails \/ Complete
  PROVE  Placed(paths', app')
<1>1. AppOK(app) /\ app.game \in Game /\ Placed(paths, app)
  BY DEF Shapes, AppOK, Placement
<1>2. CASE EngineReads \/ EngineFails \/ Complete
  <2>1. (app' = app \/ app' = Refreshed(app, paths)) /\ paths' = paths
    BY <1>2 DEF EngineReads, EngineFails, Complete, Engine, storeVars
  <2>2. Follower(app', app, paths)
    BY <1>1, <2>1, RefreshedShape DEF Follower
  <2> QED
    BY <1>1, <2>1, <2>2, PlacedHere
<1>3. CASE EngineCommits
  <2> DEFINE ps == paths'
             c == [id |-> commits + 1, sig |-> CommitSignature(turn.batch)]
  <2>1. /\ turn.stage = "running" /\ app' = app
        /\ ps = [paths EXCEPT ![turn.game][turn.branch] =
                   Append(paths[turn.game][turn.branch], c)]
    BY <1>3 DEF EngineCommits, Engine
  <2>2. turn.game \in Game /\ turn.branch \in Branch
    BY <2>1 DEF Shapes, TurnOK, NoTurn
  <2> HIDE DEF c, ps
  <2>3. Follower(app, app, ps)
    BY DEF Follower
  <2>4. Placed(ps, app)
    BY <2>1, <2>2, <2>3, CommitPlaced
  <2> QED
    BY <2>1, <2>4 DEF ps
<1> QED
  BY <1>2, <1>3

(* A branch that the user moves is not the active one.                     *)
LEMMA UserPlaced ==
  ASSUME Shapes, Histories, Placement, UserMessage
  PROVE  Placed(paths', app')
<1>1. PICK h \in Hook \cup {0}, b \in Branch, c \in HookSettings :
        \/ h \in Hook /\ (Forget(h) \/ ChangeHook(h, c))
        \/ Detach \/ CommitScratchpad
        \/ \E setting \in {"model", "latest"} : Configure(setting)
        \/ \E i \in DOMAIN app.seen[b] : SelectCommit(b, i)
        \/ \E name \in UserBranch : CreateBranch(name)
  <2>1. Main \in Branch /\ [enabled |-> FALSE, post |-> FALSE] \in HookSettings
    BY PipelineAssumption DEF HookSettings
  <2> QED
    BY <2>1 DEF UserMessage
<1>2. AppOK(app) /\ app.game \in Game /\ app.branch \in Branch /\ DOMAIN app = AppFields
      /\ Placed(paths, app)
  BY DEF Shapes, AppOK, Placement
<1>3. \A x \in Branch : Prefix(paths[app.game][x], paths[app.game][x])
  BY <1>2, PathsBegin
<1>4. CASE \/ h \in Hook /\ (Forget(h) \/ ChangeHook(h, c))
           \/ Detach \/ \E setting \in {"model", "latest"} : Configure(setting)
  <2>1. UNCHANGED <<app, paths>>
    BY <1>4 DEF Forget, ChangeHook, Detach, Configure, storeVars
  <2> QED
    BY <1>2, <2>1
<1>5. CASE CommitScratchpad
  <2> DEFINE ps == paths'
             commit == [id |-> commits + 1, sig |-> Structural]
  <2>1. /\ app' = Refreshed(app, ps)
        /\ ps = [paths EXCEPT ![app.game][app.branch] =
             Append(paths[app.game][app.branch], commit)]
    BY <1>5 DEF CommitScratchpad
  <2> HIDE DEF ps, commit
  <2>2. Follower(Refreshed(app, ps), app, ps)
    BY <1>2, RefreshedShape DEF Follower
  <2>3. Placed(ps, Refreshed(app, ps))
    BY <1>2, <2>1, <2>2, CommitPlaced
  <2> QED
    BY <2>1, <2>3 DEF ps
<1>6. CASE \E name \in UserBranch : CreateBranch(name)
  <2>1. PICK name \in UserBranch : CreateBranch(name)
    BY <1>6
  <2> DEFINE path == paths[app.game][app.branch]
             ps == paths'
  <2>2. ps = [paths EXCEPT ![app.game][name] = path] /\ app' = Refreshed(app, ps)
    BY <2>1 DEF CreateBranch
  <2>3. name \in Branch
    BY PipelineAssumption
  <2> HIDE DEF path, ps
  <2>4. \A x \in Branch : ps[app.game][x] = IF x = name THEN path ELSE paths[app.game][x]
    BY <1>2, <2>2, <2>3 DEF Shapes, StoreOK
  <2>5. ps[app.game][app.branch] = paths[app.game][app.branch]
    BY <1>2, <2>4 DEF path
  <2> DEFINE d == Refreshed(app, ps)
  <2>6. /\ d.game = app.game /\ d.cursor = app.cursor /\ d.seen = ps[app.game]
        /\ d.branch = app.branch
    BY <1>2, RefreshedShape
  <2>7. \A x \in Branch : Prefix(ps[app.game][x], ps[app.game][x])
    BY <1>2, <1>3, <2>4 DEF path
  <2> HIDE DEF d
  <2>8. Placed(ps, d)
    BY <1>2, <2>5, <2>6, <2>7 DEF Placed
  <2> QED
    BY <2>2, <2>8 DEF d, ps
<1>7. CASE \E i \in DOMAIN app.seen[b] : SelectCommit(b, i)
  <2>1. PICK i \in DOMAIN app.seen[b] : SelectCommit(b, i)
    BY <1>7
  <2> DEFINE kept == IF app.retained = b THEN b ELSE None
             cursor == [branch |-> b, path |-> app.seen[b], position |-> i]
             a == [app EXCEPT !.retained = kept, !.cursor = cursor,
                     !.branch = b, !.detecting = FALSE, !.started = TRUE,
                     !.manual = TRUE, !.ready = app.ready \o app.buffer,
                     !.buffer = <<>>, !.found = {}]
  <2>2. app' = Refreshed(a, paths) /\ paths' = paths
    BY <2>1 DEF SelectCommit, storeVars
  <2>3. DOMAIN a = AppFields /\ a.game = app.game /\ a.cursor = cursor /\ a.branch = b
    BY <1>2 DEF AppFields
  <2>4. cursor.path = app.seen[b] /\ cursor.branch = b
    OBVIOUS
  <2> HIDE DEF a, cursor
  <2>5. app'.game = app.game /\ app'.cursor = cursor /\ app'.seen = paths[app.game]
        /\ app'.branch = b
    BY <2>2, <2>3 DEF Refreshed, AppFields
  <2> QED
    BY <1>2, <1>3, <2>2, <2>4, <2>5 DEF Placed
<1> QED
  BY <1>1, <1>4, <1>5, <1>6, <1>7

(* In the beginning there is no cursor, and the list is fresh.             *)
LEMMA PlacementInit == Init /\ Histories => Placement
<1> SUFFICES ASSUME Init, Histories PROVE Placement
  OBVIOUS
<1>1. app.game = Default /\ app.cursor = None /\ app.seen = paths[Default] /\ Default \in Game
  BY PipelineAssumption DEF Init
<1> QED
  BY <1>1, PathsBegin DEF Placement, Placed

(* Every step keeps the place of the window.                               *)
LEMMA PlacementStep == Shapes /\ Histories /\ Placement /\ [Next]_vars => Placement'
<1> SUFFICES ASSUME Shapes, Histories, Placement, [Next]_vars PROVE Placed(paths', app')
  BY DEF Placement
<1>1. CASE HookEvent
  <2>1. PICK s \in Source : \/ Connected(s) \/ Disconnected(s)
                            \/ \E h \in Hook : Candidate(s, h) \/ \E x \in Text : HookedText(s, h, x)
    BY <1>1 DEF HookEvent
  <2> QED
    BY <2>1, HookPlaced
<1>2. CASE PollStart \/ Rest \/ DetectionTimesOut \/ TakeReady \/ TakePending
  BY <1>2, PollPlaced
<1>3. CASE EngineReads \/ EngineCommits \/ EngineFails \/ Complete
  BY <1>3, EnginePlaced
<1>4. CASE UserMessage
  BY <1>4, UserPlaced
<1>5. CASE UNCHANGED vars
  BY <1>5 DEF vars, storeVars, Placement
<1> QED
  BY <1>1, <1>2, <1>3, <1>4, <1>5 DEF Next

(* All commits that the cursor skips are structural.                       *)
LEMMA NextTurnSkips ==
  ASSUME NEW S, NEW path \in Seq(S), NEW position \in DOMAIN path
  PROVE  \A i \in position + 1 .. NextTurn(path, position) - 1 : IsStructural(path[i])
<1> DEFINE later == {i \in position + 1 .. Len(path) : ~IsStructural(path[i])}
           next == NextTurn(path, position)
<1>1. Len(path) \in Nat /\ position \in 1 .. Len(path)
  OBVIOUS
<1>2. later \in SUBSET Nat
  BY <1>1
<1>3. next = IF later = {} THEN Len(path) + 1 ELSE Least(later)
  BY DEF NextTurn
<1>4. next \in position + 1 .. Len(path) + 1
  BY NextTurnIn
<1> HIDE DEF next
<1> SUFFICES ASSUME NEW i \in position + 1 .. next - 1, ~ IsStructural(path[i])
             PROVE  FALSE
  BY DEF next
<1>5. i \in later /\ i < next
  BY <1>1, <1>4
<1> HIDE DEF later
<1>6. Least(later) <= i
  BY <1>2, <1>5, LeastIn
<1>7. Least(later) = next
  BY <1>3, <1>5
<1> QED
  BY <1>1, <1>4, <1>5, <1>6, <1>7

(* Paths that agree have the same beginning.                               *)
LEMMA SameStart ==
  ASSUME NEW S, NEW p \in Seq(S), NEW T, NEW q \in Seq(T), NEW m \in DOMAIN p,
         m \in DOMAIN q, \A i \in 1 .. m : p[i] = q[i]
  PROVE  SubSeq(p, 1, m) = SubSeq(q, 1, m)
<1>1. m \in Nat /\ Len(p) \in Nat /\ Len(q) \in Nat /\ m <= Len(p) /\ m <= Len(q)
  OBVIOUS
<1>2. SubSeq(p, 1, m) = [i \in 1 .. m |-> p[i]] /\ SubSeq(q, 1, m) = [i \in 1 .. m |-> q[i]]
  BY <1>1
<1> QED
  BY <1>2

(* Names for resume branches do not run out.                               *)
LEMMA NamesLeft ==
  ASSUME ~ IsFiniteSet(Branch \ UserBranch), FewBranches, NEW g \in Game
  PROVE  FreeNames(g) # {}
<1> SUFFICES ASSUME FreeNames(g) = {} PROVE FALSE
  OBVIOUS
<1> DEFINE F == {b \in Branch : Exists(g, b)}
<1>1. Branch \ UserBranch \subseteq F \cup {Main}
  BY DEF FreeNames, ResumeName
<1>2. IsFiniteSet(F)
  BY DEF FewBranches
<1> HIDE DEF F
<1>3. IsFiniteSet(F \cup {Main})
  BY <1>2, FS_AddElement
<1> QED
  BY <1>1, <1>3, FS_Subset

(* What ReplayContinues says of a cursor and of the branch ps the turn is  *)
(* put on.                                                                 *)
Continues(c, p) ==
  /\ SubSeq(p, 1, c.position) = SubSeq(c.path, 1, c.position)
  /\ \A i \in c.position + 1 .. Len(c.path) :
       i <= Len(p) /\ p[i] = c.path[i] => IsStructural(p[i])

(* A replay that has shown the whole path goes on at its end.              *)
LEMMA HeadContinues ==
  ASSUME NEW c, NEW S, c.path \in Seq(S), c.position \in DOMAIN c.path,
         NEW batch,
         CursorStep(c.path, c.position, Signature(batch)).outcome = "at_head",
         NEW p, Prefix(p, p), Prefix(c.path, p)
  PROVE  Continues(c, p)
<1> DEFINE next == NextTurn(c.path, c.position)
           path == c.path
           position == c.position
<1>1. path \in Seq(S) /\ position \in DOMAIN path
  OBVIOUS
<1>2. next > Len(path)
  BY DEF CursorStep, Outcome
<1>3. next \in position + 1 .. Len(path) + 1
      /\ \A i \in position + 1 .. next - 1 : IsStructural(path[i])
  BY <1>1, NextTurnIn, NextTurnSkips
<1>4. Len(path) \in Nat /\ position \in 1 .. Len(path) /\ DOMAIN path = 1 .. Len(path)
  BY <1>1
<1> HIDE DEF next
<1>5. \A i \in position + 1 .. Len(path) : IsStructural(path[i])
  BY <1>2, <1>3, <1>4
<1>6. p \in Seq(Elements(p)) /\ DOMAIN path \subseteq DOMAIN p
      /\ \A i \in DOMAIN path : path[i] = p[i]
  BY DEF Prefix
<1>7. \A i \in 1 .. position : i \in DOMAIN path
  BY <1>4
<1>8. SubSeq(path, 1, position) = SubSeq(p, 1, position)
  <2>1. position \in DOMAIN p /\ \A i \in 1 .. position : path[i] = p[i]
    BY <1>1, <1>6, <1>7
  <2> HIDE DEF path, position
  <2> QED
    BY <1>1, <1>6, <2>1, SameStart
<1> QED
  BY <1>5, <1>8 DEF Continues

(* A replay that diverges goes on in front of the turn that differs.       *)
LEMMA ForkContinues ==
  ASSUME NEW c, NEW S, c.path \in Seq(S), c.position \in DOMAIN c.path,
         NEW batch,
         CursorStep(c.path, c.position, Signature(batch)).outcome = "diverged"
  PROVE  Continues(c, SubSeq(c.path, 1,
                        CursorStep(c.path, c.position, Signature(batch)).position))
<1> DEFINE next == NextTurn(c.path, c.position)
           path == c.path
           position == c.position
           k == CursorStep(path, position, Signature(batch)).position
           p == SubSeq(path, 1, k)
<1>1. path \in Seq(S) /\ position \in DOMAIN path
  OBVIOUS
<1>2. k = next - 1
  BY DEF CursorStep
<1>3. next \in position + 1 .. Len(path) + 1
      /\ \A i \in position + 1 .. next - 1 : IsStructural(path[i])
  BY <1>1, NextTurnIn, NextTurnSkips
<1>4. Len(path) \in Nat /\ position \in 1 .. Len(path) /\ DOMAIN path = 1 .. Len(path)
  BY <1>1
<1> HIDE DEF next, k
<1>5. k \in position .. Len(path) /\ k \in 1 .. Len(path)
      /\ \A i \in position + 1 .. k : IsStructural(path[i])
  BY <1>2, <1>3, <1>4
<1> HIDE DEF path, position
<1>6. p \in Seq(S) /\ Len(p) = k /\ DOMAIN p = 1 .. k /\ \A i \in 1 .. k : p[i] = path[i]
  BY <1>1, <1>4, <1>5
<1> HIDE DEF p
<1>7. SubSeq(p, 1, position) = SubSeq(path, 1, position)
  <2>1. position \in DOMAIN p /\ \A i \in 1 .. position : p[i] = path[i]
    BY <1>4, <1>5, <1>6
  <2> QED
    BY <1>1, <1>6, <2>1, SameStart
<1>8. \A i \in position + 1 .. Len(path) :
        i <= Len(p) /\ p[i] = path[i] => IsStructural(p[i])
  BY <1>4, <1>5, <1>6
<1>9. Continues(c, p)
  BY <1>7, <1>8 DEF Continues, path, position
<1> QED
  BY <1>9 DEF p, path, k, position

(* A turn that is sent off a replay goes on with the replayed history.     *)
LEMMA ProcessContinues ==
  ASSUME Shapes, Histories, FewBranches, ~ IsFiniteSet(Branch \ UserBranch), ~ StoreFails,
         NEW a, AppOK(a), Placed(paths, a), a.cursor # None,
         a.cursor.position \in DOMAIN a.cursor.path,
         NEW q, NEW batch, Process(a, q, batch), turn' # turn
  PROVE  \/ \E commit \in Elements(a.cursor.path) : commit.sig = Unreadable
         \/ Continues(a.cursor, paths'[app'.game][app'.branch])
<1> DEFINE c == a.cursor
           step == CursorStep(c.path, c.position, Signature(batch))
           dropped == [a EXCEPT !.cursor = None]
           onCursor == [dropped EXCEPT !.branch = c.branch]
           next == NextTurn(c.path, c.position)
<1>1. /\ DOMAIN a = AppFields /\ a.game \in Game /\ c.branch \in Branch
      /\ c.branch = a.branch /\ Prefix(c.path, paths[a.game][a.branch])
  BY DEF AppOK, Placed
<1>2. c.path \in Seq(Elements(c.path)) /\ c.position \in DOMAIN c.path
  BY <1>1 DEF Prefix
<1>3. \A b : Dispatch(b, q, batch) => app' = b
  BY DEF Dispatch
<1>4. LET d == Refreshed(onCursor, paths) IN d.game = a.game /\ d.branch = c.branch
  BY <1>1 DEF Refreshed, AppFields
<1>5. dropped.game = a.game
  BY <1>1 DEF AppFields
<1>6. \A ps : \A b : LET d == Refreshed([dropped EXCEPT !.branch = b, !.retained = b], ps)
                     IN  d.game = a.game /\ d.branch = b
  BY <1>1 DEF Refreshed, AppFields
<1> HIDE DEF dropped, onCursor
<1>7. CASE /\ step.outcome = "at_head"
           /\ Dispatch(Refreshed(onCursor, paths), q, batch) /\ paths' = paths
  <2>1. app'.game = a.game /\ app'.branch = a.branch
    BY <1>1, <1>3, <1>4, <1>7
  <2>2. Prefix(paths[a.game][a.branch], paths[a.game][a.branch])
    BY <1>1, PathsBegin DEF AppOK
  <2> HIDE DEF c
  <2>3. Continues(c, paths[a.game][a.branch])
    BY <1>1, <1>2, <1>7, <2>2, HeadContinues DEF step
  <2> QED
    BY <1>7, <2>1, <2>3 DEF c
<1>8. CASE /\ step.outcome = "diverged"
           /\ Fork(dropped, q, batch, SubSeq(c.path, 1, step.position))
  <2> DEFINE path == SubSeq(c.path, 1, step.position)
             name == Least(FreeNames(dropped.game))
             forked == [paths EXCEPT ![dropped.game][name] = path]
             d == Refreshed([dropped EXCEPT !.branch = name, !.retained = name], forked)
  <2>1. FreeNames(dropped.game) # {}
    BY <1>1, <1>5, NamesLeft
  <2>2. paths' = forked /\ Dispatch(d, q, batch)
    BY <1>8, <2>1 DEF Fork, ForkNames
  <2>3. FreeNames(dropped.game) \in SUBSET Nat /\ FreeNames(dropped.game) \subseteq Branch
    BY PipelineAssumption DEF FreeNames, ResumeName
  <2>4. name \in Branch
    BY <2>1, <2>3, LeastIn
  <2>5. app'.game = a.game /\ app'.branch = name
    <3>1. app' = d
      BY <1>3, <2>2
    <3> HIDE DEF name, forked
    <3> QED
      BY <1>6, <3>1
  <2>6. Continues(c, path)
    BY <1>2, <1>8, ForkContinues DEF step
  <2> HIDE DEF name, path
  <2>7. paths'[a.game][name] = path
    BY <1>1, <1>5, <2>2, <2>4 DEF Shapes, StoreOK
  <2> QED
    BY <2>5, <2>6, <2>7
<1>9. CASE step.outcome = "unavailable"
  <2>1. next <= Len(c.path) /\ c.path[next].sig = Unreadable
    BY <1>9 DEF CursorStep, Outcome
  <2>2. next \in c.position + 1 .. Len(c.path) + 1
    BY <1>2, NextTurnIn
  <2> HIDE DEF next, c
  <2>3. next \in DOMAIN c.path
    BY <1>2, <2>1, <2>2
  <2>4. c.path[next] \in Elements(c.path)
    BY <2>3 DEF Elements
  <2> QED
    BY <2>1, <2>4 DEF c
<1> QED
  BY <1>7, <1>8, <1>9 DEF Process, dropped, onCursor

(* Every step that sends a turn off a replay goes on with its history.     *)
LEMMA StepContinues ==
  ASSUME Shapes, Histories, Placement, FewBranches,
         ~ IsFiniteSet(Branch \ UserBranch), ~ StoreFails,
         [Next]_vars, Dispatched, app.cursor # None
  PROVE  \/ \E commit \in Elements(app.cursor.path) : commit.sig = Unreadable
         \/ Continues(app.cursor, paths'[app'.game][app'.branch])
<1>1. /\ AppOK(app) /\ DOMAIN app = AppFields /\ BufferOK(app) /\ Placed(paths, app)
      /\ app.cursor.position \in DOMAIN app.cursor.path /\ turn' # turn
  BY DEF Shapes, AppOK, Placement, Histories, HistoriesOK, Dispatched
<1>2. CASE TakeReady
  <2> DEFINE a == [app EXCEPT !.ready = Tail(app.ready)]
             batch == Head(app.ready)
  <2>1. Process(a, pending, batch) /\ app.ready # <<>>
    BY <1>2 DEF TakeReady
  <2>2. Tail(app.ready) \in Seq(Batch)
        /\ Texts(app.ready) = Elements(batch) \cup Texts(Tail(app.ready))
    BY <2>1, BatchesShape DEF Shapes, AppOK
  <2>3. /\ DOMAIN a = AppFields /\ a.game = app.game /\ a.branch = app.branch
        /\ a.retained = app.retained /\ a.cursor = app.cursor
        /\ a.detecting = app.detecting /\ a.started = app.started
        /\ a.manual = app.manual /\ a.buffer = app.buffer
        /\ a.ready = Tail(app.ready) /\ a.seen = app.seen
    BY <1>1 DEF AppFields
  <2> HIDE DEF a, batch
  <2>4. AppOK(a)
    BY <1>1, <2>2, <2>3 DEF AppOK
  <2>5. Follower(a, app, paths)
    BY <2>3 DEF Follower
  <2>6. Placed(paths, a)
    BY <1>1, <2>5, PlacedHere
  <2> QED
    BY <1>1, <2>1, <2>3, <2>4, <2>6, ProcessContinues
<1>3. CASE TakePending
  <2>1. Process(app, NextTurnOf(pending).rest, NextTurnOf(pending).batch)
    BY <1>1, <1>3 DEF TakePending
  <2> QED
    BY <1>1, <2>1, ProcessContinues
<1>4. CASE ~ (TakeReady \/ TakePending)
  <2>1. CASE HookEvent
    BY <1>1, <2>1 DEF HookEvent, Connected, Disconnected, Candidate, HookedText, Polling
  <2>2. CASE PollStart \/ Rest \/ DetectionTimesOut \/ UNCHANGED vars
    BY <1>1, <2>2 DEF PollStart, Rest, DetectionTimesOut, vars
  <2>3. CASE EngineReads \/ EngineCommits \/ EngineFails \/ Complete
    BY <2>3 DEF EngineReads, EngineCommits, EngineFails, Complete, Dispatched, NoTurn
  <2>4. CASE UserMessage
    BY <1>1, <2>4 DEF UserMessage, Forget, ChangeHook, Detach, CommitScratchpad,
                      Configure, SelectCommit, CreateBranch, UserActs
  <2> QED
    BY <1>4, <2>1, <2>2, <2>3, <2>4 DEF Next
<1> QED
  BY <1>2, <1>3, <1>4

(* When names for resume branches do not run out, a turn that ends a       *)
(* replay is put on a branch that holds the replayed history, and no       *)
(* stored turn that was not replayed lies in between, whatever branches    *)
(* the user moves and whatever the engine commits meanwhile.               *)
THEOREM ReplaysContinue ==
  ASSUME ~ IsFiniteSet(Branch \ UserBranch)
  PROVE  Spec => ReplayContinues
<1>1. Shapes /\ Histories /\ Placement /\ FewBranches /\ [Next]_vars =>
        [Dispatched /\ app.cursor # None =>
           LET c == app.cursor
               p == paths'[app'.game][app'.branch]
           IN  \/ StoreFails
               \/ \E commit \in Elements(c.path) : commit.sig = Unreadable
               \/ /\ SubSeq(p, 1, c.position) = SubSeq(c.path, 1, c.position)
                  /\ \A i \in c.position + 1 .. Len(c.path) :
                       i <= Len(p) /\ p[i] = c.path[i] => IsStructural(p[i])]_vars
  BY StepContinues DEF Continues
<1>2. Init => FewBranches
  BY FewInit
<1>3. Shapes /\ FewBranches /\ [Next]_vars => FewBranches'
  BY FewKept
<1>4. Init /\ Histories => Placement
  BY PlacementInit
<1>5. Shapes /\ Histories /\ Placement /\ [Next]_vars => Placement'
  BY PlacementStep
<1> QED
  BY <1>1, <1>2, <1>3, <1>4, <1>5, ShapesHold, HistoriesHold, PTL DEF Spec, ReplayContinues

=============================================================================
