------------------------ MODULE PipelineOrderProofs -------------------------
(* Theorems about TurnPipeline: the turns of a hook stay in their order.   *)
EXTENDS PipelineProofs

(* The text s comes before t, as it came earlier or has overtaken t, or it *)
(* is t shown again after it has overtaken some text.                      *)
Precedes(O, s, t) ==
  s.n < t.n \/ <<s.n, t.n>> \in O \/ (s.n = t.n /\ \E o \in O : o[1] = s.n)

(* The texts of X come before those of Y, hook by hook. *)
Before(O, X, Y) ==
  \A s \in X, t \in Y :
    s.hook = t.hook /\ s.updated /\ t.updated => Precedes(O, s, t)

(* The turns of L are in the order of their texts.                         *)
Ordered(O, L) ==
  \A i, j \in DOMAIN L : i < j => Before(O, Elements(L[i]), Elements(L[j]))

(* The batches that were handled.                                          *)
Done == [i \in DOMAIN handled |-> handled[i].batch]

(* The hook is enabled.                                                    *)
On(c, h) == c[h] # None /\ c[h].enabled

(* A queue in the order its texts came, with the settings c of their hooks *)
(* unless those are disabled.                                              *)
QueueSound(q, n, c) ==
  /\ \A i, j \in DOMAIN q : i < j => q[i].n < q[j].n
  /\ \A s, t \in Elements(q) : s.hook = t.hook => s.post = t.post
  /\ \A t \in Elements(q) : /\ t.updated /\ t.n <= n
                            /\ On(c, t.hook) => t.post = c[t.hook].post

(* Last texts are of enabled hooks, and as late as any of their hook that  *)
(* waits or has overtaken one that waits.                                  *)
LatestSound(O, last, q, n, c) ==
  \A l \in last :
    /\ l.n <= n /\ On(c, l.hook) /\ l.post = c[l.hook].post
    /\ \A t \in Elements(q) : t.game = l.game /\ t.hook = l.hook =>
         t.n <= l.n /\ \A o \in O : o[2] = t.n => o[1] <= l.n

(* The overtaken texts came and the ones that overtook them came later.    *)
OvertakenSound(O, n) ==
  O \subseteq Nat \X Nat /\ \A o \in O : o[2] < o[1] /\ o[1] <= n

(* What was handled comes before what is ready, that before the buffer,    *)
(* and that before the queue.                                              *)
InLine(O, H, a, q, n) ==
  /\ Ordered(O, H) /\ Ordered(O, a.ready) /\ Ordered(O, a.buffer)
  /\ Before(O, Texts(H), Texts(a.ready)) /\ Before(O, Texts(H), Texts(a.buffer))
  /\ Before(O, Texts(H), Elements(q))
  /\ Before(O, Texts(a.ready), Texts(a.buffer))
  /\ Before(O, Texts(a.ready), Elements(q))
  /\ Before(O, Texts(a.buffer), Elements(q))
  /\ \A t \in Texts(H) \cup Texts(a.ready) \cup Texts(a.buffer) : t.n <= n

(* The inductive invariant of the order.                                   *)
Orderly ==
  /\ handled \in Seq([how : {"replay", "model"}, batch : Batch])
  /\ QueueSound(pending, texts, config)
  /\ LatestSound(overtaken, latest, pending, texts, config)
  /\ OvertakenSound(overtaken, texts)
  /\ InLine(overtaken, Done, app, pending, texts)

(* What comes before something still does when more is overtaken.          *)
LEMMA BeforeGrows ==
  ASSUME NEW O, NEW P, O \subseteq P
  PROVE  /\ \A X, Y : Before(O, X, Y) => Before(P, X, Y)
         /\ \A L : Ordered(O, L) => Ordered(P, L)
         /\ \A H, a, q, n : InLine(O, H, a, q, n) => InLine(P, H, a, q, n)
<1>1. \A X, Y : Before(O, X, Y) => Before(P, X, Y)
  BY DEF Before, Precedes
<1>2. \A L : Ordered(O, L) => Ordered(P, L)
  BY <1>1 DEF Ordered
<1> QED
  BY <1>1, <1>2 DEF InLine

(* Nothing is in order with everything.                                    *)
LEMMA OrderedEmpty ==
  \A O : Ordered(O, <<>>) /\ \A X : Before(O, {}, X) /\ Before(O, X, {})
BY DEF Ordered, Before

(* A turn that comes after all others goes to the end of the line.         *)
LEMMA OrderedAppend ==
  ASSUME NEW O, NEW L \in Seq(Batch), NEW b \in Batch, Ordered(O, L),
         Before(O, Texts(L), Elements(b))
  PROVE  Ordered(O, Append(L, b))
<1> DEFINE M == Append(L, b)
           n == Len(L)
<1>1. /\ n \in Nat /\ DOMAIN L = 1 .. n /\ DOMAIN M = 1 .. n + 1
      /\ \A i \in 1 .. n : M[i] = L[i]
      /\ M[n + 1] = b
  <2>1. M \in Seq(Batch) /\ Len(M) = Len(L) + 1
    OBVIOUS
  <2> QED
    BY <2>1
<1>2. \A i \in 1 .. n : Elements(L[i]) \subseteq Texts(L)
  BY <1>1 DEF Texts, Elements
<1> HIDE DEF M, n
<1>3. ASSUME NEW i \in DOMAIN M, NEW j \in DOMAIN M, i < j
      PROVE  Before(O, Elements(M[i]), Elements(M[j]))
  <2>1. i \in 1 .. n /\ M[i] = L[i]
    BY <1>1, <1>3
  <2>2. CASE j = n + 1
    BY <1>1, <1>2, <2>1, <2>2 DEF Before
  <2>3. CASE j # n + 1
    <3>1. j \in 1 .. n /\ M[j] = L[j]
      BY <1>1, <1>3, <2>3
    <3> QED
      BY <1>1, <1>3, <2>1, <3>1 DEF Ordered
  <2> QED
    BY <2>2, <2>3
<1> QED
  BY <1>3 DEF Ordered, M

(* Two lines, one after the other.                                         *)
LEMMA OrderedConcat ==
  ASSUME NEW O, NEW L \in Seq(Batch), NEW K \in Seq(Batch), Ordered(O, L), Ordered(O, K),
         Before(O, Texts(L), Texts(K))
  PROVE  Ordered(O, L \o K)
<1> DEFINE M == L \o K
           n == Len(L)
           k == Len(K)
<1>1. /\ n \in Nat /\ k \in Nat
      /\ DOMAIN L = 1 .. n /\ DOMAIN K = 1 .. k /\ DOMAIN M = 1 .. n + k
      /\ \A i \in 1 .. n : M[i] = L[i]
      /\ \A i \in n + 1 .. n + k : M[i] = K[i - n]
  <2>1. M \in Seq(Batch) /\ Len(M) = Len(L) + Len(K)
    OBVIOUS
  <2> QED
    BY <2>1
<1>2. /\ \A i \in 1 .. n : Elements(L[i]) \subseteq Texts(L)
      /\ \A i \in 1 .. k : Elements(K[i]) \subseteq Texts(K)
  BY <1>1 DEF Texts, Elements
<1> HIDE DEF M, n, k
<1>3. ASSUME NEW i \in DOMAIN M, NEW j \in DOMAIN M, i < j
      PROVE  Before(O, Elements(M[i]), Elements(M[j]))
  <2>1. CASE j <= n
    <3>1. i \in 1 .. n /\ j \in 1 .. n /\ M[i] = L[i] /\ M[j] = L[j]
      BY <1>1, <1>3, <2>1
    <3> QED
      BY <1>1, <1>3, <3>1 DEF Ordered
  <2>2. CASE i <= n /\ ~ (j <= n)
    <3>1. i \in 1 .. n /\ j - n \in 1 .. k /\ M[i] = L[i] /\ M[j] = K[j - n]
      BY <1>1, <1>3, <2>2
    <3> QED
      BY <1>2, <3>1 DEF Before
  <2>3. CASE ~ (i <= n)
    <3>1. i - n \in 1 .. k /\ j - n \in 1 .. k /\ M[i] = K[i - n] /\ M[j] = K[j - n]
          /\ i - n < j - n
      BY <1>1, <1>3, <2>3
    <3> QED
      BY <1>1, <3>1 DEF Ordered
  <2> QED
    BY <1>1, <1>3, <2>1, <2>2, <2>3
<1> QED
  BY <1>3 DEF Ordered, M

(* The rest of a line comes after its first turn.                          *)
LEMMA OrderedTail ==
  ASSUME NEW O, NEW L \in Seq(Batch), L # <<>>, Ordered(O, L)
  PROVE  Ordered(O, Tail(L)) /\ Before(O, Elements(Head(L)), Texts(Tail(L)))
<1> DEFINE M == Tail(L)
           n == Len(L)
<1>1. /\ n \in Nat /\ n > 0 /\ Head(L) = L[1]
      /\ DOMAIN L = 1 .. n /\ DOMAIN M = 1 .. n - 1
      /\ \A i \in 1 .. n - 1 : M[i] = L[i + 1]
  <2>1. M \in Seq(Batch) /\ Len(M) = Len(L) - 1
    OBVIOUS
  <2> QED
    BY <2>1
<1> HIDE DEF M, n
<1>2. ASSUME NEW i \in DOMAIN M, NEW j \in DOMAIN M, i < j
      PROVE  Before(O, Elements(M[i]), Elements(M[j]))
  <2>1. /\ i + 1 \in DOMAIN L /\ j + 1 \in DOMAIN L /\ i + 1 < j + 1
        /\ M[i] = L[i + 1] /\ M[j] = L[j + 1]
    BY <1>1, <1>2
  <2> QED
    BY <2>1 DEF Ordered
<1>3. ASSUME NEW j \in DOMAIN M
      PROVE  Before(O, Elements(L[1]), Elements(M[j]))
  <2>1. 1 \in DOMAIN L /\ j + 1 \in DOMAIN L /\ 1 < j + 1 /\ M[j] = L[j + 1]
    BY <1>1, <1>3
  <2> QED
    BY <2>1 DEF Ordered
<1>4. Before(O, Elements(L[1]), Texts(M))
  BY <1>3 DEF Before, Texts, Elements
<1> QED
  BY <1>1, <1>2, <1>4 DEF Ordered, M

(* A queue that loses some of its texts stays sound.                       *)
LEMMA ThinnedQueue ==
  ASSUME NEW q \in Seq(HookedTexts), NEW r \in Seq(HookedTexts), Thins(r, q),
         NEW n, NEW c, QueueSound(q, n, c)
  PROVE  QueueSound(r, n, c)
<1>1. Elements(r) \subseteq Elements(q)
  BY DEF Thins
<1>2. \A i, j \in DOMAIN r : i < j => r[i].n < r[j].n
  <2> TAKE i, j \in DOMAIN r
  <2> HAVE i < j
  <2>1. PICK x, y \in DOMAIN q : x < y /\ r[i] = q[x] /\ r[j] = q[y]
    BY DEF Thins
  <2> QED
    BY <2>1 DEF QueueSound
<1> QED
  BY <1>1, <1>2 DEF QueueSound

(* A turn leaves only texts of its hooks that are later or that it has     *)
(* overtaken, and a snapshot none of the hooks it shows.                   *)
LEMMA TurnOrder ==
  ASSUME Shapes, pending # <<>>,
         QueueSound(pending, texts, config),
         LatestSound(overtaken, latest, pending, texts, config),
         OvertakenSound(overtaken, texts)
  PROVE  LET e == NextTurnOf(pending)
             O == overtaken \cup PassedBy(e)
         IN
         /\ QueueSound(e.rest, texts, config)
         /\ LatestSound(O, latest, e.rest, texts, config)
         /\ OvertakenSound(O, texts)
         /\ \A t \in Elements(e.batch) :
              /\ t.n <= texts
              /\ t.updated => \E p \in Elements(pending) :
                   /\ p.hook = t.hook /\ p.updated
                   /\ \/ p.n = t.n
                      \/ p.n <= t.n /\ \A o \in overtaken : o[2] = p.n => o[1] <= t.n
         /\ Before(O, Elements(e.batch), Elements(e.rest))
<1> DEFINE q == pending
           o == Event(q)
           e == NextTurnOf(q)
           first == Head(q)
<1>1. /\ q \in Seq(HookedTexts) /\ \A t \in Elements(q) : t.game = app.game
      /\ \A t \in Elements(q) : t \in HookedTexts
  BY ElementsShape DEF Shapes, QueueOK
<1>2. /\ o.batch \in Batch /\ o.rest \in Seq(HookedTexts)
      /\ Thins(o.batch, q) /\ Thins(o.rest, q) /\ first \in Elements(q)
      /\ first = q[1] /\ 1 \in DOMAIN q
      /\ \A t \in Elements(o.batch) : Together(first, t)
      /\ \A t \in Elements(o.rest) : ~ Together(first, t)
  BY <1>1, EventShape
<1>3. e.rest \in Seq(HookedTexts) /\ Thins(e.rest, q)
  BY TurnShape DEF QueueOK
<1>4. QueueSound(e.rest, texts, config)
  BY <1>1, <1>3, ThinnedQueue
<1>5. LatestSound(overtaken, latest, e.rest, texts, config)
  BY <1>3 DEF LatestSound, Thins
<1> HIDE DEF o, first
<1>6. /\ Elements(o.batch) \subseteq Elements(q)
      /\ Elements(o.rest) \subseteq Elements(q)
  BY <1>2 DEF Thins
<1>7. texts \in Nat /\ \A t \in HookedTexts : t.n \in Nat
  <2>1. \A t \in HookedTexts : t.n \in 1 .. MaxTexts
    BY DEF HookedTexts
  <2> QED
    BY <2>1 DEF Shapes
<1>12. \A x \in PassedBy(e) : \E s \in Elements(e.batch), t \in Elements(e.rest) :
         x = <<s.n, t.n>> /\ t.hook = s.hook /\ t.n < s.n
  BY DEF PassedBy
<1>13. \A s \in Elements(e.batch), t \in Elements(e.rest) :
         t.hook = s.hook /\ t.n < s.n => <<s.n, t.n>> \in PassedBy(e)
  BY DEF PassedBy
<1>8. CASE e = o
  <2>1. \A t \in Elements(o.batch) : t.n <= texts /\ t.updated
    BY <1>1, <1>6, <1>7 DEF QueueSound
  <2>2. \A t \in Elements(o.batch) :
              /\ t.n <= texts
              /\ t.updated => \E p \in Elements(q) :
                                p.hook = t.hook /\ p.updated /\ p.n = t.n
    BY <1>6, <2>1
  <2>3. \A s, t \in Elements(q) : s.n = t.n => s = t
    <3> SUFFICES ASSUME NEW i \in DOMAIN q, NEW j \in DOMAIN q, q[i].n = q[j].n
                 PROVE  i = j
      BY DEF Elements
    <3>1. q[i].n \in Nat /\ q[j].n \in Nat /\ i \in Nat /\ j \in Nat
      BY <1>1, <1>7
    <3>2. ~ (i < j) /\ ~ (j < i)
      BY <3>1 DEF QueueSound
    <3> QED
      BY <3>1, <3>2
  <2>4. ASSUME NEW s \in Elements(o.batch), NEW t \in Elements(o.rest),
               s.hook = t.hook
        PROVE  s.n < t.n \/ <<s.n, t.n>> \in PassedBy(e)
    <3>1. s # t /\ s \in Elements(q) /\ t \in Elements(q)
      BY <1>2, <1>6
    <3>2. s.n # t.n /\ s.n \in Nat /\ t.n \in Nat
      BY <1>1, <1>7, <2>3, <3>1
    <3> QED
      BY <1>8, <1>13, <2>4, <3>2
  <2>5. Before(overtaken \cup PassedBy(e), Elements(o.batch), Elements(o.rest))
    BY <2>4 DEF Before, Precedes
  <2>6. OvertakenSound(overtaken \cup PassedBy(e), texts)
    <3> SUFFICES ASSUME NEW x \in PassedBy(e)
                 PROVE  x \in Nat \X Nat /\ x[2] < x[1] /\ x[1] <= texts
      BY DEF OvertakenSound
    <3>1. PICK s \in Elements(o.batch), t \in Elements(o.rest) :
            x = <<s.n, t.n>> /\ t.hook = s.hook /\ t.n < s.n
      BY <1>8, <1>12
    <3>2. s.n \in Nat /\ t.n \in Nat /\ s.n <= texts
      BY <1>1, <1>6, <1>7, <2>1
    <3> QED
      BY <3>1, <3>2
  <2>7. LatestSound(overtaken \cup PassedBy(e), latest, e.rest, texts, config)
    <3> SUFFICES ASSUME NEW l \in latest, NEW p \in Elements(o.rest),
                        p.game = l.game, p.hook = l.hook,
                        NEW x \in PassedBy(e), x[2] = p.n
                 PROVE  x[1] <= l.n
      BY <1>5, <1>8 DEF LatestSound
    <3>1. PICK s \in Elements(o.batch), t \in Elements(o.rest) :
            x = <<s.n, t.n>> /\ t.hook = s.hook /\ t.n < s.n
      BY <1>8, <1>12
    <3>2. x[1] = s.n /\ x[2] = t.n
      BY <3>1
    <3>3. p = t
      BY <1>6, <2>3, <3>2
    <3>4. s \in Elements(q) /\ s.game = l.game /\ s.hook = l.hook
      BY <1>1, <1>6, <3>1, <3>3
    <3> QED
      BY <3>2, <3>4 DEF LatestSound
  <2> QED
    BY <1>4, <1>8, <2>2, <2>5, <2>6, <2>7
<1>9. CASE e # o
  <2>1. e = Snapshot(o) /\ Values(o) # {}
    BY <1>9 DEF NextTurnOf, Snapshot, o
  <2>2. /\ Elements(e.batch) = Marked(o)
        /\ Elements(e.rest) = {t \in Elements(o.rest) : ~ Shown(o, t)}
    BY <1>2, <2>1, SnapshotShape DEF Shapes
  <2> DEFINE fresh == {t.hook : t \in Elements(o.batch) \cup
                                 {p \in Elements(o.rest) : Shown(o, p)}}
  <2>3. Marked(o) = {[v EXCEPT !.updated = v.hook \in fresh] : v \in Values(o)}
    BY DEF Marked
  <2>4. \A h \in fresh : \E p \in Elements(q) : p.hook = h
    BY <1>6
  <2> HIDE DEF fresh
  <2>5. \A m \in Marked(o) : \E v \in Values(o) :
          m.hook = v.hook /\ m.n = v.n /\ (m.updated => v.hook \in fresh)
    <3> SUFFICES ASSUME NEW v \in Values(o)
                 PROVE  LET m == [v EXCEPT !.updated = v.hook \in fresh]
                        IN  m.hook = v.hook /\ m.n = v.n /\ (m.updated => v.hook \in fresh)
      BY <2>3
    <3>1. v \in HookedTexts
      BY DEF Values, Shapes, LatestOK
    <3> DEFINE u == v.hook \in fresh
               m == [v EXCEPT !.updated = u]
    <3>2. m.hook = v.hook /\ m.n = v.n /\ m.updated = u
      BY <3>1 DEF HookedTexts
    <3> QED
      BY <3>2
  <2>6. Head(o.batch) \in Elements(q)
    BY <1>2, <1>6, ElementsShape DEF Batch
  <2>7. Head(o.batch).game = app.game
    BY <1>1, <2>6
  <2>8. \A v \in Values(o) : /\ v \in latest /\ v.game = app.game
                             /\ v.post = Head(o.batch).post
    BY <2>7 DEF Values, Alike
  <2>9. ASSUME NEW m \in Elements(e.batch)
        PROVE  /\ m.n <= texts
               /\ m.updated => \E p \in Elements(q) :
                                 /\ p.hook = m.hook /\ p.updated /\ p.n <= m.n
                     /\ \A x \in overtaken : x[2] = p.n => x[1] <= m.n
    <3>1. PICK v \in Values(o) :
            m.hook = v.hook /\ m.n = v.n /\ (m.updated => v.hook \in fresh)
      BY <2>2, <2>5
    <3>2. v \in latest /\ v.game = app.game
      BY <2>8
    <3>3. m.n <= texts
      BY <3>1, <3>2 DEF LatestSound
    <3>4. ASSUME m.updated
          PROVE  \E p \in Elements(q) :
                   /\ p.hook = m.hook /\ p.updated /\ p.n <= m.n
                   /\ \A x \in overtaken : x[2] = p.n => x[1] <= m.n
      <4>1. PICK p \in Elements(q) : p.hook = v.hook
        BY <2>4, <3>1, <3>4
      <4>2. p.game = v.game /\ p.updated
        BY <1>1, <3>2 DEF QueueSound
      <4>3. p.n <= v.n /\ \A x \in overtaken : x[2] = p.n => x[1] <= v.n
        BY <3>2, <4>1, <4>2 DEF LatestSound
      <4> QED
        BY <3>1, <4>1, <4>2, <4>3
    <3> QED
      BY <3>3, <3>4
  <2>10. ASSUME NEW m \in Elements(e.batch), NEW t \in Elements(e.rest),
                m.hook = t.hook
         PROVE  FALSE
    <3>1. PICK v \in Values(o) : m.hook = v.hook
      BY <2>2, <2>5
    <3>2. v \in latest /\ v.post = Head(o.batch).post
      BY <2>8
    <3>3. t \in Elements(q) /\ ~ Shown(o, t)
      BY <1>6, <2>2
    <3>4. On(config, v.hook) /\ v.post = config[v.hook].post
      BY <3>2 DEF LatestSound
    <3>5. t.post = config[t.hook].post
      BY <2>10, <3>1, <3>3, <3>4 DEF QueueSound
    <3>6. Alike(o, t)
      BY <1>1, <2>7, <2>10, <3>1, <3>2, <3>3, <3>4, <3>5 DEF Alike
    <3>7. Shown(o, t)
      BY <2>10, <3>1, <3>6 DEF Shown
    <3> QED
      BY <3>3, <3>7
  <2>11. PassedBy(e) = {} /\ Before(overtaken, Elements(e.batch), Elements(e.rest))
    BY <1>12, <2>10 DEF Before
  <2>12. overtaken \cup PassedBy(e) = overtaken
    BY <2>11
  <2> QED
    BY <1>4, <1>5, <2>9, <2>11, <2>12
<1> QED
  BY <1>8, <1>9

(* An empty queue has no texts.                                            *)
LEMMA NothingQueued == Texts(<<>>) = {} /\ Elements(<<>>) = {}
BY DEF Texts, Elements

(* The turns handled so far grow by the turn a step handles.               *)
LEMMA DoneShape ==
  ASSUME handled \in Seq([how : {"replay", "model"}, batch : Batch])
  PROVE  /\ Done \in Seq(Batch)
         /\ UNCHANGED handled => Done' = Done /\ handled' \in Seq([how : {"replay", "model"}, batch : Batch])
         /\ \A how \in {"replay", "model"}, b \in Batch :
              handled' = Append(handled, [how |-> how, batch |-> b]) =>
                /\ Done' = Append(Done, b)
                /\ handled' \in Seq([how : {"replay", "model"}, batch : Batch])
<1> DEFINE Rec == [how : {"replay", "model"}, batch : Batch]
           n == Len(handled)
<1>0. handled \in Seq(Rec)
  OBVIOUS
<1>7. \A r \in Rec : r.batch \in Batch
  OBVIOUS
<1>8. \A how \in {"replay", "model"}, b \in Batch : [how |-> how, batch |-> b] \in Rec
  OBVIOUS
<1> HIDE DEF Rec
<1>1. n \in Nat /\ DOMAIN handled = 1 .. n /\ \A i \in 1 .. n : handled[i] \in Rec
  BY <1>0
<1>2. \A i \in 1 .. n : handled[i].batch \in Batch
  BY <1>1, <1>7
<1>3. Done = [i \in 1 .. n |-> handled[i].batch]
  BY <1>1 DEF Done
<1>4. Done \in Seq(Batch) /\ Len(Done) = n
  <2>1. Done \in [1 .. n -> Batch]
    BY <1>2, <1>3
  <2> QED
    BY <1>1, <2>1
<1>5. ASSUME NEW how \in {"replay", "model"}, NEW b \in Batch,
             handled' = Append(handled, [how |-> how, batch |-> b])
      PROVE  /\ Done' = Append(Done, b)
             /\ handled' \in Seq(Rec)
  <2>1. [how |-> how, batch |-> b] \in Rec
    BY <1>8
  <2>2. /\ handled' \in Seq(Rec) /\ Len(handled') = n + 1 /\ DOMAIN handled' = 1 .. n + 1
        /\ \A i \in 1 .. n : handled'[i] = handled[i]
        /\ handled'[n + 1] = [how |-> how, batch |-> b]
    BY <1>0, <1>5, <2>1
  <2>3. Done' = [i \in 1 .. n + 1 |-> handled'[i].batch]
    BY <2>2 DEF Done
  <2>4. handled'[n + 1].batch = b
    BY <2>2
  <2>5. \A i \in 1 .. n + 1 : Done'[i] = IF i = n + 1 THEN b ELSE Done[i]
    <3>1. \A i \in 1 .. n + 1 : i # n + 1 => i \in 1 .. n
      BY <1>1
    <3> QED
      BY <1>3, <2>2, <2>3, <2>4, <3>1
  <2> DEFINE A == Append(Done, b)
  <2>6. /\ A = [i \in 1 .. n + 1 |-> A[i]]
        /\ \A i \in 1 .. n + 1 : A[i] = IF i = n + 1 THEN b ELSE Done[i]
    <3>1. A \in Seq(Batch) /\ Len(A) = n + 1 /\ A[n + 1] = b
          /\ \A i \in 1 .. n : A[i] = Done[i]
      BY <1>1, <1>4
    <3> HIDE DEF A
    <3>2. \A i \in 1 .. n + 1 : i # n + 1 => i \in 1 .. n
      BY <1>1
    <3> QED
      BY <3>1, <3>2
  <2> HIDE DEF A
  <2>8. \A i \in 1 .. n + 1 : Done'[i] = A[i]
    BY <2>5, <2>6
  <2>9. Done' = [i \in 1 .. n + 1 |-> Done'[i]]
    BY <2>3
  <2>7. Done' = Append(Done, b)
    <3>1. Done' = A
      BY <2>6, <2>8, <2>9
    <3> QED
      BY <3>1 DEF A
  <2> QED
    BY <2>2, <2>7
<1>6. UNCHANGED handled => Done' = Done
  BY DEF Done
<1> QED
  BY <1>4, <1>5, <1>6 DEF Rec

(* The first turn of the line moves to the turns handled.                  *)
LEMMA InLineHandled ==
  ASSUME NEW O, NEW H \in Seq(Batch), NEW a, a.buffer \in Seq(Batch), a.ready \in Seq(Batch),
         NEW q, NEW n, InLine(O, H, a, q, n),
         NEW batch \in Batch, Before(O, Texts(H), Elements(batch)),
         Before(O, Elements(batch), Texts(a.ready)),
         Before(O, Elements(batch), Texts(a.buffer)),
         Before(O, Elements(batch), Elements(q)),
         \A t \in Elements(batch) : t.n <= n
  PROVE  InLine(O, Append(H, batch), a, q, n)
<1>1. Texts(Append(H, batch)) = Texts(H) \cup Elements(batch)
  BY BatchesShape
<1>2. Ordered(O, Append(H, batch))
  BY OrderedAppend DEF InLine
<1> QED
  BY <1>1, <1>2 DEF InLine, Before

(* What drops queues or moves the buffer behind the ready turns keeps the line. *)
LEMMA InLineShrinks ==
  ASSUME NEW O, NEW H \in Seq(Batch), NEW a, a.buffer \in Seq(Batch), a.ready \in Seq(Batch),
         NEW q, NEW n, InLine(O, H, a, q, n),
         NEW b, NEW r,
         \/ b.ready = a.ready /\ b.buffer = a.buffer
         \/ b.ready = a.ready /\ b.buffer = <<>>
         \/ b.ready = <<>> /\ b.buffer = <<>>
         \/ b.ready = <<>> /\ b.buffer = a.buffer
         \/ b.ready = a.ready \o a.buffer /\ b.buffer = <<>>,
         Elements(r) \subseteq Elements(q)
  PROVE  InLine(O, H, b, r, n)
<1>1. /\ Texts(<<>>) = {} /\ Ordered(O, <<>>)
      /\ Texts(a.ready \o a.buffer) = Texts(a.ready) \cup Texts(a.buffer)
  BY BatchesShape, OrderedEmpty
<1>2. Ordered(O, a.ready \o a.buffer)
  BY OrderedConcat DEF InLine
<1> QED
  BY <1>1, <1>2 DEF InLine, Before

(* A turn that is buffered comes after those that are.                     *)
LEMMA InLineBuffered ==
  ASSUME NEW O, NEW H \in Seq(Batch), NEW a, a.buffer \in Seq(Batch), a.ready \in Seq(Batch),
         NEW q, NEW n, InLine(O, H, a, q, n),
         NEW batch \in Batch, Before(O, Texts(H), Elements(batch)),
         Before(O, Texts(a.ready), Elements(batch)),
         Before(O, Texts(a.buffer), Elements(batch)),
         Before(O, Elements(batch), Elements(q)),
         \A t \in Elements(batch) : t.n <= n,
         NEW b, b.ready = a.ready, b.buffer = Append(a.buffer, batch)
  PROVE  InLine(O, H, b, q, n)
<1>1. Texts(b.buffer) = Texts(a.buffer) \cup Elements(batch)
  BY BatchesShape
<1>2. Ordered(O, b.buffer)
  BY OrderedAppend DEF InLine
<1> QED
  BY <1>1, <1>2 DEF InLine, Before

(* What comes before the pending texts comes before the turn made of them. *)
LEMMA BeforeTurn ==
  ASSUME NEW O, NEW X \in SUBSET HookedTexts, NEW Y \in SUBSET HookedTexts,
         NEW Z \in SUBSET HookedTexts, Before(O, X, Y),
         \A t \in Z : t.updated => \E p \in Y :
           /\ p.hook = t.hook /\ p.updated
           /\ p.n = t.n \/ (p.n <= t.n /\ \A o \in O : o[2] = p.n => o[1] <= t.n)
  PROVE  Before(O, X, Z)
<1>1. \A t \in HookedTexts : t.n \in Int
  <2>1. \A t \in HookedTexts : t.n \in 1 .. MaxTexts
    BY DEF HookedTexts
  <2> QED
    BY <2>1
<1>2. ASSUME NEW s \in X, NEW t \in Z, s.hook = t.hook, s.updated, t.updated
      PROVE  Precedes(O, s, t)
  <2>1. PICK p \in Y :
          /\ p.hook = t.hook /\ p.updated
          /\ p.n = t.n \/ (p.n <= t.n /\ \A o \in O : o[2] = p.n => o[1] <= t.n)
    BY <1>2
  <2>2. Precedes(O, s, p)
    BY <1>2, <2>1 DEF Before
  <2>3. s.n \in Int /\ p.n \in Int /\ t.n \in Int
    BY <1>1
  <2>4. CASE p.n = t.n
    BY <2>2, <2>4 DEF Precedes
  <2>5. CASE p.n <= t.n /\ \A o \in O : o[2] = p.n => o[1] <= t.n
    <3>1. CASE s.n < p.n
      BY <2>3, <2>5, <3>1 DEF Precedes
    <3>2. CASE <<s.n, p.n>> \in O
      <4> DEFINE o == <<s.n, p.n>>
      <4>1. o \in O /\ o[1] = s.n /\ o[2] = p.n
        BY <3>2
      <4> HIDE DEF o
      <4>2. s.n <= t.n
        BY <2>5, <4>1
      <4> QED
        BY <2>3, <4>1, <4>2 DEF Precedes
    <3>3. CASE s.n = p.n /\ \E o \in O : o[1] = s.n
      BY <2>3, <2>5, <3>3 DEF Precedes
    <3> QED
      BY <2>2, <3>1, <3>2, <3>3 DEF Precedes
  <2> QED
    BY <2>1, <2>4, <2>5
<1> QED
  BY <1>2 DEF Before

(* A poll keeps the line in order: it takes turns from its front only.     *)
LEMMA PollOrder ==
  ASSUME Shapes, Orderly, PollStart \/ Rest \/ DetectionTimesOut \/ TakeReady \/ TakePending
  PROVE  Orderly'
<1> DEFINE Handled == handled' \in Seq([how : {"replay", "model"}, batch : Batch])
<1>1. UNCHANGED <<latest, texts, config>>
  BY DEF PollStart, Rest, DetectionTimesOut, TakeReady, TakePending, Starting,
         queueVars, hookVars, textVars
<1>2. /\ AppOK(app) /\ Done \in Seq(Batch) /\ app.ready \in Seq(Batch) /\ app.buffer \in Seq(Batch)
      /\ pending \in Seq(HookedTexts)
  BY DoneShape DEF Shapes, AppOK, QueueOK, Orderly
<1>3. ASSUME Handled, QueueSound(pending', texts, config),
             LatestSound(overtaken', latest, pending', texts, config),
             OvertakenSound(overtaken', texts), InLine(overtaken', Done', app', pending', texts)
      PROVE  Orderly'
  BY <1>1, <1>3 DEF Orderly
<1>4. UNCHANGED handled => Done' = Done /\ Handled
  BY DoneShape DEF Orderly
<1> HIDE DEF Handled
<1>5. CASE PollStart \/ Rest
  <2>1. UNCHANGED <<app, pending, handled, overtaken>>
    BY <1>5 DEF PollStart, Rest, queueVars, textVars
  <2> QED
    BY <1>3, <1>4, <2>1 DEF Orderly
<1>6. CASE DetectionTimesOut
  <2>1. app' \in Ends(Finished(app, {})) /\ UNCHANGED <<pending, handled, overtaken>>
    BY <1>6 DEF DetectionTimesOut, queueVars
  <2>2. app'.ready = app.ready \o app.buffer /\ app'.buffer = <<>>
    <3>1. \A c \in {} : c.branch \in Branch
      OBVIOUS
    <3> DEFINE f == Finished(app, {})
    <3>2. AppOK(f) /\ f.ready = app.ready \o app.buffer /\ f.buffer = <<>>
      BY <1>2, <3>1, FinishedShape
    <3>3. app' \in Ends(f)
      BY <2>1
    <3> HIDE DEF f
    <3> QED
      BY <3>2, <3>3, UnlistedShape
  <2>3. InLine(overtaken, Done, app', pending, texts)
    BY <1>2, <2>2, InLineShrinks DEF Orderly
  <2> QED
    BY <1>3, <1>4, <2>1, <2>3 DEF Orderly
<1>7. ASSUME NEW a, AppOK(a), BufferOK(a), NEW q, QueueOK(q, a), NEW batch \in Batch,
             \A t \in Elements(batch) : t.game = a.game,
             Process(a, q, batch),
             QueueSound(q, texts, config), LatestSound(overtaken', latest, q, texts, config),
             OvertakenSound(overtaken', texts), InLine(overtaken', Done, a, q, texts),
             InLine(overtaken', Append(Done, batch), a, q, texts)
      PROVE  Orderly'
  <2>1. /\ app'.buffer = a.buffer
        /\ \/ /\ app'.ready = a.ready /\ pending' = q
              /\ \E how \in {"replay", "model"} :
                   handled' = Append(handled, [how |-> how, batch |-> batch])
           \/ /\ app'.ready = <<>> /\ pending' = <<>> /\ UNCHANGED handled
    BY <1>7, ProcessShape
  <2>2. a.buffer \in Seq(Batch) /\ a.ready \in Seq(Batch) /\ q \in Seq(HookedTexts)
    BY <1>7 DEF AppOK, QueueOK
  <2>3. CASE /\ app'.ready = a.ready /\ pending' = q
             /\ \E how \in {"replay", "model"} :
                  handled' = Append(handled, [how |-> how, batch |-> batch])
    <3>1. Done' = Append(Done, batch) /\ Handled
      BY <2>3, DoneShape DEF Orderly, Handled
    <3>2. Append(Done, batch) \in Seq(Batch)
      BY <1>2, BatchesShape
    <3>3. InLine(overtaken', Done', app', pending', texts)
      BY <1>7, <2>1, <2>2, <2>3, <3>1, <3>2, InLineShrinks
    <3> QED
      BY <1>3, <1>7, <2>3, <3>1, <3>3
  <2>4. CASE app'.ready = <<>> /\ pending' = <<>> /\ UNCHANGED handled
    <3>1. Elements(<<>>) \subseteq Elements(q)
      BY NothingQueued
    <3>2. InLine(overtaken', Done, app', <<>>, texts)
      BY <1>2, <1>7, <2>1, <2>2, <2>4, <3>1, InLineShrinks
    <3>3. QueueSound(<<>>, texts, config) /\ LatestSound(overtaken', latest, <<>>, texts, config)
      <4>1. QueueSound(<<>>, texts, config)
        BY NothingQueued DEF QueueSound
      <4>2. LatestSound(overtaken', latest, <<>>, texts, config)
        BY <1>7, NothingQueued DEF LatestSound
      <4> QED
        BY <4>1, <4>2
    <3> QED
      BY <1>3, <1>4, <1>7, <2>4, <3>2, <3>3
  <2> QED
    BY <2>1, <2>3, <2>4
<1>8. CASE TakeReady
  <2> DEFINE a == [app EXCEPT !.ready = Tail(app.ready)]
             batch == Head(app.ready)
  <2>1. Process(a, pending, batch) /\ app.ready # <<>> /\ overtaken' = overtaken
    BY <1>8 DEF TakeReady
  <2>2. /\ batch \in Batch /\ Tail(app.ready) \in Seq(Batch)
        /\ Texts(app.ready) = Elements(batch) \cup Texts(Tail(app.ready))
    BY <1>2, <2>1, BatchesShape
  <2>3. /\ DOMAIN a = AppFields /\ a.game = app.game /\ a.branch = app.branch
        /\ a.retained = app.retained /\ a.cursor = app.cursor
        /\ a.detecting = app.detecting /\ a.started = app.started
        /\ a.manual = app.manual /\ a.buffer = app.buffer
        /\ a.ready = Tail(app.ready)
    BY DEF Shapes, AppOK, AppFields
  <2>4. Ordered(overtaken, Tail(app.ready)) /\ Before(overtaken, Elements(batch), Texts(Tail(app.ready)))
    BY <1>2, <2>1, OrderedTail DEF Orderly, InLine
  <2> HIDE DEF a, batch
  <2>5. AppOK(a)
    BY <1>2, <2>2, <2>3 DEF AppOK
  <2>6. BufferOK(a) /\ QueueOK(pending, a)
    BY <2>3 DEF Shapes, BufferOK, QueueOK
  <2>7. \A t \in Elements(batch) : t.game = a.game
    BY <1>2, <2>2, <2>3 DEF AppOK
  <2>8. InLine(overtaken, Done, a, pending, texts)
    BY <2>2, <2>3, <2>4 DEF Orderly, InLine, Before
  <2>9. /\ Before(overtaken, Texts(Done), Elements(batch)) /\ Before(overtaken, Elements(batch), Texts(a.ready))
        /\ Before(overtaken, Elements(batch), Texts(a.buffer)) /\ Before(overtaken, Elements(batch), Elements(pending))
        /\ \A t \in Elements(batch) : t.n <= texts
    BY <2>2, <2>3, <2>4 DEF Orderly, InLine, Before
  <2>10. InLine(overtaken, Append(Done, batch), a, pending, texts)
    BY <1>2, <2>2, <2>3, <2>8, <2>9, InLineHandled
  <2>11. /\ QueueSound(pending, texts, config) /\ OvertakenSound(overtaken, texts)
         /\ LatestSound(overtaken, latest, pending, texts, config)
    BY DEF Orderly
  <2> QED
    BY <1>7, <2>1, <2>2, <2>5, <2>6, <2>7, <2>8, <2>10, <2>11
<1>9. CASE TakePending
  <2> DEFINE e == NextTurnOf(pending)
             b == [app EXCEPT !.buffer = Append(app.buffer, e.batch)]
  <2>1. /\ pending # <<>> /\ app.ready = <<>>
        /\ IF app.detecting
           THEN /\ pending' = e.rest
                /\ \/ \E late \in BOOLEAN : app' \in Ends(Observed(app, e.batch, late))
                   \/ app' \in Ends(Finished(b, {}))
                   \/ app' \in Ends(Released(b))
                /\ UNCHANGED handled
           ELSE Process(app, e.rest, e.batch)
        /\ overtaken' = overtaken \cup PassedBy(e)
    BY <1>9 DEF TakePending
  <2>2. /\ e.batch \in Batch /\ QueueOK(e.rest, app) /\ Thins(e.rest, pending)
        /\ \A t \in Elements(e.batch) : t.game = app.game
    BY <2>1, TurnShape
  <2>3. /\ QueueSound(e.rest, texts, config)
        /\ LatestSound(overtaken', latest, e.rest, texts, config)
        /\ OvertakenSound(overtaken', texts)
        /\ \A t \in Elements(e.batch) :
              /\ t.n <= texts
              /\ t.updated => \E p \in Elements(pending) :
                   /\ p.hook = t.hook /\ p.updated
                   /\ \/ p.n = t.n
                      \/ p.n <= t.n /\ \A o \in overtaken : o[2] = p.n => o[1] <= t.n
        /\ Before(overtaken', Elements(e.batch), Elements(e.rest))
    BY <2>1, TurnOrder DEF Orderly
  <2>4. /\ Texts(Done) \subseteq HookedTexts /\ Texts(app.ready) \subseteq HookedTexts
        /\ Texts(app.buffer) \subseteq HookedTexts /\ Elements(pending) \subseteq HookedTexts
        /\ Elements(e.batch) \subseteq HookedTexts
    BY <1>2, <2>2, BatchesShape, ElementsShape DEF Batch
  <2> HIDE DEF e
  <2>5. /\ Before(overtaken, Texts(Done), Elements(e.batch)) /\ Before(overtaken, Texts(app.ready), Elements(e.batch))
        /\ Before(overtaken, Texts(app.buffer), Elements(e.batch))
    BY <2>3, <2>4, BeforeTurn DEF Orderly, InLine
  <2>9. /\ Before(overtaken', Texts(Done), Elements(e.batch))
        /\ Before(overtaken', Texts(app.ready), Elements(e.batch))
        /\ Before(overtaken', Texts(app.buffer), Elements(e.batch))
    BY <2>1, <2>5, BeforeGrows
  <2>6. InLine(overtaken', Done, app, e.rest, texts)
    <3>1. InLine(overtaken, Done, app, e.rest, texts)
      BY <1>2, <2>2, InLineShrinks DEF Orderly, Thins
    <3> QED
      BY <2>1, <3>1, BeforeGrows
  <2>7. CASE app.detecting
    <3>1. /\ AppOK(b) /\ b.ready = app.ready /\ b.buffer = Append(app.buffer, e.batch)
          /\ \A late \in BOOLEAN :
              LET o == Observed(app, e.batch, late)
              IN  \/ \E chosen : /\ o = Finished(b, chosen)
                                 /\ \A c \in chosen : c.branch \in Branch
                  \/ AppOK(o) /\ o.ready = app.ready /\ o.buffer = b.buffer
      BY <2>2, <2>7, ObservedShape
    <3> HIDE DEF b
    <3>2. b.ready \in Seq(Batch) /\ b.buffer \in Seq(Batch)
      BY <3>1 DEF AppOK
    <3>3. InLine(overtaken', Done, b, e.rest, texts)
      BY <1>2, <2>2, <2>3, <2>9, <2>6, <3>1, InLineBuffered
    <3>4. \A chosen : (\A c \in chosen : c.branch \in Branch) =>
            /\ Finished(b, chosen).ready = b.ready \o b.buffer
            /\ Finished(b, chosen).buffer = <<>>
      BY <3>1, FinishedShape
    <3>5. \A c \in {} : c.branch \in Branch
      OBVIOUS
    <3>8. \A c : AppOK(c) => \A u \in Ends(c) : u.ready = c.ready /\ u.buffer = c.buffer
      BY UnlistedShape
    <3>9. \A chosen : (\A c \in chosen : c.branch \in Branch) => AppOK(Finished(b, chosen))
      BY <3>1, FinishedShape
    <3>10. /\ AppOK(Released(b)) /\ Released(b).buffer = <<>>
           /\ Released(b).ready = b.ready \o b.buffer
      BY <3>1, ReleasedShape
    <3>6. \/ app'.ready = b.ready /\ app'.buffer = b.buffer
          \/ app'.ready = b.ready \o b.buffer /\ app'.buffer = <<>>
      BY <2>1, <2>7, <3>1, <3>4, <3>5, <3>8, <3>9, <3>10
    <3>7. InLine(overtaken', Done, app', e.rest, texts)
      BY <1>2, <3>2, <3>3, <3>6, InLineShrinks
    <3> QED
      BY <1>3, <1>4, <2>1, <2>3, <2>7, <3>7
  <2>8. CASE ~ app.detecting
    <3>1. app.buffer = <<>>
      BY <1>2, <2>8 DEF Shapes, BufferOK
    <3>2. Texts(<<>>) = {} /\ \A X : Before(overtaken', {}, X) /\ Before(overtaken', X, {})
      BY NothingQueued, OrderedEmpty
    <3>3. Before(overtaken', Elements(e.batch), Texts(app.ready)) /\ Before(overtaken', Elements(e.batch), Texts(app.buffer))
      BY <2>1, <3>1, <3>2
    <3>4. InLine(overtaken', Append(Done, e.batch), app, e.rest, texts)
      BY <1>2, <2>2, <2>3, <2>9, <2>6, <3>3, InLineHandled
    <3>5. Process(app, e.rest, e.batch) /\ BufferOK(app)
      BY <2>1, <2>8 DEF Shapes
    <3> QED
      BY <1>2, <1>7, <2>2, <2>3, <2>6, <3>4, <3>5
  <2> QED
    BY <2>7, <2>8
<1> QED
  BY <1>5, <1>6, <1>8, <1>9

(* A game that is activated drops the line or keeps it.                    *)
LEMMA ActivatedOrder ==
  ASSUME Shapes, Orderly, NEW g \in Game, NEW ok \in BOOLEAN
  PROVE  LET a == AppAfter(g, ok)
             q == PendingAfter(g, ok)
         IN  /\ InLine(overtaken, Done, a, q, texts) /\ QueueSound(q, texts, config)
             /\ LatestSound(overtaken, latest, q, texts, config)
             /\ a.game = app.game \/ (q = <<>> /\ a.ready = <<>> /\ a.buffer = <<>>)
<1>1. CASE Switches(g, ok)
  <2>1. AppAfter(g, ok) = NewSession(app, g) /\ PendingAfter(g, ok) = <<>>
    BY <1>1 DEF AppAfter, PendingAfter, Switches, Activated
  <2>2. NewSession(app, g).ready = <<>> /\ NewSession(app, g).buffer = <<>>
    BY DEF Shapes, AppOK, AppFields, NewSession, Refreshed
  <2>3. Elements(<<>>) \subseteq Elements(pending)
    BY NothingQueued
  <2>4. app.buffer \in Seq(Batch) /\ app.ready \in Seq(Batch) /\ Done \in Seq(Batch)
    BY DoneShape DEF Shapes, AppOK, Orderly
  <2>5. InLine(overtaken, Done, AppAfter(g, ok), <<>>, texts)
    BY <2>1, <2>2, <2>3, <2>4, InLineShrinks DEF Orderly
  <2>6. QueueSound(<<>>, texts, config) /\ LatestSound(overtaken, latest, <<>>, texts, config)
    BY DEF Orderly, QueueSound, LatestSound, Elements
  <2> QED
    BY <2>1, <2>2, <2>5, <2>6
<1>2. CASE ~ Switches(g, ok)
  <2>1. AppAfter(g, ok) = app /\ PendingAfter(g, ok) = pending
    BY <1>2 DEF AppAfter, PendingAfter, Switches, Activated
  <2> QED
    BY <2>1 DEF Orderly
<1> QED
  BY <1>1, <1>2

(* The beginning of a detection drops the buffered turns.                  *)
LEMMA DetectingOrder ==
  ASSUME NEW O, NEW a, AppOK(a), NEW q, NEW n, Done \in Seq(Batch), InLine(O, Done, a, q, n)
  PROVE  InLine(O, Done, Detecting(a), q, n)
<1>1. Detecting(a).ready = a.ready /\ Detecting(a).buffer = <<>>
  BY DEF AppOK, AppFields, Detecting
<1> QED
  BY <1>1, InLineShrinks DEF AppOK

(* Settings that a hook is first seen with change nothing for what waits.  *)
LEMMA KnownOrder ==
  ASSUME Shapes, NEW h \in Hook, Known(h) \/ UNCHANGED config
  PROVE  \A k \in Hook : /\ On(config', k) <=> On(config, k)
                         /\ On(config, k) => config'[k] = config[k]
<1>1. config \in [Hook -> HookSettings \cup {None}]
  BY DEF Shapes
<1>2. CASE config[h] = None /\ config' = [config EXCEPT ![h] = [enabled |-> FALSE, post |-> FALSE]]
  <2> DEFINE off == [enabled |-> FALSE, post |-> FALSE]
  <2>1. ~ off.enabled
    OBVIOUS
  <2>2. config' = [config EXCEPT ![h] = off]
    BY <1>2
  <2> HIDE DEF off
  <2> QED
    BY <1>1, <1>2, <2>1, <2>2 DEF On
<1>3. CASE config' = config
  BY <1>3
<1> QED
  BY <1>2, <1>3 DEF Known

(* Settings that agree on the enabled hooks change nothing for what waits. *)
LEMMA SettingsOrder ==
  ASSUME NEW q \in Seq(HookedTexts), NEW last \in SUBSET HookedTexts, NEW n,
         NEW O, NEW c, NEW d,
         \A k \in Hook : /\ On(d, k) <=> On(c, k)
                         /\ On(c, k) => d[k] = c[k]
  PROVE  /\ QueueSound(q, n, c) => QueueSound(q, n, d)
         /\ LatestSound(O, last, q, n, c) => LatestSound(O, last, q, n, d)
<1>1. \A t \in HookedTexts : t.hook \in Hook
  BY DEF HookedTexts
<1>2. Elements(q) \subseteq HookedTexts
  BY ElementsShape
<1> QED
  BY <1>1, <1>2 DEF QueueSound, LatestSound

(* A text goes to the end of the line.                                     *)
LEMMA AcceptOrder ==
  ASSUME Shapes, Orderly, NEW a, AppOK(a), NEW q, QueueOK(q, a),
         InLine(overtaken, Done, a, q, texts), QueueSound(q, texts, config),
         LatestSound(overtaken, latest, q, texts, config),
         NEW t \in HookedTexts, t.game = a.game, t.n = texts + 1, t.updated,
         Enabled(t.hook), Accept(a, q, t)
  PROVE  /\ InLine(overtaken, Done, app', pending', texts + 1)
         /\ QueueSound(pending', texts + 1, config)
         /\ LatestSound(overtaken, latest', pending', texts + 1, config)
<1> DEFINE post == config[t.hook].post
           u == [t EXCEPT !.post = post]
           r == IF Len(q) = MaxPending THEN Tail(q) ELSE q
<1>1. t.hook \in Hook
  BY DEF HookedTexts
<1>2. config[t.hook] \in HookSettings /\ On(config, t.hook)
  BY <1>1 DEF Shapes, Enabled, On
<1>3. post \in BOOLEAN
  BY <1>2 DEF HookSettings
<1>4. /\ app' = IF ~a.started /\ ~a.manual THEN Detecting(a) ELSE a
      /\ latest' = {l \in latest : <<l.game, l.hook>> # <<t.game, t.hook>>} \cup {u}
      /\ pending' = Append(r, u)
  BY DEF Accept, Queue
<1>5. /\ u \in HookedTexts /\ u.game = t.game /\ u.hook = t.hook
      /\ u.n = texts + 1 /\ u.updated /\ u.post = config[u.hook].post
  <2> DEFINE p == post
  <2>1. p = config[t.hook].post /\ p \in BOOLEAN /\ u = [t EXCEPT !.post = p]
    BY <1>3
  <2> HIDE DEF p
  <2> HIDE DEF post, u
  <2> QED
    BY <2>1 DEF HookedTexts
<1>6. q \in Seq(HookedTexts) /\ Len(q) \in Nat /\ MaxPending \in Nat \ {0}
  BY PipelineAssumption DEF QueueOK
<1>7. r \in Seq(HookedTexts) /\ Thins(r, q)
  <2>1. CASE Len(q) = MaxPending
    <3>1. q # <<>>
      BY <1>6, <2>1
    <3>2. /\ r = Tail(q) /\ r \in Seq(HookedTexts) /\ Len(r) = Len(q) - 1
          /\ Elements(r) \subseteq Elements(q)
      BY <1>6, <2>1, <3>1, ElementsShape
    <3>3. \A k \in DOMAIN r : k + 1 \in DOMAIN q /\ r[k] = q[k + 1] /\ k \in Nat
      BY <1>6, <2>1, <3>1, <3>2
    <3>4. ASSUME NEW k \in DOMAIN r, NEW l \in DOMAIN r, k < l
          PROVE  \E i, j \in DOMAIN q : i < j /\ r[k] = q[i] /\ r[l] = q[j]
      <4>1. k + 1 \in DOMAIN q /\ l + 1 \in DOMAIN q /\ k + 1 < l + 1
        BY <3>3, <3>4
      <4> QED
        BY <3>3, <4>1
    <3>5. Len(r) <= Len(q)
      BY <1>6, <3>2
    <3> QED
      BY <3>2, <3>4, <3>5 DEF Thins
  <2>2. CASE Len(q) # MaxPending
    BY <1>6, <2>2 DEF Thins
  <2> QED
    BY <2>1, <2>2
<1> HIDE DEF r, u, post
<1>8. /\ QueueSound(r, texts, config)
      /\ Elements(r) \subseteq Elements(q) /\ Elements(r) \subseteq HookedTexts
      /\ Elements(pending') = Elements(r) \cup {u}
  <2>1. QueueSound(r, texts, config)
    BY <1>6, <1>7, ThinnedQueue
  <2>2. Elements(r) \subseteq Elements(q) /\ Elements(r) \subseteq HookedTexts
    BY <1>7, ElementsShape DEF Thins
  <2>3. Elements(pending') = Elements(r) \cup {u}
    BY <1>4, <1>5, <1>7, ElementsShape
  <2> QED
    BY <2>1, <2>2, <2>3
<1>9. texts \in Nat /\ \A x \in HookedTexts : x.n \in Nat /\ x.hook \in Hook
  <2>1. \A x \in HookedTexts : x.n \in 1 .. MaxTexts /\ x.hook \in Hook
    BY DEF HookedTexts
  <2> QED
    BY <2>1 DEF Shapes
<1>10. QueueSound(pending', texts + 1, config)
  <2>1. \A i, j \in DOMAIN pending' : i < j => pending'[i].n < pending'[j].n
    <3> DEFINE m == Len(r)
    <3>1. /\ m \in Nat /\ DOMAIN r = 1 .. m /\ DOMAIN pending' = 1 .. m + 1
          /\ \A i \in 1 .. m : pending'[i] = r[i]
          /\ pending'[m + 1] = u
      <4>1. pending' \in Seq(HookedTexts) /\ Len(pending') = Len(r) + 1
        BY <1>4, <1>5, <1>7
      <4> QED
        BY <1>4, <1>5, <1>7, <4>1
    <3>2. \A i \in 1 .. m : r[i] \in Elements(r)
      BY <3>1 DEF Elements
    <3> HIDE DEF m
    <3>3. ASSUME NEW i \in 1 .. m + 1, NEW j \in 1 .. m + 1, i < j
          PROVE  pending'[i].n < pending'[j].n
      <4>1. i \in 1 .. m
        BY <3>1, <3>3
      <4>2. CASE j = m + 1
        <5>1. r[i].n <= texts /\ r[i].n \in Nat
          BY <1>8, <1>9, <3>2, <4>1 DEF QueueSound
        <5>2. pending'[i] = r[i] /\ pending'[j] = u
          BY <3>1, <4>1, <4>2
        <5>3. r[i].n < u.n
          BY <1>5, <1>9, <5>1
        <5> QED
          BY <5>2, <5>3
      <4>3. CASE j # m + 1
        <5>1. j \in 1 .. m
          BY <3>1, <4>3
        <5> QED
          BY <1>8, <3>1, <3>3, <4>1, <5>1 DEF QueueSound
      <4> QED
        BY <4>2, <4>3
    <3> QED
      BY <3>1, <3>3
  <2>2. \A s \in Elements(r) : s.hook = u.hook => s.post = u.post
    BY <1>2, <1>5, <1>8 DEF QueueSound
  <2>3. \A s, x \in Elements(pending') : s.hook = x.hook => s.post = x.post
    BY <1>8, <2>2 DEF QueueSound
  <2>4. \A x \in Elements(r) : /\ x.updated /\ x.n <= texts + 1
                               /\ On(config, x.hook) => x.post = config[x.hook].post
    <3> TAKE x \in Elements(r)
    <3>1. /\ x.updated /\ x.n <= texts /\ x.n \in Nat
          /\ On(config, x.hook) => x.post = config[x.hook].post
      BY <1>8, <1>9 DEF QueueSound
    <3>2. x.n <= texts + 1
      BY <1>9, <3>1
    <3> QED
      BY <3>1, <3>2
  <2>5. u.n <= texts + 1
    BY <1>5, <1>9
  <2> QED
    BY <1>5, <1>8, <2>1, <2>3, <2>4, <2>5 DEF QueueSound
<1>11. LatestSound(overtaken, latest', pending', texts + 1, config)
  <2>1. ASSUME NEW l \in latest, <<l.game, l.hook>> # <<t.game, t.hook>>
        PROVE  /\ l.n <= texts + 1 /\ On(config, l.hook) /\ l.post = config[l.hook].post
               /\ \A x \in Elements(pending') : x.game = l.game /\ x.hook = l.hook =>
                    x.n <= l.n /\ \A o \in overtaken : o[2] = x.n => o[1] <= l.n
    <3>1. l.n <= texts /\ l.n \in Nat
      BY <1>9 DEF LatestSound, Shapes, LatestOK
    <3>2. l.n <= texts + 1
      BY <1>9, <3>1
    <3>3. ~ (u.game = l.game /\ u.hook = l.hook)
      BY <1>5, <2>1
    <3> QED
      BY <1>8, <3>2, <3>3 DEF LatestSound
  <2>4. \A o \in overtaken : o[1] <= u.n
    <3>1. \A o \in overtaken : o[1] <= texts /\ o[1] \in Nat
      BY DEF Orderly, OvertakenSound
    <3> QED
      BY <1>5, <1>9, <3>1
  <2>2. \A x \in Elements(pending') : x.n <= u.n
    <3>1. \A x \in Elements(r) : x.n <= texts /\ x.n \in Nat
      BY <1>8, <1>9 DEF QueueSound
    <3> QED
      BY <1>5, <1>8, <1>9, <3>1
  <2>3. u.n <= texts + 1
    BY <1>5, <1>9
  <2> QED
    BY <1>2, <1>4, <1>5, <2>1, <2>2, <2>3, <2>4 DEF LatestSound
<1>12. InLine(overtaken, Done, a, pending', texts + 1)
  <2>1. Done \in Seq(Batch) /\ a.ready \in Seq(Batch) /\ a.buffer \in Seq(Batch)
    BY DoneShape DEF Orderly, AppOK
  <2>2. /\ Texts(Done) \subseteq HookedTexts /\ Texts(a.ready) \subseteq HookedTexts
        /\ Texts(a.buffer) \subseteq HookedTexts
    BY <2>1, BatchesShape
  <2>3. \A x \in Texts(Done) \cup Texts(a.ready) \cup Texts(a.buffer) :
          x.n < texts + 1 /\ x.n <= texts + 1
    <3> TAKE x \in Texts(Done) \cup Texts(a.ready) \cup Texts(a.buffer)
    <3>1. x.n <= texts /\ x.n \in Nat
      BY <1>9, <2>2 DEF InLine
    <3> QED
      BY <1>9, <3>1
  <2>4. \A X \in {Texts(Done), Texts(a.ready), Texts(a.buffer)} :
          Before(overtaken, X, Elements(q)) => Before(overtaken, X, Elements(pending'))
    BY <1>5, <1>8, <2>3 DEF Before, Precedes
  <2> QED
    BY <2>3, <2>4 DEF InLine
<1>13. InLine(overtaken, Done, app', pending', texts + 1)
  <2>1. Done \in Seq(Batch)
    BY DoneShape DEF Orderly
  <2> QED
    BY <1>4, <1>12, <2>1, DetectingOrder
<1> QED
  BY <1>10, <1>11, <1>13

(* A text that goes nowhere still takes a number.                          *)
LEMMA RaisedOrder ==
  ASSUME Shapes, NEW H \in Seq(Batch), NEW a, AppOK(a), NEW q \in Seq(HookedTexts),
         InLine(overtaken, H, a, q, texts), QueueSound(q, texts, config),
         LatestSound(overtaken, latest, q, texts, config)
  PROVE  /\ InLine(overtaken, H, a, q, texts + 1) /\ QueueSound(q, texts + 1, config)
         /\ LatestSound(overtaken, latest, q, texts + 1, config)
<1>1. texts \in Nat /\ \A x \in HookedTexts : x.n \in Nat
  <2>1. \A x \in HookedTexts : x.n \in 1 .. MaxTexts
    BY DEF HookedTexts
  <2> QED
    BY <2>1 DEF Shapes
<1>2. /\ Texts(H) \subseteq HookedTexts /\ Texts(a.ready) \subseteq HookedTexts
      /\ Texts(a.buffer) \subseteq HookedTexts /\ Elements(q) \subseteq HookedTexts
      /\ latest \subseteq HookedTexts
  BY BatchesShape, ElementsShape DEF AppOK, Shapes, LatestOK
<1>3. \A x \in HookedTexts : x.n <= texts => x.n <= texts + 1
  <2> TAKE x \in HookedTexts
  <2>1. x.n \in Nat
    BY <1>1
  <2> QED
    BY <1>1, <2>1
<1>4. InLine(overtaken, H, a, q, texts + 1)
  BY <1>2, <1>3 DEF InLine
<1>5. QueueSound(q, texts + 1, config)
  BY <1>2, <1>3 DEF QueueSound
<1>6. LatestSound(overtaken, latest, q, texts + 1, config)
  BY <1>2, <1>3 DEF LatestSound
<1> QED
  BY <1>4, <1>5, <1>6

(* A text of a hook goes to the end of the line or nowhere.                *)
LEMMA QueueTextOrder ==
  ASSUME Shapes, Orderly, NEW a, AppOK(a), NEW q, QueueOK(q, a),
         InLine(overtaken, Done, a, q, texts), QueueSound(q, texts, config),
         LatestSound(overtaken, latest, q, texts, config),
         NEW t \in HookedTexts, t.game = a.game, t.n = texts + 1, t.updated,
         QueueText(a, q, t) \/ Ignore(a, q)
  PROVE  /\ InLine(overtaken, Done, app', pending', texts + 1)
         /\ QueueSound(pending', texts + 1, config)
         /\ LatestSound(overtaken, latest', pending', texts + 1, config)
<1>1. CASE Enabled(t.hook) /\ QueueText(a, q, t)
  <2>1. Accept(a, q, t)
    BY <1>1 DEF QueueText
  <2> QED
    BY <1>1, <2>1, AcceptOrder
<1>2. CASE Ignore(a, q)
  <2>1. app' = a /\ pending' = q /\ latest' = latest
    BY <1>2 DEF Ignore
  <2>2. Done \in Seq(Batch) /\ q \in Seq(HookedTexts)
    BY DoneShape DEF Orderly, QueueOK
  <2> QED
    BY <2>1, <2>2, RaisedOrder
<1> QED
  BY <1>1, <1>2 DEF QueueText

(* Every event of a hook keeps the line in order.                          *)
LEMMA HookOrder ==
  ASSUME Shapes, Orderly, NEW s \in Source,
         \/ Connected(s) \/ Disconnected(s)
         \/ \E h \in Hook : Candidate(s, h) \/ \E x \in Text : HookedText(s, h, x)
  PROVE  Orderly'
<1> DEFINE g == GameOf[s]
<1>1. g \in Game
  BY PipelineAssumption
<1>2. UNCHANGED <<handled, overtaken>>
  BY DEF Connected, Disconnected, Candidate, HookedText, Polling, textVars
<1>3. /\ Done' = Done /\ Done \in Seq(Batch)
      /\ handled' \in Seq([how : {"replay", "model"}, batch : Batch])
  BY <1>2, DoneShape DEF Orderly
<1>4. ASSUME QueueSound(pending', texts', config'),
             LatestSound(overtaken, latest', pending', texts', config'),
             InLine(overtaken, Done, app', pending', texts'),
             OvertakenSound(overtaken, texts')
      PROVE  Orderly'
  BY <1>2, <1>3, <1>4 DEF Orderly
<1>10. OvertakenSound(overtaken, texts) /\ OvertakenSound(overtaken, texts + 1)
  <2>1. texts \in Nat /\ OvertakenSound(overtaken, texts)
    BY DEF Shapes, Orderly
  <2>2. \A o \in overtaken : o[1] \in Nat /\ o[1] <= texts
    BY <2>1 DEF OvertakenSound
  <2>3. \A o \in overtaken : o[1] <= texts + 1
    BY <2>1, <2>2
  <2> QED
    BY <2>1, <2>3 DEF OvertakenSound
<1> HIDE DEF g
<1>5. \A ok \in Outcomes :
        LET a == AppAfter(g, ok)
            q == PendingAfter(g, ok)
        IN  /\ AppOK(a) /\ BufferOK(a) /\ QueueOK(q, a) /\ InLine(overtaken, Done, a, q, texts)
            /\ QueueSound(q, texts, config) /\ LatestSound(overtaken, latest, q, texts, config)
  <2> TAKE ok \in Outcomes
  <2>1. ok \in BOOLEAN
    BY DEF Outcomes
  <2> QED
    BY <1>1, <2>1, ActivatedShape, ActivatedOrder
<1>6. CASE Connected(s)
  <2>1. PICK ok \in Outcomes : /\ app' = Detecting(AppAfter(g, ok))
                               /\ pending' = PendingAfter(g, ok)
    BY <1>6 DEF Connected, g
  <2>2. UNCHANGED <<latest, config, texts>>
    BY <1>6 DEF Connected, textVars
  <2>3. InLine(overtaken, Done, app', pending', texts)
    BY <1>3, <1>5, <2>1, DetectingOrder
  <2> QED
    BY <1>4, <1>5, <1>10, <2>1, <2>2, <2>3
<1>7. ASSUME NEW h \in Hook, Candidate(s, h) PROVE Orderly'
  <2>1. PICK ok \in Outcomes : app' = AppAfter(g, ok) /\ pending' = PendingAfter(g, ok)
    BY <1>7 DEF Candidate, g
  <2>2. UNCHANGED <<latest, texts>> /\ Known(h)
    BY <1>7 DEF Candidate, textVars
  <2>3. pending' \in Seq(HookedTexts) /\ latest \in SUBSET HookedTexts
    BY <1>5, <2>1 DEF QueueOK, Shapes, LatestOK
  <2>4. QueueSound(pending', texts, config') /\ LatestSound(overtaken, latest, pending', texts, config')
    BY <1>5, <2>1, <2>2, <2>3, KnownOrder, SettingsOrder
  <2> QED
    BY <1>4, <1>5, <1>10, <2>1, <2>2, <2>4
<1>8. ASSUME NEW h \in Hook, NEW x \in Text, HookedText(s, h, x) PROVE Orderly'
  <2>1. PICK ok \in Outcomes, at \in 0 .. MaxTime :
          LET a == AppAfter(g, ok)
              q == PendingAfter(g, ok)
              t == [n |-> texts + 1, from |-> g, game |-> a.game, hook |-> h,
                    text |-> x, at |-> at, post |-> FALSE, updated |-> TRUE]
          IN  IF s \in NativeSource
              THEN QueueText(IF a.started THEN a ELSE Detecting(a), q, t)
              ELSE IF <<h, s>> \in routes THEN QueueText(a, q, t)
                   ELSE Ignore(a, q)
    BY <1>8 DEF HookedText, g
  <2> DEFINE a == AppAfter(g, ok)
             q == PendingAfter(g, ok)
             d == IF a.started THEN a ELSE Detecting(a)
             t == [n |-> texts + 1, from |-> g, game |-> a.game, hook |-> h,
                   text |-> x, at |-> at, post |-> FALSE, updated |-> TRUE]
  <2>2. AppOK(a) /\ BufferOK(a) /\ QueueOK(q, a) /\ InLine(overtaken, Done, a, q, texts)
        /\ QueueSound(q, texts, config) /\ LatestSound(overtaken, latest, q, texts, config)
    BY <1>5
  <2>3. AppOK(d) /\ QueueOK(q, d) /\ d.game = a.game /\ InLine(overtaken, Done, d, q, texts)
    BY <1>3, <2>2, DetectingShape, DetectingOrder DEF QueueOK
  <2>4. texts' = texts + 1 /\ texts + 1 \in 1 .. MaxTexts
    <3>1. texts \in Nat /\ texts < MaxTexts /\ MaxTexts \in Nat /\ texts' = texts + 1
      BY <1>8, PipelineAssumption DEF HookedText, Shapes
    <3> QED
      BY <3>1
  <2>5. a.game \in Game
    BY <2>2 DEF AppOK
  <2>6. t \in HookedTexts /\ t.game = a.game /\ t.n = texts + 1 /\ t.updated
    <3> HIDE DEF a
    <3> QED BY <1>1, <2>4, <2>5 DEF HookedTexts
  <2>7. \/ QueueText(d, q, t) \/ Ignore(d, q)
        \/ QueueText(a, q, t) \/ Ignore(a, q)
    BY <2>1
  <2> HIDE DEF a, q, d, t
  <2>8. /\ InLine(overtaken, Done, app', pending', texts + 1)
        /\ QueueSound(pending', texts + 1, config)
        /\ LatestSound(overtaken, latest', pending', texts + 1, config)
    <3>1. CASE QueueText(a, q, t) \/ Ignore(a, q)
      BY <2>2, <2>6, <3>1, QueueTextOrder
    <3>2. CASE QueueText(d, q, t) \/ Ignore(d, q)
      BY <2>2, <2>3, <2>6, <3>2, QueueTextOrder
    <3> QED
      BY <2>7, <3>1, <3>2
  <2>9. Known(h) \/ UNCHANGED config
    BY <1>8 DEF HookedText
  <2>10. QueueOK(pending', app') /\ LatestOK'
    <3>1. Shapes'
      BY <1>8, HookShapes
    <3> QED
      BY <3>1 DEF Shapes
  <2>11. pending' \in Seq(HookedTexts) /\ latest' \in SUBSET HookedTexts
    BY <2>10 DEF QueueOK, LatestOK
  <2>12. /\ QueueSound(pending', texts + 1, config')
         /\ LatestSound(overtaken, latest', pending', texts + 1, config')
    BY <2>8, <2>9, <2>11, KnownOrder, SettingsOrder
  <2> QED
    BY <1>4, <1>10, <2>4, <2>8, <2>12
<1>9. CASE Disconnected(s)
  <2> DEFINE b == [app EXCEPT !.started = FALSE, !.detecting = FALSE,
                              !.manual = FALSE, !.buffer = <<>>]
  <2>1. app' = b /\ UNCHANGED <<pending, latest, config, texts>>
    BY <1>9 DEF Disconnected, queueVars, textVars
  <2>2. b.buffer = <<>> /\ b.ready = app.ready
    BY DEF Shapes, AppOK, AppFields
  <2> HIDE DEF b
  <2>3. app.buffer \in Seq(Batch) /\ app.ready \in Seq(Batch)
    BY DEF Shapes, AppOK
  <2>4. InLine(overtaken, Done, b, pending, texts)
    BY <1>3, <2>2, <2>3, InLineShrinks DEF Orderly
  <2> QED
    BY <1>4, <1>10, <2>1, <2>4 DEF Orderly
<1> QED
  BY <1>6, <1>7, <1>8, <1>9

(* New settings of waiting texts do not move them in the line.             *)
LEMMA InLineRenewed ==
  ASSUME NEW O, NEW H, NEW a, NEW q, NEW n, InLine(O, H, a, q, n), NEW r,
         \A t \in Elements(r) : \E p \in Elements(q) :
            p.hook = t.hook /\ p.updated = t.updated /\ p.n = t.n
  PROVE  InLine(O, H, a, r, n)
<1>1. \A X : Before(O, X, Elements(q)) => Before(O, X, Elements(r))
  BY DEF Before, Precedes
<1> QED
  BY <1>1 DEF InLine

(* New settings of a hook keep the line in order.                          *)
LEMMA ChangedOrder ==
  ASSUME Shapes, Orderly, NEW h \in Hook, NEW c \in HookSettings, ChangeHook(h, c)
  PROVE  /\ QueueSound(pending', texts, config')
         /\ LatestSound(overtaken, latest', pending', texts, config')
         /\ InLine(overtaken, Done, app, pending', texts)
<1>1. /\ DOMAIN pending' = DOMAIN pending
      /\ \A i \in DOMAIN pending :
           pending'[i] = IF c.enabled THEN Renewed(pending[i], h, c.post)
                         ELSE pending[i]
      /\ latest' = IF c.enabled THEN {Renewed(l, h, c.post) : l \in latest}
                   ELSE {l \in latest : l.hook # h}
  BY ChangeHookShape
<1>2. config' = [config EXCEPT ![h] = c] /\ config \in [Hook -> HookSettings \cup {None}]
  BY DEF ChangeHook, Shapes
<1>3. c # None /\ c.enabled \in BOOLEAN /\ c.post \in BOOLEAN
  BY PipelineAssumption DEF HookSettings
<1> DEFINE r(t) == Renewed(t, h, c.post)
<1>4. \A t \in HookedTexts : /\ r(t).hook = t.hook /\ r(t).n = t.n
                             /\ r(t).game = t.game /\ r(t).updated = t.updated
                             /\ r(t).post = IF t.hook = h THEN c.post ELSE t.post
                             /\ t.hook \in Hook
  <2> DEFINE p == c.post
  <2>1. p \in BOOLEAN
    BY <1>3
  <2> HIDE DEF p
  <2>2. \A t \in HookedTexts : LET u == [t EXCEPT !.post = p] IN
          /\ u.hook = t.hook /\ u.n = t.n
          /\ u.game = t.game /\ u.updated = t.updated
          /\ u.post = p /\ t.hook \in Hook
    BY <2>1 DEF HookedTexts
  <2> QED
    BY <2>2 DEF Renewed, p
<1> HIDE DEF r
<1>5. pending \in Seq(HookedTexts) /\ latest \subseteq HookedTexts
  BY DEF Shapes, QueueOK, LatestOK
<1>6. /\ \A i \in DOMAIN pending : pending[i] \in HookedTexts /\ pending[i] \in Elements(pending)
      /\ Elements(pending) \subseteq HookedTexts
  BY <1>5, ElementsShape
<1>7. CASE c.enabled
  <2>1. /\ \A i \in DOMAIN pending : pending'[i] = r(pending[i])
        /\ latest' = {r(l) : l \in latest}
    BY <1>1, <1>7 DEF r
  <2>2. \A t \in Elements(pending') : \E p \in Elements(pending) : t = r(p)
    BY <1>1, <1>6, <2>1 DEF Elements
  <2>3. InLine(overtaken, Done, app, pending', texts)
    <3>1. \A t \in Elements(pending') : \E p \in Elements(pending) :
            p.hook = t.hook /\ p.updated = t.updated /\ p.n = t.n
      BY <1>4, <1>6, <2>2
    <3> QED
      BY <3>1, InLineRenewed DEF Orderly
  <2>4. \A k \in Hook : /\ On(config', k) = (k = h \/ On(config, k))
                        /\ config'[k] = IF k = h THEN c ELSE config[k]
    BY <1>2, <1>3, <1>7 DEF On
  <2>5. \A i, j \in DOMAIN pending' : i < j => pending'[i].n < pending'[j].n
    BY <1>1, <1>4, <1>6, <2>1 DEF Orderly, QueueSound
  <2>6. \A s, t \in Elements(pending') : s.hook = t.hook => s.post = t.post
    BY <1>4, <1>6, <2>2 DEF Orderly, QueueSound
  <2>7. \A t \in Elements(pending') : /\ t.updated /\ t.n <= texts
                                      /\ On(config', t.hook) => t.post = config'[t.hook].post
    <3> TAKE t \in Elements(pending')
    <3>1. PICK p \in Elements(pending) : t = r(p)
      BY <2>2
    <3>2. /\ p.updated /\ p.n <= texts
          /\ On(config, p.hook) => p.post = config[p.hook].post
      BY DEF Orderly, QueueSound
    <3>3. /\ t.hook = p.hook /\ t.n = p.n /\ t.updated = p.updated
          /\ t.post = (IF p.hook = h THEN c.post ELSE p.post) /\ p.hook \in Hook
      BY <1>4, <1>6, <3>1
    <3> QED
      BY <2>4, <3>2, <3>3
  <2>8. QueueSound(pending', texts, config')
    BY <2>5, <2>6, <2>7 DEF QueueSound
  <2>9. ASSUME NEW m \in latest'
        PROVE  /\ m.n <= texts /\ On(config', m.hook) /\ m.post = config'[m.hook].post
               /\ \A t \in Elements(pending') : t.game = m.game /\ t.hook = m.hook =>
                    t.n <= m.n /\ \A o \in overtaken : o[2] = t.n => o[1] <= m.n
    <3>1. PICK l \in latest : m = r(l)
      BY <2>1
    <3>2. /\ l.n <= texts /\ On(config, l.hook) /\ l.post = config[l.hook].post
          /\ \A t \in Elements(pending) : t.game = l.game /\ t.hook = l.hook =>
               t.n <= l.n /\ \A o \in overtaken : o[2] = t.n => o[1] <= l.n
      BY DEF Orderly, LatestSound
    <3>3. /\ m.hook = l.hook /\ m.n = l.n /\ m.game = l.game
          /\ m.post = (IF l.hook = h THEN c.post ELSE l.post) /\ l.hook \in Hook
      BY <1>4, <1>5, <3>1
    <3>4. \A t \in Elements(pending') : t.game = m.game /\ t.hook = m.hook =>
            t.n <= m.n /\ \A o \in overtaken : o[2] = t.n => o[1] <= m.n
      <4> TAKE t \in Elements(pending')
      <4>1. PICK p \in Elements(pending) : t = r(p)
        BY <2>2
      <4>2. t.hook = p.hook /\ t.n = p.n /\ t.game = p.game
        BY <1>4, <1>6, <4>1
      <4> QED
        BY <3>2, <3>3, <4>2
    <3> QED
      BY <2>4, <3>2, <3>3, <3>4
  <2>10. LatestSound(overtaken, latest', pending', texts, config')
    BY <2>9 DEF LatestSound
  <2> QED
    BY <2>3, <2>8, <2>10
<1>8. CASE ~ c.enabled
  <2>1. pending' = pending /\ latest' = {l \in latest : l.hook # h}
    BY <1>1, <1>8 DEF ChangeHook
  <2>2. \A k \in Hook : /\ On(config', k) = (k # h /\ On(config, k))
                        /\ k # h => config'[k] = config[k]
    BY <1>2, <1>8 DEF On
  <2>3. QueueSound(pending, texts, config')
    BY <1>4, <1>6, <2>2 DEF Orderly, QueueSound
  <2>4. LatestSound(overtaken, latest', pending, texts, config')
    BY <1>4, <1>5, <2>1, <2>2 DEF Orderly, LatestSound
  <2> QED
    BY <2>1, <2>3, <2>4 DEF Orderly
<1> QED
  BY <1>3, <1>7, <1>8

(* So does every message of the user.                                      *)
LEMMA UserOrder ==
  ASSUME Shapes, Orderly, UserMessage
  PROVE  Orderly'
<1>1. PICK h \in Hook \cup {0}, b \in Branch, c \in HookSettings :
        \/ h \in Hook /\ (Forget(h) \/ ChangeHook(h, c))
        \/ Detach \/ CommitScratchpad
        \/ \E setting \in {"model", "latest"} : Configure(setting)
        \/ \E i \in DOMAIN app.seen[b] : SelectCommit(b, i)
        \/ \E name \in UserBranch : CreateBranch(name)
  <2>1. Main \in Branch /\ [enabled |-> FALSE, post |-> FALSE] \in HookSettings
    BY PipelineAssumption DEF HookSettings
  <2> QED
    BY <2>1 DEF UserMessage
<1>2. UNCHANGED <<texts, overtaken, handled>>
  BY <1>1 DEF Forget, ChangeHook, Detach, CommitScratchpad, Configure,
       SelectCommit, CreateBranch, UserActs, textVars
<1>3. /\ Done' = Done /\ Done \in Seq(Batch)
      /\ handled' \in Seq([how : {"replay", "model"}, batch : Batch])
  BY <1>2, DoneShape DEF Orderly
<1>4. ASSUME QueueSound(pending', texts, config'),
             LatestSound(overtaken, latest', pending', texts, config'),
             InLine(overtaken, Done, app', pending', texts)
      PROVE  Orderly'
  BY <1>2, <1>3, <1>4 DEF Orderly
<1>5. CASE h \in Hook /\ Forget(h)
  <2>1. /\ config' = [config EXCEPT ![h] = None]
        /\ latest' = {t \in latest : t.hook # h}
        /\ UNCHANGED <<app, pending>>
    BY <1>5 DEF Forget
  <2>2. \A k \in Hook : /\ On(config', k) = (k # h /\ On(config, k))
                        /\ k # h => config'[k] = config[k]
    BY <1>5, <2>1 DEF On, Shapes
  <2>3. /\ \A t \in HookedTexts : t.hook \in Hook
        /\ Elements(pending) \subseteq HookedTexts /\ latest \subseteq HookedTexts
    <3>1. \A t \in HookedTexts : t.hook \in Hook
      BY DEF HookedTexts
    <3>2. pending \in Seq(HookedTexts) /\ latest \subseteq HookedTexts
      BY DEF Shapes, QueueOK, LatestOK
    <3> QED
      BY <3>1, <3>2, ElementsShape
  <2>4. QueueSound(pending, texts, config') /\ LatestSound(overtaken, latest', pending, texts, config')
    BY <2>1, <2>2, <2>3 DEF Orderly, QueueSound, LatestSound
  <2> QED
    BY <1>4, <2>1, <2>4 DEF Orderly
<1>6. CASE h \in Hook /\ ChangeHook(h, c)
  <2>1. app' = app
    BY <1>6 DEF ChangeHook
  <2> QED
    BY <1>4, <1>6, <2>1, ChangedOrder
<1>7. CASE Detach \/ \E setting \in {"model", "latest"} : Configure(setting)
  <2>1. UNCHANGED <<app, pending, latest, config>>
    BY <1>7 DEF Detach, Configure, queueVars, hookVars
  <2> QED
    BY <1>4, <2>1 DEF Orderly
<1>8. CASE CommitScratchpad \/ \E name \in UserBranch : CreateBranch(name)
  <2>1. app' = Refreshed(app, paths') /\ UNCHANGED <<pending, latest, config>>
    BY <1>8 DEF CommitScratchpad, CreateBranch, queueVars, hookVars
  <2>2. app'.ready = app.ready /\ app'.buffer = app.buffer
    BY <2>1, RefreshedShape DEF Shapes
  <2>3. InLine(overtaken, Done, app', pending, texts)
    BY <2>2 DEF Orderly, InLine
  <2> QED
    BY <1>4, <2>1, <2>3 DEF Orderly
<1>9. CASE \E i \in DOMAIN app.seen[b] : SelectCommit(b, i)
  <2>1. PICK i \in DOMAIN app.seen[b] : SelectCommit(b, i)
    BY <1>9
  <2> DEFINE kept == IF app.retained = b THEN b ELSE None
             cursor == [branch |-> b, path |-> app.seen[b], position |-> i]
             a == [app EXCEPT !.retained = kept, !.cursor = cursor,
                     !.branch = b, !.detecting = FALSE, !.started = TRUE,
                     !.manual = TRUE, !.ready = app.ready \o app.buffer,
                     !.buffer = <<>>, !.found = {}]
  <2>2. app' = Refreshed(a, paths) /\ UNCHANGED <<pending, latest, config>>
    BY <2>1 DEF SelectCommit, queueVars, hookVars
  <2>3. a.ready = app.ready \o app.buffer /\ a.buffer = <<>> /\ DOMAIN a = DOMAIN app
    BY DEF Shapes, AppOK, AppFields
  <2> HIDE DEF a
  <2>4. app'.ready = a.ready /\ app'.buffer = a.buffer
    <3>1. \A f \in AppFields \ {"seen"} : Refreshed(a, paths)[f] = a[f]
      BY <2>3 DEF Refreshed, Shapes, AppOK
    <3> QED
      BY <2>2, <3>1 DEF AppFields
  <2>5. app.buffer \in Seq(Batch) /\ app.ready \in Seq(Batch)
    BY DEF Shapes, AppOK
  <2>6. InLine(overtaken, Done, app', pending, texts)
    BY <1>3, <2>3, <2>4, <2>5, InLineShrinks DEF Orderly
  <2> QED
    BY <1>4, <2>2, <2>6 DEF Orderly
<1> QED
  BY <1>1, <1>5, <1>6, <1>7, <1>8, <1>9

(* Nothing waits at first.                                                 *)
LEMMA OrderInit == Init => Orderly
<1> SUFFICES ASSUME Init PROVE Orderly
  OBVIOUS
<1>1. Done = <<>> /\ handled \in Seq([how : {"replay", "model"}, batch : Batch])
      /\ pending = <<>> /\ latest = {} /\ app.ready = <<>> /\ app.buffer = <<>>
      /\ overtaken = {}
  BY DEF Init, Done
<1>2. Texts(<<>>) = {} /\ Elements(<<>>) = {} /\ Ordered(overtaken, <<>>)
      /\ \A X : Before(overtaken, {}, X) /\ Before(overtaken, X, {})
  BY NothingQueued, OrderedEmpty
<1>3. InLine(overtaken, Done, app, pending, texts)
  BY <1>1, <1>2 DEF InLine
<1>4. QueueSound(pending, texts, config) /\ LatestSound(overtaken, latest, pending, texts, config)
  BY <1>1, <1>2 DEF QueueSound, LatestSound
<1> QED
  BY <1>1, <1>3, <1>4 DEF Orderly, OvertakenSound

(* Every step of the system keeps the line in order.                       *)
LEMMA OrderStep == Shapes /\ Orderly /\ [Next]_vars => Orderly'
<1> SUFFICES ASSUME Shapes, Orderly, [Next]_vars PROVE Orderly'
  OBVIOUS
<1>1. CASE HookEvent
  <2>1. PICK s \in Source : \/ Connected(s) \/ Disconnected(s)
                            \/ \E h \in Hook : Candidate(s, h) \/ \E x \in Text : HookedText(s, h, x)
    BY <1>1 DEF HookEvent
  <2> QED
    BY <2>1, HookOrder
<1>2. CASE PollStart \/ Rest \/ DetectionTimesOut \/ TakeReady \/ TakePending
  BY <1>2, PollOrder
<1>3. CASE EngineReads \/ EngineCommits \/ EngineFails \/ Complete
  <2>1. UNCHANGED <<pending, latest, config, texts, overtaken, handled>>
    BY <1>3 DEF EngineReads, EngineCommits, EngineFails, Complete, Engine, queueVars,
         hookVars, textVars
  <2>2. app' = app \/ app' = Refreshed(app, paths)
    BY <1>3 DEF EngineReads, EngineCommits, EngineFails, Complete, Engine
  <2>3. app'.ready = app.ready /\ app'.buffer = app.buffer
    BY <2>2, RefreshedShape DEF Shapes
  <2>4. Done' = Done
    BY <2>1 DEF Done
  <2>5. InLine(overtaken, Done', app', pending', texts')
    BY <2>1, <2>3, <2>4 DEF Orderly, InLine
  <2> QED
    BY <2>1, <2>5 DEF Orderly
<1>4. CASE UserMessage
  BY <1>4, UserOrder
<1>5. CASE UNCHANGED vars
  <2>1. UNCHANGED <<app, pending, latest, config, texts, overtaken, handled>>
    BY <1>5 DEF vars, queueVars, hookVars, textVars
  <2>2. Done' = Done
    BY <2>1 DEF Done
  <2> QED
    BY <2>1, <2>2 DEF Orderly
<1> QED
  BY <1>1, <1>2, <1>3, <1>4, <1>5 DEF Next

(* The line is always in order, with sound queues and last texts.          *)
LEMMA OrderlyHolds == Spec => []Orderly
<1> QED
  BY ShapesHold, OrderInit, OrderStep, PTL DEF Spec

(* A line whose texts are in order, with the pending ones one by one.      *)
LEMMA Singles ==
  ASSUME NEW O, NEW q \in Seq(HookedTexts),
         \A i, j \in DOMAIN q : i < j => q[i].n < q[j].n
  PROVE  LET L == [i \in DOMAIN q |-> <<q[i]>>] IN
         /\ L \in Seq(Batch) /\ Ordered(O, L) /\ Texts(L) = Elements(q)
<1> DEFINE L == [i \in DOMAIN q |-> <<q[i]>>]
<1>1. DOMAIN q = 1 .. Len(q) /\ Len(q) \in Nat /\ \A i \in DOMAIN q : q[i] \in HookedTexts
  OBVIOUS
<1>2. \A x \in HookedTexts : <<x>> \in Batch /\ Elements(<<x>>) = {x}
  BY DEF Batch, Elements
<1>3. L \in [1 .. Len(q) -> Batch]
  BY <1>1, <1>2
<1>4. L \in Seq(Batch)
  BY <1>1, <1>3
<1>5. DOMAIN L = DOMAIN q /\ \A i \in DOMAIN q : Elements(L[i]) = {q[i]}
  BY <1>1, <1>2
<1> HIDE DEF L
<1>6. Ordered(O, L)
  BY <1>5 DEF Ordered, Before, Precedes
<1>7. Texts(L) \subseteq Elements(q)
  BY <1>5 DEF Texts, Elements
<1>8. Elements(q) \subseteq Texts(L)
  <2> SUFFICES ASSUME NEW i \in DOMAIN q PROVE q[i] \in Texts(L)
    BY DEF Elements
  <2>1. q[i] \in Elements(L[i]) /\ L[i] \in Elements(L)
    <3>1. L[i] \in Elements(L)
      BY <1>5 DEF Elements
    <3> QED
      BY <1>5, <3>1
  <2> QED
    BY <2>1 DEF Texts
<1> QED
  BY <1>4, <1>6, <1>7, <1>8 DEF L

(* The handled, ready and buffered turns and the pending texts are one line. *)
LEMMA OrderlyInOrder == Shapes /\ Orderly => InOrder
<1> SUFFICES ASSUME Shapes, Orderly PROVE InOrder
  OBVIOUS
<1> DEFINE S == [i \in DOMAIN pending |-> <<pending[i]>>]
<1>1. /\ Done \in Seq(Batch) /\ app.ready \in Seq(Batch) /\ app.buffer \in Seq(Batch)
      /\ pending \in Seq(HookedTexts)
  BY DoneShape DEF Shapes, AppOK, QueueOK, Orderly
<1>2. S \in Seq(Batch) /\ Ordered(overtaken, S) /\ Texts(S) = Elements(pending)
  BY <1>1, Singles DEF Orderly, QueueSound
<1> HIDE DEF S
<1> DEFINE M == Done \o app.ready
           N == M \o app.buffer
<1>3. M \in Seq(Batch) /\ Ordered(overtaken, M) /\ Texts(M) = Texts(Done) \cup Texts(app.ready)
  BY <1>1, OrderedConcat, BatchesShape DEF Orderly, InLine
<1>4. Before(overtaken, Texts(M), Texts(app.buffer)) /\ Before(overtaken, Texts(M), Texts(S))
  BY <1>2, <1>3 DEF Orderly, InLine, Before
<1> HIDE DEF M
<1>5. N \in Seq(Batch) /\ Ordered(overtaken, N) /\ Texts(N) = Texts(M) \cup Texts(app.buffer)
  BY <1>1, <1>3, <1>4, OrderedConcat, BatchesShape DEF Orderly, InLine
<1>6. Before(overtaken, Texts(N), Texts(S))
  BY <1>2, <1>4, <1>5 DEF Orderly, InLine, Before
<1> HIDE DEF N
<1>7. Ordered(overtaken, N \o S)
  BY <1>2, <1>5, <1>6, OrderedConcat
<1>8. Line = N \o S
  BY DEF Line, N, M, S, Done
<1> QED
  BY <1>7, <1>8 DEF InOrder, Ordered, Before, Precedes, Jumped

(* New texts of a hook are handled in the order they were hooked and none  *)
(* of them twice, across grouping by the stamps of any producers,          *)
(* detection, replay, snapshots, changes of settings and of the game; only *)
(* a text that was grouped past an earlier one comes before it and may     *)
(* come again in its place (the queues of AppModel).                       *)
THEOREM LineOrder == Spec => []InOrder
BY ShapesHold, OrderlyHolds, OrderlyInOrder, PTL

=============================================================================
