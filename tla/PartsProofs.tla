---------------------------- MODULE PartsProofs ----------------------------
(***************************************************************************)
(* Theorems about the parts that MCParts puts together, each on its own:   *)
(* SenderStart, for any processes and threads, WineWorker, for any         *)
(* injectors and workers, CandidateBook, for any places, BlobStore, for    *)
(* any digests and writers, NativeSender, Frames, Ingestion,               *)
(* TextAssociations and Targets, for any limits; and the types of them     *)
(* all.                                                                    *)
(***************************************************************************)
EXTENDS MCParts, FiniteSetTheorems, SequenceTheorems, TLAPS

StartSpec == StartInit /\ [][StartNext]_startVars

(* A thread that has claimed the process id and is not done with it.       *)
Claiming(p, t) == step[p][t].pc \in {"spawn", "store"}

(* What does not run does nothing and is not marked; and no thread         *)
(* compares with the id of its own process.                                *)
IdsOK ==
  /\ \A p \in Process \ running :
       word[p] = None /\ senders[p] = {} /\ \A t \in Thread : step[p][t].pc = "idle"
  /\ \A p \in Process : \A t \in Thread :
       step[p][t].pc = "compare" => step[p][t].seen # p

(* A claim is of one thread, which has spawned by its end and not before.  *)
ClaimsOK ==
  \A p \in Process : \A t \in Thread :
    /\ Claiming(p, t) => word[p] = p
    /\ step[p][t].pc = "spawn" => senders[p] = {}
    /\ step[p][t].pc = "store" => senders[p] # {}
    /\ \A u \in Thread : Claiming(p, t) /\ Claiming(p, u) => t = u

(* A sender keeps its process marked.                                      *)
SendersOK ==
  /\ \A p \in Process : senders[p] # {} => word[p] = p
  /\ \A p \in Process : \A t, u \in senders[p] : t = u
  /\ \A p \in Process \ mistaken : word[p] = p =>
       \/ \E t \in Thread : Claiming(p, t)
       \/ senders[p] # {} /\ queue[p] = p

StartInv == StartTypeOK /\ IdsOK /\ ClaimsOK /\ SendersOK

-----------------------------------------------------------------------------
(* Nothing has happened yet.                                               *)
LEMMA StartInvInit == StartInit => StartInv
  BY SenderStartAssumption
     DEF StartInit, StartInv, StartTypeOK, IdsOK, ClaimsOK, SendersOK, Claiming, Steps

(* A step of a thread that has no claim and makes none keeps all claims.   *)
LEMMA ReadsOnly ==
  ASSUME ClaimsOK, SendersOK, NEW p \in Process, NEW t \in Thread,
         step[p][t].pc \in {"idle", "send"},
         step'[p][t].pc \in {"idle", "send", "compare"},
         \A q \in Process : \A u \in Thread : q # p \/ u # t => step'[q][u] = step[q][u],
         word' = word, senders' = senders, queue' = queue, mistaken' = mistaken
  PROVE  ClaimsOK' /\ SendersOK'
<1>1. \A q \in Process : \A u \in Thread :
        /\ Claiming(q, u)' <=> Claiming(q, u)
        /\ step'[q][u].pc = "spawn" => step[q][u].pc = "spawn"
        /\ step'[q][u].pc = "store" => step[q][u].pc = "store"
  BY DEF Claiming
<1>2. ClaimsOK'
  BY <1>1 DEF ClaimsOK
<1>3. SendersOK'
  BY <1>1 DEF SendersOK
<1> QED
  BY <1>2, <1>3

(* Each step of a thread, a fork and an exit keep the invariant.                 *)
LEMMA StartInvNext == StartInv /\ [StartNext]_startVars => StartInv'
<1> USE SenderStartAssumption DEF StartInv, StartTypeOK, IdsOK, ClaimsOK, SendersOK,
        Claiming, Steps, At, Goto
<1> SUFFICES ASSUME StartInv, [StartNext]_startVars PROVE StartInv'
  OBVIOUS
<1>1. ASSUME NEW p \in Process, NEW t \in Thread, Observes(p, t) PROVE StartInv'
  <2>1. StartTypeOK'
    BY <1>1 DEF Observes
  <2>2. IdsOK'
    BY <1>1 DEF Observes
  <2>3. /\ step[p][t].pc = "idle" /\ step'[p][t].pc \in {"send", "compare"}
        /\ \A q \in Process : \A u \in Thread : q # p \/ u # t => step'[q][u] = step[q][u]
        /\ word' = word /\ senders' = senders /\ queue' = queue /\ mistaken' = mistaken
    BY <1>1 DEF Observes
  <2>4. ClaimsOK /\ SendersOK
    OBVIOUS
  <2>5. ClaimsOK' /\ SendersOK'
    BY ONLY <2>3, <2>4, ReadsOnly
  <2> QED
    BY <2>1, <2>2, <2>5
<1>2. ASSUME NEW p \in Process, NEW t \in Thread, CompareExchange(p, t) PROVE StartInv'
  BY <1>2 DEF CompareExchange, Claims
<1>3. ASSUME NEW p \in Process, NEW t \in Thread, Spawns(p, t) PROVE StartInv'
  <2>1. StartTypeOK'
    BY <1>3 DEF Spawns
  <2>2. IdsOK'
    BY <1>3 DEF Spawns
  <2>3. ClaimsOK'
    <3>1. t \in senders'[p] /\ word' = word
      BY <1>3 DEF Spawns
    <3>2. \A q \in Process : q # p => senders'[q] = senders[q] /\ step'[q] = step[q]
      BY <1>3 DEF Spawns
    <3>3. step'[p][t].pc = "store" /\ \A u \in Thread : u # t => step'[p][u] = step[p][u]
      BY <1>3 DEF Spawns
    <3>4. step[p][t].pc = "spawn"
      BY <1>3 DEF Spawns
    <3>5. \A u \in Thread : u # t => ~Claiming(p, u)
      BY <3>4
    <3>6. ASSUME NEW q \in Process, q # p, NEW u \in Thread
          PROVE  /\ Claiming(q, u)' => word'[q] = q
                 /\ step'[q][u].pc = "spawn" => senders'[q] = {}
                 /\ step'[q][u].pc = "store" => senders'[q] # {}
                 /\ \A v \in Thread : Claiming(q, u)' /\ Claiming(q, v)' => u = v
      BY <3>1, <3>2, <3>6
    <3>7. ASSUME NEW u \in Thread
          PROVE  /\ Claiming(p, u)' => word'[p] = p
                 /\ step'[p][u].pc = "spawn" => senders'[p] = {}
                 /\ step'[p][u].pc = "store" => senders'[p] # {}
                 /\ \A v \in Thread : Claiming(p, u)' /\ Claiming(p, v)' => u = v
      <4>1. word'[p] = p /\ senders'[p] # {}
        BY <3>1, <3>4
      <4>2. step'[p][u].pc \in {"spawn", "store"} => u = t
        BY <3>3, <3>5
      <4>3. step'[p][u].pc # "spawn"
        BY <3>3, <4>2
      <4>4. \A v \in Thread : step'[p][v].pc \in {"spawn", "store"} => v = t
        BY <3>3, <3>5
      <4> QED
        BY <4>1, <4>2, <4>3, <4>4
    <3> QED
      BY ONLY <3>6, <3>7 DEF ClaimsOK, Claiming
  <2>4. SendersOK'
    BY <1>3 DEF Spawns
  <2> QED
    BY <2>1, <2>2, <2>3, <2>4
<1>4. ASSUME NEW p \in Process, NEW t \in Thread, SpawnFails(p, t) PROVE StartInv'
  <2>1. StartTypeOK'
    BY <1>4 DEF SpawnFails
  <2>2. IdsOK'
    BY <1>4 DEF SpawnFails
  <2>3. /\ senders[p] = {} /\ \A u \in Thread : ~Claiming(p, u)'
        /\ senders' = senders /\ queue' = queue /\ mistaken' = mistaken /\ word'[p] = None
        /\ \A q \in Process \ {p} : word'[q] = word[q] /\ step'[q] = step[q]
    BY <1>4 DEF SpawnFails
  <2>4. ClaimsOK'
    BY <2>3
  <2>5. SendersOK'
    <3>1. \A q \in Process : \A u \in Thread : q # p => (Claiming(q, u)' <=> Claiming(q, u))
      BY <2>3
    <3>2. ASSUME NEW q \in Process, senders'[q] # {} PROVE word'[q] = q
      BY <2>3, <3>2
    <3>3. ASSUME NEW q \in Process \ mistaken', word'[q] = q
          PROVE  (\E u \in Thread : Claiming(q, u)') \/ (senders'[q] # {} /\ queue'[q] = q)
      <4>1. q # p /\ word[q] = q /\ q \in Process \ mistaken
        BY <2>3, <3>3
      <4>2. (\E u \in Thread : Claiming(q, u)) \/ (senders[q] # {} /\ queue[q] = q)
        BY <4>1
      <4> QED
        BY <2>3, <3>1, <4>1, <4>2
    <3>4. \A q \in Process : \A u, v \in senders'[q] : u = v
      BY <2>3
    <3> QED
      BY ONLY <3>2, <3>3, <3>4 DEF SendersOK, Claiming
  <2> QED
    BY <2>1, <2>2, <2>4, <2>5
<1>5. ASSUME NEW p \in Process, NEW t \in Thread, StoresSender(p, t) PROVE StartInv'
  <2>1. StartTypeOK'
    BY <1>5 DEF StoresSender
  <2>2. IdsOK'
    BY <1>5 DEF StoresSender
  <2>3. /\ senders[p] # {} /\ queue'[p] = p /\ step'[p][t].pc = "send"
        /\ \A u \in Thread \ {t} : step'[p][u] = step[p][u]
        /\ senders' = senders /\ mistaken' = mistaken /\ word' = word
        /\ \A q \in Process \ {p} : queue'[q] = queue[q] /\ step'[q] = step[q]
    BY <1>5 DEF StoresSender
  <2>4. \A q \in Process : \A u \in Thread :
          /\ Claiming(q, u)' => Claiming(q, u)
          /\ step'[q][u].pc = "spawn" => step[q][u].pc = "spawn"
          /\ step'[q][u].pc = "store" => step[q][u].pc = "store"
    <3>1. \A q \in Process : \A u \in Thread :
            step'[q][u].pc = "send" \/ step'[q][u] = step[q][u]
      BY ONLY <2>3
    <3> QED
      BY ONLY <3>1 DEF Claiming
  <2>5. ClaimsOK'
    <3>1. ASSUME NEW q \in Process, NEW u \in Thread
          PROVE  /\ Claiming(q, u)' => word'[q] = q
                 /\ step'[q][u].pc = "spawn" => senders'[q] = {}
                 /\ step'[q][u].pc = "store" => senders'[q] # {}
                 /\ \A v \in Thread : Claiming(q, u)' /\ Claiming(q, v)' => u = v
      <4>1. /\ Claiming(q, u) => word[q] = q
            /\ step[q][u].pc = "spawn" => senders[q] = {}
            /\ step[q][u].pc = "store" => senders[q] # {}
            /\ \A v \in Thread : Claiming(q, u) /\ Claiming(q, v) => u = v
        BY DEF ClaimsOK
      <4>2. senders' = senders /\ word' = word
        BY <2>3
      <4> QED
        BY ONLY <2>4, <4>1, <4>2
    <3> QED
      BY ONLY <3>1 DEF ClaimsOK, Claiming
  <2>6. SendersOK'
    <3>1. ASSUME NEW q \in Process \ mistaken', word'[q] = q
          PROVE  (\E u \in Thread : Claiming(q, u)') \/ (senders'[q] # {} /\ queue'[q] = q)
      <4>1. CASE q = p
        BY <2>3, <4>1
      <4>2. CASE q # p
        <5>1. (\E u \in Thread : Claiming(q, u)) \/ (senders[q] # {} /\ queue[q] = q)
          BY <2>3, <3>1
        <5> QED
          BY <2>3, <4>2, <5>1
      <4> QED
        BY <4>1, <4>2
    <3>2. /\ \A q \in Process : senders'[q] # {} => word'[q] = q
          /\ \A q \in Process : \A u, v \in senders'[q] : u = v
      BY <2>3
    <3> QED
      BY ONLY <3>1, <3>2 DEF SendersOK, Claiming
  <2> QED
    BY <2>1, <2>2, <2>5, <2>6
<1>6. ASSUME NEW p \in Process, NEW t \in Thread, Offers(p, t) PROVE StartInv'
  <2>1. StartTypeOK'
    BY <1>6 DEF Offers
  <2>2. IdsOK'
    BY <1>6 DEF Offers
  <2>3. /\ step[p][t].pc = "send" /\ step'[p][t].pc \in {"idle"}
        /\ \A q \in Process : \A u \in Thread : q # p \/ u # t => step'[q][u] = step[q][u]
        /\ word' = word /\ senders' = senders /\ queue' = queue /\ mistaken' = mistaken
    BY <1>6 DEF Offers
  <2>4. ClaimsOK /\ SendersOK
    OBVIOUS
  <2>5. ClaimsOK' /\ SendersOK'
    BY ONLY <2>3, <2>4, ReadsOnly
  <2> QED
    BY <2>1, <2>2, <2>5
<1>7. ASSUME NEW p \in Process, NEW child \in Process, Forks(p, child) PROVE StartInv'
  <2>1. StartTypeOK'
    BY <1>7 DEF Forks
  <2>2. IdsOK'
    BY <1>7 DEF Forks
  <2>3. ClaimsOK'
    BY <1>7 DEF Forks
  <2>4. SendersOK'
    BY <1>7 DEF Forks
  <2> QED
    BY <2>1, <2>2, <2>3, <2>4
<1>8. ASSUME NEW p \in Process, Exits(p) PROVE StartInv'
  <2>1. StartTypeOK'
    BY <1>8 DEF Exits
  <2>2. IdsOK'
    BY <1>8 DEF Exits
  <2>3. ClaimsOK'
    BY <1>8 DEF Exits
  <2>4. SendersOK'
    BY <1>8 DEF Exits
  <2> QED
    BY <2>1, <2>2, <2>3, <2>4
<1>9. CASE UNCHANGED startVars
  <2> UNCHANGED <<running, word, queue, senders, step, mistaken>>
    BY <1>9 DEF startVars
  <2> QED
    OBVIOUS
<1> QED
  BY <1>1, <1>2, <1>3, <1>4, <1>5, <1>6, <1>7, <1>8, <1>9 DEF StartNext

(* So it holds at all times.                                              *)
LEMMA StartInvAlways == StartSpec => []StartInv
  BY StartInvInit, StartInvNext, PTL DEF StartSpec

(* Whatever threads, forks and exits do, no process has two sender loops,  *)
(* and one that is marked has a sender to which its texts go, unless it    *)
(* was forked with its own id in the word.                                 *)
THEOREM OneSenderCorrect == StartSpec => []OneSender
<1>1. ASSUME StartInv, NEW p \in Process PROVE Cardinality(senders[p]) <= 1
  <2>1. CASE senders[p] = {}
    BY <2>1, FS_EmptySet
  <2>2. ASSUME NEW t \in senders[p] PROVE Cardinality(senders[p]) <= 1
    <3>1. senders[p] = {t}
      BY <1>1 DEF StartInv, SendersOK
    <3>2. Cardinality({t}) = 1
      BY FS_Singleton
    <3> QED
      BY <3>1, <3>2
  <2> QED
    BY <2>1, <2>2
<1>2. StartInv => OneSender
  BY <1>1 DEF StartInv, StartTypeOK, SendersOK, OneSender, Claiming
<1> QED
  BY <1>2, StartInvAlways, PTL

WorkerSpec == WorkerInit /\ [][WorkerNext]_workerVars

(* STARTED is set while one injector starts a worker or one worker has not *)
(* ended, and at no other time.                                            *)
StartedOK ==
  /\ \A i, j \in starting : i = j
  /\ \A n, m \in Alive : n = m
  /\ starting = {} \/ Alive = {}
  /\ started <=> starting # {} \/ Alive # {}

WorkerPCs == {"config", "slot", "install", "activate", "serve", "clear active",
              "clear slot", "disable hooks", "clear started", "ended"}

WorkerInv == worker \in Seq(WorkerPCs) /\ started \in BOOLEAN /\ StartedOK

(* The order in which a worker that ends resets the library.               *)
LEMMA ResetSteps ==
  /\ Len(ResetOrder) = 4 /\ DOMAIN ResetOrder = 1 .. 4
  /\ Head(ResetOrder) = "clear active"
  /\ ResetOrder[1] = "clear active" /\ ResetOrder[2] = "clear slot"
  /\ ResetOrder[3] = "disable hooks" /\ ResetOrder[4] = "clear started"
<1> DEFINE order == <<"clear active", "clear slot", "disable hooks", "clear started">>
<1>1. ResetOrder = order
  BY DEF ResetOrder
<1>2. Len(order) = 4 /\ DOMAIN order = 1 .. 4
  OBVIOUS
<1>3. Head(order) = "clear active"
  OBVIOUS
<1>4. /\ order[1] = "clear active" /\ order[2] = "clear slot"
      /\ order[3] = "disable hooks" /\ order[4] = "clear started"
  OBVIOUS
<1> QED
  BY <1>1, <1>2, <1>3, <1>4

(* Where a worker that resets the library is and goes on to.               *)
LEMMA ResetGoes ==
  ASSUME NEW n \in DOMAIN worker, Resets(n)
  PROVE  /\ worker[n] \in {"clear active", "clear slot", "disable hooks", "clear started"}
         /\ \E pc \in {"clear slot", "disable hooks", "clear started", "ended"} :
              worker' = [worker EXCEPT ![n] = pc]
<1>1. PICK i \in DOMAIN ResetOrder :
        /\ worker[n] = ResetOrder[i]
        /\ worker' = [worker EXCEPT ![n] = IF i < Len(ResetOrder)
                                            THEN ResetOrder[i + 1] ELSE "ended"]
  BY Zenon DEF Resets, WorkerAt, WorkerGoes
<1>2. /\ ResetOrder[1] = "clear active" /\ ResetOrder[2] = "clear slot"
      /\ ResetOrder[3] = "disable hooks" /\ ResetOrder[4] = "clear started"
  BY ResetSteps
<1>3. i \in 1 .. 4 /\ Len(ResetOrder) = 4
  BY ResetSteps
<1>4. \/ (i = 1 /\ i + 1 = 2) \/ (i = 2 /\ i + 1 = 3) \/ (i = 3 /\ i + 1 = 4)
      \/ (i = 4 /\ ~(i < Len(ResetOrder)))
  BY <1>3
<1>5. worker[n] \in {"clear active", "clear slot", "disable hooks", "clear started"}
  <2>1. i = 1 \/ i = 2 \/ i = 3 \/ i = 4
    BY <1>3
  <2>2. worker[n] = ResetOrder[i]
    BY <1>1
  <2> QED
    BY ONLY <1>2, <2>1, <2>2, Zenon
<1> DEFINE next == IF i < Len(ResetOrder) THEN ResetOrder[i + 1] ELSE "ended"
<1>6. next \in {"clear slot", "disable hooks", "clear started", "ended"}
  <2>1. CASE i < Len(ResetOrder)
    <3>1. next = ResetOrder[i + 1]
      BY <2>1
    <3>2. ResetOrder[i + 1] \in {"clear slot", "disable hooks", "clear started"}
      BY ONLY <1>2, <1>4, <2>1, Zenon
    <3> QED
      BY <3>1, <3>2
  <2>2. CASE ~(i < Len(ResetOrder))
    BY <2>2
  <2> QED
    BY <2>1, <2>2
<1>7. worker' = [worker EXCEPT ![n] = next]
  BY <1>1
<1> QED
  BY <1>5, <1>6, <1>7

(* A step that moves a worker which goes on, or no worker, and leaves      *)
(* STARTED and the injectors alone.                                        *)
LEMMA GoesOn ==
  ASSUME WorkerInv, NEW n \in DOMAIN worker, worker[n] # "ended",
         NEW pc \in WorkerPCs \ {"ended"}, worker' = [worker EXCEPT ![n] = pc],
         UNCHANGED <<started, starting>>
  PROVE  WorkerInv'
<1>1. DOMAIN worker' = DOMAIN worker /\ worker' \in Seq(WorkerPCs)
  BY DEF WorkerInv
<1>2. Alive' = Alive
  BY <1>1 DEF Alive
<1> QED
  BY <1>1, <1>2 DEF WorkerInv, StartedOK

(* At first the library is not started.                                    *)
LEMMA WorkerInvInit == WorkerInit => WorkerInv
<1> SUFFICES ASSUME WorkerInit PROVE WorkerInv
  OBVIOUS
<1>1. worker = <<>> /\ starting = {} /\ started = FALSE
  BY DEF WorkerInit
<1>2. worker \in Seq(WorkerPCs)
  BY <1>1
<1>3. Alive = {}
  BY <1>1 DEF Alive
<1> QED
  BY <1>1, <1>2, <1>3 DEF WorkerInv, StartedOK

(* Every step keeps the invariant.                                         *)
LEMMA WorkerInvNext == WorkerInv /\ [WorkerNext]_workerVars => WorkerInv'
<1> SUFFICES ASSUME WorkerInv, [WorkerNext]_workerVars PROVE WorkerInv'
  OBVIOUS
<1>1. ASSUME NEW i \in Injector, Starts(i) PROVE WorkerInv'
  <2>1. Alive' = Alive
    BY <1>1 DEF Starts, Alive
  <2> QED
    BY <1>1, <2>1 DEF Starts, WorkerInv, StartedOK
<1>2. ASSUME NEW i \in Injector, StartFails(i) PROVE WorkerInv'
  <2>1. Alive' = Alive
    BY <1>2 DEF StartFails, Alive
  <2> QED
    BY <1>2, <2>1 DEF StartFails, WorkerInv, StartedOK
<1>3. ASSUME NEW i \in Injector, SpawnsWorker(i) PROVE WorkerInv'
  <2>1. /\ worker' \in Seq(WorkerPCs)
        /\ Len(worker) \in Nat /\ DOMAIN worker = 1 .. Len(worker)
        /\ DOMAIN worker' = DOMAIN worker \cup {Len(worker) + 1}
        /\ worker'[Len(worker) + 1] = "config"
        /\ \A n \in DOMAIN worker : worker'[n] = worker[n]
    <3>1. worker \in Seq(WorkerPCs) /\ "config" \in WorkerPCs
      BY DEF WorkerInv, WorkerPCs
    <3>2. worker' = Append(worker, "config")
      BY <1>3 DEF SpawnsWorker
    <3> QED
      BY ONLY <3>1, <3>2
  <2>2. Alive' = {Len(worker) + 1}
    BY <1>3, <2>1 DEF SpawnsWorker, WorkerInv, StartedOK, Alive
  <2>3. starting' = {}
    BY <1>3 DEF SpawnsWorker, WorkerInv, StartedOK
  <2> QED
    BY <1>3, <2>1, <2>2, <2>3 DEF SpawnsWorker, WorkerInv, StartedOK, libraryVars
<1>4. ASSUME NEW n \in DOMAIN worker, ReadsConfig(n) PROVE WorkerInv'
  <2>1. PICK next \in {"slot", "clear active"} : worker' = [worker EXCEPT ![n] = next]
    BY <1>4, ResetSteps DEF ReadsConfig, WorkerGoes
  <2> QED
    BY <1>4, <2>1, GoesOn DEF WorkerPCs, ReadsConfig, WorkerAt, libraryVars
<1>5. ASSUME NEW n \in DOMAIN worker, FillsSlot(n) PROVE WorkerInv'
  BY <1>5, GoesOn DEF WorkerPCs, FillsSlot, WorkerAt, WorkerGoes
<1>6. ASSUME NEW n \in DOMAIN worker, Installs(n) PROVE WorkerInv'
  BY <1>6, GoesOn DEF WorkerPCs, Installs, WorkerAt, WorkerGoes
<1>7. ASSUME NEW n \in DOMAIN worker, InstallFails(n) PROVE WorkerInv'
  BY <1>7, GoesOn, ResetSteps DEF WorkerPCs, InstallFails, WorkerAt, WorkerGoes, libraryVars
<1>8. ASSUME NEW n \in DOMAIN worker, Activates(n) PROVE WorkerInv'
  BY <1>8, GoesOn DEF WorkerPCs, Activates, WorkerAt, WorkerGoes
<1>9. ASSUME NEW n \in DOMAIN worker, ShutsDown(n) PROVE WorkerInv'
  BY <1>9, GoesOn, ResetSteps DEF WorkerPCs, ShutsDown, WorkerAt, WorkerGoes
<1>10. ASSUME NEW n \in DOMAIN worker, Resets(n) PROVE WorkerInv'
  <2>0. PICK i \in 1 .. 4 :
          /\ worker[n] = ResetOrder[i] /\ starting' = starting
          /\ started' = (started /\ ResetOrder[i] # "clear started")
          /\ i < 4 => worker' = [worker EXCEPT ![n] = ResetOrder[i + 1]]
          /\ i = 4 => worker' = [worker EXCEPT ![n] = "ended"]
    <3>1. PICK i \in DOMAIN ResetOrder :
            /\ worker[n] = ResetOrder[i]
            /\ started' = (started /\ ResetOrder[i] # "clear started")
            /\ worker' = [worker EXCEPT ![n] = IF i < Len(ResetOrder)
                                                THEN ResetOrder[i + 1] ELSE "ended"]
      BY <1>10, Zenon DEF Resets, WorkerAt, WorkerGoes
    <3>2. starting' = starting
      BY <1>10 DEF Resets
    <3>3. i \in 1 .. 4
      BY ResetSteps
    <3>4. worker' = [worker EXCEPT ![n] = IF i < 4 THEN ResetOrder[i + 1] ELSE "ended"]
      BY <3>1, ResetSteps, Zenon
    <3>5. i < 4 => worker' = [worker EXCEPT ![n] = ResetOrder[i + 1]]
      BY <3>4, Zenon
    <3>6. i = 4 => worker' = [worker EXCEPT ![n] = "ended"]
      <4>1. i = 4 => ~(i < 4)
        BY <3>3
      <4> QED
        BY <3>4, <4>1, Zenon
    <3> QED
      BY <3>1, <3>2, <3>3, <3>5, <3>6, Zenon
  <2>1. starting' = starting
    BY <2>0
  <2>2. CASE i < 4
    <3>1. /\ ResetOrder[i] \in {"clear active", "clear slot", "disable hooks"}
          /\ ResetOrder[i + 1] \in {"clear slot", "disable hooks", "clear started"}
      <4>1. /\ ResetOrder[1] = "clear active" /\ ResetOrder[2] = "clear slot"
            /\ ResetOrder[3] = "disable hooks" /\ ResetOrder[4] = "clear started"
        BY ResetSteps
      <4>2. (i = 1 /\ i + 1 = 2) \/ (i = 2 /\ i + 1 = 3) \/ (i = 3 /\ i + 1 = 4)
        BY <2>2
      <4> QED
        BY ONLY <4>1, <4>2, Zenon
    <3> DEFINE next == ResetOrder[i + 1]
    <3>2. worker[n] # "ended"
      BY <2>0, <3>1
    <3>3. started' = started
      BY <2>0, <3>1 DEF WorkerInv
    <3>4. worker' = [worker EXCEPT ![n] = next]
      BY <2>0, <2>2
    <3>5. next \in WorkerPCs \ {"ended"}
      BY <3>1 DEF WorkerPCs
    <3> QED
      BY <2>1, <3>2, <3>3, <3>4, <3>5, GoesOn
  <2>3. CASE i = 4
    <3>1. worker[n] = "clear started"
      BY <2>0, <2>3, ResetSteps
    <3>2. started' = FALSE
      BY <2>0, <2>3, ResetSteps
    <3>3. worker' = [worker EXCEPT ![n] = "ended"]
      BY <2>0, <2>3
    <3>4. worker' \in Seq(WorkerPCs) /\ DOMAIN worker' = DOMAIN worker
      <4> worker \in Seq(WorkerPCs) /\ "ended" \in WorkerPCs
        BY DEF WorkerInv, WorkerPCs
      <4> QED
        BY <3>3
    <3>5. Alive = {n}
      BY <3>1 DEF WorkerInv, StartedOK, Alive
    <3>6. Alive' = {}
      BY <3>3, <3>4, <3>5 DEF Alive
    <3> QED
      BY <2>1, <3>2, <3>4, <3>5, <3>6 DEF WorkerInv, StartedOK
  <2> QED
    BY <2>2, <2>3
<1>11. ASSUME UNCHANGED <<worker, started, starting>> PROVE WorkerInv'
  BY <1>11 DEF WorkerInv, StartedOK, Alive
<1>12. ASSUME NEW g \in Detoured,
              CreatesFactory(g) \/ CreatesHook(g) \/ SetsOriginal(g) \/ EnablesHook(g)
       PROVE  WorkerInv'
  BY <1>11, <1>12 DEF CreatesFactory, CreatesHook, SetsOriginal, EnablesHook, libraryVars
<1>13. CASE UNCHANGED workerVars
  BY <1>11, <1>13 DEF workerVars, libraryVars
<1> QED
  BY <1>1, <1>2, <1>3, <1>4, <1>5, <1>6, <1>7, <1>8, <1>9, <1>10, <1>12, <1>13
     DEF WorkerNext

(* However many injectors start the library, no two workers run beside one *)
(* another, and the flag that refuses a start tells the truth.             *)
THEOREM OneWorkerCorrect == WorkerSpec => []OneWorker
<1>1. ASSUME WorkerInv PROVE Cardinality(Alive) <= 1
  <2>1. CASE Alive = {}
    BY <2>1, FS_EmptySet
  <2>2. ASSUME NEW n \in Alive PROVE Cardinality(Alive) <= 1
    <3>1. Alive = {n}
      BY <1>1 DEF WorkerInv, StartedOK
    <3>2. Cardinality({n}) = 1
      BY FS_Singleton
    <3> QED
      BY <3>1, <3>2
  <2> QED
    BY <2>1, <2>2
<1>2. WorkerInv => OneWorker
  BY <1>1 DEF WorkerInv, StartedOK, OneWorker
<1> QED
  BY <1>2, WorkerInvInit, WorkerInvNext, PTL DEF WorkerSpec

-----------------------------------------------------------------------------
(* While texts are taken a worker serves; a worker that is about to serve  *)
(* has the queue, and the hooks once they are installed.                   *)
ServedOK ==
  /\ active \in BOOLEAN
  /\ active => \E n \in DOMAIN worker : worker[n] = "serve"
  /\ \A n \in DOMAIN worker : worker[n] \in {"install", "activate", "serve"} => slot = n
  /\ \A n \in DOMAIN worker : worker[n] \in {"activate", "serve"} => patched = Hooks

(* A step of the only worker, which neither served nor will, takes the     *)
(* queue and the hooks from no other.                                      *)
LEMMA OthersUnserved ==
  ASSUME WorkerInv, ServedOK, NEW n \in DOMAIN worker,
         worker[n] \notin {"serve", "ended"},
         NEW pc, pc \notin {"install", "activate", "serve"}, worker' = [worker EXCEPT ![n] = pc],
         active' \in BOOLEAN, active' => active
  PROVE  ServedOK'
<1>1. DOMAIN worker' = DOMAIN worker
  OBVIOUS
<1>2. \A m \in DOMAIN worker : m # n => worker[m] = "ended"
  BY DEF WorkerInv, StartedOK, Alive
<1> QED
  BY <1>1, <1>2 DEF ServedOK

(* Every step keeps it.                                                    *)
LEMMA ServedNext == WorkerInv /\ ServedOK /\ [WorkerNext]_workerVars => ServedOK'
<1> SUFFICES ASSUME WorkerInv, ServedOK, [WorkerNext]_workerVars PROVE ServedOK'
  OBVIOUS
<1>1. ASSUME UNCHANGED <<worker, active, slot, patched>> PROVE ServedOK'
  BY <1>1 DEF ServedOK
<1>2. ASSUME NEW i \in Injector, SpawnsWorker(i) PROVE ServedOK'
  <2>1. /\ worker \in Seq(WorkerPCs) /\ "config" \in WorkerPCs
        /\ worker' = Append(worker, "config")
    BY <1>2 DEF SpawnsWorker, WorkerInv, WorkerPCs
  <2>2. /\ Len(worker) \in Nat /\ DOMAIN worker = 1 .. Len(worker)
        /\ DOMAIN worker' = DOMAIN worker \cup {Len(worker) + 1}
        /\ worker'[Len(worker) + 1] = "config"
        /\ \A n \in DOMAIN worker : worker'[n] = worker[n]
    BY ONLY <2>1
  <2>3. UNCHANGED <<active, slot, patched>>
    BY <1>2 DEF SpawnsWorker, libraryVars
  <2> QED
    BY <2>2, <2>3 DEF ServedOK
<1>3. ASSUME NEW n \in DOMAIN worker, ReadsConfig(n) \/ InstallFails(n) PROVE ServedOK'
  <2>1. PICK next \in {"slot", "clear active"} : worker' = [worker EXCEPT ![n] = next]
    BY <1>3, ResetSteps DEF ReadsConfig, InstallFails, WorkerGoes
  <2>2. worker[n] \in {"config", "install"} /\ active' = active
    BY <1>3 DEF ReadsConfig, InstallFails, WorkerAt, libraryVars
  <2> QED
    BY <2>1, <2>2, OthersUnserved DEF ServedOK
<1>4. ASSUME NEW n \in DOMAIN worker, FillsSlot(n) \/ Installs(n) \/ Activates(n)
      PROVE  ServedOK'
  <2>1. DOMAIN worker' = DOMAIN worker
    BY <1>4 DEF FillsSlot, Installs, Activates, WorkerGoes
  <2>2. worker[n] \in {"slot", "install", "activate"}
    BY <1>4 DEF FillsSlot, Installs, Activates, WorkerAt
  <2>3. \A m \in DOMAIN worker : m # n => worker[m] = "ended" /\ worker'[m] = "ended"
    BY <1>4, <2>2 DEF FillsSlot, Installs, Activates, WorkerGoes, WorkerInv, StartedOK, Alive
  <2>4. CASE FillsSlot(n)
    BY <2>1, <2>2, <2>3, <2>4 DEF FillsSlot, WorkerAt, WorkerGoes, ServedOK
  <2>5. CASE Installs(n)
    BY <2>1, <2>2, <2>3, <2>5 DEF Installs, WorkerAt, WorkerGoes, ServedOK
  <2>6. CASE Activates(n)
    BY <2>1, <2>2, <2>3, <2>6 DEF Activates, WorkerAt, WorkerGoes, ServedOK
  <2> QED
    BY <1>4, <2>4, <2>5, <2>6
<1>5. ASSUME NEW n \in DOMAIN worker, ShutsDown(n) PROVE ServedOK'
  <2>1. worker' = [worker EXCEPT ![n] = "clear active"] /\ DOMAIN worker' = DOMAIN worker
    BY <1>5, ResetSteps DEF ShutsDown, WorkerGoes
  <2>2. worker[n] = "serve" /\ active' = FALSE
    BY <1>5 DEF ShutsDown, WorkerAt
  <2>3. \A m \in DOMAIN worker : m # n => worker[m] = "ended"
    BY <2>2 DEF WorkerInv, StartedOK, Alive
  <2> QED
    BY <2>1, <2>2, <2>3 DEF ServedOK
<1>6. ASSUME NEW n \in DOMAIN worker, Resets(n) PROVE ServedOK'
  <2>1. /\ worker[n] \in {"clear active", "clear slot", "disable hooks", "clear started"}
        /\ \E pc \in {"clear slot", "disable hooks", "clear started", "ended"} :
             worker' = [worker EXCEPT ![n] = pc]
    BY <1>6, ResetGoes
  <2>2. \E this : active' = (active /\ this # "clear active")
    BY <1>6, Zenon DEF Resets
  <2>3. active' \in BOOLEAN /\ (active' => active)
    BY <2>2 DEF ServedOK
  <2> QED
    BY <2>1, <2>3, OthersUnserved
<1> QED
  BY <1>1, <1>2, <1>3, <1>4, <1>5, <1>6
     DEF WorkerNext, Starts, StartFails, CreatesFactory, CreatesHook, SetsOriginal,
         EnablesHook, libraryVars, workerVars

(* While the library takes texts, a worker that serves gets them and the   *)
(* hooks are in place, whichever worker it is and however many have ended. *)
THEOREM ActiveServedCorrect == WorkerSpec => []ActiveServed
<1>1. WorkerInit => ServedOK
  <2> SUFFICES ASSUME WorkerInit PROVE ServedOK
    OBVIOUS
  <2>1. worker = <<>> /\ active = FALSE
    BY DEF WorkerInit
  <2>2. DOMAIN worker = {}
    BY <2>1
  <2> QED
    BY <2>1, <2>2, Zenon DEF ServedOK
<1>2. ServedOK => ActiveServed
  BY DEF ServedOK, ActiveServed
<1> QED
  BY <1>1, <1>2, WorkerInvInit, WorkerInvNext, ServedNext, PTL DEF WorkerSpec

-----------------------------------------------------------------------------
(* Until the first worker installs its hooks no detour runs, so nothing is *)
(* hooked in between that it could enable too soon.                        *)
Early == \A n \in DOMAIN worker : worker[n] \in {"config", "slot", "install"}

Untouched == patched = {} /\ layout = "absent" /\ \A g \in Detoured : hooking[g] = "out"

DetoursOK ==
  /\ DOMAIN hooking = Detoured
  /\ Len(worker) <= 1 =>
       /\ Early => Untouched
       /\ \A g \in Detoured : hooking[g] = "enable" => original
       /\ layout = "enabled" => original

(* Every step keeps it.                                                    *)
LEMMA DetoursNext == WorkerInv /\ DetoursOK /\ [WorkerNext]_workerVars => DetoursOK'
<1> SUFFICES ASSUME WorkerInv, DetoursOK, [WorkerNext]_workerVars PROVE DetoursOK'
  OBVIOUS
<1>1. ASSUME UNCHANGED <<worker, patched, layout, original, hooking>> PROVE DetoursOK'
  BY <1>1 DEF DetoursOK, Early, Untouched
<1>2. ASSUME NEW i \in Injector, SpawnsWorker(i) PROVE DetoursOK'
  <2>1. /\ worker \in Seq(WorkerPCs) /\ "config" \in WorkerPCs
        /\ worker' = Append(worker, "config")
    BY <1>2 DEF SpawnsWorker, WorkerInv, WorkerPCs
  <2>2. /\ Len(worker) \in Nat /\ Len(worker') = Len(worker) + 1
        /\ DOMAIN worker = 1 .. Len(worker)
    BY ONLY <2>1
  <2>3. Len(worker') <= 1 => Len(worker) <= 1 /\ Early
    BY <2>2 DEF Early
  <2> QED
    BY <1>2, <2>3 DEF SpawnsWorker, libraryVars, hookVars, DetoursOK, Untouched
<1>3. ASSUME NEW n \in DOMAIN worker, NEW pc, worker' = [worker EXCEPT ![n] = pc]
      PROVE  /\ Len(worker') = Len(worker) /\ n \in DOMAIN worker'
             /\ worker'[n] = pc
             /\ Len(worker) <= 1 => DOMAIN worker = {n}
  <2>1. worker \in Seq(WorkerPCs)
    BY DEF WorkerInv
  <2>2. DOMAIN worker = 1 .. Len(worker) /\ Len(worker) \in Nat
    BY <2>1
  <2>3. DOMAIN worker' = DOMAIN worker /\ Len(worker') = Len(worker)
    BY <1>3, <2>1
  <2> QED
    BY <1>3, <2>2, <2>3
<1>4. ASSUME NEW n \in DOMAIN worker,
             ReadsConfig(n) \/ FillsSlot(n) \/ Activates(n) \/ ShutsDown(n)
      PROVE  DetoursOK'
  <2>1. PICK pc : worker' = [worker EXCEPT ![n] = pc]
    BY <1>4 DEF ReadsConfig, FillsSlot, Activates, ShutsDown, WorkerGoes
  <2>2. UNCHANGED <<patched, layout, original, hooking>>
    BY <1>4 DEF ReadsConfig, FillsSlot, Activates, ShutsDown, libraryVars, hookVars
  <2>3. worker[n] \in {"config", "slot", "install"}
          \/ pc \notin {"config", "slot", "install"}
    <3>1. CASE ReadsConfig(n) \/ FillsSlot(n)
      BY <3>1 DEF ReadsConfig, FillsSlot, WorkerAt
    <3>2. CASE Activates(n)
      BY <1>3, <2>1, <3>2 DEF Activates, WorkerGoes
    <3>3. CASE ShutsDown(n)
      BY <1>3, <2>1, <3>3, ResetSteps DEF ShutsDown, WorkerGoes
    <3> QED
      BY <1>4, <3>1, <3>2, <3>3
  <2>4. Len(worker') <= 1 => Len(worker) <= 1 /\ (Early' => Early)
    BY <1>3, <2>1, <2>3 DEF Early
  <2> QED
    BY <2>2, <2>4 DEF DetoursOK, Untouched
<1>5. ASSUME NEW n \in DOMAIN worker, Installs(n) \/ InstallFails(n) PROVE DetoursOK'
  <2>1. /\ worker[n] = "install" /\ layout' \in {layout, Enabled}
        /\ UNCHANGED <<original, hooking>>
        /\ \E pc \in {"activate", "clear active"} : worker' = [worker EXCEPT ![n] = pc]
    BY <1>5, ResetSteps DEF Installs, InstallFails, WorkerGoes, WorkerAt
  <2>2. Len(worker') <= 1 => Len(worker) <= 1 /\ Early /\ ~Early'
    BY <1>3, <2>1 DEF Early
  <2> QED
    BY <2>1, <2>2 DEF DetoursOK, Untouched, Enabled
<1>6. ASSUME NEW n \in DOMAIN worker, Resets(n) PROVE DetoursOK'
  <2>1. PICK pc \in {"clear slot", "disable hooks", "clear started", "ended"} :
          worker' = [worker EXCEPT ![n] = pc]
    BY <1>6, ResetGoes
  <2>2. /\ layout' = layout \/ layout' = "created"
        /\ UNCHANGED <<original, hooking>>
    BY <1>6, Zenon DEF Resets
  <2>3. Len(worker') = Len(worker) /\ n \in DOMAIN worker' /\ worker'[n] = pc
    BY <1>3, <2>1
  <2>4. ~Early'
    BY <2>3 DEF Early
  <2> QED
    BY <2>2, <2>3, <2>4 DEF DetoursOK
<1>7. ASSUME NEW g \in Detoured,
             CreatesFactory(g) \/ CreatesHook(g) \/ SetsOriginal(g) \/ EnablesHook(g)
      PROVE  DetoursOK'
  <2>1. worker' = worker
    BY <1>7 DEF CreatesFactory, CreatesHook, SetsOriginal, EnablesHook
  <2>2. Early' <=> Early
    BY <2>1 DEF Early
  <2>3. ~Untouched
    BY <1>7 DEF CreatesFactory, CreatesHook, SetsOriginal, EnablesHook, Untouched
  <2>4. CASE CreatesFactory(g)
    BY <2>1, <2>2, <2>3, <2>4 DEF CreatesFactory, DetoursOK, hookVars
  <2>5. CASE CreatesHook(g)
    BY <2>1, <2>2, <2>3, <2>5 DEF CreatesHook, DetoursOK
  <2>6. CASE SetsOriginal(g)
    BY <2>1, <2>2, <2>3, <2>6 DEF SetsOriginal, DetoursOK
  <2>7. CASE EnablesHook(g)
    BY <2>1, <2>2, <2>3, <2>7 DEF EnablesHook, DetoursOK
  <2> QED
    BY <1>7, <2>4, <2>5, <2>6, <2>7
<1> QED
  BY <1>1, <1>2, <1>4, <1>5, <1>6, <1>7
     DEF WorkerNext, Starts, StartFails, hookVars, libraryVars, workerVars

(* Until a second worker starts, a detour is never enabled without the     *)
(* original that it calls, whatever threads of the game make hooks.        *)
THEOREM DetourHasOriginalCorrect == WorkerSpec => []DetourHasOriginal
<1>1. WorkerInit => DetoursOK
  BY DEF WorkerInit, DetoursOK, Untouched
<1>2. DetoursOK => DetourHasOriginal
  BY DEF DetoursOK, DetourHasOriginal
<1> QED
  BY <1>1, <1>2, WorkerInvInit, WorkerInvNext, DetoursNext, PTL DEF WorkerSpec

BookSpec == BookInit /\ [][BookNext]_bookVars

(* Without a connection nothing is enabled.                                *)
BookInv == KnownAnnounced /\ (~linked => enabled = {} /\ sentIds = {})

(* The book is empty at first.                                             *)
LEMMA BookInvInit == BookInit => BookInv
  BY DEF BookInit, BookInv, KnownAnnounced, IdsOfBook, Known

(* Every operation keeps the book and what the host knows alike.           *)
LEMMA BookInvNext == BookInv /\ [BookNext]_bookVars => BookInv'
<1> SUFFICES ASSUME BookInv, [BookNext]_bookVars PROVE BookInv'
  OBVIOUS
<1>1. ASSUME Reconnects PROVE BookInv'
  <2> DEFINE number == CHOOSE f \in [Known -> ids + 1 .. ids + Cardinality(Known)] :
                         \A p, q \in Known : f[p] = f[q] => p = q
             fresh == [p \in Known |-> Renewed(p, number[p])]
             unannounced == {fresh[p].id : p \in {q \in Known : ~fresh[q].advertised}}
  <2>1. /\ candidates' = [p \in Known |-> [fresh[p] EXCEPT !.advertised = TRUE]]
        /\ sentIds' \subseteq unannounced /\ (~broken' => sentIds' = unannounced)
    BY <1>1 DEF Reconnects
  <2> HIDE DEF number
  <2>2. IdsOfBook' = {number[p] : p \in Known}
    BY <2>1 DEF IdsOfBook, Known, Renewed
  <2>3. unannounced = {number[p] : p \in Known}
    BY DEF Renewed
  <2> QED
    BY <1>1, <2>1, <2>2, <2>3 DEF Reconnects, BookInv, KnownAnnounced
<1>2. ASSUME Unlinks PROVE BookInv'
  BY <1>2 DEF Unlinks, BookInv, KnownAnnounced, IdsOfBook, Known
<1>3. ASSUME NEW id \in 1 .. MaxIds, SetsEnabled(id) PROVE BookInv'
  <2>1. IdsOfBook' = IdsOfBook
    BY <1>3 DEF SetsEnabled, IdsOfBook, Known
  <2> QED
    BY <1>3, <2>1 DEF SetsEnabled, BookInv, KnownAnnounced
<1>4. ASSUME NEW place \in Place, ObservesNew(place) \/ ObservationFails(place) PROVE BookInv'
  <2>1. IdsOfBook' = IdsOfBook \cup {ids + 1}
    <3>1. /\ DOMAIN candidates' = Known \cup {place}
          /\ candidates'[place].id = ids + 1
          /\ \A p \in Known : candidates'[p] = candidates[p]
      BY <1>4 DEF ObservesNew, ObservationFails, AddsPlace, Known
    <3> QED
      BY <3>1 DEF IdsOfBook, Known
  <2> QED
    BY <1>4, <2>1 DEF ObservesNew, ObservationFails, AddsPlace, BookInv, KnownAnnounced
<1>5. CASE UNCHANGED bookVars
  BY <1>5 DEF bookVars, BookInv, KnownAnnounced, IdsOfBook, Known
<1> QED
  BY <1>1, <1>2, <1>3, <1>4, <1>5 DEF BookNext

(* On every connection the host is told of what the book has, and what it  *)
(* has enabled stays there.                                                *)
THEOREM KnownAnnouncedCorrect == BookSpec => []KnownAnnounced
<1>1. BookInv => KnownAnnounced
  BY DEF BookInv
<1> QED
  BY <1>1, BookInvInit, BookInvNext, PTL DEF BookSpec

-----------------------------------------------------------------------------
(* Payload files                                                           *)

BlobSpec == BlobInit /\ [][BlobNext]_blobVars

FilePCs == {"new", "open", "fill", "rename", "commit", "ended"}

BlobTypes ==
  /\ temporary \in [Digest -> Writer \cup {NoFile}]
  /\ blob \in [Digest -> Writer \cup {NoFile}]
  /\ filled \in [Digest -> SUBSET Writer]
  /\ writing \in [Writer -> [pc : FilePCs, digest : Digest \cup {NoFile},
                             file : Writer \cup {NoFile}]]
  /\ \A w \in Writer : writing[w].pc \in {"open", "fill", "rename", "commit"} =>
       writing[w].digest \in Digest
  /\ \A w \in Writer : writing[w].pc = "fill" => writing[w].file \in Writer

(* File f of digest d holds its bytes, or is excused.                      *)
Accounted(d, f) ==
  \/ f \in filled[d]
  \/ <<d, f>> \in torn
  \/ \E w \in Writer : IsAt(w, "fill") /\ DigestOf(w) = d /\ writing[w].file = f

(* What a rename would publish is accounted for as what is published is.   *)
FilesOK ==
  \A d \in Digest :
    /\ temporary[d] # NoFile => Accounted(d, temporary[d])
    /\ blob[d] # NoFile => Accounted(d, blob[d])

(* A digest is published before anything refers to it, and for good.       *)
PublishedOK ==
  /\ referred \subseteq Digest
  /\ \A d \in referred : blob[d] # NoFile
  /\ \A w \in Writer : IsAt(w, "commit") => blob[DigestOf(w)] # NoFile

BlobInv == BlobTypes /\ FilesOK /\ PublishedOK

(* At first nothing is stored.                                             *)
LEMMA BlobInvInit == BlobInit => BlobInv
  BY DEF BlobInit, BlobInv, BlobTypes, FilesOK, PublishedOK, Outside, FilePCs, IsAt

(* Every step keeps the types.                                             *)
LEMMA BlobTypesNext == BlobTypes /\ [BlobNext]_blobVars => BlobTypes'
<1> SUFFICES ASSUME BlobTypes, [BlobNext]_blobVars PROVE BlobTypes'
  OBVIOUS
<1> USE DEF BlobTypes, FilePCs, IsAt, DigestOf, Moves
<1>1. ASSUME NEW w \in Writer, ChecksBlob(w) PROVE BlobTypes'
  <2>1. PICK d \in Digest, pc \in {"commit", "open"} :
          writing' = [writing EXCEPT ![w] = [pc |-> pc, digest |-> d, file |-> NoFile]]
    BY <1>1 DEF ChecksBlob
  <2> QED
    BY <1>1, <2>1 DEF ChecksBlob
<1>2. ASSUME NEW w \in Writer, OpensTemporary(w) PROVE BlobTypes'
  <2>1. PICK f \in Writer :
          /\ temporary' = [temporary EXCEPT ![DigestOf(w)] = f]
          /\ writing' = [writing EXCEPT ![w].pc = "fill", ![w].file = f]
          /\ filled' = [filled EXCEPT ![DigestOf(w)] = @ \ {f}]
    BY <1>2 DEF OpensTemporary
  <2>2. writing[w].pc = "open" /\ DigestOf(w) \in Digest /\ UNCHANGED <<blob, referred, torn>>
    BY <1>2 DEF OpensTemporary
  <2> DEFINE State == [pc : FilePCs, digest : Digest \cup {NoFile}, file : Writer \cup {NoFile}]
             opened == [writing[w] EXCEPT !.pc = "fill"]
             next == [opened EXCEPT !.file = f]
  <2>3. opened \in State /\ opened.digest = DigestOf(w) /\ opened.pc = "fill"
    OBVIOUS
  <2>4. next \in State /\ next.digest = DigestOf(w) /\ next.pc = "fill" /\ next.file = f
    BY <2>3
  <2>5. writing' = [writing EXCEPT ![w] = next]
    BY <2>1
  <2>6. /\ temporary' \in [Digest -> Writer \cup {NoFile}]
        /\ filled' \in [Digest -> SUBSET Writer]
    BY <2>1, <2>2
  <2> HIDE DEF next
  <2> QED
    BY <2>2, <2>4, <2>5, <2>6
<1>3. ASSUME NEW w \in Writer, FillsTemporary(w) PROVE BlobTypes'
  BY <1>3 DEF FillsTemporary
<1>4. ASSUME NEW w \in Writer, RenamesTemporary(w) PROVE BlobTypes'
  BY <1>4 DEF RenamesTemporary
<1>5. ASSUME NEW w \in Writer, RefersToBlob(w) PROVE BlobTypes'
  BY <1>5 DEF RefersToBlob
<1>6. ASSUME NEW w \in Writer, WriterEnds(w) PROVE BlobTypes'
  BY <1>6 DEF WriterEnds
<1>7. CASE UNCHANGED blobVars
  BY <1>7 DEF blobVars
<1> QED
  BY <1>1, <1>2, <1>3, <1>4, <1>5, <1>6, <1>7 DEF BlobNext

(* No step leaves a file that some writer has not yet filled without       *)
(* account: a writer that truncates one is about to fill it.               *)
LEMMA AccountedNext ==
  ASSUME BlobTypes, [BlobNext]_blobVars, NEW d \in Digest, NEW f \in Writer, Accounted(d, f)
  PROVE  Accounted(d, f)'
<1> USE DEF BlobTypes, FilePCs, IsAt, DigestOf, Moves, Accounted
<1>1. ASSUME NEW w \in Writer, ChecksBlob(w) PROVE Accounted(d, f)'
  BY <1>1 DEF ChecksBlob
<1>2. ASSUME NEW w \in Writer, OpensTemporary(w) PROVE Accounted(d, f)'
  <2>1. PICK g \in Writer :
          /\ writing' = [writing EXCEPT ![w].pc = "fill", ![w].file = g]
          /\ filled' = [filled EXCEPT ![DigestOf(w)] = @ \ {g}]
    BY <1>2 DEF OpensTemporary
  <2>2. torn' = torn /\ writing[w].pc = "open"
    BY <1>2 DEF OpensTemporary
  <2>3. CASE d = writing[w].digest /\ f = g
    BY <2>1, <2>3
  <2>4. CASE ~(d = writing[w].digest /\ f = g)
    BY <2>1, <2>2, <2>4
  <2> QED
    BY <2>3, <2>4
<1>3. ASSUME NEW w \in Writer, FillsTemporary(w) PROVE Accounted(d, f)'
  BY <1>3 DEF FillsTemporary
<1>4. ASSUME NEW w \in Writer, RenamesTemporary(w) PROVE Accounted(d, f)'
  BY <1>4 DEF RenamesTemporary
<1>5. ASSUME NEW w \in Writer, RefersToBlob(w) PROVE Accounted(d, f)'
  BY <1>5 DEF RefersToBlob
<1>6. ASSUME NEW w \in Writer, WriterEnds(w) PROVE Accounted(d, f)'
  BY <1>6 DEF WriterEnds
<1>7. CASE UNCHANGED blobVars
  BY <1>7 DEF blobVars
<1> QED
  BY <1>1, <1>2, <1>3, <1>4, <1>5, <1>6, <1>7 DEF BlobNext

(* Every step keeps the invariant.                                         *)
LEMMA BlobInvNext == BlobInv /\ [BlobNext]_blobVars => BlobInv'
<1> SUFFICES ASSUME BlobInv, [BlobNext]_blobVars PROVE FilesOK' /\ PublishedOK'
  BY BlobTypesNext DEF BlobInv
<1>0. BlobTypes /\ FilesOK /\ PublishedOK /\ NoFile \notin Writer
  BY BlobAssumption DEF BlobInv
<1>1. ASSUME NEW d \in Digest, NEW f \in Writer, Accounted(d, f) PROVE Accounted(d, f)'
  BY <1>0, <1>1, AccountedNext
<1> USE DEF BlobTypes, FilePCs, IsAt, DigestOf, Moves
<1>2. FilesOK'
  <2> SUFFICES ASSUME NEW d \in Digest
               PROVE  /\ temporary'[d] # NoFile => Accounted(d, temporary[d])'
                      /\ blob'[d] # NoFile => Accounted(d, blob[d])'
    BY DEF FilesOK
  <2>1. ASSUME NEW f \in {temporary[d], blob[d]}, f # NoFile PROVE Accounted(d, f)'
    BY <1>0, <1>1, <2>1 DEF FilesOK
  <2>2. temporary'[d] \in {NoFile, temporary[d]} \/ Accounted(d, temporary[d])'
    <3>1. ASSUME NEW w \in Writer, OpensTemporary(w), temporary'[d] # temporary[d]
          PROVE  Accounted(d, temporary[d])'
      BY <1>0, <3>1 DEF OpensTemporary, Accounted
    <3>2. ASSUME NEW w \in Writer, RenamesTemporary(w)
          PROVE  temporary'[d] \in {NoFile, temporary[d]}
      BY <1>0, <3>2 DEF RenamesTemporary
    <3> QED
      BY <3>1, <3>2 DEF BlobNext, blobVars, ChecksBlob, FillsTemporary, RefersToBlob, WriterEnds
  <2>3. blob'[d] \in {temporary[d], blob[d]}
    <3>1. ASSUME NEW w \in Writer, RenamesTemporary(w) PROVE blob'[d] \in {temporary[d], blob[d]}
      BY <1>0, <3>1 DEF RenamesTemporary
    <3> QED
      BY <3>1 DEF BlobNext, blobVars, ChecksBlob, OpensTemporary, FillsTemporary,
                  RefersToBlob, WriterEnds
  <2> QED
    BY <2>1, <2>2, <2>3 DEF Accounted
<1>3. PublishedOK'
  <2>1. ASSUME NEW w \in Writer, ChecksBlob(w) PROVE PublishedOK'
    BY <1>0, <2>1 DEF ChecksBlob, PublishedOK, BlobExists
  <2>2. ASSUME NEW w \in Writer, OpensTemporary(w) PROVE PublishedOK'
    BY <1>0, <2>2 DEF OpensTemporary, PublishedOK
  <2>3. ASSUME NEW w \in Writer, FillsTemporary(w) PROVE PublishedOK'
    BY <1>0, <2>3 DEF FillsTemporary, PublishedOK
  <2>4. ASSUME NEW w \in Writer, RenamesTemporary(w) PROVE PublishedOK'
    BY <1>0, <2>4 DEF RenamesTemporary, PublishedOK
  <2>5. ASSUME NEW w \in Writer, RefersToBlob(w) PROVE PublishedOK'
    BY <1>0, <2>5 DEF RefersToBlob, PublishedOK
  <2>6. ASSUME NEW w \in Writer, WriterEnds(w) PROVE PublishedOK'
    BY <1>0, <2>6 DEF WriterEnds, PublishedOK
  <2>7. CASE UNCHANGED blobVars
    BY <1>0, <2>7 DEF blobVars, PublishedOK
  <2> QED
    BY <2>1, <2>2, <2>3, <2>4, <2>5, <2>6, <2>7 DEF BlobNext
<1> QED
  BY <1>2, <1>3

(* What a stored commit refers to is there and whole, except for a file    *)
(* whose last writer ended while it was writing or is still at it, however *)
(* many programs store the same bytes under the same temporary name.       *)
THEOREM PayloadsKeptCorrect == BlobSpec => []PayloadsKept
<1>1. BlobInv => PayloadsKept
  BY DEF BlobInv, FilesOK, PublishedOK, Accounted, PayloadsKept
<1> QED
  BY <1>1, BlobInvInit, BlobInvNext, PTL DEF BlobSpec

-----------------------------------------------------------------------------
(* The sender of the native hook: what it sends                            *)

SenderSpec == SenderInit /\ [][SenderNext]_senderVars

SenderTypes ==
  /\ observed \in Seq(Callsite \X Text)
  /\ held \in [Text -> {<<>>} \cup {<<s>> : s \in Callsite}]
  /\ age \in [Text -> 0 .. Window]
  /\ drawn \in [Text -> SUBSET Callsite]
  /\ quiet \in [Text -> 0 .. Window]

(* What is due is held, and was found in this turn of the loop; a text is  *)
(* held no longer than it has been quiet; and call sites are remembered    *)
(* for as long as their text waits.                                        *)
HeldOK ==
  /\ due \subseteq Held /\ (at # "send" => due = {})
  /\ \A x \in Held : age[x] <= quiet[x]
  /\ \A x \in Text : x \notin Held => drawn[x] = {}

SenderInv == SenderTypes /\ HeldOK /\ SentApart /\ BestHeld

(* At first nothing is held.                                               *)
LEMMA SenderInvInit == SenderInit => SenderInv
BY NativeSenderAssumption, EmptySeq
   DEF SenderInit, SenderInv, SenderTypes, HeldOK, SentApart, BestHeld, Held

(* Nothing is held after a connection begins or ends.                      *)
LEMMA NothingHeldInv ==
  ASSUME SenderInv, NothingHeld, UNCHANGED <<observed, quiet>>
  PROVE  SenderInv'
<1>1. /\ held' = [x \in Text |-> <<>>] /\ age' = [x \in Text |-> 0]
      /\ drawn' = [x \in Text |-> {}] /\ due' = {}
      /\ observed' = observed /\ quiet' = quiet
  BY DEF NothingHeld
<1>2. Held' = {}
  BY <1>1 DEF Held
<1>3. SenderTypes'
  BY <1>1, NativeSenderAssumption DEF SenderInv, SenderTypes
<1>4. HeldOK' /\ SentApart' /\ BestHeld'
  BY <1>1, <1>2 DEF HeldOK, SentApart, BestHeld
<1> QED
  BY <1>3, <1>4 DEF SenderInv

(* What is held, and by whom, after an observation.                        *)
LEMMA TakesInv ==
  ASSUME SenderInv, Takes
  PROVE  SenderInv'
<1>1. SenderTypes /\ HeldOK /\ SentApart /\ BestHeld /\ at = "take" /\ due = {}
  BY DEF SenderInv, HeldOK, Takes
<1>2. Head(observed) \in Callsite \X Text /\ Tail(observed) \in Seq(Callsite \X Text)
  BY HeadTailProperties DEF Takes, SenderInv, SenderTypes
<1> DEFINE s == Head(observed)[1]
           x == Head(observed)[2]
<1>3. s \in Callsite /\ x \in Text
  BY <1>2
<1>4. /\ observed' = Tail(observed) /\ due' = {} /\ quiet' = quiet
  BY <1>1 DEF Takes
<1>5. \/ UNCHANGED <<held, age, drawn>>
      \/ s \in wanted /\ Replaces(s, x) /\ Holds(s, x)
      \/ /\ ~(s \in wanted /\ Replaces(s, x))
         /\ drawn' = [drawn EXCEPT ![x] = IF s \in wanted THEN drawn[x] \cup {s} ELSE drawn[x]]
         /\ UNCHANGED <<held, age>>
  BY Zenon DEF Takes
<1> HIDE DEF s, x
<1>6. CASE UNCHANGED <<held, age, drawn>>
  <2>1. Held' = Held
    BY <1>6 DEF Held
  <2> QED
    BY <1>1, <1>2, <1>4, <1>6, <2>1 DEF SenderInv, SenderTypes, HeldOK, SentApart, BestHeld
<1>7. CASE s \in wanted /\ Replaces(s, x) /\ Holds(s, x)
  <2>1. PICK gone \in Displaced(x) :
          /\ held' = [y \in Text |-> IF y = x THEN <<s>> ELSE IF y \in gone THEN <<>> ELSE held[y]]
          /\ age' = [y \in Text |-> IF y \in gone \cup {x} THEN 0 ELSE age[y]]
          /\ drawn' = [y \in Text |-> IF y = x THEN drawn[y] \cup {s}
                                      ELSE IF y \in gone THEN {} ELSE drawn[y]]
    BY <1>7 DEF Holds
  <2>2. SenderTypes'
    <3>1. held' \in [Text -> {<<>>} \cup {<<c>> : c \in Callsite}]
      BY <1>1, <1>3, <2>1 DEF SenderTypes
    <3>2. age' \in [Text -> 0 .. Window]
      <4>1. 0 \in 0 .. Window
        BY NativeSenderAssumption
      <4> QED
        BY <1>1, <2>1, <4>1 DEF SenderTypes
    <3>3. drawn' \in [Text -> SUBSET Callsite]
      BY <1>1, <1>3, <2>1 DEF SenderTypes
    <3> QED
      BY <1>1, <1>2, <1>4, <3>1, <3>2, <3>3 DEF SenderTypes
  <2>3. \A y \in Text : /\ y \in Held' <=> y = x \/ (y \notin gone /\ y \in Held)
                        /\ held'[y] = IF y = x THEN <<s>> ELSE IF y \in gone THEN <<>> ELSE held[y]
                        /\ age'[y] = IF y \in gone \cup {x} THEN 0 ELSE age[y]
                        /\ drawn'[y] = IF y = x THEN drawn[y] \cup {s}
                                       ELSE IF y \in gone THEN {} ELSE drawn[y]
    BY <2>1 DEF Held
  <2>4. HeldOK'
    <3>1. due' \subseteq Held' /\ (at' # "send" => due' = {})
      BY <1>4
    <3>2. \A y \in Held' : age'[y] <= quiet'[y]
      <4>1. ASSUME NEW y \in Held' PROVE age'[y] <= quiet'[y]
        <5>1. y \in Text /\ quiet'[y] \in Nat
          BY <1>1, <1>4, <4>1 DEF Held, SenderTypes
        <5>2. CASE y \in gone \cup {x}
          <6>1. age'[y] = 0
            BY <2>3, <5>1, <5>2, Zenon
          <6> QED
            BY <5>1, <6>1
        <5>3. CASE y \notin gone \cup {x}
          <6>1. y \in Held /\ age'[y] = age[y]
            BY <2>3, <4>1, <5>1, <5>3
          <6> QED
            BY <1>1, <1>4, <6>1 DEF HeldOK
        <5> QED
          BY <5>2, <5>3
      <4> QED
        BY <4>1
    <3>3. \A y \in Text : y \notin Held' => drawn'[y] = {}
      BY <1>1, <2>3 DEF HeldOK
    <3> QED
      BY <3>1, <3>2, <3>3 DEF HeldOK
  <2>5. BestHeld'
    <3>1. SUFFICES ASSUME NEW y \in Held', NEW u \in drawn'[y]
                   PROVE  Rank[held'[y][1]] >= Rank[u]
      BY DEF BestHeld
    <3>2. y \in Text
      BY DEF Held
    <3>3. CASE y # x
      BY <1>1, <2>3, <3>1, <3>2, <3>3 DEF BestHeld
    <3>4. CASE y = x
      <4>1. held'[y] = <<s>> /\ held'[y][1] = s /\ u \in drawn[x] \cup {s}
        <5>1. held'[y] = <<s>> /\ drawn'[y] = drawn[x] \cup {s}
          BY <1>3, <2>3, <3>4
        <5> QED
          BY <3>1, <5>1
      <4>2. Rank[s] \in Nat /\ \A v \in Callsite : Rank[v] \in Nat
        BY <1>3, NativeSenderAssumption
      <4>3. CASE u = s
        BY <4>1, <4>2, <4>3
      <4>4. CASE u # s
        <5>1. u \in drawn[x] /\ u \in Callsite
          BY <1>1, <1>3, <4>1, <4>4 DEF SenderTypes
        <5>2. x \in Held
          BY <1>1, <1>3, <5>1 DEF HeldOK
        <5>3. Rank[held[x][1]] >= Rank[u] /\ Rank[s] > Rank[held[x][1]]
          BY <1>1, <1>7, <5>1, <5>2 DEF BestHeld, Replaces, Held
        <5>4. held[x][1] \in Callsite
          <6>1. held[x] # <<>>
            BY <5>2 DEF Held
          <6> QED
            BY <1>1, <1>3, <6>1 DEF SenderTypes
        <5> QED
          BY <4>1, <4>2, <5>1, <5>3, <5>4
      <4> QED
        BY <4>3, <4>4
    <3> QED
      BY <3>3, <3>4
  <2>6. SentApart'
    BY <1>4 DEF SentApart
  <2> QED
    BY <2>2, <2>4, <2>5, <2>6 DEF SenderInv
<1>8. CASE /\ ~(s \in wanted /\ Replaces(s, x))
           /\ drawn' = [drawn EXCEPT ![x] = IF s \in wanted THEN drawn[x] \cup {s} ELSE drawn[x]]
           /\ UNCHANGED <<held, age>>
  <2>1. Held' = Held /\ held' = held /\ age' = age
    BY <1>8 DEF Held
  <2>2. \A y \in Text : drawn'[y] = IF y = x /\ s \in wanted THEN drawn[x] \cup {s} ELSE drawn[y]
    BY <1>1, <1>3, <1>8 DEF SenderTypes
  <2>3. SenderTypes'
    BY <1>1, <1>2, <1>3, <1>4, <1>8, <2>1 DEF SenderTypes
  <2>4. s \in wanted => x \in Held /\ ~(Rank[s] > Rank[held[x][1]])
    BY <1>3, <1>8 DEF Replaces, Held
  <2>5. HeldOK'
    BY <1>1, <1>4, <2>1, <2>2, <2>4 DEF HeldOK
  <2>6. BestHeld'
    <3>1. SUFFICES ASSUME NEW y \in Held, NEW u \in drawn'[y]
                   PROVE  Rank[held[y][1]] >= Rank[u]
      BY <2>1 DEF BestHeld
    <3>2. y \in Text
      BY DEF Held
    <3>3. CASE u \in drawn[y]
      BY <1>1, <3>3 DEF BestHeld
    <3>4. CASE u \notin drawn[y]
      <4>1. y = x /\ s \in wanted /\ u = s
        BY <2>2, <3>1, <3>2, <3>4
      <4>2. held[x][1] \in Callsite
        <5>1. held[x] # <<>>
          BY <2>4, <4>1 DEF Held
        <5> QED
          BY <1>1, <1>3, <5>1 DEF SenderTypes
      <4>3. Rank[s] \in Nat /\ Rank[held[x][1]] \in Nat
        BY <1>3, <4>2, NativeSenderAssumption
      <4> QED
        BY <2>4, <4>1, <4>3
    <3> QED
      BY <3>3, <3>4
  <2>7. SentApart'
    BY <1>4 DEF SentApart
  <2> QED
    BY <2>3, <2>5, <2>6, <2>7 DEF SenderInv
<1> QED
  BY <1>5, <1>6, <1>7, <1>8

(* Time passes for all texts alike.                                        *)
LEMMA TicksInv ==
  ASSUME SenderInv, Ticks
  PROVE  SenderInv'
<1>1. SenderTypes /\ HeldOK /\ SentApart /\ BestHeld
  BY DEF SenderInv
<1>2. /\ age' = [x \in Text |-> IF x \in Held THEN Older(age[x]) ELSE 0]
      /\ quiet' = [x \in Text |-> Older(quiet[x])]
      /\ UNCHANGED <<observed, at, announced, wanted, held, due, drawn>>
  BY DEF Ticks
<1>3. \A t \in 0 .. Window : Older(t) \in 0 .. Window
  BY NativeSenderAssumption DEF Older
<1>4. \A t, u \in 0 .. Window : t <= u => Older(t) <= Older(u)
  BY NativeSenderAssumption DEF Older
<1>5. Held' = Held
  BY <1>2 DEF Held
<1>6. SenderTypes'
  BY <1>1, <1>2, <1>3, NativeSenderAssumption DEF SenderTypes
<1>7. \A x \in Held : age'[x] <= quiet'[x]
  <2>1. ASSUME NEW x \in Held PROVE age'[x] <= quiet'[x]
    <3>1. x \in Text /\ age[x] \in 0 .. Window /\ quiet[x] \in 0 .. Window /\ age[x] <= quiet[x]
      BY <1>1 DEF Held, SenderTypes, HeldOK
    <3>2. age'[x] = Older(age[x]) /\ quiet'[x] = Older(quiet[x])
      BY <1>2, <3>1
    <3> QED
      BY <1>4, <3>1, <3>2
  <2> QED
    BY <2>1
<1>8. HeldOK' /\ BestHeld'
  BY <1>1, <1>2, <1>5, <1>7 DEF HeldOK, BestHeld
<1>9. SentApart'
  <2>1. \A x \in due : quiet'[x] = Older(quiet[x])
    BY <1>1, <1>2 DEF HeldOK, Held
  <2>2. Older(Window) = Window
    BY NativeSenderAssumption DEF Older
  <2> QED
    BY <1>1, <1>2, <2>1, <2>2 DEF SentApart
<1> QED
  BY <1>6, <1>8, <1>9 DEF SenderInv

(* What was held for long enough has been quiet for as long.               *)
LEMMA FlushesInv ==
  ASSUME SenderInv, Flushes
  PROVE  SenderInv'
<1>1. SenderTypes /\ HeldOK /\ SentApart /\ BestHeld
  BY DEF SenderInv
<1>2. /\ due' = {x \in Held : age[x] >= Window} /\ at' = "send"
      /\ UNCHANGED <<observed, announced, wanted, held, age, drawn, quiet>>
  BY DEF Flushes
<1>3. Held' = Held
  BY <1>2 DEF Held
<1>4. ASSUME NEW x \in Held, age[x] >= Window PROVE quiet[x] = Window
  <2>1. age[x] \in 0 .. Window /\ quiet[x] \in 0 .. Window /\ age[x] <= quiet[x]
    BY <1>1 DEF SenderTypes, HeldOK, Held
  <2> QED
    BY <1>4, <2>1, NativeSenderAssumption
<1>5. SentApart'
  BY <1>2, <1>4 DEF SentApart
<1>6. SenderTypes' /\ HeldOK' /\ BestHeld'
  BY <1>1, <1>2, <1>3 DEF SenderTypes, HeldOK, BestHeld
<1> QED
  BY <1>5, <1>6 DEF SenderInv

(* A text that is sent is neither due nor held any more.                   *)
LEMMA SendsInv ==
  ASSUME SenderInv, Sends
  PROVE  SenderInv'
<1>1. SenderTypes /\ HeldOK /\ SentApart /\ BestHeld
  BY DEF SenderInv
<1>2. PICK x \in due :
        /\ due' = due \ {x}
        /\ held' = Released(x)
        /\ age' = [age EXCEPT ![x] = IF Released(x)[x] = <<>> THEN 0 ELSE age[x]]
        /\ drawn' = [drawn EXCEPT ![x] = {}]
        /\ quiet' = [quiet EXCEPT ![x] = 0]
  BY Zenon DEF Sends
<1>3. UNCHANGED <<observed, at, announced, wanted>> /\ at = "send"
  BY DEF Sends
<1>4. x \in Text
  BY <1>1 DEF HeldOK, Held
<1>5. held' = [held EXCEPT ![x] = <<>>] /\ Released(x)[x] = <<>>
  BY <1>1, <1>2, <1>4 DEF Released, SenderTypes
<1>6. age' = [age EXCEPT ![x] = 0]
  BY <1>2, <1>5
<1>7. \A y \in Text :
        /\ held'[y] = IF y = x THEN <<>> ELSE held[y]
        /\ age'[y] = IF y = x THEN 0 ELSE age[y]
        /\ drawn'[y] = IF y = x THEN {} ELSE drawn[y]
        /\ quiet'[y] = IF y = x THEN 0 ELSE quiet[y]
  BY <1>1, <1>2, <1>5, <1>6 DEF SenderTypes
<1>8. Held' = Held \ {x}
  BY <1>4, <1>7 DEF Held
<1>9. SenderTypes'
  <2>1. 0 \in 0 .. Window
    BY NativeSenderAssumption
  <2>2. /\ held' \in [Text -> {<<>>} \cup {<<s>> : s \in Callsite}]
        /\ age' \in [Text -> 0 .. Window] /\ quiet' \in [Text -> 0 .. Window]
        /\ drawn' \in [Text -> SUBSET Callsite] /\ observed' = observed
    BY <1>1, <1>2, <1>3, <1>5, <1>6, <2>1 DEF SenderTypes
  <2> QED
    BY <1>1, <2>2 DEF SenderTypes
<1>10. HeldOK' /\ SentApart' /\ BestHeld'
  BY <1>1, <1>2, <1>3, <1>7, <1>8 DEF HeldOK, SentApart, BestHeld, Held
<1> QED
  BY <1>9, <1>10 DEF SenderInv

(* Every step keeps the invariant.                                         *)
LEMMA SenderInvNext == SenderInv /\ [SenderNext]_senderVars => SenderInv'
<1>1. SUFFICES ASSUME SenderInv, [SenderNext]_senderVars PROVE SenderInv'
  OBVIOUS
<1>2. ASSUME UNCHANGED <<held, age, due, drawn, quiet>>,
             observed' \in Seq(Callsite \X Text), due # {} => at' = "send"
      PROVE  SenderInv'
  <2>1. Held' = Held
    BY <1>2 DEF Held
  <2> QED
    BY <1>1, <1>2, <2>1 DEF SenderInv, SenderTypes, HeldOK, SentApart, BestHeld
<1>3. observed \in Seq(Callsite \X Text) /\ (due # {} => at = "send")
  BY <1>1 DEF SenderInv, SenderTypes, HeldOK
<1>4. ASSUME NEW s \in Callsite, NEW x \in Text, Draws(s, x) PROVE SenderInv'
  <2>1. observed' \in Seq(Callsite \X Text)
    <3>1. <<s, x>> \in Callsite \X Text
      OBVIOUS
    <3> QED
      BY <1>3, <1>4, <3>1, AppendProperties DEF Draws
  <2> QED
    BY <1>2, <1>3, <1>4, <2>1 DEF Draws
<1>5. CASE Reads
  BY <1>2, <1>3, <1>5 DEF Reads
<1>6. CASE ReadsTimeout
  BY <1>2, <1>3, <1>6 DEF ReadsTimeout
<1>7. CASE TakesNothing
  BY <1>2, <1>3, <1>7 DEF TakesNothing
<1>8. CASE SentAll
  BY <1>2, <1>3, <1>8 DEF SentAll
<1>9. CASE GetsThrough \/ Drops
  BY <1>1, <1>9, NothingHeldInv DEF GetsThrough, Drops
<1>10. CASE UNCHANGED senderVars
  BY <1>2, <1>3, <1>10 DEF senderVars
<1> QED
  BY <1>1, <1>4, <1>5, <1>6, <1>7, <1>8, <1>9, <1>10, TicksInv, TakesInv, FlushesInv, SendsInv
     DEF SenderNext, Loop

(* So it always holds.                                                     *)
LEMMA SenderInvAlways == SenderSpec => []SenderInv
BY SenderInvInit, SenderInvNext, PTL DEF SenderSpec

(* No text is sent twice within the window.                                *)
THEOREM SentApartCorrect == SenderSpec => []SentApart
BY SenderInvAlways, PTL DEF SenderInv

(* A text waits for the best call site that drew it.                       *)
THEOREM BestHeldCorrect == SenderSpec => []BestHeld
BY SenderInvAlways, PTL DEF SenderInv

-----------------------------------------------------------------------------
(* Capture: the frames that are taken                                      *)

FrameOf == [stream : Stream, n : Nat, picture : Picture]

FramesSpec == FramesInit /\ [][FramesNext]_frameVars

(* The last frame of a queue, or the last one drained when it is empty, is *)
(* the newest there is, unless that was lost.                              *)
QueuesOK ==
  /\ arrived \in Nat
  /\ DOMAIN lost = Stream /\ DOMAIN newest = Stream /\ DOMAIN frames = Stream
  /\ receiver # 0 => receiver \in Stream
  /\ \A s \in Stream :
       /\ frames[s] \in Seq(FrameOf)
       /\ frames[s] = <<>> \/ lost[s] = TRUE \/ frames[s][Len(frames[s])].n = newest[s]
  /\ drained # NoFrame =>
       /\ receiver \in Stream
       /\ frames[receiver] # <<>> \/ lost[receiver] = TRUE \/ drained.n = newest[receiver]

(* At first all queues are empty.                                          *)
LEMMA QueuesInit == FramesInit => QueuesOK /\ OneCapture
<1>1. SUFFICES ASSUME FramesInit PROVE QueuesOK /\ OneCapture
  OBVIOUS
<1>2. <<>> \in Seq(FrameOf)
  BY EmptySeq
<1> QED
  BY <1>1, <1>2 DEF FramesInit, QueuesOK, OneCapture

(* A frame that arrives is the newest, or finds the queue full.            *)
LEMMA FrameArrivesQueues ==
  ASSUME QueuesOK, NEW s \in Stream, NEW p \in Picture, FrameArrives(s, p)
  PROVE  QueuesOK'
<1> DEFINE frame == [stream |-> s, n |-> arrived + 1, picture |-> p]
           full == Len(frames[s]) = FrameQueue
<1>1. CASE s \in stopped
  BY <1>1 DEF FrameArrives, QueuesOK, Vision, Queues
<1>2. CASE s \notin stopped
  <2>1. /\ arrived' = arrived + 1
        /\ frames' = [frames EXCEPT ![s] = IF full THEN frames[s] ELSE Append(frames[s], frame)]
        /\ lost' = [lost EXCEPT ![s] = full]
        /\ newest' = [newest EXCEPT ![s] = arrived + 1]
        /\ receiver' = receiver /\ drained' = drained
    BY <1>2, Zenon DEF FrameArrives, Vision
  <2>2. frame \in FrameOf /\ frames[s] \in Seq(FrameOf) /\ arrived \in Nat
    <3>1. frames[s] \in Seq(FrameOf) /\ arrived \in Nat
      BY DEF QueuesOK
    <3> QED
      BY <3>1 DEF FrameOf
  <2>3. /\ Append(frames[s], frame) \in Seq(FrameOf) /\ Append(frames[s], frame) # <<>>
        /\ Append(frames[s], frame)[Len(Append(frames[s], frame))].n = arrived + 1
    <3>1. /\ Append(frames[s], frame) \in Seq(FrameOf)
          /\ Len(Append(frames[s], frame)) = Len(frames[s]) + 1
          /\ Append(frames[s], frame)[Len(frames[s]) + 1] = frame
      BY <2>2, AppendProperties
    <3>2. Append(frames[s], frame) # <<>>
      BY <2>2, AppendProperties
    <3> QED
      BY <3>1, <3>2
  <2>4. arrived' \in Nat /\ (receiver' # 0 => receiver' \in Stream)
    BY <2>1 DEF QueuesOK
  <2>5. DOMAIN lost' = Stream /\ DOMAIN newest' = Stream /\ DOMAIN frames' = Stream
    BY <2>1 DEF QueuesOK
  <2>6. full => lost'[s] = TRUE /\ frames'[s] = frames[s]
    <3>1. full => lost' = [lost EXCEPT ![s] = TRUE]
      BY <2>1, Zenon
    <3> QED
      BY <2>1, <3>1 DEF QueuesOK
  <2>7. ~full => frames'[s] = Append(frames[s], frame) /\ newest'[s] = arrived + 1
    BY <2>1 DEF QueuesOK
  <2>8. \A u \in Stream \ {s} :
          frames'[u] = frames[u] /\ lost'[u] = lost[u] /\ newest'[u] = newest[u]
    BY <2>1 DEF QueuesOK
  <2> HIDE DEF full
  <2>9. ASSUME NEW u \in Stream
        PROVE  /\ frames'[u] \in Seq(FrameOf)
               /\ frames'[u] = <<>> \/ lost'[u] = TRUE \/ frames'[u][Len(frames'[u])].n = newest'[u]
    <3>1. CASE u # s
      BY <2>8, <3>1 DEF QueuesOK
    <3>2. CASE u = s /\ full
      BY <2>2, <2>6, <3>2
    <3>3. CASE u = s /\ ~full
      BY <2>3, <2>7, <3>3
    <3> QED
      BY <3>1, <3>2, <3>3
  <2>10. ASSUME drained' # NoFrame
         PROVE  /\ receiver' \in Stream
                /\ \/ frames'[receiver'] # <<>> \/ lost'[receiver'] = TRUE
                   \/ drained'.n = newest'[receiver']
    <3>1. receiver \in Stream /\ receiver' = receiver /\ drained' = drained
      BY <2>1, <2>10 DEF QueuesOK
    <3>2. CASE receiver # s
      BY <2>8, <2>10, <3>1, <3>2 DEF QueuesOK
    <3>3. CASE receiver = s
      BY <2>3, <2>6, <2>7, <3>1, <3>3
    <3> QED
      BY <3>2, <3>3
  <2> QED
    BY <2>4, <2>5, <2>9, <2>10 DEF QueuesOK
<1> QED
  BY <1>1, <1>2

(* A frame is taken from the queue: it was the last one, or the last one   *)
(* still waits.                                                            *)
LEMMA DrainsQueues ==
  ASSUME QueuesOK, PollsFrame \/ DrainsFrame
  PROVE  QueuesOK'
<1>1. /\ receiver \in Stream /\ frames[receiver] # <<>>
      /\ drained' = Head(frames[receiver])
      /\ frames' = [frames EXCEPT ![receiver] = Tail(frames[receiver])]
      /\ UNCHANGED <<arrived, lost, newest, receiver>>
  BY DEF PollsFrame, DrainsFrame, Latest, Capturers, QueuesOK
<1> DEFINE q == frames[receiver]
<1>2. /\ q \in Seq(FrameOf) /\ Len(q) \in Nat
      /\ lost[receiver] = TRUE \/ q[Len(q)].n = newest[receiver]
  BY <1>1, LenProperties DEF QueuesOK
<1>3. /\ Tail(q) \in Seq(FrameOf) /\ Len(Tail(q)) = Len(q) - 1 /\ Len(q) > 0
      /\ \A i \in 1 .. Len(Tail(q)) : Tail(q)[i] = q[i + 1]
  BY <1>1, <1>2, HeadTailProperties, EmptySeq, LenProperties
<1>4. Tail(q) # <<>> => Tail(q)[Len(Tail(q))] = q[Len(q)]
  <2>1. Tail(q) # <<>> => Len(Tail(q)) # 0
    BY <1>3, EmptySeq
  <2>2. Tail(q) # <<>> => Len(Tail(q)) \in 1 .. Len(Tail(q)) /\ Len(Tail(q)) + 1 = Len(q)
    <3> DEFINE k == Len(Tail(q))
    <3>1. k \in Int /\ k = Len(q) - 1 /\ Len(q) \in Int /\ Len(q) > 0
      BY <1>2, <1>3
    <3>2. Tail(q) # <<>> => k # 0
      BY <2>1
    <3> HIDE DEF k
    <3>3. Tail(q) # <<>> => k \in 1 .. k /\ k + 1 = Len(q)
      BY ONLY <3>1, <3>2
    <3> QED
      BY ONLY <3>3 DEF k
  <2> QED
    BY <1>3, <2>2
<1>5. Tail(q) = <<>> => Head(q) = q[Len(q)]
  <2>1. Tail(q) = <<>> => Len(q) = 1
    <3> DEFINE k == Len(Tail(q))  n == Len(q)
    <3>1. k = n - 1 /\ n \in Nat
      BY <1>2, <1>3
    <3>2. Tail(q) = <<>> => k = 0
      BY <1>3, EmptySeq
    <3> HIDE DEF k, n
    <3>3. Tail(q) = <<>> => n = 1
      BY ONLY <3>1, <3>2
    <3> QED
      BY ONLY <3>3 DEF n
  <2> QED
    BY <1>1, <2>1
<1>6. frames'[receiver] = Tail(q) /\ DOMAIN frames' = Stream
  BY <1>1 DEF QueuesOK
<1>7. \A u \in Stream \ {receiver} : frames'[u] = frames[u]
  BY <1>1 DEF QueuesOK
<1> HIDE DEF q
<1>8. ASSUME NEW u \in Stream
      PROVE  /\ frames'[u] \in Seq(FrameOf)
             /\ frames'[u] = <<>> \/ lost'[u] = TRUE \/ frames'[u][Len(frames'[u])].n = newest'[u]
  <2>1. CASE u = receiver
    BY <1>1, <1>2, <1>3, <1>4, <1>6, <2>1
  <2>2. CASE u # receiver
    BY <1>1, <1>7, <2>2 DEF QueuesOK
  <2> QED
    BY <2>1, <2>2
<1>9. frames'[receiver] # <<>> \/ lost'[receiver] = TRUE \/ drained'.n = newest'[receiver]
  <2>1. drained' = Head(q)
    BY <1>1 DEF q
  <2> QED
    BY <1>1, <1>2, <1>5, <1>6, <2>1
<1> QED
  BY <1>1, <1>6, <1>8, <1>9 DEF QueuesOK

(* A receiver that is dropped stops its thread.                            *)
LEMMA FramesKeep == QueuesOK /\ OneCapture /\ [FramesNext]_frameVars => QueuesOK' /\ OneCapture'
<1>1. SUFFICES ASSUME QueuesOK, OneCapture, [FramesNext]_frameVars PROVE QueuesOK' /\ OneCapture'
  OBVIOUS
<1>2. CASE SpawnsCapture
  BY <1>1, <1>2 DEF SpawnsCapture, QueuesOK, OneCapture, Queues, Vision
<1>3. ASSUME NEW s \in Stream, SetsUp(s) \/ SetupFails(s) PROVE QueuesOK' /\ OneCapture'
  <2>1. UNCHANGED <<stopped, receiver, frames, arrived, lost, newest, drained>>
    BY <1>3 DEF SetsUp, SetupFails, Queues, Vision
  <2>2. OneCapture'
    BY <1>1, <1>3, <2>1 DEF SetsUp, SetupFails, OneCapture
  <2> QED
    BY <1>1, <2>1, <2>2 DEF QueuesOK
<1>4. ASSUME NEW s \in Stream, ReceivesCapture(s) PROVE QueuesOK' /\ OneCapture'
  <2>1. s # 0
    BY DEF Stream
  <2> QED
    BY <1>1, <1>4, <2>1 DEF ReceivesCapture, QueuesOK, OneCapture, StoppedWith, Queues, Vision
<1>5. ASSUME NEW s \in Stream, NEW p \in Picture, FrameArrives(s, p) PROVE QueuesOK' /\ OneCapture'
  <2>1. capturing' \subseteq capturing /\ UNCHANGED <<settingUp, stopped, handed, receiver>>
    BY <1>5 DEF FrameArrives
  <2>2. OneCapture'
    BY <1>1, <2>1 DEF OneCapture
  <2> QED
    BY <1>1, <1>5, <2>2, FrameArrivesQueues
<1>6. CASE PollsFrame \/ DrainsFrame
  BY <1>1, <1>6, DrainsQueues DEF PollsFrame, DrainsFrame, Capturers, OneCapture
<1>7. CASE BeginsEncoding \/ Encodes
  BY <1>1, <1>7 DEF BeginsEncoding, Encodes, Capturers, Queues, QueuesOK, OneCapture
<1>8. CASE UNCHANGED frameVars
  BY <1>1, <1>8 DEF frameVars, QueuesOK, OneCapture
<1> QED
  BY <1>1, <1>2, <1>3, <1>4, <1>5, <1>6, <1>7, <1>8 DEF FramesNext

(* Captures that nobody receives are told to stop.                         *)
THEOREM OneCaptureCorrect == FramesSpec => []OneCapture
BY QueuesInit, FramesKeep, PTL DEF FramesSpec

(* The newest frame is taken, unless it was lost, whatever arrives while   *)
(* the queue is drained.                                                   *)
THEOREM TakesNewestCorrect == FramesSpec => TakesNewest
<1>1. ASSUME QueuesOK, [FramesNext]_frameVars, encoding = <<>>, encoding' # <<>>
      PROVE  lost[receiver] \/ encoding'[1].n = newest[receiver]
  <2>1. BeginsEncoding
    BY <1>1 DEF FramesNext, frameVars, SpawnsCapture, SetsUp, SetupFails, ReceivesCapture,
                FrameArrives, PollsFrame, DrainsFrame, Encodes, Vision
  <2>2. /\ drained # NoFrame /\ frames[receiver] = <<>>
        /\ encoding'[1] = drained
    BY <2>1 DEF BeginsEncoding
  <2> QED
    BY <1>1, <2>2, Zenon DEF QueuesOK
<1>2. QueuesOK /\ [FramesNext]_frameVars =>
        [encoding = <<>> /\ encoding' # <<>> =>
           \/ lost[receiver]
           \/ encoding'[1].n = newest[receiver]]_frameVars
  BY <1>1
<1> QED
  BY <1>2, QueuesInit, FramesKeep, PTL DEF FramesSpec, TakesNewest

-----------------------------------------------------------------------------
(* Ingestion: the sampler and the segmenter                                *)

SamplerSpec == IngestionInit /\ [][SamplerNext]_samplerVars
SegmenterSpec == IngestionInit /\ [][SegmenterNext]_segmenterVars

-----------------------------------------------------------------------------
(* The sampler                                                             *)

(* The sampler would reuse nothing but the frame it returned last, and     *)
(* keeps no frame while reuse is off.                                      *)
THEOREM ReusesLastSampledCorrect == SamplerSpec => []ReusesLastSampled
<1> DEFINE Kept == ReusesLastSampled /\ (~caching => cachedFrame = NoSample)
<1>1. IngestionInit => Kept
  BY DEF IngestionInit, ReusesLastSampled
<1>2. Kept /\ [SamplerNext]_samplerVars => Kept'
  <2>1. SUFFICES ASSUME Kept, [SamplerNext]_samplerVars PROVE Kept'
    OBVIOUS
  <2>2. ASSUME NEW time \in 0 .. MaxTime, NEW s \in Sample, SamplesCached(time, s) PROVE Kept'
    BY <2>1, <2>2 DEF SamplesCached, ReusesLastSampled
  <2>3. ASSUME NEW time \in 0 .. MaxTime, NEW s \in Sample, SamplesNew(time, s) PROVE Kept'
    BY <2>1, <2>3 DEF SamplesNew, ReusesLastSampled
  <2>4. ASSUME NEW config \in BOOLEAN, SetsCacheConfig(config) PROVE Kept'
    BY <2>1, <2>4 DEF SetsCacheConfig, CachedUnder, ReusesLastSampled
  <2>5. CASE UNCHANGED samplerVars
    BY <2>1, <2>5 DEF samplerVars, ReusesLastSampled
  <2> QED
    BY <2>1, <2>2, <2>3, <2>4, <2>5 DEF SamplerNext
<1>3. Kept => ReusesLastSampled
  OBVIOUS
<1> QED
  BY <1>1, <1>2, <1>3, PTL DEF SamplerSpec

-----------------------------------------------------------------------------
(* The segmenter                                                           *)

ChunkOf == [voiced : BOOLEAN, length : ChunkLength]

LastOf(run) == run[1] + Len(run) - 1
Covers(run, c) == run # <<>> /\ run[1] <= c /\ c <= LastOf(run)

(* A run of chunks of those that were spoken, which begins with voice.     *)
RunOf(run, sp) ==
  /\ Len(run) > 0
  /\ run[1] \in 1 .. Len(sp) /\ LastOf(run) <= Len(sp)
  /\ \A i \in 1 .. Len(run) : run[i] = run[1] + i - 1
  /\ sp[run[1]].voiced

Voiced(sp, c) == sp[c].voiced

(* What was spoken, the open segment and those returned: the open one ends *)
(* with the last chunk that was spoken.                                    *)
Segmented(sp, open, segs) ==
  /\ sp \in Seq(ChunkOf) /\ open \in Seq(Nat) /\ segs \in Seq(Seq(Nat))
  /\ open # <<>> => RunOf(open, sp) /\ LastOf(open) = Len(sp)
  /\ \A q \in 1 .. Len(segs) : RunOf(segs[q], sp)
  /\ \A q, r \in 1 .. Len(segs) : q < r => LastOf(segs[q]) < segs[r][1]
  /\ open # <<>> => \A q \in 1 .. Len(segs) : LastOf(segs[q]) < open[1]
  /\ \A c \in 1 .. Len(sp) : Voiced(sp, c) =>
       Covers(open, c) \/ \E q \in 1 .. Len(segs) : Covers(segs[q], c)

(* A run stays one when more is spoken.                                    *)
LEMMA RunStays ==
  ASSUME NEW sp \in Seq(ChunkOf), NEW chunk \in ChunkOf, NEW run \in Seq(Nat), RunOf(run, sp)
  PROVE  RunOf(run, Append(sp, chunk))
<1>1. Len(Append(sp, chunk)) = Len(sp) + 1 /\ Len(sp) \in Nat
  BY AppendProperties, LenProperties
<1>2. Append(sp, chunk)[run[1]] = sp[run[1]]
  BY AppendProperties DEF RunOf
<1>3. LastOf(run) \in Int
  BY LenProperties DEF RunOf, LastOf
<1> QED
  BY <1>1, <1>2, <1>3 DEF RunOf

(* A chunk that is not voiced, between segments.                           *)
LEMMA SilenceSegmented ==
  ASSUME NEW sp, NEW segs, NEW chunk \in ChunkOf, Segmented(sp, <<>>, segs), ~chunk.voiced
  PROVE  Segmented(Append(sp, chunk), <<>>, segs)
<1> DEFINE after == Append(sp, chunk)
<1>1. /\ sp \in Seq(ChunkOf) /\ after \in Seq(ChunkOf) /\ segs \in Seq(Seq(Nat))
      /\ Len(after) = Len(sp) + 1 /\ Len(sp) \in Nat
      /\ \A c \in 1 .. Len(sp) : after[c] = sp[c]
      /\ after[Len(sp) + 1] = chunk
  BY AppendProperties, LenProperties DEF Segmented
<1> HIDE DEF after
<1>2. \A q \in 1 .. Len(segs) : RunOf(segs[q], after)
  <2>1. TAKE q \in 1 .. Len(segs)
  <2>2. segs[q] \in Seq(Nat) /\ RunOf(segs[q], sp)
    BY <1>1, ElementOfSeq DEF Segmented
  <2> QED
    BY <1>1, <2>2, RunStays DEF after
<1>3. ASSUME NEW c \in 1 .. Len(after), Voiced(after, c)
      PROVE  Covers(<<>>, c) \/ \E q \in 1 .. Len(segs) : Covers(segs[q], c)
  <2>1. c \in 1 .. Len(sp) /\ Voiced(sp, c)
    BY <1>1, <1>3 DEF Voiced
  <2> QED
    BY <2>1 DEF Segmented
<1>4. \A q, r \in 1 .. Len(segs) : q < r => LastOf(segs[q]) < segs[r][1]
  BY DEF Segmented
<1>5. <<>> \in Seq(Nat)
  BY EmptySeq
<1> QED
  BY <1>1, <1>2, <1>3, <1>4, <1>5 DEF Segmented, after

(* A chunk that opens or continues a segment.                              *)
LEMMA VoiceSegmented ==
  ASSUME NEW sp, NEW open, NEW segs, NEW chunk \in ChunkOf, Segmented(sp, open, segs),
         open # <<>> \/ chunk.voiced
  PROVE  Segmented(Append(sp, chunk), Append(open, Len(sp) + 1), segs)
<1> DEFINE after == Append(sp, chunk)
           n == Len(sp) + 1
           run == Append(open, n)
<1>1. /\ sp \in Seq(ChunkOf) /\ after \in Seq(ChunkOf) /\ segs \in Seq(Seq(Nat))
      /\ Len(after) = n /\ Len(sp) \in Nat /\ n \in Nat
      /\ \A c \in 1 .. Len(sp) : after[c] = sp[c]
      /\ after[n] = chunk
  BY AppendProperties, LenProperties DEF Segmented
<1>2. /\ open \in Seq(Nat) /\ run \in Seq(Nat) /\ Len(run) = Len(open) + 1 /\ Len(open) \in Nat
      /\ \A i \in 1 .. Len(open) : run[i] = open[i]
      /\ run[Len(open) + 1] = n
      /\ run # <<>>
  BY <1>1, AppendProperties, LenProperties DEF Segmented
<1>3. open = <<>> \/ (Len(open) > 0 /\ RunOf(open, sp) /\ LastOf(open) = Len(sp))
  BY DEF Segmented, RunOf
<1>4. open = <<>> => Len(open) = 0
  BY <1>2, EmptySeq
<1> HIDE DEF after, n, run
<1>5. RunOf(run, after) /\ LastOf(run) = n /\ \A c \in Nat : Covers(open, c) => Covers(run, c)
  <2>1. CASE open = <<>>
    <3>1. Len(run) = 1 /\ run[1] = n
      BY <1>2, <1>4, <2>1
    <3>2. \A c \in Nat : ~Covers(open, c)
      BY <2>1 DEF Covers
    <3>3. after[n].voiced
      BY <1>1, <2>1
    <3>4. LastOf(run) = n
      BY <1>1, <3>1 DEF LastOf
    <3>5. n \in 1 .. Len(after)
      BY <1>1 DEF n
    <3>6. \A i \in 1 .. Len(run) : run[i] = run[1] + i - 1
      BY <1>1, <3>1
    <3> QED
      BY <1>1, <3>1, <3>2, <3>3, <3>4, <3>5, <3>6 DEF RunOf
  <2>2. CASE open # <<>>
    <3>1. run[1] = open[1] /\ open[1] \in 1 .. Len(sp) /\ after[open[1]] = sp[open[1]]
      BY <1>1, <1>2, <1>3, <2>2 DEF RunOf
    <3>2. LastOf(run) = n /\ LastOf(open) = n - 1 /\ open[1] + Len(open) = n
      <4>1. open[1] + Len(open) - 1 = Len(sp) /\ open[1] \in Nat
        BY <1>1, <1>3, <2>2, <3>1 DEF LastOf
      <4>2. run[1] + Len(run) - 1 = Len(sp) + 1
        <5>1. run[1] = open[1] /\ Len(run) = Len(open) + 1 /\ Len(open) \in Nat /\ Len(sp) \in Nat
          BY <1>1, <1>2, <3>1
        <5> QED
          BY <4>1, <5>1
      <4>3. open[1] + Len(open) = Len(sp) + 1 /\ open[1] + Len(open) - 1 = (Len(sp) + 1) - 1
        BY <1>1, <1>2, <4>1
      <4> QED
        BY <4>2, <4>3 DEF LastOf, n
    <3>3. ASSUME NEW i \in 1 .. Len(run) PROVE run[i] = run[1] + i - 1
      <4>1. CASE i = Len(open) + 1
        BY <1>1, <1>2, <3>1, <3>2, <4>1
      <4>2. CASE i # Len(open) + 1
        <5>1. i \in 1 .. Len(open)
          BY <1>2, <4>2
        <5> QED
          BY <1>2, <1>3, <2>2, <3>1, <5>1 DEF RunOf
      <4> QED
        BY <4>1, <4>2
    <3>4. after[run[1]].voiced
      BY <1>3, <2>2, <3>1 DEF RunOf
    <3>5. RunOf(run, after)
      BY <1>1, <1>2, <3>1, <3>2, <3>3, <3>4 DEF RunOf
    <3>6. ASSUME NEW c \in Nat, Covers(open, c) PROVE Covers(run, c)
      <4>1. open[1] <= c /\ c <= n - 1
        BY <3>2, <3>6 DEF Covers
      <4> QED
        BY <1>1, <1>2, <3>1, <3>2, <4>1 DEF Covers, n
    <3> QED
      BY <3>2, <3>5, <3>6
  <2> QED
    BY <2>1, <2>2
<1>6. \A q \in 1 .. Len(segs) : RunOf(segs[q], after) /\ LastOf(segs[q]) < run[1]
  <2>1. TAKE q \in 1 .. Len(segs)
  <2>2. segs[q] \in Seq(Nat) /\ RunOf(segs[q], sp)
    BY <1>1, ElementOfSeq DEF Segmented
  <2>3. RunOf(segs[q], after)
    BY <1>1, <2>2, RunStays DEF after
  <2>4. CASE open = <<>>
    <3>1. LastOf(segs[q]) <= Len(sp) /\ run[1] = n /\ LastOf(segs[q]) \in Int
      BY <1>2, <1>4, <2>2, <2>4, LenProperties DEF RunOf, LastOf
    <3> QED
      BY <1>1, <2>3, <3>1 DEF n
  <2>5. CASE open # <<>>
    <3>1. run[1] = open[1]
      BY <1>2, <1>3, <2>5
    <3> QED
      BY <2>3, <2>5, <3>1 DEF Segmented
  <2> QED
    BY <2>4, <2>5
<1>7. ASSUME NEW c \in 1 .. Len(after), Voiced(after, c)
      PROVE  Covers(run, c) \/ \E q \in 1 .. Len(segs) : Covers(segs[q], c)
  <2>1. CASE c = n
    BY <1>1, <1>2, <1>5, <2>1 DEF Covers, RunOf
  <2>2. CASE c # n
    <3>1. c \in 1 .. Len(sp) /\ c \in Nat /\ Voiced(sp, c)
      BY <1>1, <1>7, <2>2 DEF Voiced, n
    <3> QED
      BY <1>5, <3>1 DEF Segmented
  <2> QED
    BY <2>1, <2>2
<1>8. \A q, r \in 1 .. Len(segs) : q < r => LastOf(segs[q]) < segs[r][1]
  BY DEF Segmented
<1>9. Segmented(after, run, segs)
  BY <1>1, <1>2, <1>5, <1>6, <1>7, <1>8 DEF Segmented
<1> QED
  BY <1>9 DEF after, run, n

(* The open segment is taken.                                              *)
LEMMA TakenSegmented ==
  ASSUME NEW sp, NEW open, NEW segs, Segmented(sp, open, segs), open # <<>>
  PROVE  Segmented(sp, <<>>, Append(segs, open))
<1> DEFINE all == Append(segs, open)
<1>1. /\ sp \in Seq(ChunkOf) /\ open \in Seq(Nat)
      /\ all \in Seq(Seq(Nat)) /\ Len(all) = Len(segs) + 1 /\ Len(segs) \in Nat
      /\ \A q \in 1 .. Len(segs) : all[q] = segs[q]
      /\ all[Len(segs) + 1] = open
  BY AppendProperties, LenProperties DEF Segmented
<1> HIDE DEF all
<1>2. \A q \in 1 .. Len(all) : RunOf(all[q], sp)
  <2>1. TAKE q \in 1 .. Len(all)
  <2>2. CASE q = Len(segs) + 1
    BY <1>1, <2>2 DEF Segmented
  <2>3. CASE q # Len(segs) + 1
    <3>1. q \in 1 .. Len(segs) /\ all[q] = segs[q]
      BY <1>1, <2>3
    <3> QED
      BY <3>1 DEF Segmented
  <2> QED
    BY <2>2, <2>3
<1>3. ASSUME NEW q \in 1 .. Len(all), NEW r \in 1 .. Len(all), q < r
      PROVE  LastOf(all[q]) < all[r][1]
  <2>1. q \in 1 .. Len(segs) /\ all[q] = segs[q]
    BY <1>1, <1>3
  <2>2. CASE r = Len(segs) + 1
    BY <1>1, <2>1, <2>2 DEF Segmented
  <2>3. CASE r # Len(segs) + 1
    <3>1. r \in 1 .. Len(segs) /\ all[r] = segs[r]
      BY <1>1, <2>3
    <3> QED
      BY <1>3, <2>1, <3>1 DEF Segmented
  <2> QED
    BY <2>2, <2>3
<1>4. ASSUME NEW c \in 1 .. Len(sp), Voiced(sp, c)
      PROVE  \E q \in 1 .. Len(all) : Covers(all[q], c)
  <2>1. CASE Covers(open, c)
    BY <1>1, <2>1
  <2>2. CASE ~Covers(open, c)
    <3>1. PICK q \in 1 .. Len(segs) : Covers(segs[q], c)
      BY <1>4, <2>2 DEF Segmented
    <3>2. q \in 1 .. Len(all) /\ all[q] = segs[q]
      BY <1>1
    <3> QED
      BY <3>1, <3>2
  <2> QED
    BY <2>1, <2>2
<1>5. <<>> \in Seq(Nat)
  BY EmptySeq
<1> QED
  BY <1>1, <1>2, <1>3, <1>4, <1>5 DEF Segmented, all

(* The invariant says what the property does.                              *)
LEMMA SegmentedComplete == Segmented(spoken, openSegment, segments) => SegmentsComplete
<1>1. SUFFICES ASSUME Segmented(spoken, openSegment, segments) PROVE SegmentsComplete
  OBVIOUS
<1> DEFINE runs == Append(segments, openSegment)
           Chunks(run) == {run[i] : i \in DOMAIN run}
           k == Len(segments)
<1>2. /\ spoken \in Seq(ChunkOf) /\ openSegment \in Seq(Nat) /\ k \in Nat
      /\ Len(runs) = k + 1 /\ DOMAIN runs = 1 .. k + 1
      /\ \A q \in 1 .. k : runs[q] = segments[q]
      /\ runs[k + 1] = openSegment
      /\ DOMAIN spoken = 1 .. Len(spoken)
      /\ segments \in Seq(Seq(Nat))
  BY <1>1, AppendProperties, LenProperties DEF Segmented
<1>3. \A r \in DOMAIN runs : runs[r] \in Seq(Nat) /\ DOMAIN runs[r] = 1 .. Len(runs[r])
  <2>1. TAKE r \in DOMAIN runs
  <2>2. runs[r] \in Seq(Nat)
    <3>1. CASE r = k + 1
      BY <1>2, <3>1
    <3>2. CASE r # k + 1
      <4>1. r \in 1 .. k /\ runs[r] = segments[r]
        BY <1>2, <3>2
      <4> QED
        BY <1>2, <4>1, ElementOfSeq
    <3> QED
      BY <3>1, <3>2
  <2> QED
    BY <2>2, LenProperties
<1>4. \A r \in DOMAIN runs : DOMAIN runs[r] = {} \/ RunOf(runs[r], spoken)
  <2>1. TAKE r \in DOMAIN runs
  <2>2. CASE r = k + 1
    <3>1. CASE openSegment = <<>>
      <4>1. Len(runs[r]) = 0
        BY <1>2, <2>2, <3>1, EmptySeq
      <4> QED
        BY <1>3, <4>1
    <3>2. CASE openSegment # <<>>
      BY <1>1, <1>2, <2>2, <3>2 DEF Segmented
    <3> QED
      BY <3>1, <3>2
  <2>3. CASE r # k + 1
    BY <1>1, <1>2, <2>3 DEF Segmented
  <2> QED
    BY <2>2, <2>3
<1>5. ASSUME NEW r \in DOMAIN runs, NEW q \in DOMAIN runs, r < q,
             DOMAIN runs[r] # {}, DOMAIN runs[q] # {}
      PROVE  LastOf(runs[r]) < runs[q][1]
  <2>1. r \in 1 .. k /\ runs[r] = segments[r]
    BY <1>2, <1>5
  <2>2. CASE q = k + 1
    <3>1. openSegment # <<>>
      BY <1>2, <1>3, <1>5, <2>2, EmptySeq
    <3> QED
      BY <1>1, <1>2, <2>1, <2>2, <3>1 DEF Segmented
  <2>3. CASE q # k + 1
    <3>1. q \in 1 .. k /\ runs[q] = segments[q]
      BY <1>2, <2>3
    <3> QED
      BY <1>1, <1>5, <2>1, <3>1 DEF Segmented
  <2> QED
    BY <2>2, <2>3
<1>6. \A r \in DOMAIN runs : \A c \in DOMAIN spoken :
        Covers(runs[r], c) => c \in Chunks(runs[r])
  <2>1. SUFFICES ASSUME NEW r \in DOMAIN runs, NEW c \in DOMAIN spoken, Covers(runs[r], c)
                 PROVE  c \in Chunks(runs[r])
    OBVIOUS
  <2>2. DOMAIN runs[r] # {} /\ runs[r][1] <= c /\ c <= LastOf(runs[r])
    BY <1>3, <2>1, EmptySeq DEF Covers
  <2>3. RunOf(runs[r], spoken)
    BY <1>4, <2>2
  <2>4. c - runs[r][1] + 1 \in DOMAIN runs[r]
    BY <1>2, <1>3, <2>2, <2>3, LenProperties DEF RunOf, LastOf
  <2>5. runs[r][c - runs[r][1] + 1] = c
    <3>1. runs[r][1] \in Nat /\ c \in Nat /\ c - runs[r][1] + 1 \in 1 .. Len(runs[r])
      <4>1. runs[r][1] \in Nat
        BY <1>2, <2>3, LenProperties DEF RunOf
      <4>2. c \in Nat
        BY <1>2, LenProperties
      <4> QED
        BY <1>3, <2>4, <4>1, <4>2
    <3>2. runs[r][c - runs[r][1] + 1] = runs[r][1] + (c - runs[r][1] + 1) - 1
      BY <2>3, <3>1 DEF RunOf
    <3> QED
      BY <3>1, <3>2
  <2> QED
    BY <2>4, <2>5
<1> HIDE DEF runs, k
<1>7. \A r \in DOMAIN runs : \A i \in DOMAIN runs[r] :
        /\ runs[r][i] = runs[r][1] + i - 1
        /\ spoken[runs[r][1]].voiced
  BY <1>3, <1>4 DEF RunOf
<1>8. \A r, q \in DOMAIN runs : r < q =>
        \A c \in Chunks(runs[r]), d \in Chunks(runs[q]) : c < d
  <2>1. SUFFICES ASSUME NEW r \in DOMAIN runs, NEW q \in DOMAIN runs, r < q,
                        NEW i \in DOMAIN runs[r], NEW j \in DOMAIN runs[q]
                 PROVE  runs[r][i] < runs[q][j]
    OBVIOUS
  <2>2. RunOf(runs[r], spoken) /\ RunOf(runs[q], spoken) /\ LastOf(runs[r]) < runs[q][1]
    BY <1>4, <1>5, <2>1
  <2>3. i \in 1 .. Len(runs[r]) /\ j \in 1 .. Len(runs[q])
    BY <1>3
  <2>4. runs[r][i] = runs[r][1] + i - 1 /\ runs[q][j] = runs[q][1] + j - 1
    BY <2>2, <2>3 DEF RunOf
  <2>5. runs[r][1] \in Nat /\ runs[q][1] \in Nat /\ Len(runs[r]) \in Nat
    <3>1. runs[r] \in Seq(Nat) /\ runs[q] \in Seq(Nat)
      BY <1>3
    <3>2. runs[r][1] \in 1 .. Len(spoken) /\ runs[q][1] \in 1 .. Len(spoken)
      BY <2>2 DEF RunOf
    <3> QED
      BY <3>1, <3>2, LenProperties
  <2> QED
    BY <2>2, <2>3, <2>4, <2>5 DEF LastOf
<1>9. \A c \in DOMAIN spoken : spoken[c].voiced => \E r \in DOMAIN runs : c \in Chunks(runs[r])
  <2>1. SUFFICES ASSUME NEW c \in DOMAIN spoken, spoken[c].voiced
                 PROVE  \E r \in DOMAIN runs : Covers(runs[r], c)
    BY <1>6
  <2>2. Covers(openSegment, c) \/ \E q \in 1 .. Len(segments) : Covers(segments[q], c)
    BY <1>1, <1>2, <2>1 DEF Segmented, Voiced
  <2> QED
    <3>1. CASE Covers(openSegment, c)
      <4>1. k + 1 \in DOMAIN runs /\ runs[k + 1] = openSegment
        BY <1>2
      <4> QED
        BY <3>1, <4>1
    <3>2. CASE \E q \in 1 .. Len(segments) : Covers(segments[q], c)
      <4>1. PICK q \in 1 .. Len(segments) : Covers(segments[q], c)
        BY <3>2
      <4>2. q \in DOMAIN runs /\ runs[q] = segments[q]
        BY <1>2 DEF k
      <4> QED
        BY <4>1, <4>2
    <3> QED
      BY <2>2, <3>1, <3>2
<1>10. SegmentsComplete
  BY <1>7, <1>8, <1>9, Zenon DEF SegmentsComplete, runs
<1> QED
  BY <1>10

(* What the segmenter keeps.                                               *)
SegmentedOK == Segmented(spoken, openSegment, segments)

(* Nothing was spoken at first.                                            *)
LEMMA SegmentedInit == IngestionInit => SegmentedOK
<1>1. SUFFICES ASSUME IngestionInit PROVE SegmentedOK
  OBVIOUS
<1>2. spoken = <<>> /\ openSegment = <<>> /\ segments = <<>>
  BY <1>1 DEF IngestionInit
<1>3. <<>> \in Seq(ChunkOf) /\ <<>> \in Seq(Nat) /\ <<>> \in Seq(Seq(Nat))
  BY EmptySeq
<1>4. Len(spoken) = 0 /\ Len(segments) = 0
  BY <1>2, EmptySeq
<1> QED
  BY <1>2, <1>3, <1>4 DEF SegmentedOK, Segmented

(* Every call keeps it.                                                    *)
LEMMA SegmentedNext == SegmentedOK /\ [SegmenterNext]_segmenterVars => SegmentedOK'
<1>1. SUFFICES ASSUME SegmentedOK, [SegmenterNext]_segmenterVars PROVE SegmentedOK'
  OBVIOUS
<1>2. ASSUME NEW voiced \in BOOLEAN, NEW length \in ChunkLength, PushesChunk(voiced, length)
      PROVE  SegmentedOK'
  <2> DEFINE chunk == [voiced |-> voiced, length |-> length]
  <2>1. spoken' = Append(spoken, chunk) /\ chunk \in ChunkOf /\ chunk.voiced = voiced
    BY <1>2 DEF PushesChunk, ChunkOf
  <2>2. CASE openSegment = <<>> /\ ~voiced
    <3>1. openSegment' = <<>> /\ segments' = segments
      BY <1>2, <2>2 DEF PushesChunk
    <3> HIDE DEF chunk
    <3> QED
      BY <1>1, <2>1, <2>2, <3>1, SilenceSegmented DEF SegmentedOK
  <2>3. CASE ~(openSegment = <<>> /\ ~voiced)
    <3>1. Segmented(spoken', Append(openSegment, Len(spoken) + 1), segments)
      <4> HIDE DEF chunk
      <4> QED
        BY <1>1, <2>1, <2>3, VoiceSegmented DEF SegmentedOK
    <3>2. \/ openSegment' = Append(openSegment, Len(spoken) + 1) /\ segments' = segments
          \/ /\ segments' = Append(segments, Append(openSegment, Len(spoken) + 1))
             /\ openSegment' = <<>>
      BY <1>2, <2>3 DEF PushesChunk, TakesSegment, ActiveAfterTaking
    <3>3. Append(openSegment, Len(spoken) + 1) # <<>>
      <4>1. openSegment \in Seq(Nat) /\ Len(spoken) + 1 \in Nat
        BY <1>1, LenProperties DEF SegmentedOK, Segmented
      <4> QED
        BY <4>1, AppendProperties
    <3> QED
      BY <3>1, <3>2, <3>3, TakenSegmented DEF SegmentedOK
  <2> QED
    BY <2>2, <2>3
<1>3. CASE FlushesSegment
  BY <1>1, <1>3, TakenSegmented DEF SegmentedOK, FlushesSegment, TakesSegment, ActiveAfterTaking
<1>4. CASE UNCHANGED segmenterVars
  BY <1>1, <1>4 DEF segmenterVars, SegmentedOK
<1> QED
  BY <1>1, <1>2, <1>3, <1>4 DEF SegmenterNext

(* Segments lose no voice and repeat nothing.                              *)
THEOREM SegmentsCompleteCorrect == SegmenterSpec => []SegmentsComplete
<1>1. SegmentedOK => SegmentsComplete
  BY SegmentedComplete DEF SegmentedOK
<1> QED
  BY <1>1, SegmentedInit, SegmentedNext, PTL DEF SegmenterSpec

-----------------------------------------------------------------------------
(* Text of objects that are drawn later                                    *)

AssocSpec == AssocInit /\ [][AssocNext]_assocVars

ObjectOf == [kind : Kind, address : Address, text : BOOLEAN]
CallOf == [call : {"none", "associate", "emit", "remove"}, object : Nat]
Made == Cardinality(DOMAIN objects)

AssocShapes ==
  /\ Made \in Nat /\ objects \in [1 .. Made -> ObjectOf] /\ live \subseteq 1 .. Made
  /\ DOMAIN texts = Table /\ doing \in [Drawing -> CallOf]
  /\ emitted \in (0 .. Made) \X (0 .. Made)

(* What is associated or drawn is in use, and by one thread.               *)
CallOK(call, object) ==
  /\ object \in 0 .. Made
  /\ call = "none" <=> object = 0
  /\ call \in {"associate", "emit"} => object \in live
  /\ call = "remove" => objects[object].kind = "analysis"

CallsOK == \A t \in Drawing : CallOK(doing[t].call, doing[t].object)

BusyAlone ==
  \A t, u \in Drawing : doing[t].object # 0 /\ doing[t].object = doing[u].object => t = u

(* Objects in use are at different addresses.                              *)
LiveApart ==
  \A o, p \in live : objects[o].address = objects[p].address => o = p

(* A text is kept under the address of its object, by its library.         *)
EntriesOK ==
  \A T \in Table : \A a \in DOMAIN texts[T] :
    /\ texts[T][a] \in 1 .. Made
    /\ objects[texts[T][a]].address = a /\ Library(objects[texts[T][a]].kind) = T

Associating(o) == \E t \in Drawing : doing[t].call = "associate" /\ doing[t].object = o
HeldText(o) == texts[Library(objects[o].kind)]

(* The text under the address of an object in use is its own, if it has    *)
(* one and its association neither missed nor is still to come.            *)
OwnTexts ==
  \A o \in live :
    /\ objects[o].text /\ o \notin missed /\ ~Associating(o)
    /\ objects[o].address \in DOMAIN HeldText(o)
    => HeldText(o)[objects[o].address] = o

(* A freed analysis has no text, for longer than its removal takes.        *)
FreedGone ==
  \A a \in DOMAIN texts["uniscribe"] :
    objects[texts["uniscribe"][a]].kind = "analysis" =>
      \/ texts["uniscribe"][a] \in live \cup missed
      \/ Busy(texts["uniscribe"][a])

ObservedOwn ==
  emitted[1] # 0 /\ objects[emitted[1]].text /\ emitted[1] \notin missed =>
    emitted[2] = emitted[1]

AssocInv ==
  /\ AssocShapes /\ CallsOK /\ BusyAlone /\ LiveApart
  /\ EntriesOK /\ OwnTexts /\ FreedGone /\ ObservedOwn

(* The libraries of the kinds of objects.                                  *)
LEMMA LibraryTable ==
  /\ "uniscribe" \in Table /\ Library("analysis") = "uniscribe"
  /\ \A o \in 1 .. Made : AssocShapes => Library(objects[o].kind) \in Table
<1>1. "analysis" \in Kind /\ Library("analysis") = "uniscribe"
  BY DEF Kind, Library
<1>2. "uniscribe" \in Table
  BY <1>1 DEF Table
<1>3. ASSUME NEW o \in 1 .. Made, AssocShapes PROVE Library(objects[o].kind) \in Table
  <2>1. objects[o].kind \in Kind
    BY <1>3 DEF AssocShapes, ObjectOf
  <2> QED
    BY <2>1 DEF Table
<1> QED
  BY <1>1, <1>2, <1>3

(* At first there are no objects.                                          *)
LEMMA AssocInvInit == AssocInit => AssocInv
<1>1. SUFFICES ASSUME AssocInit PROVE AssocInv
  OBVIOUS
<1>2. /\ objects = <<>> /\ live = {} /\ texts = [t \in Table |-> <<>>]
      /\ doing = [t \in Drawing |-> Resting] /\ emitted = <<0, 0>> /\ missed = {}
  BY <1>1 DEF AssocInit
<1>3. DOMAIN objects = {} /\ \A T \in Table : DOMAIN texts[T] = {}
  <2>1. DOMAIN <<>> = {}
    OBVIOUS
  <2> QED
    BY <1>2, <2>1
<1>4. Made = 0
  BY <1>3, FS_EmptySet DEF Made
<1>5. AssocShapes
  <2>1. objects \in [1 .. 0 -> ObjectOf]
    BY <1>2
  <2> QED
    BY <1>2, <1>4, <2>1 DEF AssocShapes, CallOf, Resting
<1>6. CallsOK /\ BusyAlone /\ LiveApart /\ OwnTexts /\ ObservedOwn
  BY <1>2, <1>4 DEF CallsOK, CallOK, BusyAlone, LiveApart, OwnTexts, ObservedOwn, Resting
<1>7. EntriesOK /\ FreedGone
  BY <1>3, LibraryTable DEF EntriesOK, FreedGone
<1> QED
  BY <1>5, <1>6, <1>7 DEF AssocInv

(* A thread that leaves its detour has no object any more.                 *)
LEMMA RestsCalls ==
  ASSUME AssocInv, NEW t \in Drawing, doing' = [doing EXCEPT ![t] = Resting],
         UNCHANGED <<objects, live>>
  PROVE  /\ Made' = Made
         /\ doing'[t].call = "none" /\ doing'[t].object = 0
         /\ \A u \in Drawing \ {t} : doing'[u] = doing[u]
         /\ doing' \in [Drawing -> CallOf] /\ CallsOK' /\ BusyAlone'
<1>1. Made' = Made
  BY DEF Made
<1>2. doing \in [Drawing -> CallOf] /\ Made \in Nat
  BY DEF AssocInv, AssocShapes
<1>3. /\ doing'[t].call = "none" /\ doing'[t].object = 0
      /\ \A u \in Drawing \ {t} : doing'[u] = doing[u]
      /\ doing' \in [Drawing -> CallOf]
  BY <1>2 DEF Resting, CallOf
<1>4. CallsOK'
  <2>1. SUFFICES ASSUME NEW u \in Drawing PROVE CallOK(doing[u].call, doing[u].object)'
    BY DEF CallsOK
  <2>2. CASE u = t
    BY <1>1, <1>2, <1>3, <2>2 DEF CallOK
  <2>3. CASE u # t
    BY <1>1, <1>3, <2>3 DEF AssocInv, CallsOK, CallOK
  <2> QED
    BY <2>2, <2>3
<1>5. BusyAlone'
  BY <1>3 DEF AssocInv, BusyAlone
<1> QED
  BY <1>1, <1>3, <1>4, <1>5

(* A thread that leaves its detour without touching the tables: what it    *)
(* was to associate or remove is missed.                                   *)
LEMMA MissesInv ==
  ASSUME AssocInv, NEW t \in Drawing, Misses(t)
  PROVE  AssocInv'
<1>1. /\ doing' = [doing EXCEPT ![t] = Resting]
      /\ missed' = IF doing[t].call = "emit" THEN missed ELSE missed \cup {doing[t].object}
      /\ UNCHANGED <<objects, live, texts, emitted>> /\ doing[t].call # "none"
  BY DEF Misses, Rests
<1>2. AssocShapes /\ doing \in [Drawing -> CallOf] /\ CallsOK
  BY DEF AssocInv, AssocShapes
<1>3. /\ doing'[t].call = "none" /\ doing'[t].object = 0
      /\ \A u \in Drawing \ {t} : doing'[u] = doing[u]
      /\ doing' \in [Drawing -> CallOf]
  BY <1>1, RestsCalls
<1>4. Made' = Made /\ missed \subseteq missed'
  BY <1>1 DEF Made
<1>5. AssocShapes'
  BY <1>1, <1>2, <1>3, <1>4 DEF AssocShapes
<1>6. CallsOK' /\ BusyAlone'
  BY <1>1, RestsCalls
<1>7. LiveApart' /\ EntriesOK'
  BY <1>1, <1>4 DEF AssocInv, LiveApart, EntriesOK
<1>8. OwnTexts'
  <2>1. SUFFICES ASSUME NEW o \in live, objects[o].text, o \notin missed', ~Associating(o)',
                        objects[o].address \in DOMAIN HeldText(o)
                 PROVE  HeldText(o)[objects[o].address] = o
    BY <1>1 DEF OwnTexts, HeldText
  <2>2. ~Associating(o)
    <3>1. SUFFICES ASSUME NEW u \in Drawing, doing[u].call = "associate", doing[u].object = o
                   PROVE  FALSE
      BY DEF Associating
    <3>2. CASE u = t
      BY <1>1, <2>1, <3>1, <3>2
    <3>3. CASE u # t
      BY <1>3, <2>1, <3>1, <3>3 DEF Associating
    <3> QED
      BY <3>2, <3>3
  <2> QED
    BY <1>4, <2>1, <2>2 DEF AssocInv, OwnTexts
<1>9. FreedGone'
  <2>1. SUFFICES ASSUME NEW a \in DOMAIN texts["uniscribe"],
                        objects[texts["uniscribe"][a]].kind = "analysis"
                 PROVE  \/ texts["uniscribe"][a] \in live \cup missed'
                        \/ Busy(texts["uniscribe"][a])'
    BY <1>1 DEF FreedGone, Busy
  <2> DEFINE n == texts["uniscribe"][a]
  <2>2. n \in live \cup missed \/ Busy(n)
    BY <2>1 DEF AssocInv, FreedGone
  <2> HIDE DEF n
  <2>3. ASSUME NEW u \in Drawing, doing[u].object = n
        PROVE  n \in live \cup missed' \/ Busy(n)'
    <3>1. CASE u # t
      <4>1. doing'[u].object = n
        BY <1>3, <2>3, <3>1
      <4>2. n' = n
        BY <1>1 DEF n
      <4> QED
        BY <4>1, <4>2 DEF Busy
    <3>2. CASE u = t /\ doing[t].call = "emit"
      BY <1>2, <2>3, <3>2 DEF CallsOK, CallOK
    <3>3. CASE u = t /\ doing[t].call # "emit"
      BY <1>1, <2>3, <3>3
    <3> QED
      BY <3>1, <3>2, <3>3
  <2> QED
    BY <1>1, <1>4, <2>2, <2>3 DEF Busy, n
<1>10. ObservedOwn'
  BY <1>1, <1>4 DEF AssocInv, ObservedOwn
<1> QED
  BY <1>5, <1>6, <1>7, <1>8, <1>9, <1>10 DEF AssocInv

(* An object that has a text is observed with it.                          *)
LEMMA EmitsInv ==
  ASSUME AssocInv, NEW t \in Drawing, Emits(t)
  PROVE  AssocInv'
<1> DEFINE o == doing[t].object
           a == objects[o].address
           table == HeldText(o)
<1>1. /\ doing' = [doing EXCEPT ![t] = Resting] /\ doing[t].call = "emit"
      /\ emitted' = IF a \in DOMAIN table THEN <<o, table[a]>> ELSE emitted
      /\ UNCHANGED <<objects, live, texts, missed>>
  BY DEF Emits, Rests, Of, TableOf, HeldText
<1>2. AssocShapes /\ doing \in [Drawing -> CallOf] /\ CallsOK /\ EntriesOK /\ OwnTexts /\ BusyAlone
  BY DEF AssocInv, AssocShapes
<1>3. /\ doing'[t].call = "none" /\ doing'[t].object = 0
      /\ \A u \in Drawing \ {t} : doing'[u] = doing[u]
      /\ doing' \in [Drawing -> CallOf]
  BY <1>1, RestsCalls
<1>4. Made' = Made
  BY <1>1 DEF Made
<1>5. o \in live /\ o \in 1 .. Made /\ o # 0 /\ Library(objects[o].kind) \in Table
  <2>1. o \in live /\ o \in 1 .. Made
    BY <1>1, <1>2 DEF CallsOK, CallOK, AssocShapes
  <2> QED
    BY <1>2, <2>1, LibraryTable
<1>6. ~Associating(o)
  <2>1. SUFFICES ASSUME NEW u \in Drawing, doing[u].call = "associate", doing[u].object = o
                 PROVE  FALSE
    BY DEF Associating
  <2>2. u = t
    BY <1>2, <1>5, <2>1 DEF BusyAlone
  <2> QED
    BY <1>1, <2>1, <2>2
<1>7. a \in DOMAIN table => /\ table[a] \in 1 .. Made
                            /\ objects[o].text /\ o \notin missed => table[a] = o
  BY <1>2, <1>5, <1>6 DEF EntriesOK, OwnTexts, HeldText
<1> HIDE DEF o, a, table
<1>8. AssocShapes'
  <2>1. emitted' \in (0 .. Made) \X (0 .. Made)
    <3>1. CASE a \in DOMAIN table
      BY <1>1, <1>5, <1>7, <3>1
    <3>2. CASE a \notin DOMAIN table
      BY <1>1, <1>2, <3>2 DEF AssocShapes
    <3> QED
      BY <3>1, <3>2
  <2> QED
    BY <1>1, <1>2, <1>3, <1>4, <2>1 DEF AssocShapes
<1>9. CallsOK' /\ BusyAlone'
  BY <1>1, RestsCalls
<1>10. LiveApart' /\ EntriesOK'
  BY <1>1, <1>4 DEF AssocInv, LiveApart, EntriesOK
<1>11. OwnTexts'
  <2>1. SUFFICES ASSUME NEW p \in live, objects[p].text, p \notin missed, ~Associating(p)',
                        objects[p].address \in DOMAIN HeldText(p)
                 PROVE  HeldText(p)[objects[p].address] = p
    BY <1>1 DEF OwnTexts, HeldText
  <2>2. ~Associating(p)
    <3>1. SUFFICES ASSUME NEW u \in Drawing, doing[u].call = "associate", doing[u].object = p
                   PROVE  FALSE
      BY DEF Associating
    <3>2. u # t
      BY <1>1, <3>1
    <3> QED
      BY <1>3, <2>1, <3>1, <3>2 DEF Associating
  <2> QED
    BY <1>2, <2>1, <2>2 DEF OwnTexts
<1>12. FreedGone'
  <2>1. SUFFICES ASSUME NEW b \in DOMAIN texts["uniscribe"],
                        objects[texts["uniscribe"][b]].kind = "analysis"
                 PROVE  \/ texts["uniscribe"][b] \in live \cup missed
                        \/ Busy(texts["uniscribe"][b])'
    BY <1>1 DEF FreedGone, Busy
  <2>2. texts["uniscribe"][b] \in live \cup missed \/ Busy(texts["uniscribe"][b])
    BY <2>1 DEF AssocInv, FreedGone
  <2>3. ASSUME NEW u \in Drawing, doing[u].object = texts["uniscribe"][b]
        PROVE  texts["uniscribe"][b] \in live \/ Busy(texts["uniscribe"][b])'
    <3>1. CASE u = t
      BY <1>5, <2>3, <3>1 DEF o
    <3>2. CASE u # t
      <4>1. doing'[u].object = texts'["uniscribe"][b]
        BY <1>1, <1>3, <2>3, <3>2
      <4> QED
        BY <4>1 DEF Busy
    <3> QED
      BY <3>1, <3>2
  <2> QED
    BY <2>2, <2>3 DEF Busy
<1>13. ObservedOwn'
  <2>1. CASE a \in DOMAIN table
    <3>1. emitted'[1] = o /\ emitted'[2] = table[a]
      BY <1>1, <2>1
    <3> QED
      BY <1>1, <1>7, <2>1, <3>1 DEF ObservedOwn
  <2>2. CASE a \notin DOMAIN table
    BY <1>1, <2>2 DEF AssocInv, ObservedOwn
  <2> QED
    BY <2>1, <2>2
<1> QED
  BY <1>8, <1>9, <1>10, <1>11, <1>12, <1>13 DEF AssocInv

(* The table after an association.                                         *)
LEMMA AssociatedTable ==
  ASSUME NEW table, NEW a, NEW n
  PROVE  /\ DOMAIN Associated(table, a, n) \subseteq DOMAIN table \cup {a}
         /\ Associated(table, a, n)[a] = n
         /\ \A b \in DOMAIN Associated(table, a, n) : b # a => Associated(table, a, n)[b] = table[b]
<1> DEFINE full == Cardinality(DOMAIN table) >= TableLimit /\ a \notin DOMAIN table
           kept == IF full THEN DOMAIN table \ {Min(DOMAIN table)} ELSE DOMAIN table
<1>1. Associated(table, a, n) = [b \in kept \cup {a} |-> IF b = a THEN n ELSE table[b]]
  BY DEF Associated
<1>2. kept \subseteq DOMAIN table
  OBVIOUS
<1> HIDE DEF kept
<1> QED
  BY <1>1, <1>2

(* An association, under an address that no other object in use has.       *)
LEMMA AssociatesInv ==
  ASSUME AssocInv, NEW t \in Drawing, Associates(t)
  PROVE  AssocInv'
<1> DEFINE o == doing[t].object
           a == objects[o].address
           T == Library(objects[o].kind)
           after == Associated(texts[T], a, o)
<1>1. /\ doing' = [doing EXCEPT ![t] = Resting] /\ doing[t].call = "associate"
      /\ texts' = [texts EXCEPT ![T] = after]
      /\ UNCHANGED <<objects, live, emitted, missed>>
  BY DEF Associates, Rests, Of, TableOf
<1>2. /\ AssocShapes /\ doing \in [Drawing -> CallOf] /\ CallsOK /\ EntriesOK /\ OwnTexts
      /\ BusyAlone /\ LiveApart /\ FreedGone
  BY DEF AssocInv, AssocShapes
<1>3. /\ doing'[t].call = "none" /\ doing'[t].object = 0
      /\ \A u \in Drawing \ {t} : doing'[u] = doing[u]
      /\ doing' \in [Drawing -> CallOf]
  BY <1>1, RestsCalls
<1>4. Made' = Made
  BY <1>1 DEF Made
<1>5. o \in live /\ o \in 1 .. Made /\ o # 0 /\ T \in Table
  <2>1. o \in live /\ o \in 1 .. Made
    BY <1>1, <1>2 DEF CallsOK, CallOK, AssocShapes
  <2> QED
    BY <1>2, <2>1, LibraryTable
<1>6. /\ DOMAIN after \subseteq DOMAIN texts[T] \cup {a} /\ after[a] = o
      /\ \A b \in DOMAIN after : b # a => after[b] = texts[T][b]
  BY AssociatedTable
<1>7. objects[o].address = a /\ Library(objects[o].kind) = T
  OBVIOUS
<1> HIDE DEF o, a, T, after
<1>8. /\ DOMAIN texts' = Table /\ texts'[T] = after
      /\ \A U \in Table \ {T} : texts'[U] = texts[U]
  BY <1>1, <1>2, <1>5 DEF AssocShapes
<1>9. AssocShapes'
  BY <1>1, <1>2, <1>3, <1>4, <1>8 DEF AssocShapes
<1>10. CallsOK' /\ BusyAlone' /\ LiveApart'
  <2>1. CallsOK' /\ BusyAlone'
    BY <1>1, RestsCalls
  <2>2. LiveApart'
    BY <1>1, <1>2 DEF LiveApart
  <2> QED
    BY <2>1, <2>2
<1>11. ASSUME NEW U \in Table, NEW b \in DOMAIN texts'[U]
       PROVE  \/ U = T /\ b = a /\ texts'[U][b] = o
              \/ b \in DOMAIN texts[U] /\ texts'[U][b] = texts[U][b] /\ (U # T \/ b # a)
  <2>1. CASE U = T
    BY <1>6, <1>8, <1>11, <2>1
  <2>2. CASE U # T
    BY <1>8, <1>11, <2>2
  <2> QED
    BY <2>1, <2>2
<1>12. EntriesOK'
  <2>1. SUFFICES ASSUME NEW U \in Table, NEW b \in DOMAIN texts'[U]
                 PROVE  /\ texts'[U][b] \in 1 .. Made
                        /\ objects[texts'[U][b]].address = b
                        /\ Library(objects[texts'[U][b]].kind) = U
    BY <1>1, <1>4 DEF EntriesOK
  <2>2. CASE U = T /\ b = a /\ texts'[U][b] = o
    BY <1>5, <1>7, <2>2
  <2>3. CASE b \in DOMAIN texts[U] /\ texts'[U][b] = texts[U][b]
    BY <1>2, <2>3 DEF EntriesOK
  <2> QED
    BY <1>11, <2>2, <2>3
<1>13. OwnTexts'
  <2>1. SUFFICES ASSUME NEW p \in live, objects[p].text, p \notin missed, ~Associating(p)',
                        objects[p].address \in DOMAIN texts'[Library(objects[p].kind)]
                 PROVE  texts'[Library(objects[p].kind)][objects[p].address] = p
    BY <1>1 DEF OwnTexts, HeldText
  <2> DEFINE b == objects[p].address
             U == Library(objects[p].kind)
  <2>2. U \in Table
    BY <1>2, LibraryTable DEF AssocShapes
  <2>3. b = a => p = o
    BY <1>2, <1>5, <1>7 DEF LiveApart
  <2>4. p # o => ~Associating(p)
    <3>1. SUFFICES ASSUME p # o, NEW u \in Drawing, doing[u].call = "associate", doing[u].object = p
                   PROVE  FALSE
      BY DEF Associating
    <3>2. u # t
      BY <3>1 DEF o
    <3> QED
      BY <1>3, <2>1, <3>1, <3>2 DEF Associating
  <2>5. CASE p = o
    BY <1>6, <1>7, <1>8, <2>5
  <2>6. CASE p # o
    <3>1. b \in DOMAIN texts[U] /\ texts'[U][b] = texts[U][b]
      BY <1>11, <2>1, <2>2, <2>3, <2>6
    <3>2. texts[U][b] = p
      BY <1>2, <2>1, <2>4, <2>6, <3>1 DEF OwnTexts, HeldText
    <3> QED
      BY <3>1, <3>2
  <2> QED
    BY <2>5, <2>6
<1>14. FreedGone'
  <2>1. SUFFICES ASSUME NEW b \in DOMAIN texts'["uniscribe"],
                        objects[texts'["uniscribe"][b]].kind = "analysis"
                 PROVE  \/ texts'["uniscribe"][b] \in live \cup missed
                        \/ Busy(texts["uniscribe"][b])'
    BY <1>1 DEF FreedGone, Busy
  <2>2. "uniscribe" \in Table
    BY LibraryTable
  <2>3. CASE texts'["uniscribe"][b] = o
    BY <1>5, <2>3
  <2>4. CASE b \in DOMAIN texts["uniscribe"] /\ texts'["uniscribe"][b] = texts["uniscribe"][b]
    <3>1. texts["uniscribe"][b] \in live \cup missed \/ Busy(texts["uniscribe"][b])
      BY <1>2, <2>1, <2>4 DEF FreedGone
    <3>2. ASSUME NEW u \in Drawing, doing[u].object = texts["uniscribe"][b]
          PROVE  texts["uniscribe"][b] \in live \/ Busy(texts["uniscribe"][b])'
      <4>1. CASE u = t
        BY <1>5, <3>2, <4>1 DEF o
      <4>2. CASE u # t
        <5>1. doing'[u].object = texts'["uniscribe"][b]
          BY <1>3, <2>4, <3>2, <4>2
        <5> QED
          BY <5>1 DEF Busy
      <4> QED
        BY <4>1, <4>2
    <3> QED
      BY <2>4, <3>1, <3>2 DEF Busy
  <2> QED
    BY <1>11, <2>2, <2>3, <2>4
<1>15. ObservedOwn'
  BY <1>1 DEF AssocInv, ObservedOwn
<1> QED
  BY <1>9, <1>10, <1>12, <1>13, <1>14, <1>15 DEF AssocInv

(* A thread that begins a call with an object that no other is busy with.  *)
LEMMA BusyCalls ==
  ASSUME NEW d, NEW t \in Drawing, NEW call \in {"associate", "emit", "remove"}, NEW n \in Nat,
         d \in [Drawing -> CallOf], n # 0, \A u \in Drawing : d[u].object # n,
         \A u, v \in Drawing : d[u].object # 0 /\ d[u].object = d[v].object => u = v,
         NEW e, e = [d EXCEPT ![t] = [call |-> call, object |-> n]]
  PROVE  /\ e \in [Drawing -> CallOf] /\ e[t].call = call /\ e[t].object = n
         /\ \A u \in Drawing \ {t} : e[u] = d[u]
         /\ \A u, v \in Drawing : e[u].object # 0 /\ e[u].object = e[v].object => u = v
<1>1. /\ e \in [Drawing -> CallOf] /\ e[t].call = call /\ e[t].object = n
      /\ \A u \in Drawing \ {t} : e[u] = d[u]
  BY DEF CallOf
<1>2. ASSUME NEW u \in Drawing, NEW v \in Drawing, e[u].object # 0, e[u].object = e[v].object
      PROVE  u = v
  BY <1>1, <1>2
<1> QED
  BY <1>1, <1>2

(* An object that is drawn.                                                *)
LEMMA DrawsObjectInv ==
  ASSUME AssocInv, NEW t \in Drawing, NEW n \in live, DrawsObject(t, n)
  PROVE  AssocInv'
<1>1. /\ doing' = [doing EXCEPT ![t] = [call |-> "emit", object |-> n]]
      /\ doing[t] = Resting /\ ~Busy(n)
      /\ UNCHANGED <<objects, live, texts, emitted, missed>>
  BY DEF DrawsObject, Does
<1>2. /\ AssocShapes /\ doing \in [Drawing -> CallOf] /\ CallsOK /\ BusyAlone
      /\ n \in 1 .. Made /\ n \in Nat /\ n # 0 /\ Made' = Made
  BY <1>1 DEF AssocInv, AssocShapes, Made
<1>3. /\ doing' \in [Drawing -> CallOf] /\ doing'[t].call = "emit" /\ doing'[t].object = n
      /\ \A u \in Drawing \ {t} : doing'[u] = doing[u]
      /\ \A u, v \in Drawing : doing'[u].object # 0 /\ doing'[u].object = doing'[v].object => u = v
  <2>1. \A u \in Drawing : doing[u].object # n
    BY <1>1 DEF Busy
  <2>2. \A u, v \in Drawing : doing[u].object # 0 /\ doing[u].object = doing[v].object => u = v
    BY <1>2 DEF BusyAlone
  <2>3. /\ doing' = [doing EXCEPT ![t] = [call |-> "emit", object |-> n]]
        /\ doing \in [Drawing -> CallOf] /\ n \in Nat /\ n # 0
    BY <1>1, <1>2
  <2> QED
    BY <2>1, <2>2, <2>3, BusyCalls
<1>4. CallsOK'
  <2>1. SUFFICES ASSUME NEW u \in Drawing PROVE CallOK(doing[u].call, doing[u].object)'
    BY DEF CallsOK
  <2>2. CASE u = t
    BY <1>1, <1>2, <1>3, <2>2 DEF CallOK
  <2>3. CASE u # t
    BY <1>1, <1>2, <1>3, <2>3 DEF CallsOK, CallOK
  <2> QED
    BY <2>2, <2>3
<1>5. AssocShapes' /\ BusyAlone'
  BY <1>1, <1>2, <1>3 DEF AssocShapes, BusyAlone
<1>6. LiveApart' /\ EntriesOK' /\ ObservedOwn'
  BY <1>1, <1>2 DEF AssocInv, LiveApart, EntriesOK, ObservedOwn
<1>7. doing[t].call = "none" /\ doing[t].object = 0
  BY <1>1 DEF Resting
<1>8. OwnTexts'
  <2>1. SUFFICES ASSUME NEW o \in live, objects[o].text, o \notin missed, ~Associating(o)',
                        objects[o].address \in DOMAIN HeldText(o)
                 PROVE  HeldText(o)[objects[o].address] = o
    BY <1>1 DEF OwnTexts, HeldText
  <2>2. ~Associating(o)
    <3>1. SUFFICES ASSUME NEW u \in Drawing, doing[u].call = "associate", doing[u].object = o
                   PROVE  FALSE
      BY DEF Associating
    <3>2. u # t
      BY <1>7, <3>1
    <3> QED
      BY <1>3, <2>1, <3>1, <3>2 DEF Associating
  <2> QED
    BY <2>1, <2>2 DEF AssocInv, OwnTexts
<1>9. FreedGone'
  <2>1. SUFFICES ASSUME NEW a \in DOMAIN texts["uniscribe"],
                        objects[texts["uniscribe"][a]].kind = "analysis"
                 PROVE  \/ texts["uniscribe"][a] \in live \cup missed
                        \/ Busy(texts["uniscribe"][a])'
    BY <1>1 DEF FreedGone, Busy
  <2>2. texts["uniscribe"][a] \in live \cup missed \/ Busy(texts["uniscribe"][a])
    BY <2>1 DEF AssocInv, FreedGone
  <2>3. texts["uniscribe"][a] # 0
    <3>1. texts["uniscribe"][a] \in 1 .. Made
      BY <2>1, LibraryTable DEF AssocInv, EntriesOK
    <3> QED
      BY <1>2, <3>1
  <2>4. ASSUME NEW u \in Drawing, doing[u].object = texts["uniscribe"][a]
        PROVE  Busy(texts["uniscribe"][a])'
    <3>1. u # t
      BY <1>7, <2>3, <2>4
    <3>2. doing'[u].object = texts'["uniscribe"][a]
      BY <1>1, <1>3, <2>4, <3>1
    <3> QED
      BY <3>2 DEF Busy
  <2> QED
    BY <2>2, <2>4 DEF Busy
<1> QED
  BY <1>4, <1>5, <1>6, <1>8, <1>9 DEF AssocInv

(* An object that is freed is no longer in use.                            *)
LEMMA FreesObjectInv ==
  ASSUME AssocInv, NEW t \in Drawing, NEW n \in live, FreesObject(t, n)
  PROVE  AssocInv'
<1>1. /\ live' = live \ {n} /\ doing[t] = Resting /\ ~Busy(n)
      /\ \/ /\ objects[n].kind = "analysis"
            /\ doing' = [doing EXCEPT ![t] = [call |-> "remove", object |-> n]]
         \/ objects[n].kind # "analysis" /\ doing' = doing
      /\ UNCHANGED <<objects, texts, emitted, missed>>
  BY DEF FreesObject, Does
<1>2. /\ AssocShapes /\ doing \in [Drawing -> CallOf] /\ CallsOK /\ BusyAlone
      /\ n \in 1 .. Made /\ n \in Nat /\ n # 0 /\ Made' = Made
  BY <1>1 DEF AssocInv, AssocShapes, Made
<1>3. doing[t].call = "none" /\ doing[t].object = 0
  BY <1>1 DEF Resting
<1>4. \A u \in Drawing : doing[u].object # n
  BY <1>1 DEF Busy
<1>5. /\ doing' \in [Drawing -> CallOf]
      /\ doing'[t].call # "associate"
      /\ \A u \in Drawing \ {t} : doing'[u] = doing[u]
      /\ \A u, v \in Drawing : doing'[u].object # 0 /\ doing'[u].object = doing'[v].object => u = v
      /\ doing'[t] = doing[t] \/ (objects[n].kind = "analysis" /\ doing'[t].call = "remove"
                                                            /\ doing'[t].object = n)
      /\ objects[n].kind = "analysis" => doing'[t].object = n
  <2>1. \A u, v \in Drawing : doing[u].object # 0 /\ doing[u].object = doing[v].object => u = v
    BY <1>2 DEF BusyAlone
  <2>2. CASE objects[n].kind = "analysis"
    <3>1. doing' = [doing EXCEPT ![t] = [call |-> "remove", object |-> n]]
      BY <1>1, <2>2
    <3>2. /\ doing' \in [Drawing -> CallOf] /\ doing'[t].call = "remove" /\ doing'[t].object = n
          /\ \A u \in Drawing \ {t} : doing'[u] = doing[u]
          /\ \A u, v \in Drawing :
               doing'[u].object # 0 /\ doing'[u].object = doing'[v].object => u = v
      BY <1>2, <1>4, <2>1, <3>1, BusyCalls
    <3> QED
      BY <2>2, <3>2
  <2>3. CASE objects[n].kind # "analysis"
    BY <1>1, <1>2, <1>3, <2>1, <2>3
  <2> QED
    BY <2>2, <2>3
<1>6. CallsOK'
  <2>1. SUFFICES ASSUME NEW u \in Drawing PROVE CallOK(doing[u].call, doing[u].object)'
    BY DEF CallsOK
  <2>2. CallOK(doing[u].call, doing[u].object) /\ doing[u].object # n
    BY <1>2, <1>4 DEF CallsOK
  <2>3. CASE doing'[u] = doing[u]
    BY <1>1, <1>2, <2>2, <2>3 DEF CallOK
  <2>4. CASE objects[n].kind = "analysis" /\ doing'[u].call = "remove" /\ doing'[u].object = n
    BY <1>1, <1>2, <2>4 DEF CallOK
  <2> QED
    BY <1>5, <2>3, <2>4
<1>7. AssocShapes' /\ BusyAlone'
  BY <1>1, <1>2, <1>5 DEF AssocShapes, BusyAlone
<1>8. LiveApart' /\ EntriesOK' /\ ObservedOwn'
  BY <1>1, <1>2 DEF AssocInv, LiveApart, EntriesOK, ObservedOwn
<1>9. OwnTexts'
  <2>1. SUFFICES ASSUME NEW o \in live, objects[o].text, o \notin missed, ~Associating(o)',
                        objects[o].address \in DOMAIN HeldText(o)
                 PROVE  HeldText(o)[objects[o].address] = o
    BY <1>1 DEF OwnTexts, HeldText
  <2>2. ~Associating(o)
    <3>1. SUFFICES ASSUME NEW u \in Drawing, doing[u].call = "associate", doing[u].object = o
                   PROVE  FALSE
      BY DEF Associating
    <3>2. u # t
      BY <1>3, <3>1
    <3> QED
      BY <1>5, <2>1, <3>1, <3>2 DEF Associating
  <2> QED
    BY <2>1, <2>2 DEF AssocInv, OwnTexts
<1>10. FreedGone'
  <2>1. SUFFICES ASSUME NEW a \in DOMAIN texts["uniscribe"],
                        objects[texts["uniscribe"][a]].kind = "analysis"
                 PROVE  \/ texts["uniscribe"][a] \in live' \cup missed
                        \/ Busy(texts["uniscribe"][a])'
    BY <1>1 DEF FreedGone, Busy
  <2> DEFINE o == texts["uniscribe"][a]
  <2>2. o \in live \cup missed \/ Busy(o)
    BY <2>1 DEF AssocInv, FreedGone
  <2>3. o # 0
    <3>1. o \in 1 .. Made
      BY <2>1, LibraryTable DEF AssocInv, EntriesOK
    <3> QED
      BY <1>2, <3>1
  <2>4. o' = o
    BY <1>1
  <2>5. CASE o = n
    <3>1. doing'[t].object = o'
      BY <1>5, <2>1, <2>4, <2>5
    <3> QED
      BY <3>1 DEF Busy
  <2>6. CASE o # n /\ ~Busy(o)
    BY <1>1, <2>2, <2>6
  <2>7. CASE Busy(o)
    <3>1. PICK u \in Drawing : doing[u].object = o
      BY <2>7 DEF Busy
    <3>2. doing'[u].object = o'
      BY <1>3, <1>5, <2>3, <2>4, <3>1
    <3> QED
      BY <3>2 DEF Busy
  <2> QED
    BY <2>5, <2>6, <2>7
<1> QED
  BY <1>6, <1>7, <1>8, <1>9, <1>10 DEF AssocInv

(* The detour of a release removes the text of what was freed.             *)
LEMMA RemovesInv ==
  ASSUME AssocInv, NEW t \in Drawing, Removes(t)
  PROVE  AssocInv'
<1> DEFINE o == doing[t].object
           a == objects[o].address
           T == Library(objects[o].kind)
           after == [b \in DOMAIN texts[T] \ {a} |-> texts[T][b]]
<1>1. /\ doing' = [doing EXCEPT ![t] = Resting] /\ doing[t].call = "remove"
      /\ texts' = [texts EXCEPT ![T] = after]
      /\ UNCHANGED <<objects, live, emitted, missed>>
  BY DEF Removes, Rests, Of, TableOf, RemovedAddresses
<1>2. /\ AssocShapes /\ doing \in [Drawing -> CallOf] /\ CallsOK /\ EntriesOK /\ OwnTexts
      /\ BusyAlone /\ LiveApart /\ FreedGone
  BY DEF AssocInv, AssocShapes
<1>3. /\ doing'[t].call = "none" /\ doing'[t].object = 0
      /\ \A u \in Drawing \ {t} : doing'[u] = doing[u]
      /\ doing' \in [Drawing -> CallOf] /\ Made' = Made /\ CallsOK' /\ BusyAlone'
  BY <1>1, RestsCalls
<1>4. o \in 1 .. Made /\ T = "uniscribe" /\ T \in Table
  <2>1. CallOK("remove", o)
    BY <1>1, <1>2 DEF CallsOK
  <2>2. o \in 1 .. Made /\ objects[o].kind = "analysis"
    BY <1>2, <2>1 DEF CallOK, AssocShapes
  <2> QED
    BY <2>2, LibraryTable
<1> HIDE DEF after, a, T
<1>5. /\ DOMAIN texts' = Table /\ texts'[T] = after
      /\ \A U \in Table \ {T} : texts'[U] = texts[U]
  BY <1>1, <1>2, <1>4 DEF AssocShapes
<1>6. ASSUME NEW U \in Table, NEW b \in DOMAIN texts'[U]
      PROVE  b \in DOMAIN texts[U] /\ texts'[U][b] = texts[U][b] /\ (U # T \/ b # a)
  BY <1>5, <1>6 DEF after
<1>7. AssocShapes' /\ LiveApart' /\ ObservedOwn'
  BY <1>1, <1>2, <1>3, <1>5 DEF AssocInv, AssocShapes, LiveApart, ObservedOwn
<1>8. EntriesOK'
  <2>1. SUFFICES ASSUME NEW U \in Table, NEW b \in DOMAIN texts'[U]
                 PROVE  /\ texts'[U][b] \in 1 .. Made
                        /\ objects[texts'[U][b]].address = b
                        /\ Library(objects[texts'[U][b]].kind) = U
    BY <1>1, <1>3 DEF EntriesOK
  <2> QED
    BY <1>2, <1>6 DEF EntriesOK
<1>9. OwnTexts'
  <2>1. SUFFICES ASSUME NEW p \in live, objects[p].text, p \notin missed, ~Associating(p)',
                        objects[p].address \in DOMAIN texts'[Library(objects[p].kind)]
                 PROVE  texts'[Library(objects[p].kind)][objects[p].address] = p
    BY <1>1 DEF OwnTexts, HeldText
  <2>2. Library(objects[p].kind) \in Table
    BY <1>2, LibraryTable DEF AssocShapes
  <2>3. ~Associating(p)
    <3>1. SUFFICES ASSUME NEW u \in Drawing, doing[u].call = "associate", doing[u].object = p
                   PROVE  FALSE
      BY DEF Associating
    <3>2. u # t
      BY <1>1, <3>1
    <3> QED
      BY <1>3, <2>1, <3>1, <3>2 DEF Associating
  <2> QED
    BY <1>2, <1>6, <2>1, <2>2, <2>3 DEF OwnTexts, HeldText
<1>10. FreedGone'
  <2>1. SUFFICES ASSUME NEW b \in DOMAIN texts'["uniscribe"],
                        objects[texts'["uniscribe"][b]].kind = "analysis"
                 PROVE  \/ texts'["uniscribe"][b] \in live \cup missed
                        \/ Busy(texts["uniscribe"][b])'
    BY <1>1 DEF FreedGone, Busy
  <2>2. /\ b \in DOMAIN texts["uniscribe"] /\ b # a
        /\ texts'["uniscribe"][b] = texts["uniscribe"][b]
    BY <1>4, <1>6
  <2>3. texts["uniscribe"][b] \in live \cup missed \/ Busy(texts["uniscribe"][b])
    BY <1>2, <2>1, <2>2 DEF FreedGone
  <2>4. texts["uniscribe"][b] # o
    BY <1>2, <1>4, <2>2 DEF EntriesOK, a
  <2>5. ASSUME NEW u \in Drawing, doing[u].object = texts["uniscribe"][b]
        PROVE  Busy(texts["uniscribe"][b])'
    <3>1. u # t
      BY <2>4, <2>5
    <3>2. doing'[u].object = texts'["uniscribe"][b]
      BY <1>3, <2>2, <2>5, <3>1
    <3> QED
      BY <3>2 DEF Busy
  <2> QED
    BY <2>2, <2>3, <2>5 DEF Busy
<1> QED
  BY <1>3, <1>7, <1>8, <1>9, <1>10 DEF AssocInv

(* A new object is at an address that is free.                             *)
LEMMA MakesInv ==
  ASSUME AssocInv, NEW t \in Drawing, NEW kind \in Kind, NEW a \in Address, NEW text \in BOOLEAN,
         Makes(t, kind, a, text)
  PROVE  AssocInv'
<1> DEFINE n == Made + 1
           here == {o \in live : objects[o].address = a}
<1>1. /\ \A o \in here : objects[o].kind = "glyphs" /\ ~Busy(o)
      /\ objects' = [o \in 1 .. n |-> IF o < n THEN objects[o]
                                      ELSE [kind |-> kind, address |-> a, text |-> text]]
      /\ live' = (live \ here) \cup {n} /\ doing[t] = Resting
      /\ \/ text /\ doing' = [doing EXCEPT ![t] = [call |-> "associate", object |-> n]]
         \/ ~text /\ doing' = doing
      /\ UNCHANGED <<texts, emitted, missed>>
  BY Zenon DEF Makes, Does, Made
<1>2. /\ AssocShapes /\ doing \in [Drawing -> CallOf] /\ CallsOK /\ BusyAlone /\ EntriesOK
      /\ OwnTexts /\ FreedGone /\ ObservedOwn /\ LiveApart
      /\ Made \in Nat /\ n \in Nat /\ n # 0 /\ live \subseteq 1 .. Made
  BY DEF AssocInv, AssocShapes
<1>3. /\ \A o \in 1 .. Made : objects'[o] = objects[o] /\ o \in 1 .. n /\ o # n
      /\ objects'[n] = [kind |-> kind, address |-> a, text |-> text]
      /\ objects' \in [1 .. n -> ObjectOf]
  <2>1. \A o \in 1 .. Made : objects[o] \in ObjectOf
    BY <1>2 DEF AssocShapes
  <2>2. [kind |-> kind, address |-> a, text |-> text] \in ObjectOf
    BY DEF ObjectOf
  <2>3. \A o \in 1 .. n : o < n => o \in 1 .. Made
    BY <1>2
  <2>4. \A o \in 1 .. Made : o < n /\ o \in 1 .. n /\ o # n
    BY <1>2
  <2>5. n \in 1 .. n /\ ~(n < n)
    BY <1>2
  <2> HIDE DEF n
  <2> QED
    BY <1>1, <2>1, <2>2, <2>3, <2>4, <2>5
<1>4. Made' = n
  <2>1. DOMAIN objects' = 1 .. n
    BY <1>3
  <2>2. Cardinality(1 .. n) = n
    BY <1>2, FS_Interval
  <2> QED
    BY <2>1, <2>2 DEF Made
<1>5. doing[t].call = "none" /\ doing[t].object = 0
  BY <1>1 DEF Resting
<1>6. \A u \in Drawing : doing[u].object # n /\ doing[u].object \in 0 .. Made
  BY <1>2 DEF CallsOK, CallOK
<1>7. n \in live' /\ live' \subseteq live \cup {n} /\ n \notin live
  BY <1>1, <1>2
<1> HIDE DEF n
<1>8. /\ doing' \in [Drawing -> CallOf]
      /\ \A u \in Drawing \ {t} : doing'[u] = doing[u]
      /\ \A u, v \in Drawing : doing'[u].object # 0 /\ doing'[u].object = doing'[v].object => u = v
      /\ \/ text /\ doing'[t].call = "associate" /\ doing'[t].object = n
         \/ ~text /\ doing'[t] = doing[t]
  <2>1. \A u, v \in Drawing : doing[u].object # 0 /\ doing[u].object = doing[v].object => u = v
    BY <1>2 DEF BusyAlone
  <2>2. CASE text
    <3>1. doing' = [doing EXCEPT ![t] = [call |-> "associate", object |-> n]]
      BY <1>1, <2>2
    <3>2. /\ doing' \in [Drawing -> CallOf] /\ doing'[t].call = "associate" /\ doing'[t].object = n
          /\ \A u \in Drawing \ {t} : doing'[u] = doing[u]
          /\ \A u, v \in Drawing :
               doing'[u].object # 0 /\ doing'[u].object = doing'[v].object => u = v
      BY <1>2, <1>6, <2>1, <3>1, BusyCalls
    <3> QED
      BY <2>2, <3>2
  <2>3. CASE ~text
    BY <1>1, <1>2, <2>1, <2>3
  <2> QED
    BY <2>2, <2>3
<1>9. CallsOK'
  <2>1. SUFFICES ASSUME NEW u \in Drawing PROVE CallOK(doing[u].call, doing[u].object)'
    BY DEF CallsOK
  <2>2. CallOK(doing[u].call, doing[u].object)
    BY <1>2 DEF CallsOK
  <2>3. CASE doing'[u] = doing[u]
    <3>1. doing[u].object \in 0 .. n
      BY <1>2, <1>6 DEF n
    <3>2. doing[u].call \in {"associate", "emit"} => doing[u].object \in live'
      BY <1>1, <2>2 DEF CallOK, Busy
    <3>3. doing[u].call = "remove" => objects'[doing[u].object].kind = "analysis"
      <4>1. doing[u].call = "remove" => doing[u].object \in 1 .. Made
        BY <1>2, <1>6, <2>2 DEF CallOK
      <4> QED
        BY <1>3, <2>2, <4>1 DEF CallOK
    <3> QED
      BY <1>4, <2>2, <2>3, <3>1, <3>2, <3>3 DEF CallOK
  <2>4. CASE doing'[u].call = "associate" /\ doing'[u].object = n
    <3>1. n \in 0 .. n
      BY <1>2
    <3> QED
      BY <1>2, <1>4, <1>7, <2>4, <3>1 DEF CallOK
  <2> QED
    BY <1>8, <2>3, <2>4
<1>10. AssocShapes' /\ BusyAlone'
  <2>1. live' \subseteq 1 .. n /\ (0 .. Made) \subseteq (0 .. n)
    BY <1>2, <1>7 DEF n
  <2>2. emitted' \in (0 .. n) \X (0 .. n)
    BY <1>1, <1>2, <2>1 DEF AssocShapes
  <2>3. BusyAlone'
    BY <1>8 DEF BusyAlone
  <2> QED
    BY <1>1, <1>2, <1>3, <1>4, <1>8, <2>1, <2>2, <2>3 DEF AssocShapes
<1>11. LiveApart'
  <2>1. SUFFICES ASSUME NEW o \in live', NEW p \in live', objects'[o].address = objects'[p].address
                 PROVE  o = p
    BY DEF LiveApart
  <2>2. \A q \in live' : q # n => q \in live /\ objects'[q] = objects[q] /\ objects[q].address # a
    BY <1>1, <1>2, <1>3
  <2>3. objects'[n].address = a
    BY <1>3
  <2> QED
    BY <1>2, <2>1, <2>2, <2>3 DEF LiveApart
<1>12. EntriesOK'
  <2>1. SUFFICES ASSUME NEW T \in Table, NEW b \in DOMAIN texts[T]
                 PROVE  /\ texts[T][b] \in 1 .. n
                        /\ objects'[texts[T][b]].address = b
                        /\ Library(objects'[texts[T][b]].kind) = T
    BY <1>1, <1>4 DEF EntriesOK
  <2> QED
    BY <1>2, <1>3 DEF EntriesOK
<1>13. OwnTexts'
  <2>1. SUFFICES ASSUME NEW o \in live', objects'[o].text, o \notin missed, ~Associating(o)',
                        objects'[o].address \in DOMAIN texts[Library(objects'[o].kind)]
                 PROVE  texts[Library(objects'[o].kind)][objects'[o].address] = o
    BY <1>1 DEF OwnTexts, HeldText
  <2>2. o # n
    <3>1. SUFFICES ASSUME o = n PROVE FALSE
      OBVIOUS
    <3>2. text
      BY <1>3, <2>1, <3>1
    <3> QED
      BY <1>8, <2>1, <3>1, <3>2 DEF Associating
  <2>3. o \in live /\ objects'[o] = objects[o]
    BY <1>2, <1>3, <1>7, <2>2
  <2>4. ~Associating(o)
    <3>1. SUFFICES ASSUME NEW u \in Drawing, doing[u].call = "associate", doing[u].object = o
                   PROVE  FALSE
      BY DEF Associating
    <3>2. u # t
      BY <1>5, <3>1
    <3> QED
      BY <1>8, <2>1, <3>1, <3>2 DEF Associating
  <2> QED
    BY <1>2, <2>1, <2>3, <2>4 DEF OwnTexts, HeldText
<1>14. FreedGone'
  <2>1. SUFFICES ASSUME NEW b \in DOMAIN texts["uniscribe"],
                        objects'[texts["uniscribe"][b]].kind = "analysis"
                 PROVE  \/ texts["uniscribe"][b] \in live' \cup missed
                        \/ Busy(texts["uniscribe"][b])'
    BY <1>1 DEF FreedGone, Busy
  <2> DEFINE o == texts["uniscribe"][b]
  <2>2. o \in 1 .. Made /\ o # 0
    <3>1. o \in 1 .. Made
      BY LibraryTable, <1>2 DEF EntriesOK
    <3> QED
      BY <1>2, <3>1
  <2>3. objects[o].kind = "analysis"
    BY <1>3, <2>1, <2>2
  <2>4. o \in live \cup missed \/ Busy(o)
    BY <1>2, <2>1, <2>3 DEF FreedGone
  <2>5. o \in live => o \in live'
    BY <1>1, <2>3
  <2>6. ASSUME NEW u \in Drawing, doing[u].object = o
        PROVE  Busy(texts["uniscribe"][b])'
    <3>1. u # t
      BY <1>5, <2>2, <2>6
    <3>2. doing'[u].object = texts'["uniscribe"][b]
      BY <1>1, <1>8, <2>6, <3>1
    <3> QED
      BY <3>2 DEF Busy
  <2> QED
    BY <2>4, <2>5, <2>6 DEF Busy
<1>15. ObservedOwn'
  <2>1. emitted[1] # 0 => emitted[1] \in 1 .. Made
    BY <1>2 DEF AssocShapes
  <2> QED
    BY <1>1, <1>2, <1>3, <2>1 DEF ObservedOwn
<1> QED
  BY <1>9, <1>10, <1>11, <1>12, <1>13, <1>14, <1>15 DEF AssocInv

(* Every step keeps the invariant.                                         *)
LEMMA AssocInvNext == AssocInv /\ [AssocNext]_assocVars => AssocInv'
<1>1. SUFFICES ASSUME AssocInv, [AssocNext]_assocVars PROVE AssocInv'
  OBVIOUS
<1>2. CASE UNCHANGED assocVars
  BY <1>1, <1>2
     DEF assocVars, AssocInv, AssocShapes, CallsOK, CallOK, BusyAlone, LiveApart, EntriesOK,
         OwnTexts, HeldText, Associating, FreedGone, Busy, ObservedOwn, Made
<1>3. CASE AssocNext
  BY <1>1, <1>3, MakesInv, DrawsObjectInv, FreesObjectInv, AssociatesInv, EmitsInv, RemovesInv,
     MissesInv DEF AssocNext
<1> QED
  BY <1>1, <1>2, <1>3

(* Texts that are observed are the objects' own.                           *)
THEOREM ObservedOwnTextCorrect == AssocSpec => []ObservedOwnText
<1>1. AssocInv => ObservedOwnText
  BY DEF AssocInv, ObservedOwnText, ObservedOwn, FreedGone
<1> QED
  BY <1>1, AssocInvInit, AssocInvNext, PTL DEF AssocSpec

-----------------------------------------------------------------------------
(* The drop-downs of the control window                                    *)

TargetsSpec == TargetsInit /\ [][TargetsNext]_targetVars

Entry == Program \cup {Nothing}
MessageOf == [position : Nat, entry : Entry]
AttachOf == [step : {"idle", "find", "open"}, target : Entry, found : Entry, for : Entry]
AnswerOf == Seq(Program) \cup {<<Nothing>>}

TargetShapes ==
  /\ alive \subseteq Program /\ IsFiniteSet(alive)
  /\ answers \in Seq(AnswerOf) /\ listed \in Seq(Program) /\ choice \in 0 .. Len(listed)
  /\ messages \in Seq(MessageOf) /\ heard \in Seq(Program)
  /\ passing \in Entry /\ forwarded \in Entry /\ picked \in Entry /\ attaching \in AttachOf

(* What a selection that waits vouches for is at its position.             *)
Vouched(list, ms) ==
  \A i \in 1 .. Len(ms) :
    ms[i].entry # Nothing =>
      ms[i].position \in 1 .. Len(list) /\ ms[i].entry = list[ms[i].position]

(* The listener forwards what is selected, which is what the user picked,  *)
(* if that is still known; and so does an attachment.                      *)
TargetsInv ==
  /\ TargetShapes
  /\ Vouched(listed, messages)
  /\ picked # Nothing /\ choice # 0 => Chosen = picked
  /\ forwarded # Nothing => menu = "native" /\ choice # 0 /\ forwarded = Chosen
  /\ attaching.step # "idle" /\ attaching.for # Nothing => attaching.target = attaching.for
  /\ attaching.step = "open" => ExecutableOf(attaching.found) = ExecutableOf(attaching.target)

(* What is selected is a program of the list.                              *)
LEMMA ChosenListed ==
  ASSUME TargetShapes
  PROVE  /\ Chosen \in Entry
         /\ choice # 0 => /\ Chosen = listed[choice] /\ Chosen \in Program
                          /\ choice \in 1 .. Len(listed) /\ Chosen # Nothing
<1>1. listed \in Seq(Program) /\ choice \in 0 .. Len(listed) /\ Len(listed) \in Nat
  BY LenProperties DEF TargetShapes
<1>2. CASE choice = 0
  BY <1>2 DEF Chosen, Entry
<1>3. CASE choice # 0
  <2>1. choice \in 1 .. Len(listed)
    BY <1>1, <1>3
  <2>2. listed[choice] \in Program
    BY <1>1, <2>1, ElementOfSeq
  <2> QED
    BY <1>3, <2>1, <2>2, TargetsAssumption DEF Chosen, Entry
<1> QED
  BY <1>2, <1>3

(* The drop-downs start empty.                                             *)
LEMMA TargetsInvInit == TargetsInit => TargetsInv
<1>1. SUFFICES ASSUME TargetsInit PROVE TargetsInv
  OBVIOUS
<1>2. /\ <<>> \in Seq(AnswerOf) /\ <<>> \in Seq(Program) /\ <<>> \in Seq(MessageOf)
      /\ Len(<<>>) = 0
  BY EmptySeq
<1>3. IsFiniteSet(alive) /\ alive = {}
  BY <1>1, FS_EmptySet DEF TargetsInit
<1>4. attaching \in AttachOf /\ attaching.step = "idle"
  BY <1>1 DEF TargetsInit, Idle, AttachOf, Entry
<1>5. TargetShapes
  BY <1>1, <1>2, <1>3, <1>4 DEF TargetsInit, TargetShapes, Entry
<1>6. Vouched(listed, messages)
  BY <1>1, <1>2 DEF TargetsInit, Vouched
<1> QED
  BY <1>1, <1>4, <1>5, <1>6 DEF TargetsInit, TargetsInv

(* Programs come and go.                                                   *)
LEMMA ProgramsChangeInv ==
  ASSUME TargetsInv, NEW program \in Program,
         ProgramStarts(program) \/ ProgramEnds(program)
  PROVE  TargetsInv'
<1>1. alive' = alive \cup {program} \/ alive' = alive \ {program}
  BY DEF ProgramStarts, ProgramEnds
<1>2. alive' \subseteq Program /\ IsFiniteSet(alive')
  <2>1. alive \subseteq Program /\ IsFiniteSet(alive)
    BY DEF TargetsInv, TargetShapes
  <2>2. IsFiniteSet(alive \cup {program}) /\ IsFiniteSet(alive \ {program})
    BY <2>1, FS_AddElement, FS_RemoveElement
  <2> QED
    BY <1>1, <2>1, <2>2
<1>3. UNCHANGED <<menu, listed, choice, picked, answers, messages, forwarded, passing, heard, attaching>>
  BY DEF ProgramStarts, ProgramEnds, Menu, Listener
<1>4. TargetShapes'
  BY <1>2, <1>3 DEF TargetsInv, TargetShapes
<1>5. Chosen' = Chosen
  BY <1>3 DEF Chosen
<1> QED
  BY <1>3, <1>4, <1>5 DEF TargetsInv

(* A list under way holds programs, or is a failure.                       *)
LEMMA ListsProgramsInv ==
  ASSUME TargetsInv, ListsPrograms
  PROVE  TargetsInv'
<1>1. PICK answer \in SortedLists(alive) \cup {<<Nothing>>} : answers' = Append(answers, answer)
  BY DEF ListsPrograms
<1>2. alive \subseteq Program /\ Cardinality(alive) \in Nat /\ answers \in Seq(AnswerOf)
  BY FS_CardinalityType DEF TargetsInv, TargetShapes
<1>3. answer \in AnswerOf
  <2>1. CASE answer \in SortedLists(alive)
    <3>1. answer \in [1 .. Cardinality(alive) -> Program]
      BY <1>2, <2>1 DEF SortedLists
    <3>2. answer \in Seq(Program)
      BY <1>2, <3>1, SeqDef
    <3> QED
      BY <3>2 DEF AnswerOf
  <2> QED
    BY <1>1, <2>1 DEF AnswerOf
<1>4. answers' \in Seq(AnswerOf)
  BY <1>1, <1>2, <1>3, AppendProperties
<1>5. UNCHANGED <<menu, listed, choice, picked, alive, messages, forwarded, passing, heard, attaching>>
  BY DEF ListsPrograms, Menu, Listener
<1>6. Chosen' = Chosen
  BY <1>5 DEF Chosen
<1> QED
  BY <1>4, <1>5, <1>6 DEF TargetsInv, TargetShapes

(* A list that is received keeps the selection, or loses it.               *)
LEMMA ReceivesListInv ==
  ASSUME TargetsInv, NEW n \in DOMAIN answers, ReceivesList(n)
  PROVE  TargetsInv'
<1> DEFINE list == IF answers[n] = <<Nothing>> THEN <<>> ELSE answers[n]
<1>1. TargetShapes /\ answers \in Seq(AnswerOf) /\ messages \in Seq(MessageOf)
  BY DEF TargetsInv, TargetShapes
<1>2. /\ answers' = RemoveAt(answers, n) /\ listed' = list
      /\ choice' = Relocated(list) /\ forwarded' = ForwardedFor(Relocated(list))
      /\ messages' = [i \in DOMAIN messages |-> [messages[i] EXCEPT !.entry = Nothing]]
      /\ UNCHANGED <<menu, picked, alive, passing, heard, attaching>>
  BY DEF ReceivesList
<1>3. n \in 1 .. Len(answers) /\ Len(answers) \in Nat /\ DOMAIN answers = 1 .. Len(answers)
  BY <1>1, LenProperties
<1>4. list \in Seq(Program)
  <2>1. answers[n] \in AnswerOf
    BY <1>1, <1>3, ElementOfSeq
  <2> QED
    BY <2>1, EmptySeq DEF AnswerOf
<1> HIDE DEF list
<1>5. answers' \in Seq(AnswerOf)
  <2>1. \A i \in 1 .. Len(answers) : answers[i] \in AnswerOf
    BY <1>1, ElementOfSeq
  <2>2. SubSeq(answers, 1, n - 1) \in Seq(AnswerOf)
    <3>1. n - 1 \in Int /\ \A i \in 1 .. n - 1 : answers[i] \in AnswerOf
      BY <1>3, <2>1
    <3> QED
      BY <3>1, SubSeqProperties
  <2>3. SubSeq(answers, n + 1, Len(answers)) \in Seq(AnswerOf)
    <3>1. /\ n + 1 \in Int /\ Len(answers) \in Int
          /\ \A i \in n + 1 .. Len(answers) : answers[i] \in AnswerOf
      BY <1>3, <2>1
    <3> QED
      BY <3>1, SubSeqProperties
  <2> QED
    BY <1>2, <2>2, <2>3, ConcatProperties DEF RemoveAt
<1>6. /\ messages' \in Seq(MessageOf) /\ Len(messages') = Len(messages)
      /\ \A i \in 1 .. Len(messages) : messages'[i].entry = Nothing
  <2>1. Len(messages) \in Nat /\ DOMAIN messages = 1 .. Len(messages)
    BY <1>1, LenProperties
  <2>2. ASSUME NEW i \in 1 .. Len(messages)
        PROVE  /\ [messages[i] EXCEPT !.entry = Nothing] \in MessageOf
               /\ [messages[i] EXCEPT !.entry = Nothing].entry = Nothing
    <3>1. messages[i] \in MessageOf
      BY <1>1, ElementOfSeq
    <3> QED
      BY <3>1 DEF MessageOf, Entry
  <2>3. messages' \in [1 .. Len(messages) -> MessageOf]
    BY <1>2, <2>1, <2>2
  <2>4. messages' \in Seq(MessageOf) /\ Len(messages') = Len(messages)
    <3>1. messages' \in Seq(MessageOf)
      BY <2>1, <2>3, SeqDef
    <3>2. DOMAIN messages' = 1 .. Len(messages') /\ Len(messages') \in Nat
      BY <3>1, LenProperties
    <3>3. DOMAIN messages' = 1 .. Len(messages)
      BY <2>3
    <3>4. Len(messages') = Len(messages)
      <4>1. 1 .. Len(messages') = 1 .. Len(messages)
        BY <3>2, <3>3
      <4>2. \A k, m \in Nat : 1 .. k = 1 .. m => k = m
        OBVIOUS
      <4> QED
        BY <2>1, <3>2, <4>1, <4>2
    <3> QED
      BY <3>1, <3>4
  <2>5. \A i \in 1 .. Len(messages) : messages'[i] = [messages[i] EXCEPT !.entry = Nothing]
    BY <1>2, <2>1
  <2> QED
    BY <2>2, <2>4, <2>5
<1>7. /\ choice' \in 0 .. Len(list)
      /\ choice' # 0 => listed'[choice'] = Chosen
      /\ choice' # 0 => choice # 0
  <2>1. DOMAIN list = 1 .. Len(list) /\ Len(list) \in Nat
    BY <1>4, LenProperties
  <2>2. CASE \E i \in DOMAIN list : list[i] = Chosen
    <3>1. choice' \in DOMAIN list /\ list[choice'] = Chosen
      BY <1>2, <2>2 DEF Relocated
    <3>2. Chosen \in Program
      BY <1>4, <2>1, <3>1, ElementOfSeq
    <3>3. choice # 0
      BY <3>2, TargetsAssumption DEF Chosen
    <3> QED
      BY <1>2, <2>1, <3>1, <3>3
  <2>3. CASE ~\E i \in DOMAIN list : list[i] = Chosen
    BY <1>2, <2>1, <2>3 DEF Relocated
  <2> QED
    BY <2>2, <2>3
<1>8. choice' # 0 => Chosen' = Chosen
  BY <1>7 DEF Chosen
<1>9. forwarded' \in {Nothing, forwarded}
      /\ (forwarded' # Nothing => forwarded' = forwarded /\ (menu # "native" \/ choice' # 0))
  BY <1>2 DEF ForwardedFor
<1>10. TargetShapes'
  BY <1>1, <1>2, <1>4, <1>5, <1>6, <1>7, <1>9 DEF TargetShapes, Entry
<1>11. Vouched(listed', messages')
  BY <1>6 DEF Vouched
<1>12. picked' # Nothing /\ choice' # 0 => Chosen' = picked'
  BY <1>2, <1>7, <1>8 DEF TargetsInv
<1>13. forwarded' # Nothing => menu' = "native" /\ choice' # 0 /\ forwarded' = Chosen'
  BY <1>2, <1>8, <1>9 DEF TargetsInv
<1> QED
  BY <1>2, <1>10, <1>11, <1>12, <1>13 DEF TargetsInv

(* A selection vouches for what is shown at its position.                  *)
LEMMA PicksInv ==
  ASSUME TargetsInv, NEW position \in 0 .. Len(listed), Picks(position)
  PROVE  TargetsInv'
<1> DEFINE pick == [position |-> position,
                    entry |-> IF position = 0 THEN Nothing ELSE listed[position]]
<1>1. /\ messages' = Append(messages, pick)
      /\ UNCHANGED <<menu, listed, choice, picked, alive, answers, forwarded, passing, heard, attaching>>
  BY DEF Picks, Menu, Listener
<1>2. listed \in Seq(Program) /\ messages \in Seq(MessageOf) /\ Len(listed) \in Nat
  BY LenProperties DEF TargetsInv, TargetShapes
<1>3. /\ pick \in MessageOf
      /\ pick.entry # Nothing => position \in 1 .. Len(listed) /\ pick.entry = listed[position]
      /\ pick.position = position
  <2>1. CASE position = 0
    BY <2>1 DEF MessageOf, Entry
  <2>2. CASE position # 0
    <3>1. position \in 1 .. Len(listed) /\ listed[position] \in Program
      BY <1>2, <2>2, ElementOfSeq
    <3> QED
      BY <2>2, <3>1 DEF MessageOf, Entry
  <2> QED
    BY <2>1, <2>2
<1> HIDE DEF pick
<1>4. /\ messages' \in Seq(MessageOf) /\ Len(messages') = Len(messages) + 1
      /\ Len(messages) \in Nat /\ messages'[Len(messages) + 1] = pick
      /\ \A i \in 1 .. Len(messages) : messages'[i] = messages[i]
  BY <1>1, <1>2, <1>3, AppendProperties, LenProperties
<1>5. Vouched(listed, messages')
  <2>1. Vouched(listed, messages)
    BY DEF TargetsInv
  <2>2. SUFFICES ASSUME NEW i \in 1 .. Len(messages'), messages'[i].entry # Nothing
                 PROVE  /\ messages'[i].position \in 1 .. Len(listed)
                        /\ messages'[i].entry = listed[messages'[i].position]
    BY DEF Vouched
  <2>3. CASE i = Len(messages) + 1
    BY <1>3, <1>4, <2>2, <2>3
  <2>4. CASE i # Len(messages) + 1
    <3>1. i \in 1 .. Len(messages) /\ messages'[i] = messages[i]
      BY <1>4, <2>4
    <3> QED
      BY <2>1, <2>2, <3>1 DEF Vouched
  <2> QED
    BY <2>3, <2>4
<1>6. TargetShapes'
  BY <1>1, <1>4 DEF TargetsInv, TargetShapes
<1>7. Chosen' = Chosen
  BY <1>1 DEF Chosen
<1> QED
  BY <1>1, <1>5, <1>6, <1>7 DEF TargetsInv

(* A selection is handled.                                                 *)
LEMMA SelectsInv ==
  ASSUME TargetsInv, Selects
  PROVE  TargetsInv'
<1> DEFINE pick == Head(messages)
<1>1. /\ messages # <<>> /\ messages' = Tail(messages)
      /\ choice' = IndexOf(pick.position)
      /\ forwarded' = IF menu = "native" /\ choice' # 0 THEN listed[choice'] ELSE Nothing
      /\ picked' = pick.entry
      /\ UNCHANGED <<menu, alive, answers, listed, passing, heard, attaching>>
  BY DEF Selects
<1>2. /\ listed \in Seq(Program) /\ messages \in Seq(MessageOf) /\ Len(listed) \in Nat
      /\ DOMAIN listed = 1 .. Len(listed)
  BY LenProperties DEF TargetsInv, TargetShapes
<1>3. /\ Len(messages) \in Nat /\ Len(messages) > 0
  BY <1>1, <1>2, LenProperties, EmptySeq
<1>4. /\ Tail(messages) \in Seq(MessageOf) /\ Len(Tail(messages)) = Len(messages) - 1
      /\ \A i \in 1 .. Len(Tail(messages)) : Tail(messages)[i] = messages[i + 1]
      /\ pick \in MessageOf
  BY <1>1, <1>2, HeadTailProperties
<1>5. pick = messages[1]
  BY <1>1
<1> HIDE DEF pick
<1>6. pick.entry # Nothing => /\ pick.position \in 1 .. Len(listed)
                              /\ pick.entry = listed[pick.position]
  BY <1>3, <1>5 DEF TargetsInv, Vouched
<1>7. Vouched(listed, messages')
  <2>1. SUFFICES ASSUME NEW i \in 1 .. Len(messages')
                 PROVE  messages'[i] = messages[i + 1] /\ i + 1 \in 1 .. Len(messages)
    BY DEF TargetsInv, Vouched
  <2> QED
    BY <1>1, <1>3, <1>4
<1>8. choice' \in 0 .. Len(listed) /\ (choice' # 0 => listed[choice'] \in Program)
  <2>1. pick.position \in Nat
    BY <1>4 DEF MessageOf
  <2>2. choice' \in 0 .. Len(listed)
    BY <1>1, <1>2, <2>1 DEF IndexOf
  <2>3. choice' # 0 => choice' \in 1 .. Len(listed)
    BY <1>2, <2>2
  <2> QED
    BY <1>2, <2>2, <2>3, ElementOfSeq
<1>9. Chosen' = IF choice' = 0 THEN Nothing ELSE listed[choice']
  BY <1>1 DEF Chosen
<1>10. picked' # Nothing /\ choice' # 0 => Chosen' = picked'
  BY <1>1, <1>2, <1>6, <1>9 DEF IndexOf
<1>11. forwarded' # Nothing => menu' = "native" /\ choice' # 0 /\ forwarded' = Chosen'
  BY <1>1, <1>9
<1>12. TargetShapes'
  <2>1. picked' \in Entry
    BY <1>1, <1>4 DEF MessageOf
  <2>2. forwarded' \in Entry
    BY <1>1, <1>8 DEF Entry
  <2> QED
    BY <1>1, <1>4, <1>8, <2>1, <2>2 DEF TargetsInv, TargetShapes
<1> QED
  BY <1>1, <1>7, <1>10, <1>11, <1>12 DEF TargetsInv

(* The listener and the window pass texts on.                              *)
LEMMA HearsInv ==
  ASSUME TargetsInv,
         HearsText \/ SendsText \/ \E program \in Program : TextChanges(program)
  PROVE  TargetsInv'
<1>1. UNCHANGED <<menu, listed, choice, picked, alive, answers, messages, forwarded, attaching>>
  BY DEF HearsText, SendsText, TextChanges, Menu
<1>2. heard \in Seq(Program) /\ passing \in Entry
  BY DEF TargetsInv, TargetShapes
<1>3. heard' \in Seq(Program) /\ passing' \in Entry
  <2>1. CASE HearsText
    BY <1>2, <2>1, HeadTailProperties DEF HearsText
  <2>2. CASE SendsText
    BY <1>2, <2>2, AppendProperties DEF SendsText, Entry
  <2>3. ASSUME NEW program \in Program, TextChanges(program)
        PROVE  heard' \in Seq(Program) /\ passing' \in Entry
    BY <1>2, <2>3 DEF TextChanges, Entry
  <2> QED
    BY <2>1, <2>2, <2>3
<1>4. Chosen' = Chosen
  BY <1>1 DEF Chosen
<1> QED
  BY <1>1, <1>3, <1>4 DEF TargetsInv, TargetShapes

(* The one process that runs what is attached runs its executable.         *)
LEMMA AttachingInv ==
  ASSUME TargetsInv, Attaches \/ FailsToAttach \/ FindsProcess \/ Injects
  PROVE  TargetsInv'
<1>1. UNCHANGED <<menu, listed, choice, picked, alive, answers, messages, forwarded, passing, heard>>
  BY DEF Attaches, FailsToAttach, FindsProcess, Injects, Menu, Listener
<1>2. TargetShapes /\ attaching \in AttachOf /\ picked \in Entry
  BY DEF TargetsInv, TargetShapes
<1>3. Idle \in AttachOf /\ Idle.step = "idle"
  BY DEF Idle, AttachOf, Entry
<1>4. /\ attaching' \in AttachOf
      /\ attaching'.step # "idle" /\ attaching'.for # Nothing =>
           attaching'.target = attaching'.for
      /\ attaching'.step = "open" =>
           ExecutableOf(attaching'.found) = ExecutableOf(attaching'.target)
  <2>1. CASE Attaches
    <3>1. /\ choice # 0
          /\ attaching' = [step |-> "find", target |-> Chosen, found |-> Nothing, for |-> picked]
      BY <2>1 DEF Attaches
    <3>2. Chosen \in Entry /\ (picked # Nothing => Chosen = picked)
      BY <1>2, <3>1, ChosenListed DEF TargetsInv
    <3> QED
      BY <1>2, <3>1, <3>2 DEF AttachOf, Entry
  <2>2. CASE Injects \/ FailsToAttach
    BY <1>3, <2>2 DEF Injects, FailsToAttach
  <2>3. CASE FindsProcess /\ Cardinality(Matching(attaching.target)) # 1
    BY <1>3, <2>3 DEF FindsProcess
  <2>4. CASE FindsProcess /\ Cardinality(Matching(attaching.target)) = 1
    <3> DEFINE p == CHOOSE q \in Matching(attaching.target) : TRUE
    <3>1. /\ attaching.step = "find"
          /\ attaching' = [attaching EXCEPT !.step = "open", !.found = p]
      BY <2>4 DEF FindsProcess
    <3>2. Matching(attaching.target) # {}
      BY <2>4, FS_EmptySet
    <3>3. p \in Matching(attaching.target)
      BY <3>2
    <3> HIDE DEF p
    <3>4. p \in Program /\ ExecutableOf(p) = ExecutableOf(attaching.target)
      BY <1>2, <3>3 DEF Matching, TargetShapes
    <3>5. attaching.for # Nothing => attaching.target = attaching.for
      BY <3>1 DEF TargetsInv
    <3>6. /\ attaching' \in AttachOf /\ attaching'.found = p
          /\ attaching'.target = attaching.target /\ attaching'.for = attaching.for
      BY <1>2, <3>1, <3>4 DEF AttachOf, Entry
    <3> QED
      BY <3>4, <3>5, <3>6
  <2> QED
    BY <2>1, <2>2, <2>3, <2>4
<1>5. TargetShapes'
  BY <1>1, <1>2, <1>4 DEF TargetShapes
<1>6. Chosen' = Chosen
  BY <1>1 DEF Chosen
<1> QED
  BY <1>1, <1>4, <1>5, <1>6 DEF TargetsInv

(* Every step keeps the invariant.                                         *)
LEMMA TargetsInvNext == TargetsInv /\ [TargetsNext]_targetVars => TargetsInv'
<1>1. SUFFICES ASSUME TargetsInv, [TargetsNext]_targetVars PROVE TargetsInv'
  OBVIOUS
<1>2. CASE UNCHANGED targetVars
  BY <1>1, <1>2 DEF targetVars, TargetsInv, TargetShapes, Vouched, Chosen
<1> QED
  BY <1>1, <1>2, ProgramsChangeInv, ListsProgramsInv, ReceivesListInv, PicksInv, SelectsInv,
     HearsInv, AttachingInv DEF TargetsNext

(* The process that is found runs what the user picked.                    *)
THEOREM FindsPickedCorrect == TargetsSpec => []FindsPicked
<1>1. TargetsInv => FindsPicked
  BY DEF TargetsInv, FindsPicked
<1> QED
  BY <1>1, TargetsInvInit, TargetsInvNext, PTL DEF TargetsSpec

(* A text is let pass only if its application is the one that is selected  *)
(* when the listener reads the selection, whatever is selected before it   *)
(* is sent.                                                                *)
THEOREM HearsChosenCorrect == TargetsSpec => HearsChosen
<1>1. ASSUME TargetsInv, TargetsNext, passing' # passing, passing' # Nothing
      PROVE  passing' = Chosen /\ picked \in {passing', Nothing}
  <2>1. PICK program \in Program : TextChanges(program)
    BY <1>1
       DEF TargetsNext, ProgramStarts, ProgramEnds, ListsPrograms, ReceivesList, Picks, Selects,
           SendsText, HearsText, Attaches, FailsToAttach, FindsProcess, Injects, Listener
  <2>2. passing' = forwarded
    BY <2>1 DEF TextChanges, LetsPass
  <2> QED
    BY <1>1, <2>2 DEF TargetsInv
<1>2. TargetsInv /\ [TargetsNext]_targetVars =>
        [passing' # passing /\ passing' # Nothing =>
           passing' = Chosen /\ picked \in {passing', Nothing}]_targetVars
  BY <1>1
<1> QED
  BY <1>2, TargetsInvInit, TargetsInvNext, PTL DEF TargetsSpec, HearsChosen

-----------------------------------------------------------------------------
(* Types and limits of the parts                                           *)

(* A set with room takes another member.                                   *)
LEMMA RoomForOne ==
  ASSUME NEW S, IsFiniteSet(S), NEW x, NEW n \in Nat, Cardinality(S) < n
  PROVE  IsFiniteSet(S \cup {x}) /\ Cardinality(S \cup {x}) <= n
<1>1. /\ IsFiniteSet(S \cup {x})
      /\ Cardinality(S \cup {x}) = IF x \in S THEN Cardinality(S) ELSE Cardinality(S) + 1
      /\ Cardinality(S) \in Nat
  BY FS_AddElement, FS_CardinalityType
<1> QED
  BY <1>1

(* A part of a set is no larger.                                           *)
LEMMA NoLarger ==
  ASSUME NEW S, IsFiniteSet(S), NEW T, T \subseteq S, NEW n \in Nat, Cardinality(S) <= n
  PROVE  IsFiniteSet(T) /\ Cardinality(T) <= n
<1>1. /\ IsFiniteSet(T) /\ Cardinality(T) <= Cardinality(S)
      /\ Cardinality(S) \in Nat /\ Cardinality(T) \in Nat
  BY FS_Subset, FS_CardinalityType
<1> QED
  BY <1>1

(* What the tables and the queue of the sender hold.                       *)
SenderLimits ==
  /\ Len(observed) <= QueueSize
  /\ at \in {"away", "read", "take", "flush", "send"}
  /\ wanted \subseteq announced /\ announced \subseteq Callsite
  /\ IsFiniteSet(announced) /\ Cardinality(announced) <= MaxCandidates
  /\ IsFiniteSet(Held) /\ Cardinality(Held) <= MaxPending

(* Nothing is held: no table is too large.                                 *)
LEMMA NothingHeldFits ==
  ASSUME NothingHeld PROVE IsFiniteSet(Held)' /\ Cardinality(Held)' <= MaxPending
<1>1. Held' = {}
  BY DEF NothingHeld, Held
<1> QED
  BY <1>1, FS_EmptySet, NativeSenderAssumption

(* A text that is held when no more can be displaces another.              *)
LEMMA HoldsFits ==
  ASSUME SenderTypes, SenderLimits, NEW s \in Callsite, NEW x \in Text, Holds(s, x)
  PROVE  IsFiniteSet(Held)' /\ Cardinality(Held)' <= MaxPending
<1>1. PICK gone \in Displaced(x) :
        held' = [y \in Text |-> IF y = x THEN <<s>> ELSE IF y \in gone THEN <<>> ELSE held[y]]
  BY DEF Holds
<1>2. Held' = (Held \ gone) \cup {x}
  BY <1>1 DEF Held
<1>3. /\ IsFiniteSet(Held) /\ Cardinality(Held) <= MaxPending /\ Cardinality(Held) \in Nat
      /\ MaxPending \in Nat /\ MaxPending # 0
  BY FS_CardinalityType, NativeSenderAssumption DEF SenderLimits
<1>4. CASE x \in Held
  <2>1. gone = {}
    BY <1>1, <1>4 DEF Displaced, Held
  <2>2. Held' = Held
    BY <1>2, <1>4, <2>1
  <2> QED
    BY <1>3, <2>2
<1>5. CASE x \notin Held /\ Cardinality(Held) < MaxPending
  <2>1. gone = {}
    BY <1>1, <1>5 DEF Displaced
  <2>2. Held' = Held \cup {x}
    BY <1>2, <2>1
  <2> QED
    BY <1>3, <1>5, <2>2, RoomForOne
<1>6. CASE x \notin Held /\ ~(Cardinality(Held) < MaxPending)
  <2>1. PICK y \in Held : gone = {y}
    BY <1>1, <1>6 DEF Displaced, Held
  <2>2. IsFiniteSet(Held \ {y}) /\ Cardinality(Held \ {y}) = Cardinality(Held) - 1
    BY <1>3, FS_RemoveElement
  <2>3. Cardinality(Held \ {y}) < MaxPending
    BY <1>3, <2>2
  <2>4. Held' = (Held \ {y}) \cup {x}
    BY <1>2, <2>1
  <2> QED
    BY <1>3, <2>2, <2>3, <2>4, RoomForOne
<1> QED
  BY <1>4, <1>5, <1>6

(* Every step of the loop keeps to the limits.                             *)
LEMMA SenderLimitsNext ==
  SenderInv /\ SenderLimits /\ [SenderNext]_senderVars => SenderLimits'
<1> SUFFICES ASSUME SenderInv, SenderLimits, [SenderNext]_senderVars PROVE SenderLimits'
  OBVIOUS
<1>0. SenderTypes /\ observed \in Seq(Callsite \X Text) /\ due \subseteq Held
  BY DEF SenderInv, SenderTypes, HeldOK
<1>1. ASSUME NEW s \in Callsite, NEW x \in Text, Draws(s, x) PROVE SenderLimits'
  <2>1. Len(observed') = Len(observed) + 1 /\ Len(observed) \in Nat /\ QueueSize \in Nat
    BY <1>0, <1>1, AppendProperties, LenProperties, NativeSenderAssumption DEF Draws
  <2>2. Len(observed') <= QueueSize
    BY <1>1, <2>1 DEF Draws
  <2> QED
    BY <1>1, <2>2 DEF Draws, SenderLimits, Held
<1>2. CASE Ticks
  BY <1>2 DEF Ticks, SenderLimits, Held
<1>3. CASE GetsThrough \/ Drops
  <2>1. NothingHeld /\ announced' = {} /\ wanted' = {} /\ observed' = observed
        /\ at' \in {"read", "away"}
    BY <1>3 DEF GetsThrough, Drops
  <2> QED
    BY <2>1, NothingHeldFits, FS_EmptySet, NativeSenderAssumption DEF SenderLimits
<1>4. CASE Reads
  BY <1>4 DEF Reads, SenderLimits, Held
<1>5. CASE ReadsTimeout \/ TakesNothing \/ Flushes \/ SentAll
  BY <1>5 DEF ReadsTimeout, TakesNothing, Flushes, SentAll, SenderLimits, Held
<1>6. CASE Sends
  <2>1. Held' \subseteq Held
    BY <1>0, <1>6 DEF Sends, Released, Held, SenderTypes
  <2>2. IsFiniteSet(Held)' /\ Cardinality(Held)' <= MaxPending
    BY <2>1, NoLarger, NativeSenderAssumption DEF SenderLimits
  <2> QED
    BY <1>6, <2>2 DEF Sends, SenderLimits
<1>7. CASE Takes
  <2> DEFINE s == Head(observed)[1]
             x == Head(observed)[2]
  <2>1. s \in Callsite /\ x \in Text
    <3>1. Head(observed) \in Callsite \X Text
      BY <1>0, <1>7, HeadTailProperties DEF Takes
    <3> QED
      BY <3>1
  <2>2. Len(observed') <= QueueSize
    <3>1. Len(observed') = Len(observed) - 1 /\ Len(observed) \in Nat /\ QueueSize \in Nat
      BY <1>0, <1>7, HeadTailProperties, LenProperties, NativeSenderAssumption DEF Takes
    <3> QED
      BY <3>1 DEF SenderLimits
  <2>3. /\ wanted' = wanted
        /\ \/ at' = "read" /\ UNCHANGED <<announced, held>>
           \/ /\ at' = "flush"
              /\ ~(s \notin announced /\ Cardinality(announced) >= MaxCandidates)
              /\ announced' = announced \cup {s}
              /\ held' = held \/ Holds(s, x)
    BY <1>7, Zenon DEF Takes
  <2> HIDE DEF s, x
  <2>4. IsFiniteSet(Held)' /\ Cardinality(Held)' <= MaxPending
    <3>1. held' = held => Held' = Held
      BY DEF Held
    <3> QED
      BY <1>0, <2>1, <2>3, <3>1, HoldsFits DEF SenderLimits
  <2>5. IsFiniteSet(announced') /\ Cardinality(announced') <= MaxCandidates
    <3>1. IsFiniteSet(announced) /\ Cardinality(announced) <= MaxCandidates
          /\ Cardinality(announced) \in Nat /\ MaxCandidates \in Nat
      BY FS_CardinalityType, NativeSenderAssumption DEF SenderLimits
    <3>2. CASE announced' = announced
      BY <3>1, <3>2
    <3>3. CASE announced' = announced \cup {s} /\ s \notin announced
               /\ ~(Cardinality(announced) >= MaxCandidates)
      BY <3>1, <3>3, RoomForOne
    <3> QED
      BY <2>3, <3>2, <3>3
  <2> QED
    BY <2>1, <2>2, <2>3, <2>4, <2>5 DEF SenderLimits
<1>8. CASE UNCHANGED senderVars
  BY <1>8 DEF senderVars, SenderLimits, Held
<1> QED
  BY <1>1, <1>2, <1>3, <1>4, <1>5, <1>6, <1>7, <1>8 DEF SenderNext, Loop

(* The tables of the sender stay within their limits.                      *)
LEMMA SenderTypesHold == SenderSpec => []SenderTypeOK
<1>1. SenderInit => SenderLimits
  <2> SUFFICES ASSUME SenderInit PROVE SenderLimits
    OBVIOUS
  <2>1. Len(<<>>) = 0 /\ Held = {}
    BY DEF SenderInit, Held
  <2>2. IsFiniteSet({}) /\ Cardinality({}) = 0
    BY FS_EmptySet
  <2>3. 0 <= QueueSize /\ 0 <= MaxPending /\ 0 <= MaxCandidates
    BY NativeSenderAssumption
  <2> QED
    BY <2>1, <2>2, <2>3 DEF SenderInit, SenderLimits
<1>2. SenderInv /\ SenderLimits => SenderTypeOK
  <2> SUFFICES ASSUME SenderInv, SenderLimits PROVE SenderTypeOK
    OBVIOUS
  <2>1. {<<>>} \cup {<<c>> : c \in Callsite} \subseteq {<<>>} \cup Seq(Callsite)
    OBVIOUS
  <2>2. held \in [Text -> {<<>>} \cup {<<c>> : c \in Callsite}]
    BY DEF SenderInv, SenderTypes
  <2>3. held \in [Text -> {<<>>} \cup Seq(Callsite)]
    <3> DEFINE Small == {<<>>} \cup {<<c>> : c \in Callsite}
               Large == {<<>>} \cup Seq(Callsite)
    <3>1. Small \subseteq Large /\ held \in [Text -> Small]
      BY <2>1, <2>2
    <3> HIDE DEF Small, Large
    <3>2. held \in [Text -> Large]
      BY <3>1
    <3> QED
      BY <3>2 DEF Large
  <2> QED
    BY <2>3 DEF SenderInv, SenderTypes, HeldOK, SenderLimits, SenderTypeOK
<1> QED
  BY <1>1, <1>2, SenderInvInit, SenderInvNext, SenderLimitsNext, PTL DEF SenderSpec

(* The positions of a worker are those of the type.                        *)
LEMMA WorkerPositions ==
  WorkerPCs = {"config", "slot", "install", "activate", "serve", "ended"} \cup Range(ResetOrder)
<1>1. Range(ResetOrder) = {ResetOrder[i] : i \in 1 .. 4}
  BY ResetSteps DEF Range
<1>2. Range(ResetOrder) = {ResetOrder[1], ResetOrder[2], ResetOrder[3], ResetOrder[4]}
  <2>1. 1 .. 4 = {1, 2, 3, 4}
    OBVIOUS
  <2> QED
    BY <1>1, <2>1
<1>3. Range(ResetOrder) = {"clear active", "clear slot", "disable hooks", "clear started"}
  BY <1>2, ResetSteps
<1> QED
  BY <1>3 DEF WorkerPCs

(* The flags and threads of the injected library.                          *)
WorkerLimits ==
  /\ slot \in 0 .. MaxWorkers /\ Len(worker) <= MaxWorkers /\ patched \subseteq Hooks
  /\ layout \in {"absent", "created", "enabled"}
  /\ starting \subseteq Injector
  /\ hooking \in [Detoured -> {"out", "create", "set", "enable"}]

(* A worker that moves on is still one of as many.                         *)
LEMMA AsManyWorkers ==
  ASSUME worker \in Seq(WorkerPCs), Len(worker) <= MaxWorkers,
         NEW n \in DOMAIN worker, NEW pc, worker' = [worker EXCEPT ![n] = pc]
  PROVE  Len(worker') <= MaxWorkers /\ n \in 1 .. MaxWorkers
<1>1. Len(worker) \in Nat /\ DOMAIN worker = 1 .. Len(worker) /\ MaxWorkers \in Nat
  BY LenProperties, WineWorkerAssumption
<1>2. DOMAIN worker' = 1 .. Len(worker)
  BY <1>1
<1>3. Len(worker') = Len(worker)
  BY <1>1, <1>2
<1> QED
  BY <1>1, <1>3

(* Every step keeps to them.                                               *)
LEMMA WorkerLimitsNext ==
  WorkerInv /\ WorkerLimits /\ [WorkerNext]_workerVars => WorkerLimits'
<1> SUFFICES ASSUME WorkerInv, WorkerLimits, [WorkerNext]_workerVars PROVE WorkerLimits'
  OBVIOUS
<1>0. worker \in Seq(WorkerPCs)
  BY DEF WorkerInv
<1>1. ASSUME NEW i \in Injector, Starts(i) \/ StartFails(i) PROVE WorkerLimits'
  BY <1>1 DEF Starts, StartFails, WorkerLimits, hookVars
<1>2. ASSUME NEW i \in Injector, SpawnsWorker(i) PROVE WorkerLimits'
  <2>1. Len(worker') = Len(worker) + 1 /\ Len(worker) \in Nat /\ MaxWorkers \in Nat
    BY <1>0, <1>2, AppendProperties, LenProperties, WineWorkerAssumption DEF SpawnsWorker
  <2>2. Len(worker') <= MaxWorkers
    BY <1>2, <2>1 DEF SpawnsWorker
  <2> QED
    BY <1>2, <2>2 DEF SpawnsWorker, WorkerLimits, hookVars, libraryVars
<1>3. ASSUME NEW n \in DOMAIN worker,
             \/ ReadsConfig(n) \/ FillsSlot(n) \/ Installs(n) \/ InstallFails(n)
             \/ Activates(n) \/ ShutsDown(n) \/ Resets(n)
      PROVE  WorkerLimits'
  <2>1. PICK pc : worker' = [worker EXCEPT ![n] = pc]
    <3>1. CASE Resets(n)
      BY <3>1, ResetGoes
    <3>2. CASE ReadsConfig(n)
      BY <3>2 DEF ReadsConfig, WorkerGoes
    <3> QED
      BY <1>3, <3>1, <3>2 DEF FillsSlot, Installs, InstallFails, Activates, ShutsDown, WorkerGoes
  <2>2. Len(worker') <= MaxWorkers /\ n \in 1 .. MaxWorkers
    BY <1>0, <2>1, AsManyWorkers DEF WorkerLimits
  <2>3. slot' \in {slot, n, 0}
    BY <1>3 DEF ReadsConfig, FillsSlot, Installs, InstallFails, Activates, ShutsDown, Resets,
               libraryVars
  <2>4. layout' \in {layout, "enabled", "created"}
    BY <1>3 DEF ReadsConfig, FillsSlot, Installs, InstallFails, Activates, ShutsDown, Resets,
               hookVars, Enabled
  <2>5. starting' = starting /\ hooking' = hooking
    BY <1>3 DEF ReadsConfig, FillsSlot, Installs, InstallFails, Activates, ShutsDown, Resets
  <2>6. slot' \in 0 .. MaxWorkers
    BY <2>2, <2>3, WineWorkerAssumption DEF WorkerLimits
  <2>7. patched' \subseteq Hooks
    <3>1. CASE Resets(n)
      BY <3>1 DEF Resets, WorkerLimits
    <3> QED
      BY <1>3, <3>1
         DEF ReadsConfig, FillsSlot, Installs, InstallFails, Activates, ShutsDown, WorkerLimits,
             libraryVars
  <2> QED
    BY <2>2, <2>4, <2>5, <2>6, <2>7 DEF WorkerLimits
<1>4. ASSUME NEW g \in Detoured,
             CreatesFactory(g) \/ CreatesHook(g) \/ SetsOriginal(g) \/ EnablesHook(g)
      PROVE  WorkerLimits'
  <2>1. PICK pc \in {"out", "create", "set", "enable"} : hooking' = [hooking EXCEPT ![g] = pc]
    BY <1>4 DEF CreatesFactory, CreatesHook, SetsOriginal, EnablesHook
  <2>2. hooking' \in [Detoured -> {"out", "create", "set", "enable"}]
    BY <2>1 DEF WorkerLimits
  <2>3. layout' \in {"absent", "created", "enabled"}
    <3>1. layout' \in {layout, "created", "enabled"}
      BY <1>4 DEF CreatesFactory, CreatesHook, SetsOriginal, EnablesHook, hookVars
    <3> QED
      BY <3>1 DEF WorkerLimits
  <2>4. slot' = slot /\ worker' = worker /\ starting' = starting /\ patched' = patched
    BY <1>4 DEF CreatesFactory, CreatesHook, SetsOriginal, EnablesHook, libraryVars
  <2> QED
    BY <2>2, <2>3, <2>4 DEF WorkerLimits
<1>5. CASE UNCHANGED workerVars
  BY <1>5 DEF workerVars, libraryVars, hookVars, WorkerLimits
<1> QED
  BY <1>1, <1>2, <1>3, <1>4, <1>5 DEF WorkerNext

(* The flags of the injected library stay within their types.              *)
LEMMA WorkerTypesHold == WorkerSpec => []WorkerTypeOK
<1>1. WorkerInit => WorkerLimits
  <2>1. Len(<<>>) = 0
    OBVIOUS
  <2> QED
    BY <2>1, WineWorkerAssumption DEF WorkerInit, WorkerLimits
<1>2. WorkerInv /\ WorkerLimits => WorkerTypeOK
  BY WorkerPositions DEF WorkerInv, WorkerLimits, WorkerTypeOK
<1> QED
  BY <1>1, <1>2, WorkerInvInit, WorkerInvNext, WorkerLimitsNext, PTL DEF WorkerSpec

-----------------------------------------------------------------------------
(* The book                                                                *)

(* The places of a finite set can be numbered from n on.                   *)
LEMMA NumberedFrom ==
  ASSUME NEW S, IsFiniteSet(S), NEW n \in Nat
  PROVE  \E f \in [S -> n + 1 .. n + Cardinality(S)] : \A p, q \in S : f[p] = f[q] => p = q
<1>1. Cardinality(S) \in Nat
  BY FS_CardinalityType
<1>2. PICK g \in [1 .. Cardinality(S) -> S] : \A p \in S : \E i \in 1 .. Cardinality(S) : g[i] = p
  BY FS_CardinalityType DEF ExistsBijection, Bijection, Surjection
<1> DEFINE Index(p) == CHOOSE i \in 1 .. Cardinality(S) : g[i] = p
           f == [p \in S |-> n + Index(p)]
<1>3. \A p \in S : Index(p) \in 1 .. Cardinality(S) /\ g[Index(p)] = p
  BY <1>2
<1> HIDE DEF Index
<1>4. f \in [S -> n + 1 .. n + Cardinality(S)]
  BY <1>1, <1>3
<1>5. ASSUME NEW p \in S, NEW q \in S, f[p] = f[q] PROVE p = q
  <2>1. Index(p) = Index(q)
    BY <1>1, <1>3, <1>5
  <2> QED
    BY <1>3, <2>1
<1> QED
  BY <1>4, <1>5

(* The book has as many places as it has room for, and its numbers are     *)
(* those that were made.                                                   *)
BookLimits ==
  /\ Known \subseteq Place /\ IsFiniteSet(Known) /\ Cardinality(Known) <= BookLimit
  /\ \A p \in Known : candidates[p] \in [id : 1 .. ids, advertised : BOOLEAN]
  /\ enabled \subseteq 1 .. ids /\ sentIds \subseteq 1 .. ids
  /\ ids \in 0 .. MaxIds /\ broken \in BOOLEAN

(* Every step of the book keeps to that.                                   *)
LEMMA BookLimitsNext == BookLimits /\ [BookNext]_bookVars => BookLimits'
<1> SUFFICES ASSUME BookLimits, [BookNext]_bookVars PROVE BookLimits'
  OBVIOUS
<1>0. /\ Known \subseteq Place /\ IsFiniteSet(Known) /\ Cardinality(Known) <= BookLimit
      /\ Cardinality(Known) \in Nat /\ ids \in Nat /\ MaxIds \in Nat /\ BookLimit \in Nat
  BY FS_CardinalityType, BookAssumption DEF BookLimits
<1>1. CASE Reconnects
  <2> DEFINE number == CHOOSE f \in [Known -> ids + 1 .. ids + Cardinality(Known)] :
                         \A p, q \in Known : f[p] = f[q] => p = q
             fresh == [p \in Known |-> Renewed(p, number[p])]
             unannounced == {fresh[p].id : p \in {q \in Known : ~fresh[q].advertised}}
  <2>1. /\ candidates' = [p \in Known |-> [fresh[p] EXCEPT !.advertised = TRUE]]
        /\ sentIds' \subseteq unannounced /\ (~broken' => sentIds' = unannounced)
        /\ ids' = ids + Cardinality(Known) /\ enabled' = {}
        /\ ids + Cardinality(Known) <= MaxIds /\ broken' \in BOOLEAN
    BY <1>1 DEF Reconnects
  <2>2. number \in [Known -> ids + 1 .. ids + Cardinality(Known)]
    BY <1>0, NumberedFrom
  <2> HIDE DEF number
  <2>3. Known' = Known
    BY <2>1 DEF Known
  <2>4. ids' \in 0 .. MaxIds
    BY <1>0, <2>1
  <2>5. \A p \in Known : number[p] \in 1 .. ids'
    BY <1>0, <2>1, <2>2
  <2>6. \A p \in Known : candidates'[p] = [id |-> number[p], advertised |-> TRUE]
    BY <2>1 DEF Renewed
  <2>7. \A p \in Known : candidates'[p] \in [id : 1 .. ids', advertised : BOOLEAN]
    <3>1. \A n \in 1 .. ids' : [id |-> n, advertised |-> TRUE] \in [id : 1 .. ids', advertised : BOOLEAN]
      BY Zenon
    <3> QED
      BY <2>5, <2>6, <3>1, Zenon
  <2>8. sentIds' \subseteq 1 .. ids'
    BY <2>1, <2>5 DEF Renewed
  <2> QED
    BY <1>0, <2>1, <2>3, <2>4, <2>7, <2>8 DEF BookLimits
<1>2. CASE Unlinks
  BY <1>2 DEF Unlinks, BookLimits, Known
<1>3. ASSUME NEW id \in 1 .. MaxIds, SetsEnabled(id) PROVE BookLimits'
  BY <1>3 DEF SetsEnabled, BookLimits, Known
<1>4. ASSUME NEW place \in Place, ObservesNew(place) \/ ObservationFails(place)
      PROVE  BookLimits'
  <2>1. /\ ids' = ids + 1 /\ ids < MaxIds /\ sentIds' \subseteq sentIds \cup {ids + 1}
        /\ enabled' \subseteq enabled /\ broken' \in BOOLEAN /\ Cardinality(Known) < BookLimit
        /\ candidates' = [p \in Known \cup {place} |->
                            IF p = place THEN [id |-> ids + 1, advertised |-> TRUE]
                            ELSE candidates[p]]
    BY <1>4 DEF ObservesNew, ObservationFails, AddsPlace, HasRoom, BookLimits
  <2>2. Known' = Known \cup {place}
    BY <2>1 DEF Known
  <2>3. IsFiniteSet(Known') /\ Cardinality(Known') <= BookLimit
    BY <1>0, <2>1, <2>2, RoomForOne
  <2>4. ids' \in 0 .. MaxIds /\ 1 .. ids \subseteq 1 .. ids' /\ ids + 1 \in 1 .. ids'
    BY <1>0, <2>1
  <2>5. \A p \in Known' : candidates'[p] \in [id : 1 .. ids', advertised : BOOLEAN]
    <3>1. ASSUME NEW p \in Known' PROVE candidates'[p] \in [id : 1 .. ids', advertised : BOOLEAN]
      <4>1. CASE p = place
        BY <2>1, <2>4, <4>1
      <4>2. CASE p # place
        <5>1. p \in Known /\ candidates'[p] = candidates[p]
          BY <2>1, <2>2, <4>2
        <5>2. candidates[p] \in [id : 1 .. ids, advertised : BOOLEAN]
          BY <5>1 DEF BookLimits
        <5> QED
          BY <2>4, <5>1, <5>2
      <4> QED
        BY <4>1, <4>2
    <3> QED
      BY <3>1
  <2> QED
    BY <1>0, <2>1, <2>2, <2>3, <2>4, <2>5 DEF BookLimits
<1>5. CASE UNCHANGED bookVars
  BY <1>5 DEF bookVars, BookLimits, Known
<1> QED
  BY <1>1, <1>2, <1>3, <1>4, <1>5 DEF BookNext

(* The book keeps its limit.                                               *)
LEMMA BookTypesHold == BookSpec => []BookTypeOK
<1>1. BookInit => BookLimits
  <2> SUFFICES ASSUME BookInit PROVE BookLimits
    OBVIOUS
  <2>1. Known = {} /\ IsFiniteSet({}) /\ Cardinality({}) = 0
    BY FS_EmptySet DEF BookInit, Known
  <2> QED
    <3>1. ids = 0 /\ enabled = {} /\ sentIds = {} /\ broken = FALSE
      BY DEF BookInit
    <3>2. BookLimit \in Nat /\ MaxIds \in Nat
      BY BookAssumption
    <3>3. 0 <= BookLimit /\ 0 \in 0 .. MaxIds
      BY <3>2
    <3> QED
      BY <2>1, <3>1, <3>3 DEF BookLimits
<1>2. BookLimits => BookTypeOK
  BY BookAssumption DEF BookLimits, BookTypeOK
<1> QED
  BY <1>1, <1>2, BookLimitsNext, PTL DEF BookSpec

-----------------------------------------------------------------------------
(* The tables of texts and the payload files                               *)

(* A table of texts has keys that are addresses, and no more than fit.     *)
TableFits(table) ==
  /\ DOMAIN table \subseteq Address /\ IsFiniteSet(DOMAIN table)
  /\ Cardinality(DOMAIN table) <= TableLimit
AssocLimits == (\A T \in Table : TableFits(texts[T])) /\ missed \subseteq 1 .. Made

(* Addresses have a least one.                                             *)
LEMMA SmallestAddress ==
  ASSUME NEW B \in SUBSET Nat, B # {}
  PROVE  \E x \in B : \A y \in B : x <= y
<1> DEFINE R == OpToRel(<, Nat)
<1>1. PICK x \in B : \A y \in B : ~(<<y, x>> \in R)
  BY WFMin, NatLessThanWellFounded
<1>2. \A y \in B : ~(y < x)
  BY <1>1 DEF OpToRel
<1>3. \A y \in B : x <= y
  BY <1>2
<1> QED
  BY <1>3

(* A text more makes a table too large only if another one does not go.    *)
LEMMA AssociatedFits ==
  ASSUME NEW table, TableFits(table), NEW a \in Address, NEW n
  PROVE  TableFits(Associated(table, a, n))
<1> DEFINE full == Cardinality(DOMAIN table) >= TableLimit /\ a \notin DOMAIN table
           kept == IF full THEN DOMAIN table \ {Min(DOMAIN table)} ELSE DOMAIN table
<1>1. /\ DOMAIN table \subseteq Address /\ IsFiniteSet(DOMAIN table)
      /\ Cardinality(DOMAIN table) <= TableLimit /\ Cardinality(DOMAIN table) \in Nat
      /\ TableLimit \in Nat \ {0} /\ Address \subseteq Nat
  BY FS_CardinalityType, AssociationsAssumption DEF TableFits
<1>2. DOMAIN Associated(table, a, n) = kept \cup {a}
  BY DEF Associated
<1>3. CASE full
  <2>1. DOMAIN table # {}
    BY <1>1, <1>3, FS_EmptySet
  <2>2. Min(DOMAIN table) \in DOMAIN table
    <3>1. \E x \in DOMAIN table : \A y \in DOMAIN table : x <= y
      BY <1>1, <2>1, SmallestAddress
    <3> QED
      BY <3>1 DEF Min
  <2>3. /\ IsFiniteSet(kept)
        /\ Cardinality(kept) = Cardinality(DOMAIN table) - 1
    BY <1>1, <1>3, <2>2, FS_RemoveElement
  <2>4. Cardinality(kept) < TableLimit
    BY <1>1, <2>3
  <2>5. kept \subseteq DOMAIN table
    OBVIOUS
  <2> HIDE DEF kept
  <2>6. IsFiniteSet(kept \cup {a}) /\ Cardinality(kept \cup {a}) <= TableLimit
    BY <1>1, <2>3, <2>4, RoomForOne
  <2> QED
    BY <1>1, <1>2, <2>5, <2>6 DEF TableFits
<1>4. CASE ~full /\ a \in DOMAIN table
  <2>1. DOMAIN Associated(table, a, n) = DOMAIN table
    BY <1>2, <1>4
  <2> QED
    BY <1>1, <2>1 DEF TableFits
<1>5. CASE ~full /\ a \notin DOMAIN table
  <2>1. Cardinality(DOMAIN table) < TableLimit
    BY <1>1, <1>5
  <2>2. DOMAIN Associated(table, a, n) = DOMAIN table \cup {a}
    BY <1>2, <1>5
  <2> QED
    BY <1>1, <2>1, <2>2, RoomForOne DEF TableFits
<1> QED
  BY <1>3, <1>4, <1>5

(* Every step keeps the tables within their limit.                         *)
LEMMA AssocLimitsNext == AssocInv /\ AssocLimits /\ [AssocNext]_assocVars => AssocLimits'
<1> SUFFICES ASSUME AssocInv, AssocLimits, [AssocNext]_assocVars PROVE AssocLimits'
  OBVIOUS
<1>0. /\ Made \in Nat /\ objects \in [1 .. Made -> ObjectOf] /\ live \subseteq 1 .. Made
      /\ DOMAIN texts = Table /\ doing \in [Drawing -> CallOf]
      /\ \A t \in Drawing : CallOK(doing[t].call, doing[t].object)
  BY DEF AssocInv, AssocShapes, CallsOK
<1>1. ASSUME NEW t \in Drawing, NEW kind \in Kind, NEW a \in Address, NEW text \in BOOLEAN,
             Makes(t, kind, a, text)
      PROVE  AssocLimits'
  <2>1. DOMAIN objects' = 1 .. Made + 1 /\ texts' = texts /\ missed' = missed
    BY <1>0, <1>1 DEF Makes, Made
  <2>2. Made' = Made + 1
    BY <1>0, <2>1, FS_Interval DEF Made
  <2>3. 1 .. Made \subseteq 1 .. Made'
    BY <1>0, <2>2
  <2> QED
    BY <2>1, <2>3 DEF AssocLimits
<1>2. ASSUME NEW t \in Drawing, doing[t].call # "none"
      PROVE  /\ doing[t].object \in 1 .. Made /\ Of(t).address \in Address
             /\ TableOf(t) \in Table
  <2>1. doing[t].object \in 0 .. Made /\ doing[t].object # 0
    BY <1>0, <1>2 DEF CallOK
  <2>2. doing[t].object \in 1 .. Made
    BY <1>0, <2>1
  <2> QED
    BY <1>0, <2>2, LibraryTable DEF Of, TableOf, ObjectOf, AssocInv
<1>3. ASSUME NEW t \in Drawing, Associates(t) PROVE AssocLimits'
  <2>1. /\ texts' = [texts EXCEPT ![TableOf(t)] =
                       Associated(texts[TableOf(t)], Of(t).address, doing[t].object)]
        /\ doing[t].call # "none" /\ missed' = missed /\ objects' = objects
    BY <1>3 DEF Associates
  <2>2. Of(t).address \in Address /\ TableOf(t) \in Table /\ Made' = Made
    BY <1>2, <2>1 DEF Made
  <2>3. TableFits(Associated(texts[TableOf(t)], Of(t).address, doing[t].object))
    BY <2>2, AssociatedFits DEF AssocLimits
  <2>4. \A T \in Table : texts'[T] = texts[T] \/ TableFits(texts'[T])
    BY <1>0, <2>1, <2>3
  <2> QED
    BY <2>1, <2>2, <2>4 DEF AssocLimits
<1>4. ASSUME NEW t \in Drawing, Removes(t) PROVE AssocLimits'
  <2> DEFINE kept == [a \in DOMAIN texts[TableOf(t)] \ RemovedAddresses(t) |-> texts[TableOf(t)][a]]
  <2>1. /\ texts' = [texts EXCEPT ![TableOf(t)] = kept]
        /\ doing[t].call # "none" /\ missed' = missed /\ objects' = objects
    BY <1>4 DEF Removes
  <2>2. TableOf(t) \in Table /\ Made' = Made
    BY <1>2, <2>1 DEF Made
  <2>3. TableFits(kept)
    <3>1. TableFits(texts[TableOf(t)]) /\ DOMAIN kept \subseteq DOMAIN texts[TableOf(t)]
      BY <2>2 DEF AssocLimits
    <3> HIDE DEF kept
    <3> QED
      BY <3>1, NoLarger, AssociationsAssumption DEF TableFits
  <2> HIDE DEF kept
  <2>4. \A T \in Table : texts'[T] = texts[T] \/ TableFits(texts'[T])
    BY <1>0, <2>1, <2>3
  <2> QED
    BY <2>1, <2>2, <2>4 DEF AssocLimits
<1>5. ASSUME NEW t \in Drawing, Misses(t) PROVE AssocLimits'
  <2>1. /\ missed' \subseteq missed \cup {doing[t].object} /\ doing[t].call # "none"
        /\ UNCHANGED <<objects, texts>>
    BY <1>5 DEF Misses
  <2>2. doing[t].object \in 1 .. Made /\ Made' = Made
    BY <1>2, <2>1 DEF Made
  <2> QED
    BY <2>1, <2>2 DEF AssocLimits
<1>6. CASE UNCHANGED <<objects, texts, missed>>
  BY <1>6 DEF AssocLimits, Made
<1>7. ASSUME NEW t \in Drawing, Emits(t) \/ \E n \in live : DrawsObject(t, n) \/ FreesObject(t, n)
      PROVE  AssocLimits'
  BY <1>6, <1>7 DEF Emits, DrawsObject, FreesObject
<1>8. CASE UNCHANGED assocVars
  BY <1>6, <1>8 DEF assocVars
<1> QED
  BY <1>1, <1>3, <1>4, <1>5, <1>7, <1>8 DEF AssocNext

(* The tables of texts keep their types.                                   *)
LEMMA AssocTypesHold == AssocSpec => []AssocTypeOK
<1>1. AssocInit => AssocLimits
  <2> SUFFICES ASSUME AssocInit PROVE AssocLimits
    OBVIOUS
  <2>1. DOMAIN <<>> = {} /\ IsFiniteSet({}) /\ Cardinality({}) = 0 /\ 0 <= TableLimit
    BY FS_EmptySet, AssociationsAssumption
  <2>2. \A T \in Table : DOMAIN texts[T] = {}
    BY <2>1 DEF AssocInit
  <2>3. missed \subseteq 1 .. Made
    BY DEF AssocInit
  <2> QED
    BY <2>1, <2>2, <2>3 DEF AssocLimits, TableFits
<1>2. AssocInv /\ AssocLimits => AssocTypeOK
  <2> SUFFICES ASSUME AssocInv, AssocLimits PROVE AssocTypeOK
    OBVIOUS
  <2>1. /\ Made \in Nat /\ objects \in [1 .. Made -> ObjectOf] /\ live \subseteq 1 .. Made
        /\ emitted \in (0 .. Made) \X (0 .. Made)
    BY DEF AssocInv, AssocShapes
  <2>2. DOMAIN objects = 1 .. Made /\ DOMAIN objects = 1 .. Cardinality(DOMAIN objects)
    BY <2>1 DEF Made
  <2>3. \A n \in DOMAIN objects : objects[n] \in [kind : Kind, address : Address, text : BOOLEAN]
    <3>1. \A n \in DOMAIN objects : objects[n] \in ObjectOf
      BY <2>1
    <3> QED
      BY <3>1 DEF ObjectOf
  <2>4. 0 .. Made = DOMAIN objects \cup {0}
    BY <2>1, <2>2
  <2>5. \A i \in 1 .. 2 : emitted[i] \in DOMAIN objects \cup {0}
    <3>1. emitted[1] \in 0 .. Made /\ emitted[2] \in 0 .. Made
      BY <2>1
    <3>2. \A i \in 1 .. 2 : i = 1 \/ i = 2
      OBVIOUS
    <3> QED
      BY <2>4, <3>1, <3>2
  <2>6. \A t \in Drawing : doing[t].object \in DOMAIN objects \cup {0}
    BY <2>4 DEF AssocInv, CallsOK, CallOK
  <2>7. \A T \in Table : /\ DOMAIN texts[T] \subseteq Address
                         /\ Cardinality(DOMAIN texts[T]) <= TableLimit
                         /\ \A a \in DOMAIN texts[T] : texts[T][a] \in DOMAIN objects
    BY <2>2 DEF AssocInv, EntriesOK, AssocLimits, TableFits
  <2>8. live \subseteq DOMAIN objects /\ missed \subseteq DOMAIN objects
    BY <2>1, <2>2 DEF AssocLimits
  <2> QED
    BY <2>2, <2>3, <2>5, <2>6, <2>7, <2>8 DEF AssocTypeOK
<1> QED
  BY <1>1, <1>2, AssocInvInit, AssocInvNext, AssocLimitsNext, PTL DEF AssocSpec

(* What is torn is a file.                                                 *)
TornOK == torn \subseteq Digest \X Writer

(* Every step of a writer tears nothing else.                              *)
LEMMA TornNext ==
  BlobInv /\ TornOK /\ [BlobNext]_blobVars => TornOK'
<1> SUFFICES ASSUME BlobInv, torn \subseteq Digest \X Writer, [BlobNext]_blobVars
             PROVE  torn' \subseteq Digest \X Writer
  BY DEF TornOK
<1>1. ASSUME NEW w \in Writer, WriterEnds(w) PROVE torn' \subseteq Digest \X Writer
  <2>1. CASE IsAt(w, "fill")
    <3>1. torn' = torn \cup {<<DigestOf(w), writing[w].file>>}
      BY <1>1, <2>1 DEF WriterEnds
    <3>2. DigestOf(w) \in Digest /\ writing[w].file \in Writer
      BY <2>1 DEF BlobInv, BlobTypes, DigestOf, IsAt
    <3> QED
      BY <3>1, <3>2
  <2>2. CASE ~IsAt(w, "fill")
    BY <1>1, <2>2 DEF WriterEnds
  <2> QED
    BY <2>1, <2>2
<1>2. ASSUME NEW w \in Writer,
             \/ ChecksBlob(w) \/ OpensTemporary(w) \/ FillsTemporary(w)
             \/ RenamesTemporary(w) \/ RefersToBlob(w)
      PROVE  torn' \subseteq Digest \X Writer
  <2>1. torn' \subseteq torn
    BY <1>2 DEF ChecksBlob, OpensTemporary, FillsTemporary, RenamesTemporary, RefersToBlob
  <2> QED
    BY <2>1
<1>3. CASE UNCHANGED blobVars
  BY <1>3 DEF blobVars
<1> QED
  BY <1>1, <1>2, <1>3 DEF BlobNext

(* The files of payloads keep their types.                                 *)
LEMMA BlobTypesHold == BlobSpec => []BlobTypeOK
<1>1. BlobInit => TornOK
  BY DEF BlobInit, TornOK
<1>2. BlobInv /\ TornOK => BlobTypeOK
  <2> SUFFICES ASSUME BlobInv, TornOK PROVE BlobTypeOK
    OBVIOUS
  <2>1. \A w \in Writer : writing[w].pc \in FilePCs
    BY DEF BlobInv, BlobTypes
  <2> QED
    BY <2>1 DEF BlobInv, BlobTypes, PublishedOK, BlobTypeOK, FilePCs, TornOK
<1> QED
  BY <1>1, <1>2, BlobInvInit, BlobInvNext, TornNext, PTL DEF BlobSpec

-----------------------------------------------------------------------------
(* Capture, ingestion and targets                                          *)

(* The captures that were started, and the places of their queues.         *)
FrameLimits ==
  /\ spawned \in 0 .. MaxStreams /\ receiver \in 0 .. spawned
  /\ capturing \subseteq 1 .. spawned /\ stopped \subseteq 1 .. spawned
  /\ handed \subseteq 1 .. spawned /\ settingUp \subseteq 1 .. spawned
  /\ \A s \in Stream : Len(frames[s]) <= FrameQueue
  /\ arrived \in 0 .. MaxFrames
  /\ Len(encoding) \in {0, 2}

(* Every step keeps to them.                                               *)
LEMMA FrameLimitsNext == QueuesOK /\ FrameLimits /\ [FramesNext]_frameVars => FrameLimits'
<1> SUFFICES ASSUME QueuesOK, FrameLimits, [FramesNext]_frameVars PROVE FrameLimits'
  OBVIOUS
<1>0. /\ MaxStreams \in Nat /\ MaxFrames \in Nat /\ FrameQueue \in Nat
      /\ spawned \in Nat /\ arrived \in Nat /\ DOMAIN frames = Stream
      /\ \A s \in Stream : frames[s] \in Seq(FrameOf)
  BY FramesAssumption DEF FrameLimits, QueuesOK
<1>1. CASE SpawnsCapture
  <2>1. spawned' = spawned + 1 /\ spawned < MaxStreams
    BY <1>1 DEF SpawnsCapture
  <2>2. /\ spawned' \in 0 .. MaxStreams /\ 1 .. spawned \subseteq 1 .. spawned'
        /\ 0 .. spawned \subseteq 0 .. spawned' /\ spawned + 1 \in 1 .. spawned'
    BY <1>0, <2>1
  <2> QED
    BY <1>1, <2>2 DEF SpawnsCapture, FrameLimits, Queues, Vision
<1>2. ASSUME NEW s \in Stream, ReceivesCapture(s) PROVE FrameLimits'
  <2>1. /\ s \in 1 .. spawned /\ receiver' = s /\ spawned' = spawned
        /\ handed' \subseteq 1 .. spawned /\ stopped' = stopped \cup ({receiver} \ {0})
    BY <1>2 DEF ReceivesCapture, StoppedWith, FrameLimits
  <2>2. stopped' \subseteq 1 .. spawned' /\ receiver' \in 0 .. spawned'
    BY <1>0, <2>1 DEF FrameLimits
  <2> QED
    BY <1>2, <2>1, <2>2 DEF ReceivesCapture, FrameLimits, Queues, Vision
<1>3. ASSUME NEW s \in Stream, NEW p \in Picture, FrameArrives(s, p) PROVE FrameLimits'
  <2>1. CASE s \in stopped
    BY <1>3, <2>1 DEF FrameArrives, FrameLimits, Queues, Vision
  <2>2. CASE s \notin stopped
    <3> DEFINE frame == [stream |-> s, n |-> arrived + 1, picture |-> p]
    <3>1. /\ arrived' = arrived + 1 /\ arrived < MaxFrames
          /\ \/ frames' = [frames EXCEPT ![s] = frames[s]]
             \/ /\ frames' = [frames EXCEPT ![s] = Append(frames[s], frame)]
                /\ Len(frames[s]) # FrameQueue
          /\ UNCHANGED <<spawned, settingUp, stopped, handed, receiver, capturing, encoding>>
      BY <1>3, <2>2, Zenon DEF FrameArrives, Vision
    <3>2. /\ Len(Append(frames[s], frame)) = Len(frames[s]) + 1
          /\ Len(frames[s]) \in Nat /\ Len(frames[s]) <= FrameQueue
      BY <1>0, AppendProperties, LenProperties DEF FrameLimits
    <3> HIDE DEF frame
    <3>3. \A u \in Stream : Len(frames'[u]) <= FrameQueue
      BY <1>0, <3>1, <3>2 DEF FrameLimits
    <3>4. arrived' \in 0 .. MaxFrames
      BY <1>0, <3>1
    <3> QED
      BY <3>1, <3>3, <3>4 DEF FrameLimits
  <2> QED
    BY <2>1, <2>2
<1>4. CASE PollsFrame \/ DrainsFrame
  <2>1. /\ receiver \in Stream /\ frames[receiver] # <<>>
        /\ frames' = [frames EXCEPT ![receiver] = Tail(frames[receiver])]
        /\ UNCHANGED <<spawned, capturing, settingUp, stopped, handed, receiver, arrived, encoding>>
    BY <1>4 DEF PollsFrame, DrainsFrame, Capturers, QueuesOK
  <2>2. Len(Tail(frames[receiver])) <= FrameQueue
    BY <1>0, <2>1, HeadTailProperties, LenProperties DEF FrameLimits
  <2>3. \A u \in Stream : Len(frames'[u]) <= FrameQueue
    BY <1>0, <2>1, <2>2 DEF FrameLimits
  <2> QED
    BY <2>1, <2>3 DEF FrameLimits
<1>5. CASE BeginsEncoding \/ Encodes
  <2>1. Len(encoding') \in {0, 2} /\ UNCHANGED <<Capturers, Queues>>
    BY <1>5 DEF BeginsEncoding, Encodes
  <2> QED
    BY <2>1 DEF Capturers, Queues, FrameLimits
<1>6. ASSUME NEW s \in Stream, SetsUp(s) \/ SetupFails(s) PROVE FrameLimits'
  BY <1>6 DEF SetsUp, SetupFails, FrameLimits, Queues, Vision
<1>7. CASE UNCHANGED frameVars
  BY <1>7 DEF frameVars, FrameLimits
<1> QED
  BY <1>1, <1>2, <1>3, <1>4, <1>5, <1>6, <1>7 DEF FramesNext

(* Queues of frames keep their limit.                                      *)
LEMMA FramesTypesHold == FramesSpec => []FramesTypeOK
<1>1. FramesInit => FrameLimits
  <2>1. Len(<<>>) = 0
    OBVIOUS
  <2> QED
    BY <2>1, FramesAssumption DEF FramesInit, FrameLimits
<1>2. FrameLimits => FramesTypeOK
  BY DEF FrameLimits, FramesTypeOK
<1> QED
  BY <1>1, <1>2, QueuesInit, FramesKeep, FrameLimitsNext, PTL DEF FramesSpec

(* What the sampler remembers.                                             *)
SamplerTypes ==
  /\ lastAccepted \in {Never} \cup 0 .. MaxTime
  /\ recentDigests \in Seq(Sample) /\ Len(recentDigests) <= RecentCapacity
  /\ caching \in BOOLEAN /\ {cachedFrame, returned} \subseteq Sample \cup {NoSample}

(* The oldest digest makes room for a new one.                             *)
LEMMA RecentFits ==
  ASSUME SamplerTypes, NEW s \in Sample
  PROVE  WithRecent(s) \in Seq(Sample) /\ Len(WithRecent(s)) <= RecentCapacity
<1>1. /\ recentDigests \in Seq(Sample) /\ Len(recentDigests) <= RecentCapacity
      /\ Len(recentDigests) \in Nat /\ RecentCapacity \in Nat
  BY LenProperties, IngestionAssumption DEF SamplerTypes
<1>2. CASE RecentCapacity = 0
  BY <1>1, <1>2 DEF WithRecent
<1>3. CASE RecentCapacity # 0 /\ Len(recentDigests) = RecentCapacity
  <2>1. recentDigests # <<>>
    BY <1>1, <1>3, EmptySeq
  <2>2. Tail(recentDigests) \in Seq(Sample) /\ Len(Tail(recentDigests)) = Len(recentDigests) - 1
    BY <1>1, <2>1, HeadTailProperties
  <2>3. /\ Append(Tail(recentDigests), s) \in Seq(Sample)
        /\ Len(Append(Tail(recentDigests), s)) = Len(recentDigests) - 1 + 1
    BY <2>2, AppendProperties
  <2> QED
    BY <1>1, <1>3, <2>3 DEF WithRecent
<1>4. CASE RecentCapacity # 0 /\ Len(recentDigests) # RecentCapacity
  <2>1. /\ Append(recentDigests, s) \in Seq(Sample)
        /\ Len(Append(recentDigests, s)) = Len(recentDigests) + 1
    BY <1>1, AppendProperties
  <2> QED
    BY <1>1, <1>4, <2>1 DEF WithRecent
<1> QED
  BY <1>2, <1>3, <1>4

(* Every call of the sampler keeps the types.                              *)
LEMMA SamplerTypesNext == SamplerTypes /\ [SamplerNext]_samplerVars => SamplerTypes'
<1> SUFFICES ASSUME SamplerTypes, [SamplerNext]_samplerVars PROVE SamplerTypes'
  OBVIOUS
<1>1. ASSUME NEW time \in 0 .. MaxTime, NEW s \in Sample, SamplesCached(time, s)
      PROVE  SamplerTypes'
  BY <1>1 DEF SamplesCached, SamplerTypes
<1>2. ASSUME NEW time \in 0 .. MaxTime, NEW s \in Sample, SamplesNew(time, s)
      PROVE  SamplerTypes'
  <2>1. /\ lastAccepted' = time /\ returned' = s /\ recentDigests' = WithRecent(s)
        /\ cachedFrame' \in {s, cachedFrame} /\ caching' = caching
    BY <1>2 DEF SamplesNew
  <2>2. WithRecent(s) \in Seq(Sample) /\ Len(WithRecent(s)) <= RecentCapacity
    BY RecentFits
  <2> QED
    BY <2>1, <2>2 DEF SamplerTypes
<1>3. ASSUME NEW config \in BOOLEAN, SetsCacheConfig(config) PROVE SamplerTypes'
  <2>1. cachedFrame' \in {cachedFrame, NoSample}
    BY <1>3 DEF SetsCacheConfig, CachedUnder
  <2>2. caching' \in BOOLEAN
    BY <1>3, Zenon DEF SetsCacheConfig
  <2>3. UNCHANGED <<lastAccepted, recentDigests, returned>>
    BY <1>3 DEF SetsCacheConfig
  <2> QED
    BY <2>1, <2>2, <2>3 DEF SamplerTypes
<1>4. CASE UNCHANGED samplerVars
  BY <1>4 DEF samplerVars, SamplerTypes
<1> QED
  BY <1>1, <1>2, <1>3, <1>4 DEF SamplerNext

(* No segment is open, so there is no silence in it.                       *)
SilenceOK == silentSamples \in Nat /\ (openSegment = <<>> => silentSamples = 0)

(* Every call of the segmenter keeps count of it.                          *)
LEMMA SilenceNext ==
  SegmentedOK /\ SilenceOK /\ [SegmenterNext]_segmenterVars => SilenceOK'
<1> SUFFICES ASSUME SegmentedOK, SilenceOK, [SegmenterNext]_segmenterVars PROVE SilenceOK'
  OBVIOUS
<1>1. ASSUME NEW voiced \in BOOLEAN, NEW length \in ChunkLength, PushesChunk(voiced, length)
      PROVE  SilenceOK'
  <2>1. openSegment \in Seq(Nat) /\ Len(spoken) + 1 \in Nat
    BY LenProperties DEF SegmentedOK, Segmented
  <2>2. Append(openSegment, Len(spoken) + 1) # <<>>
    BY <2>1, AppendProperties
  <2>3. length \in Nat
    BY IngestionAssumption
  <2>4. \/ UNCHANGED <<openSegment, silentSamples>>
        \/ silentSamples' = 0
        \/ /\ openSegment' = Append(openSegment, Len(spoken) + 1)
           /\ silentSamples' \in {0, silentSamples + length}
    BY <1>1, Zenon DEF PushesChunk, TakesSegment
  <2> QED
    BY <2>2, <2>3, <2>4 DEF SilenceOK
<1>2. CASE FlushesSegment
  BY <1>2 DEF FlushesSegment, TakesSegment, SilenceOK
<1>3. CASE UNCHANGED segmenterVars
  BY <1>3 DEF segmenterVars, SilenceOK
<1> QED
  BY <1>1, <1>2, <1>3 DEF SegmenterNext

(* The sampler and the segmenter keep their types, each on its own.        *)
LEMMA IngestionTypesHold ==
  SamplerSpec /\ SegmenterSpec => []IngestionTypeOK
<1>1. IngestionInit => SamplerTypes /\ SilenceOK
  <2> SUFFICES ASSUME IngestionInit PROVE SamplerTypes /\ SilenceOK
    OBVIOUS
  <2>1. recentDigests \in Seq(Sample) /\ Len(recentDigests) = 0
    BY EmptySeq DEF IngestionInit
  <2>2. Len(recentDigests) <= RecentCapacity
    BY <2>1, IngestionAssumption
  <2>3. caching \in BOOLEAN
    BY Zenon DEF IngestionInit
  <2>4. /\ lastAccepted = Never /\ cachedFrame = NoSample /\ returned = NoSample
        /\ silentSamples = 0
    BY DEF IngestionInit
  <2> QED
    BY <2>1, <2>2, <2>3, <2>4 DEF SamplerTypes, SilenceOK
<1>2. SamplerTypes /\ SilenceOK /\ SegmentedOK => IngestionTypeOK
  <2> SUFFICES ASSUME SamplerTypes, SilenceOK, SegmentedOK PROVE IngestionTypeOK
    OBVIOUS
  <2>1. /\ spoken \in Seq(ChunkOf) /\ openSegment \in Seq(Nat)
        /\ openSegment # <<>> => RunOf(openSegment, spoken) /\ LastOf(openSegment) = Len(spoken)
    BY DEF SegmentedOK, Segmented
  <2>2. DOMAIN openSegment = 1 .. Len(openSegment) /\ Len(openSegment) \in Nat
        /\ DOMAIN spoken = 1 .. Len(spoken) /\ Len(spoken) \in Nat
    BY <2>1, LenProperties
  <2>3. ASSUME NEW i \in DOMAIN openSegment PROVE openSegment[i] \in DOMAIN spoken
    <3>1. openSegment # <<>>
      BY <2>3, <2>2, EmptySeq
    <3>2. /\ openSegment[i] = openSegment[1] + i - 1 /\ openSegment[1] \in 1 .. Len(spoken)
          /\ openSegment[1] + Len(openSegment) - 1 = Len(spoken)
      BY <2>1, <2>2, <2>3, <3>1 DEF RunOf, LastOf
    <3> QED
      BY <2>2, <2>3, <3>2
  <2> QED
    BY <2>3 DEF SamplerTypes, SilenceOK, IngestionTypeOK
<1> QED
  BY <1>1, <1>2, SegmentedInit, SegmentedNext, SilenceNext, SamplerTypesNext, PTL
     DEF SamplerSpec, SegmenterSpec

(* What waits in the queues of the drop-downs.                             *)
TargetLimits ==
  Len(answers) <= MaxAnswers /\ Len(messages) <= MaxPicks /\ Len(heard) <= MaxTexts

(* Every step keeps to the limits.                                         *)
LEMMA TargetLimitsNext ==
  TargetsInv /\ TargetLimits /\ [TargetsNext]_targetVars => TargetLimits'
<1> SUFFICES ASSUME TargetsInv, TargetLimits, [TargetsNext]_targetVars PROVE TargetLimits'
  OBVIOUS
<1>0. /\ answers \in Seq(AnswerOf) /\ messages \in Seq(MessageOf) /\ heard \in Seq(Program)
      /\ Len(answers) \in Nat /\ Len(messages) \in Nat /\ Len(heard) \in Nat
      /\ MaxAnswers \in Nat /\ MaxPicks \in Nat /\ MaxTexts \in Nat
  BY LenProperties, TargetsAssumption DEF TargetsInv, TargetShapes
<1>1. CASE UNCHANGED <<answers, messages, heard>>
  BY <1>1 DEF TargetLimits
<1>2. ASSUME NEW program \in Program, TextChanges(program) PROVE TargetLimits'
  BY <1>1, <1>2 DEF TextChanges
<1>11. CASE SendsText
  <2>1. /\ heard' = Append(heard, passing) /\ Len(heard) < MaxTexts /\ passing \in Program
        /\ UNCHANGED <<answers, messages>>
    BY <1>11 DEF SendsText, TargetsInv, TargetShapes, Entry
  <2>2. Len(heard') = Len(heard) + 1
    BY <1>0, <2>1, AppendProperties
  <2> QED
    BY <1>0, <2>1, <2>2 DEF TargetLimits
<1>3. CASE ListsPrograms
  <2>1. Len(answers') = Len(answers) + 1 /\ Len(answers) < MaxAnswers
    BY <1>0, <1>3, AppendProperties DEF ListsPrograms
  <2> QED
    BY <1>0, <1>3, <2>1 DEF ListsPrograms, TargetLimits, Listener
<1>4. ASSUME NEW n \in DOMAIN answers, ReceivesList(n) PROVE TargetLimits'
  <2>1. answers' = RemoveAt(answers, n) /\ heard' = heard
        /\ messages' = [i \in DOMAIN messages |-> [messages[i] EXCEPT !.entry = Nothing]]
    BY <1>4 DEF ReceivesList
  <2>2. Len(answers') <= Len(answers) /\ Len(answers') \in Nat
    <3>1. n \in 1 .. Len(answers)
      BY <1>0, LenProperties
    <3>2. /\ SubSeq(answers, 1, n - 1) \in Seq(AnswerOf)
          /\ Len(SubSeq(answers, 1, n - 1)) = n - 1
      BY <1>0, <3>1, SubSeqProperties
    <3>3. /\ SubSeq(answers, n + 1, Len(answers)) \in Seq(AnswerOf)
          /\ Len(SubSeq(answers, n + 1, Len(answers))) = Len(answers) - n
      BY <1>0, <3>1, SubSeqProperties
    <3>4. Len(answers') = n - 1 + Len(answers) - n
      BY <1>0, <2>1, <3>1, <3>2, <3>3, ConcatProperties DEF RemoveAt
    <3> QED
      BY <1>0, <3>1, <3>4
  <2>3. Len(messages') = Len(messages)
    <3>1. DOMAIN messages = 1 .. Len(messages) /\ DOMAIN messages' = DOMAIN messages
      BY <1>0, <2>1, LenProperties
    <3> QED
      BY <1>0, <3>1
  <2> QED
    BY <1>0, <2>1, <2>2, <2>3 DEF TargetLimits
<1>5. ASSUME NEW position \in 0 .. Len(listed), Picks(position) PROVE TargetLimits'
  <2> DEFINE m == [position |-> position,
                   entry |-> IF position = 0 THEN Nothing ELSE listed[position]]
  <2>1. messages' = Append(messages, m) /\ Len(messages) < MaxPicks /\ UNCHANGED <<answers, heard>>
    BY <1>5 DEF Picks, Listener
  <2> HIDE DEF m
  <2>2. Len(messages') = Len(messages) + 1
    BY <1>0, <2>1, AppendProperties
  <2> QED
    BY <1>0, <2>1, <2>2 DEF TargetLimits
<1>6. CASE Selects
  <2>1. messages # <<>> /\ messages' = Tail(messages) /\ UNCHANGED <<answers, heard>>
    BY <1>6 DEF Selects
  <2>2. Len(messages') = Len(messages) - 1
    BY <1>0, <2>1, HeadTailProperties
  <2> QED
    BY <1>0, <2>1, <2>2 DEF TargetLimits
<1>7. CASE HearsText
  <2>1. heard # <<>> /\ heard' = Tail(heard) /\ UNCHANGED <<answers, messages>>
    BY <1>7 DEF HearsText
  <2>2. Len(heard') = Len(heard) - 1
    BY <1>0, <2>1, HeadTailProperties
  <2> QED
    BY <1>0, <2>1, <2>2 DEF TargetLimits
<1>8. ASSUME NEW program \in Program, ProgramStarts(program) \/ ProgramEnds(program)
      PROVE  TargetLimits'
  BY <1>1, <1>8 DEF ProgramStarts, ProgramEnds, Listener
<1>9. CASE Attaches \/ FailsToAttach \/ FindsProcess \/ Injects
  BY <1>1, <1>9 DEF Attaches, FailsToAttach, FindsProcess, Injects, Listener
<1>10. CASE UNCHANGED targetVars
  BY <1>1, <1>10 DEF targetVars
<1> QED
  BY <1>2, <1>3, <1>4, <1>5, <1>6, <1>7, <1>8, <1>9, <1>10, <1>11 DEF TargetsNext

(* The drop-downs keep their types.                                        *)
LEMMA TargetsTypesHold == TargetsSpec => []TargetsTypeOK
<1>1. TargetsInit => TargetLimits
  <2>1. Len(<<>>) = 0 /\ 0 <= MaxAnswers /\ 0 <= MaxPicks /\ 0 <= MaxTexts
    BY TargetsAssumption
  <2> QED
    BY <2>1 DEF TargetsInit, TargetLimits
<1>2. TargetsInv /\ TargetLimits => TargetsTypeOK
  <2> SUFFICES ASSUME TargetsInv, TargetLimits PROVE TargetsTypeOK
    OBVIOUS
  <2>1. TargetShapes /\ attaching.step \in {"idle", "find", "open"}
    BY DEF TargetsInv, TargetShapes, AttachOf
  <2> QED
    BY <2>1 DEF TargetShapes, TargetLimits, TargetsTypeOK, Entry
<1> QED
  BY <1>1, <1>2, TargetsInvInit, TargetsInvNext, TargetLimitsNext, PTL DEF TargetsSpec

-----------------------------------------------------------------------------
(* All parts together                                                      *)

(* While one part moves, the others stand still.                           *)
LEMMA OnePartMoves ==
  ASSUME [Next]_vars
  PROVE  /\ [StartNext]_startVars /\ [SenderNext]_senderVars /\ [WorkerNext]_workerVars
         /\ [BookNext]_bookVars /\ [AssocNext]_assocVars /\ [BlobNext]_blobVars
         /\ [FramesNext]_frameVars /\ [SamplerNext]_samplerVars
         /\ [SegmenterNext]_segmenterVars /\ [TargetsNext]_targetVars
<1>1. CASE UNCHANGED vars
  BY <1>1 DEF vars
<1>2. CASE Next
  BY <1>2 DEF Next, Only
<1> QED
  BY <1>1, <1>2

(* So a behaviour of all is one of each.                                   *)
LEMMA FollowsEach ==
  Spec => /\ StartSpec /\ SenderSpec /\ WorkerSpec /\ BookSpec /\ AssocSpec /\ BlobSpec
          /\ FramesSpec /\ SamplerSpec /\ SegmenterSpec /\ TargetsSpec
<1>1. Init => /\ StartInit /\ SenderInit /\ WorkerInit /\ BookInit /\ AssocInit
              /\ BlobInit /\ FramesInit /\ IngestionInit /\ TargetsInit
  BY DEF Init
<1>2. [Next]_vars =>
         /\ [StartNext]_startVars /\ [SenderNext]_senderVars /\ [WorkerNext]_workerVars
         /\ [BookNext]_bookVars /\ [AssocNext]_assocVars /\ [BlobNext]_blobVars
         /\ [FramesNext]_frameVars /\ [SamplerNext]_samplerVars
         /\ [SegmenterNext]_segmenterVars /\ [TargetsNext]_targetVars
  BY OnePartMoves
<1> QED
  BY <1>1, <1>2, PTL
     DEF Spec, StartSpec, SenderSpec, WorkerSpec, BookSpec, AssocSpec, BlobSpec, FramesSpec,
         SamplerSpec, SegmenterSpec, TargetsSpec

(* The queues, tables and books of every part keep their types and limits. *)
THEOREM PartsTypes == Spec => []TypeOK
<1>1. StartSpec => []StartTypeOK
  <2>1. StartInv => StartTypeOK
    BY DEF StartInv
  <2> QED
    BY <2>1, StartInvAlways, PTL
<1>2. /\ StartTypeOK /\ SenderTypeOK /\ WorkerTypeOK /\ BookTypeOK /\ AssocTypeOK
      /\ BlobTypeOK /\ FramesTypeOK /\ IngestionTypeOK /\ TargetsTypeOK
      => TypeOK
  BY DEF TypeOK
<1> QED
  BY <1>1, <1>2, FollowsEach, SenderTypesHold, WorkerTypesHold, BookTypesHold, AssocTypesHold,
     BlobTypesHold, FramesTypesHold, IngestionTypesHold, TargetsTypesHold, PTL
=============================================================================
