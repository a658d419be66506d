---------------------------- MODULE SenderStart ----------------------------
(***************************************************************************)
(* How the preloaded library gets its sender thread: observe, called from  *)
(* any thread of the game, in processes that fork.  Two atomics decide:    *)
(* the id of the process that has a sender, and a pointer to its queue.    *)
(* They are not set together, and a fork copies both.  Processes end, and  *)
(* their ids are used again.                                               *)
(***************************************************************************)
EXTENDS Naturals, FiniteSets

CONSTANTS
  Process,  \* the first process of the game and those it forks
  Game,     \* the first one
  Thread,   \* threads of a process
  None

ASSUME SenderStartAssumption == Game \in Process /\ None \notin Process

VARIABLES
  running,  \* the processes that run
  word,     \* SENDER.pid of each process: a process, or None for zero
  queue,    \* SENDER.sender of each process: the process whose sender reads it, or None
  senders,  \* per process, the threads that have spawned a sender loop
  step,     \* per process and thread, where in observe it is
  mistaken  \* history: processes that were forked with their own id in the word

startVars == <<running, word, queue, senders, step, mistaken>>

Steps == {"idle", "compare", "spawn", "store", "send"}
At(p, t, pc) == p \in running /\ step[p][t].pc = pc
Goto(p, t, pc) == step' = [step EXCEPT ![p][t] = [pc |-> pc, seen |-> None]]

StartTypeOK ==
  /\ running \subseteq Process /\ mistaken \subseteq Process
  /\ word \in [Process -> Process \cup {None}]
  /\ queue \in [Process -> Process \cup {None}]
  /\ senders \in [Process -> SUBSET Thread]
  /\ step \in [Process -> [Thread -> [pc : Steps, seen : Process \cup {None}]]]

StartInit ==
  /\ running = {Game} /\ mistaken = {}
  /\ word = [p \in Process |-> None]
  /\ queue = [p \in Process |-> None]
  /\ senders = [p \in Process |-> {}]
  /\ step = [p \in Process |-> [t \in Thread |-> [pc |-> "idle", seen |-> None]]]

(* A thread draws a text and reads the process id.                         *)
Observes(p, t) ==
  /\ At(p, t, "idle")
  /\ step' = [step EXCEPT ![p][t] = [pc   |-> IF word[p] = p THEN "send" ELSE "compare",
                                     seen |-> IF word[p] = p THEN None ELSE word[p]]]
  /\ UNCHANGED <<running, word, queue, senders, mistaken>>

(* Mutant: the id is stored without comparing it.                          *)
Claims_Always(p, t) == TRUE

(* Whether compare_exchange finds the id that was read.                    *)
Claims(p, t) == word[p] = step[p][t].seen

CompareExchange(p, t) ==
  /\ At(p, t, "compare")
  /\ word' = [word EXCEPT ![p] = IF Claims(p, t) THEN p ELSE @]
  /\ Goto(p, t, IF Claims(p, t) THEN "spawn" ELSE "send")
  /\ UNCHANGED <<running, queue, senders, mistaken>>

Spawns(p, t) ==
  /\ At(p, t, "spawn")
  /\ senders' = [senders EXCEPT ![p] = @ \cup {t}]
  /\ Goto(p, t, "store")
  /\ UNCHANGED <<running, word, queue, mistaken>>

(* No thread could be made; the next text tries again.                     *)
SpawnFails(p, t) ==
  /\ At(p, t, "spawn")
  /\ word' = [word EXCEPT ![p] = None]
  /\ Goto(p, t, "send")
  /\ UNCHANGED <<running, queue, senders, mistaken>>

StoresSender(p, t) ==
  /\ At(p, t, "store")
  /\ queue' = [queue EXCEPT ![p] = p]
  /\ Goto(p, t, "send")
  /\ UNCHANGED <<running, word, senders, mistaken>>

(* The text goes to the queue the pointer names, or nowhere.               *)
Offers(p, t) ==
  /\ At(p, t, "send")
  /\ Goto(p, t, "idle")
  /\ UNCHANGED <<running, word, queue, senders, mistaken>>

(* A thread that is not in observe forks: the child has the memory of its  *)
(* parent and none of its other threads.  Its id may be that of a process  *)
(* that has ended, even of the one whose sender the word stands for.       *)
Forks(p, child) ==
  /\ p \in running /\ child \notin running
  /\ \E t \in Thread : At(p, t, "idle")
  /\ running' = running \cup {child}
  /\ word' = [word EXCEPT ![child] = word[p]]
  /\ queue' = [queue EXCEPT ![child] = queue[p]]
  /\ mistaken' = IF word[p] = child THEN mistaken \cup {child} ELSE mistaken
  /\ UNCHANGED <<senders, step>>

Exits(p) ==
  /\ p \in running
  /\ running' = running \ {p}
  /\ word' = [word EXCEPT ![p] = None] /\ queue' = [queue EXCEPT ![p] = None]
  /\ senders' = [senders EXCEPT ![p] = {}]
  /\ step' = [step EXCEPT ![p] = [t \in Thread |-> [pc |-> "idle", seen |-> None]]]
  /\ mistaken' = mistaken \ {p}

StartNext ==
  \/ \E p \in Process, t \in Thread :
       \/ Observes(p, t) \/ CompareExchange(p, t) \/ Spawns(p, t)
       \/ SpawnFails(p, t) \/ StoresSender(p, t) \/ Offers(p, t)
  \/ \E p, child \in Process : Forks(p, child)
  \/ \E p \in Process : Exits(p)

-----------------------------------------------------------------------------
(* Properties                                                              *)

(* Whatever threads, forks and exits interleave, no process ever has two   *)
(* sender loops: two would connect twice and send every text by chance.    *)
(* And one that is marked as having a sender has one, and its texts go to  *)
(* that one, not to the queue it inherited from its parent, as soon as the *)
(* thread that marked it is done; except a descendant that was given the   *)
(* id of an ancestor whose mark it inherited, which never gets a sender.   *)
OneSender ==
  \A p \in Process :
    /\ Cardinality(senders[p]) <= 1
    /\ p \in running \ mistaken /\ word[p] = p
         /\ (\A t \in Thread : step[p][t].pc \notin {"spawn", "store"}) =>
       senders[p] # {} /\ queue[p] = p
=============================================================================
