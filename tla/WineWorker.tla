----------------------------- MODULE WineWorker -----------------------------
(***************************************************************************)
(* How the injected library starts and stops its worker thread inside a    *)
(* Windows game: TerraTranslateHookStartW, called by the remote threads of *)
(* one or more injectors; worker_main; and the threads of the game, which  *)
(* run detours and install those of DirectWrite when it is first used.     *)
(* HookHost has the connection a worker serves.                            *)
(***************************************************************************)
EXTENDS Naturals, Sequences, FiniteSets, Functions

CONSTANTS
  Injector,     \* remote threads that call the start function
  Detoured,     \* threads of the game that create a DirectWrite factory
  MaxWorkers    \* bound: workers spawned in a run

ASSUME WineWorkerAssumption == MaxWorkers \in Nat \ {0}

VARIABLES
  started,      \* STARTED
  active,       \* ACTIVE
  slot,         \* OBSERVATIONS: the worker whose queue takes texts, or 0
  installed,    \* HOOKS_INSTALLED
  patched,      \* those of the Hooks that are enabled
  layout,       \* the hook of CreateTextLayout
  original,     \* CREATE_LAYOUT is set
  worker,       \* the workers spawned so far, each with its position
  starting,     \* the injectors between the swap of STARTED and their return
  hooking       \* per game thread, where it is in hook_create_layout

libraryVars == <<started, active, slot, installed, patched>>
hookVars == <<layout, original>>
workerVars == <<libraryVars, hookVars, worker, starting, hooking>>

(* Mutant: a start is allowed again before the queue and hooks are gone.   *)
ResetOrder_StartedFirst == <<"clear active", "clear started", "clear slot", "disable hooks">>

(* The steps of reset_worker_state.                                        *)
ResetOrder == <<"clear active", "clear slot", "disable hooks", "clear started">>

(* The hooks made by install_hooks: that of DWriteCreateFactory, and all   *)
(* the others.                                                             *)
Hooks == {"factory", "others"}

WorkerAt(n, pc) == n \in DOMAIN worker /\ worker[n] = pc
WorkerGoes(n, pc) == worker' = [worker EXCEPT ![n] = pc]
Alive == {n \in DOMAIN worker : worker[n] # "ended"}

WorkerTypeOK ==
  /\ slot \in 0 .. MaxWorkers /\ patched \subseteq Hooks
  /\ layout \in {"absent", "created", "enabled"}
  /\ worker \in Seq({"config", "slot", "install", "activate", "serve", "ended"}
                    \cup Range(ResetOrder))
  /\ Len(worker) <= MaxWorkers
  /\ starting \subseteq Injector
  /\ hooking \in [Detoured -> {"out", "create", "set", "enable"}]

WorkerInit ==
  /\ started = FALSE /\ active = FALSE /\ slot = 0
  /\ installed = FALSE /\ patched = {}
  /\ layout = "absent" /\ original = FALSE
  /\ worker = <<>> /\ starting = {}
  /\ hooking = [g \in Detoured |-> "out"]

-----------------------------------------------------------------------------
(* TerraTranslateHookStartW.  If STARTED was set it reports success and    *)
(* changes nothing.                                                        *)
Starts(i) ==
  /\ i \notin starting /\ ~started
  /\ started' = TRUE
  /\ starting' = starting \cup {i}
  /\ UNCHANGED <<active, slot, installed, patched, hookVars, worker, hooking>>

(* The path is too long, or no thread could be made.                       *)
StartFails(i) ==
  /\ i \in starting
  /\ started' = FALSE
  /\ starting' = starting \ {i}
  /\ UNCHANGED <<active, slot, installed, patched, hookVars, worker, hooking>>

SpawnsWorker(i) ==
  /\ i \in starting /\ Len(worker) < MaxWorkers
  /\ starting' = starting \ {i}
  /\ worker' = Append(worker, "config")
  /\ UNCHANGED <<libraryVars, hookVars, hooking>>

-----------------------------------------------------------------------------
(* worker_main                                                             *)

ReadsConfig(n) ==
  /\ WorkerAt(n, "config")
  /\ \E next \in {"slot", Head(ResetOrder)} : WorkerGoes(n, next)
  /\ UNCHANGED <<libraryVars, hookVars, starting, hooking>>

FillsSlot(n) ==
  /\ WorkerAt(n, "slot")
  /\ slot' = n
  /\ WorkerGoes(n, "install")
  /\ UNCHANGED <<started, active, installed, patched, hookVars, starting, hooking>>

(* enable_all_hooks enables every hook there is.                           *)
Enabled == IF layout = "created" THEN "enabled" ELSE layout

Installs(n) ==
  /\ WorkerAt(n, "install")
  /\ installed' = TRUE /\ patched' = Hooks /\ layout' = Enabled
  /\ WorkerGoes(n, "activate")
  /\ UNCHANGED <<started, active, slot, original, starting, hooking>>

(* Mutant: the worker goes on without its hooks.                           *)
InstallFails_GoesOn(n) ==
  /\ WorkerAt(n, "install")
  /\ WorkerGoes(n, "activate")
  /\ UNCHANGED <<libraryVars, hookVars, starting, hooking>>

(* Some hooks may be enabled already when the enabling of one fails; they  *)
(* are not taken back.                                                     *)
InstallFails(n) ==
  /\ WorkerAt(n, "install")
  /\ \E enabled \in SUBSET Hooks : patched' = patched \cup enabled
  /\ layout' \in {layout, Enabled}
  /\ WorkerGoes(n, Head(ResetOrder))
  /\ UNCHANGED <<started, active, slot, installed, original, starting, hooking>>

Activates(n) ==
  /\ WorkerAt(n, "activate")
  /\ active' = TRUE
  /\ WorkerGoes(n, "serve")
  /\ UNCHANGED <<started, slot, installed, patched, hookVars, starting, hooking>>

(* A Shutdown ends the service of connections.                             *)
ShutsDown(n) ==
  /\ WorkerAt(n, "serve")
  /\ active' = FALSE
  /\ WorkerGoes(n, Head(ResetOrder))
  /\ UNCHANGED <<started, slot, installed, patched, hookVars, starting, hooking>>

(* Hooks are disabled only if an installation was ever completed; how far  *)
(* it got before it failed is not looked at.                               *)
Resets(n) ==
  /\ n \in DOMAIN worker
  /\ \E i \in DOMAIN ResetOrder :
       LET this == ResetOrder[i]
           unhooks == this = "disable hooks" /\ installed
       IN  /\ WorkerAt(n, this)
           /\ active' = (active /\ this # "clear active")
           /\ slot' = IF this = "clear slot" THEN 0 ELSE slot
           /\ \E left \in IF unhooks THEN SUBSET patched ELSE {patched} : patched' = left
           /\ layout' \in IF unhooks /\ layout = "enabled" THEN {"created", layout} ELSE {layout}
           /\ started' = (started /\ this # "clear started")
           /\ WorkerGoes(n, IF i < Len(ResetOrder) THEN ResetOrder[i + 1] ELSE "ended")
  /\ UNCHANGED <<installed, original, starting, hooking>>

-----------------------------------------------------------------------------
(* Threads of the game in the detour of DWriteCreateFactory: they hook the *)
(* first factory they see.  hook_draw does the same for the first layout.  *)

CreatesFactory(g) ==
  /\ hooking[g] = "out" /\ "factory" \in patched /\ ~original
  /\ hooking' = [hooking EXCEPT ![g] = "create"]
  /\ UNCHANGED <<libraryVars, hookVars, worker, starting>>

(* create_hook fails if there is one.                                      *)
CreatesHook(g) ==
  /\ hooking[g] = "create"
  /\ hooking' = [hooking EXCEPT ![g] = IF layout = "absent" THEN "set" ELSE "out"]
  /\ layout' = IF layout = "absent" THEN "created" ELSE layout
  /\ UNCHANGED <<libraryVars, original, worker, starting>>

(* Mutant: the hook is enabled before its original is known.               *)
SetsOriginal_AfterEnabling(g) ==
  /\ hooking[g] = "set"
  /\ layout' = "enabled"
  /\ hooking' = [hooking EXCEPT ![g] = "enable"]
  /\ UNCHANGED <<libraryVars, original, worker, starting>>

SetsOriginal(g) ==
  /\ hooking[g] = "set"
  /\ original' = TRUE
  /\ hooking' = [hooking EXCEPT ![g] = "enable"]
  /\ UNCHANGED <<libraryVars, layout, worker, starting>>

EnablesHook(g) ==
  /\ hooking[g] = "enable"
  /\ layout' = "enabled"
  /\ hooking' = [hooking EXCEPT ![g] = "out"]
  /\ UNCHANGED <<libraryVars, original, worker, starting>>

-----------------------------------------------------------------------------
WorkerNext ==
  \/ \E i \in Injector : Starts(i) \/ StartFails(i) \/ SpawnsWorker(i)
  \/ \E n \in DOMAIN worker :
       \/ ReadsConfig(n) \/ FillsSlot(n) \/ Installs(n) \/ InstallFails(n)
       \/ Activates(n) \/ ShutsDown(n) \/ Resets(n)
  \/ \E g \in Detoured :
       CreatesFactory(g) \/ CreatesHook(g) \/ SetsOriginal(g) \/ EnablesHook(g)

-----------------------------------------------------------------------------
(* Properties                                                              *)

(* However many injectors start the library while a worker starts or shuts *)
(* down, no second worker runs beside it, not even beside the end of it.   *)
(* And a start is refused, and success reported, only while there is a     *)
(* worker, or a start or an end of one under way: no failure of an earlier *)
(* start leaves the library without one for good.                          *)
OneWorker ==
  /\ Cardinality(Alive) <= 1
  /\ started => Alive # {} \/ starting # {}

(* While the library takes texts, a worker that serves gets them, and the  *)
(* hooks are in place.                                                     *)
ActiveServed ==
  active => \E n \in DOMAIN worker : worker[n] = "serve" /\ slot = n /\ patched = Hooks

(* A detour is never enabled without its original, which it calls          *)
(* unconditionally; except that a worker started anew while a thread is    *)
(* between the creation of a hook and the store of its original enables    *)
(* it too soon.                                                            *)
DetourHasOriginal == layout = "enabled" /\ Len(worker) <= 1 => original
=============================================================================
