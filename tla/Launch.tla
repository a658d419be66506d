------------------------------ MODULE Launch ------------------------------
(***************************************************************************)
(* Launches of the control window over one data directory, and the games   *)
(* that run meanwhile.  A window clears the socket a dead one has left,    *)
(* binds its own, tells its address and token in a configuration file and  *)
(* loads the settings; it saves settings in place and removes the socket   *)
(* when it is closed.  It may die anywhere; another may be launched at any *)
(* time; a game reads the configuration again for every attempt to connect. *)
(* HookHost has what a connection does once it is accepted.                *)
(***************************************************************************)
EXTENDS Naturals, Sequences, FiniteSets

CONSTANTS
  Setting,      \* what the settings can be
  Default,
  Unreadable,   \* a file that is not there, empty or no longer JSON
  MaxLaunches,  \* bound: windows launched, with the last one before the run
  MaxChanges    \* bound: changes of the settings in a run

ASSUME LaunchAssumption ==
  /\ Default \in Setting /\ Unreadable \notin Setting
  /\ MaxLaunches \in Nat \ {0} /\ MaxChanges \in Nat

VARIABLES
  window,       \* the windows launched so far, each with its position
  listening,    \* those whose listeners are open
  socket,       \* the window whose socket is at the path, or 0
  config,       \* the window that the configuration file describes, or 0
  settingsFile,
  settings,     \* model_settings of the windows that have loaded them
  library,      \* the hook library of the game: "native" or "wine"
  game,         \* where that is, and the window it is there with
  changes,      \* changes of the settings so far
  crossed,      \* history: windows that were launched beside a launch or an end
  kept          \* history: what was saved last, or Unreadable if that failed, was cut
                \* short or met another save

launchVars == <<window, listening, socket, config, settingsFile, settings,
                library, game, changes, crossed, kept>>
files == <<socket, config, settingsFile>>

Launching == {"check", "remove", "bind", "listen", "config", "write", "load"}
Away == [at |-> "away", with |-> 0]
WindowAt(n, pc) == n \in DOMAIN window /\ window[n] = pc
WindowGoes(n, pc) == window' = [window EXCEPT ![n] = pc]
Runs(n) == WindowAt(n, "run") \/ WindowAt(n, "save")
Served(n) == game = [at |-> "served", with |-> n]
Exists(n) == window[n] \notin {"refused", "gone"}

(* Windows among which a new one does not find its way undisturbed.        *)
Unsettled == {n \in DOMAIN window : window[n] \in Launching \cup {"close"}}

LaunchTypeOK ==
  /\ window \in Seq(Launching \cup {"run", "save", "close", "refused", "gone"})
  /\ Len(window) <= MaxLaunches
  /\ listening \subseteq DOMAIN window /\ crossed \subseteq DOMAIN window
  /\ {socket, config} \subseteq {0} \cup DOMAIN window
  /\ {settingsFile, kept} \subseteq Setting \cup {Unreadable}
  /\ DOMAIN settings = {n \in DOMAIN window : Runs(n)}
  /\ \A n \in DOMAIN settings : settings[n] \in Setting
  /\ game.at \in {"away", "dials", "served", "detached"}
  /\ changes \in 0 .. MaxChanges

(* What earlier launches, the last of them window 1, have left behind:     *)
(* everything, or nothing at all.                                          *)
LaunchInit ==
  /\ window = <<"gone">> /\ listening = {}
  /\ socket \in {0, 1} /\ config \in {0, 1}
  /\ settingsFile \in Setting \cup {Unreadable} /\ settings = <<>>
  /\ library \in {"native", "wine"} /\ game = Away
  /\ changes = 0 /\ crossed = {}
  /\ kept = IF settingsFile = Unreadable THEN Default ELSE settingsFile

-----------------------------------------------------------------------------
(* A launch: start_wine_hook, then the settings                            *)

LaunchesWindow ==
  LET others == Unsettled \cup {n \in crossed : Exists(n)}
      new == Len(window) + 1
  IN
  /\ new <= MaxLaunches
  /\ window' = Append(window, "check")
  /\ crossed' = IF others = {} THEN crossed ELSE crossed \cup Unsettled \cup {new}
  /\ UNCHANGED <<listening, files, settings, game, changes, kept>>

(* Mutant: a window that listens is taken for a dead one.                  *)
Answers_Never == FALSE

(* Whether a connection to the path is accepted.                           *)
Answers == socket \in listening

(* Mutant: a socket that refuses connections is left alone.                *)
AfterCheck_LeavesStale ==
  IF socket = 0 THEN "bind" ELSE IF Answers THEN "refused" ELSE "bind"

(* clear_stale_wine_socket: nothing there, another instance, or a stale    *)
(* socket to remove.                                                       *)
AfterCheck ==
  IF socket = 0 THEN "bind" ELSE IF Answers THEN "refused" ELSE "remove"

ChecksSocket(n) ==
  /\ WindowAt(n, "check")
  /\ WindowGoes(n, AfterCheck)
  /\ UNCHANGED <<listening, files, settings, game, changes, crossed, kept>>

(* Removes whatever is at the path by now; an error if nothing is.         *)
RemovesSocket(n) ==
  /\ WindowAt(n, "remove")
  /\ WindowGoes(n, IF socket = 0 THEN "refused" ELSE "bind")
  /\ socket' = 0
  /\ UNCHANGED <<listening, config, settingsFile, settings, game, changes, crossed, kept>>

(* The bind makes the file, and fails if there is one.                     *)
BindsSocket(n) ==
  /\ WindowAt(n, "bind")
  /\ WindowGoes(n, IF socket = 0 THEN "listen" ELSE "refused")
  /\ socket' = IF socket = 0 THEN n ELSE socket
  /\ UNCHANGED <<listening, config, settingsFile, settings, game, changes, crossed, kept>>

(* It accepts connections.  (The port is bound and the thread is started   *)
(* before anything else is done.)                                          *)
ListensForHooks(n) ==
  /\ WindowAt(n, "listen")
  /\ listening' = listening \cup {n}
  /\ WindowGoes(n, "config")
  /\ UNCHANGED <<files, settings, game, changes, crossed, kept>>

(* The configuration is opened and truncated ...                           *)
TruncatesConfig(n) ==
  /\ WindowAt(n, "config")
  /\ config' = 0
  /\ WindowGoes(n, "write")
  /\ UNCHANGED <<listening, socket, settingsFile, settings, game, changes, crossed, kept>>

(* ... and written over what another one may have written since.           *)
WritesConfig(n) ==
  /\ WindowAt(n, "write")
  /\ config' \in IF config = 0 THEN {n} ELSE {n, 0}
  /\ WindowGoes(n, "load")
  /\ UNCHANGED <<listening, socket, settingsFile, settings, game, changes, crossed, kept>>

(* Opening, writing or protecting it fails, and the service is dropped.    *)
ConfigFails(n) ==
  /\ \E pc \in {"config", "write", "load"} : WindowAt(n, pc)
  /\ WindowGoes(n, "close")
  /\ UNCHANGED <<listening, files, settings, game, changes, crossed, kept>>

(* load_json_or_default; a file that cannot be read is ignored.  What      *)
(* environment variables replace afterwards is left out.                   *)
Loaded == IF settingsFile = Unreadable THEN Default ELSE settingsFile

LoadsSettings(n) ==
  /\ WindowAt(n, "load")
  /\ settings' = [m \in DOMAIN settings \cup {n} |-> IF m = n THEN Loaded ELSE settings[m]]
  /\ WindowGoes(n, "run")
  /\ UNCHANGED <<listening, files, game, changes, crossed, kept>>

-----------------------------------------------------------------------------
(* A window that runs                                                      *)

(* The user changes a setting; save_json opens and truncates the file, if  *)
(* it can ...                                                              *)
ChangesSettings(n) ==
  /\ WindowAt(n, "run") /\ changes < MaxChanges
  /\ changes' = changes + 1
  /\ \E v \in Setting : settings' = [settings EXCEPT ![n] = v]
  /\ \/ settingsFile' = Unreadable /\ WindowGoes(n, "save")
     \/ UNCHANGED <<settingsFile, window>>
  /\ UNCHANGED <<listening, socket, config, game, crossed, kept>>

(* What the file can hold after it was written.                            *)
Written(n) ==
  IF settingsFile = Unreadable THEN {settings[n]} ELSE {settings[n], Unreadable}

(* ... and writes it.                                                      *)
WritesSettings(n) ==
  /\ WindowAt(n, "save")
  /\ settingsFile' \in Written(n)
  /\ kept' = IF settingsFile = Unreadable THEN settings[n] ELSE Unreadable
  /\ WindowGoes(n, "run")
  /\ UNCHANGED <<listening, socket, config, settings, game, changes, crossed>>

SaveFails(n) ==
  /\ WindowAt(n, "save")
  /\ kept' = Unreadable
  /\ WindowGoes(n, "run")
  /\ UNCHANGED <<listening, files, settings, game, changes, crossed>>

Without(f, n) == [m \in DOMAIN f \ {n} |-> f[m]]

(* The game of a window loses its connection.  A Shutdown that arrives     *)
(* first ends the worker of the injected library until it is started anew. *)
Lost(n) ==
  IF ~Served(n) THEN {game}
  ELSE {Away} \cup (IF library = "wine" THEN {[at |-> "detached", with |-> 0]} ELSE {})

(* The service is dropped.                                                 *)
ClosesWindow(n) ==
  /\ WindowAt(n, "run")
  /\ WindowGoes(n, "close")
  /\ crossed' = IF Unsettled = {} THEN crossed ELSE crossed \cup Unsettled \cup {n}
  /\ settings' = Without(settings, n)
  /\ UNCHANGED <<listening, files, game, changes, kept>>

(* Its thread sees that and ends, ...                                      *)
StopsListening(n) ==
  /\ WindowAt(n, "close") /\ n \in listening
  /\ listening' = listening \ {n}
  /\ game' \in Lost(n)
  /\ UNCHANGED <<window, files, settings, changes, crossed, kept>>

(* ... while what is at the path is removed and the program ends.          *)
UnlinksSocket(n) ==
  /\ WindowAt(n, "close")
  /\ socket' = 0
  /\ listening' = listening \ {n}
  /\ game' \in Lost(n)
  /\ crossed' = crossed \ {n}
  /\ WindowGoes(n, "gone")
  /\ UNCHANGED <<config, settingsFile, settings, changes, kept>>

(* It dies, and leaves its files as they are.                              *)
WindowDies(n) ==
  /\ Exists(n)
  /\ listening' = listening \ {n}
  /\ game' = IF Served(n) THEN Away ELSE game
  /\ kept' = IF WindowAt(n, "save") THEN Unreadable ELSE kept
  /\ settings' = Without(settings, n)
  /\ crossed' = crossed \ {n}
  /\ WindowGoes(n, "gone")
  /\ UNCHANGED <<files, changes>>

(* A launch fails for a reason of the system: the socket cannot be checked *)
(* or removed, no token, no port, no thread.  The program ends before it   *)
(* has a service to drop, and the file of the socket stays.                *)
LaunchFails(n) ==
  /\ \E pc \in {"check", "remove", "bind", "listen", "config"} : WindowAt(n, pc)
  /\ WindowDies(n)

-----------------------------------------------------------------------------
(* The game: sender_loop, worker_main                                      *)

(* Mutant: the configuration is not read again once it was read.           *)
ReadsAgain_Once == game.with = 0

(* Whether the file is read before another attempt.                        *)
ReadsAgain == TRUE

FindsConfig ==
  LET found == IF ReadsAgain THEN config ELSE game.with IN
  /\ game.at = "away" /\ found # 0
  /\ game' = [at |-> "dials", with |-> found]
  /\ UNCHANGED <<window, listening, files, settings, changes, crossed, kept>>

(* The window at the address, if the token is its own.  The injected       *)
(* library uses the port, which belongs to one window.                     *)
Reached ==
  LET peer == IF library = "wine" THEN game.with ELSE socket
  IN  IF peer \in listening /\ peer = game.with THEN peer ELSE 0

Dials ==
  /\ game.at = "dials"
  /\ game' = [game EXCEPT !.at = IF Reached # 0 THEN "served" ELSE "away"]
  /\ UNCHANGED <<window, listening, files, settings, changes, crossed, kept>>

-----------------------------------------------------------------------------
LaunchNext ==
  /\ \/ LaunchesWindow
     \/ \E n \in DOMAIN window :
          \/ ChecksSocket(n) \/ RemovesSocket(n) \/ BindsSocket(n)
          \/ ListensForHooks(n)
          \/ TruncatesConfig(n) \/ WritesConfig(n) \/ ConfigFails(n)
          \/ LoadsSettings(n) \/ ChangesSettings(n) \/ WritesSettings(n) \/ SaveFails(n)
          \/ ClosesWindow(n) \/ StopsListening(n) \/ UnlinksSocket(n)
          \/ LaunchFails(n) \/ WindowDies(n)
     \/ FindsConfig \/ Dials
  /\ UNCHANGED library

-----------------------------------------------------------------------------
(* Properties                                                              *)

(* Whatever earlier windows have left, by dying or by ending, a window     *)
(* that runs is the one at the path and in the configuration, so that      *)
(* games find it; unless another one was being launched or closed while it *)
(* was launched, when each may remove the socket of the other.             *)
RunsReachable ==
  \A n \in DOMAIN window :
    Runs(n) /\ n \notin crossed => n \in listening /\ socket = n /\ config = n

(* A launch that no other one disturbs is refused only for a window that   *)
(* is still there: what a dead one has left never locks the user out.      *)
NotLockedOut ==
  [][\A n \in DOMAIN window :
       window[n] # "refused" /\ window'[n] = "refused" /\ n \notin crossed =>
         \E other \in DOMAIN window \ {n} : Exists(other)]_launchVars

(* A window begins with the settings that were saved last, by whichever    *)
(* window, unless a save was cut short: two that save at a time would lose *)
(* them, and a window would load what another one is just writing.         *)
SettingsKept ==
  [][\A n \in DOMAIN window :
       window[n] = "load" /\ window'[n] = "run" /\ n \notin crossed =>
         kept \in {settings'[n], Unreadable}]_launchVars

(* A game outlives its window: while windows run that games can find, it   *)
(* ends up with one of them, unless it was told to detach.                 *)
GameReconnects ==
  LET Findable == \E n \in DOMAIN window : Runs(n) /\ n \notin crossed
  IN  Findable ~> (game.at \in {"served", "detached"} \/ ~Findable)
=============================================================================
