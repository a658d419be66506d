---------------------------- MODULE TurnPipeline ----------------------------
(***************************************************************************)
(* The control window between the text hooks and the model: it follows the *)
(* active game, groups hooked texts into turns, detects where in the       *)
(* stored history the game resumes, replays stored translations while the  *)
(* game repeats them, and has one turn at a time translated.               *)
(*                                                                         *)
(* All of it runs on the GTK thread, one message at a time.  A poll first  *)
(* handles the hook events that wait and then starts at most one           *)
(* translation; phase tells where in a poll the thread is, and only a poll *)
(* can run while it is not "idle".  The translation runs on its own.       *)
(***************************************************************************)
EXTENDS Replay

CONSTANTS
  Game,          \* the games, and Default, the namespace of no game
  Default,
  None,          \* no retained branch, no cursor, no settings, no head yet
  Source,        \* hook bridges and AT-SPI applications, one per process
  NativeSource,  \* those that are AT-SPI applications: they need no route
  GameOf,        \* the game a source belongs to
  HooksOf,       \* the hooks a source can report
  Hook,          \* stable hook keys, as numbers in their order
  Text,          \* what a hook can show
  Blank,         \* a text of white space only
  Branch,        \* branch names, as numbers in list order
  UserBranch,    \* the names a user gives to branches
  History,       \* the paths the store may hold from earlier launches
  Saved,         \* the settings a hook may have from an earlier launch
  StoreFails,    \* can a statement of the store fail?
  Window,        \* texts this close in time make one turn
  MaxPending,    \* capacity of the queue of pending texts
  FirstId,       \* ids of the commits of History lie below it
  MaxTexts,      \* bound: texts hooked in a run
  MaxTime,       \* bound: the clocks texts are stamped with
  MaxUser        \* bound: messages of the user in a run

ASSUME PipelineAssumption ==
  /\ Default \in Game
  /\ NativeSource \subseteq Source
  /\ GameOf \in [Source -> Game \ {Default}]
  /\ Hook \subseteq Nat /\ HooksOf \in [Source -> SUBSET Hook]
  /\ Branch \subseteq Nat /\ UserBranch \subseteq Branch /\ Main \in Branch
  /\ StoreFails \in BOOLEAN
  /\ Saved \subseteq [enabled : BOOLEAN, post : BOOLEAN] \cup {None}
  /\ None \notin [enabled : BOOLEAN, post : BOOLEAN]
  /\ Window \in Nat /\ MaxPending \in Nat \ {0}
  /\ FirstId \in Nat /\ MaxTexts \in Nat /\ MaxTime \in Nat

VARIABLES
  app,           \* the fields of AppModel that follow game and history, and
                 \* found: ghost, the new texts that identified a position
                 \* on a path whose turns can all be read
  pending,       \* pending_hook_text: accepted texts, not yet in a turn
  latest,        \* latest_hook_text: the last text of each game and hook
  config,        \* text_hook_configs: the settings of each known hook
  routes,        \* hook_routes: the <<hook, source>> pairs that are live
  settings,      \* is a model configured, and include_latest_hook_text
  phase,         \* where the thread is in a poll
  turn,          \* the translation that runs, or NoTurn
  paths,         \* the store: the path of every branch of every game
  link,          \* how far each source has come: "new", "up" or "down"
  texts,         \* texts hooked so far
  overtaken,     \* ghost: the pairs of texts of a hook whose later one a
                 \* turn took although the earlier one stayed pending
  commits,       \* commits made so far, the number of the last is its id
  user,          \* messages of the user so far
  handled        \* ghost: the turns replayed or dispatched, in order

storeVars == <<paths, commits>>
hookVars == <<config, routes, link>>
queueVars == <<pending, latest>>
textVars == <<texts, overtaken>>
vars == <<app, queueVars, hookVars, settings, phase, turn, storeVars,
          textVars, user, handled>>

NoTurn == [stage |-> "none"]

Root == [id |-> 0, sig |-> Structural]
Exists(g, b) == paths[g][b] # <<>>
HeadId(g, b) == paths[g][b][Len(paths[g][b])].id
Outcomes == IF StoreFails THEN BOOLEAN ELSE {TRUE}

Elements(s) == {s[i] : i \in DOMAIN s}

(* A root has nothing before it in a path, and a commit, whose id is a     *)
(* hash of its parents too, has one depth in all paths of its game.  A     *)
(* game has finitely many branches.                                        *)
IsPath(p) ==
  /\ p \in Seq(Elements(p))
  /\ \A i \in DOMAIN p : p[i] = Root => i = 1
OneDepth(P) ==
  \A p, q \in P : \A i \in DOMAIN p, j \in DOMAIN q : p[i] = q[j] => i = j

ASSUME HistoryAssumption ==
  \A ps \in History :
    /\ DOMAIN ps = Game
    /\ ps[Default][Main] # <<>>
    /\ \A g \in Game :
         /\ DOMAIN ps[g] = Branch
         /\ IsFiniteSet({b \in Branch : ps[g][b] # <<>>})
         /\ OneDepth({ps[g][b] : b \in Branch})
         /\ \A b \in Branch :
              /\ IsPath(ps[g][b])
              /\ \A i \in DOMAIN ps[g][b] : ps[g][b][i].id \in 0 .. FirstId

(* What waits in the queues: pending texts and the texts of grouped turns. *)
Queued ==
  Elements(pending) \cup
  UNION {Elements(b) : b \in Elements(app.buffer) \cup Elements(app.ready)}

Init ==
  /\ paths \in History
  /\ app = [game |-> Default, branch |-> Main, retained |-> None,
            cursor |-> None, detecting |-> FALSE, started |-> FALSE,
            manual |-> FALSE, buffer |-> <<>>, ready |-> <<>>,
            seen |-> paths[Default], found |-> {}]
  /\ pending = <<>>
  /\ latest = {}
  /\ config \in [Hook -> Saved]
  /\ routes = {}
  /\ settings = [model |-> TRUE, latest |-> FALSE]
  /\ phase = "idle"
  /\ turn = NoTurn
  /\ link = [s \in Source |-> "new"]
  /\ texts = 0
  /\ overtaken = {}
  /\ commits = FirstId
  /\ user = 0
  /\ handled = <<>>

-----------------------------------------------------------------------------
(* The active game and the detection of its position.                      *)

(* ensure_game: a game without main gets a root and main on it.            *)
Ensured(g) ==
  IF Exists(g, Main) THEN paths ELSE [paths EXCEPT ![g][Main] = <<Root>>]

(* refresh_history reads every branch of the active game.                  *)
Refreshed(a, ps) == [a EXCEPT !.seen = ps[a.game]]

(* The fields of a session that has just begun on game g.                  *)
NewSession(a, g) ==
  Refreshed([a EXCEPT !.game = g, !.branch = Main, !.retained = None,
               !.cursor = None, !.detecting = FALSE, !.started = FALSE,
               !.manual = FALSE, !.buffer = <<>>, !.ready = <<>>,
               !.found = {}], Ensured(g))

(* Mutant: switching the game keeps the turns that are ready.              *)
Activated_KeepsReady(a, g) ==
  IF a.game = g THEN a ELSE [NewSession(a, g) EXCEPT !.ready = a.ready]

(* activate_game: a new game starts on main with no session and no queues. *)
Activated(a, g) == IF a.game = g THEN a ELSE NewSession(a, g)

(* activate_game may fail in ensure_game; nothing changes then.            *)
Switches(g, ok) == ok /\ app.game # g
AppAfter(g, ok) == IF ok THEN Activated(app, g) ELSE app
PendingAfter(g, ok) == IF Switches(g, ok) THEN <<>> ELSE pending
Activate(g, ok) ==
  /\ paths' = IF Switches(g, ok) THEN Ensured(g) ELSE paths
  /\ UNCHANGED commits

(* begin_replay_detection *)
Detecting(a) ==
  [a EXCEPT !.started = TRUE, !.detecting = TRUE, !.manual = FALSE,
            !.buffer = <<>>, !.cursor = None, !.found = {}]

Readable(path) == \A i \in DOMAIN path : path[i].sig # Unreadable

(* Where a session goes on when its detection ends: in front of the chosen *)
(* candidate, or on the retained branch or main.                           *)
Located(a, chosen) ==
  IF chosen = {}
  THEN [a EXCEPT !.cursor = None,
                 !.branch = IF a.retained = None THEN Main ELSE a.retained]
  ELSE LET c == CHOOSE c \in chosen : TRUE
           path == paths[a.game][c.branch]
       IN  [a EXCEPT !.branch = c.branch,
              !.found = {t \in UNION {Elements(b) : b \in Elements(a.buffer)} :
                           t.updated /\ Readable(path)},
              !.cursor = [branch |-> c.branch, position |-> c.position,
                          path |-> path]]

(* Mutant: detection goes on after its end.                                *)
Finished_StillDetecting(a, chosen) ==
  Refreshed([Located(a, chosen) EXCEPT !.manual = FALSE,
               !.buffer = <<>>, !.ready = @ \o a.buffer], paths)

(* finish_replay_detection: the buffered turns become ready.               *)
Released(a) ==
  Refreshed([a EXCEPT !.detecting = FALSE, !.manual = FALSE,
               !.buffer = <<>>, !.ready = @ \o a.buffer], paths)

Finished(a, chosen) == Released(Located(a, chosen))

(* A refresh the store refuses leaves the window without paths.            *)
Unlisted(a) == [a EXCEPT !.seen = [b \in Branch |-> <<>>]]
Ends(a) == {a} \cup IF StoreFails THEN {Unlisted(a)} ELSE {}

Candidates(a) ==
  ResumeCandidates(paths[a.game],
                   [i \in DOMAIN a.buffer |-> Signature(a.buffer[i])])

(* observe_replay_batch: detection ends with the first turn that leaves no *)
(* candidate or one, with the third turn, or after two seconds.            *)
Observed(a, batch, late) ==
  LET b == [a EXCEPT !.buffer = Append(@, batch)]
      candidates == Candidates(b)
  IN  IF Len(b.buffer) > 3 \/ candidates = {} \/ late THEN Finished(b, {})
      ELSE IF Unique(candidates) THEN Finished(b, candidates)
      ELSE IF Len(b.buffer) = 3 THEN Finished(b, {})
      ELSE Refreshed(b, paths)

-----------------------------------------------------------------------------
(* Events of the hooks, handled one by one in the first half of a poll.    *)

Polling ==
  /\ phase \in {"idle", "events"}
  /\ phase' = "events"
  /\ UNCHANGED <<settings, turn, user, handled>>

Bridge == Source \ NativeSource

Connected(s) ==
  /\ Polling
  /\ s \in Bridge
  /\ link[s] = "new"
  /\ link' = [link EXCEPT ![s] = "up"]
  /\ \E ok \in Outcomes :
       /\ Activate(GameOf[s], ok)
       /\ app' = Detecting(AppAfter(GameOf[s], ok))
       /\ pending' = PendingAfter(GameOf[s], ok)
  /\ UNCHANGED <<latest, config, routes, textVars>>

(* The settings a hook gets when it is first seen.                         *)
Known(h) ==
  config' = IF config[h] # None THEN config
            ELSE [config EXCEPT ![h] = [enabled |-> FALSE, post |-> FALSE]]

Candidate(s, h) ==
  /\ Polling
  /\ s \in Bridge
  /\ h \in HooksOf[s]
  /\ link[s] # "down"
  /\ link' = [link EXCEPT ![s] = "up"]
  /\ \E ok \in Outcomes :
       /\ Activate(GameOf[s], ok)
       /\ app' = AppAfter(GameOf[s], ok)
       /\ pending' = PendingAfter(GameOf[s], ok)
  /\ routes' = routes \cup {<<h, s>>}
  /\ Known(h)
  /\ UNCHANGED <<latest, textVars>>

Enabled(h) == config[h] # None /\ config[h].enabled

(* Mutant: a full queue keeps its oldest text.                             *)
Queue_Unbounded(q, t) == Append(q, t)

(* A full queue loses its oldest text.                                     *)
Queue(q, t) == Append(IF Len(q) = MaxPending THEN Tail(q) ELSE q, t)

(* An accepted text takes the settings of its hook.                        *)
Accept(a, q, t) ==
  LET accepted == [t EXCEPT !.post = config[t.hook].post] IN
  /\ app' = IF ~a.started /\ ~a.manual THEN Detecting(a) ELSE a
  /\ latest' = {l \in latest : <<l.game, l.hook>> # <<t.game, t.hook>>}
                 \cup {accepted}
  /\ pending' = Queue(q, accepted)

Ignore(a, q) == app' = a /\ pending' = q /\ UNCHANGED latest

(* queue_hook_text: only texts of enabled hooks are queued.                *)
QueueText(a, q, t) ==
  IF Enabled(t.hook) THEN Accept(a, q, t) ELSE Ignore(a, q)

(* A text of a hook: the game is activated even if the text goes nowhere.  *)
(* An AT-SPI text starts the detection even if its hook is disabled; a     *)
(* bridge's text needs a live route.  The stamp is the producer's, who may *)
(* send a text late, and a hook may have several producers.                *)
HookedText(s, h, x) ==
  /\ Polling
  /\ texts < MaxTexts
  /\ h \in HooksOf[s]
  /\ link[s] # "down"
  /\ link' = IF s \in Bridge THEN [link EXCEPT ![s] = "up"] ELSE link
  /\ texts' = texts + 1
  /\ \E ok \in Outcomes, at \in 0 .. MaxTime :
       LET g == GameOf[s]
           a == AppAfter(g, ok)
           q == PendingAfter(g, ok)
           t == [n |-> texts + 1, from |-> g, game |-> a.game, hook |-> h,
                 text |-> x, at |-> at, post |-> FALSE, updated |-> TRUE]
       IN  /\ Activate(g, ok)
           /\ IF s \in NativeSource
              THEN QueueText(IF a.started THEN a ELSE Detecting(a), q, t)
              ELSE IF <<h, s>> \in routes THEN QueueText(a, q, t)
                   ELSE Ignore(a, q)
  /\ IF s \in NativeSource THEN Known(h) ELSE UNCHANGED config
  /\ UNCHANGED <<routes, overtaken>>

Disconnected(s) ==
  /\ Polling
  /\ s \in Bridge
  /\ link[s] = "up"
  /\ link' = [link EXCEPT ![s] = "down"]
  /\ routes' = {r \in routes : r[2] # s}
  /\ app' = [app EXCEPT !.started = FALSE, !.detecting = FALSE,
                        !.manual = FALSE, !.buffer = <<>>]
  /\ UNCHANGED <<queueVars, config, storeVars, textVars>>

-----------------------------------------------------------------------------
(* The second half of a poll: start_next_translation.                      *)

(* The event half of a poll is over, or there was nothing to handle.       *)
PollStart ==
  /\ phase \in {"idle", "events"}
  /\ phase' = "start"
  /\ UNCHANGED <<app, queueVars, hookVars, settings, turn, storeVars,
                 textVars, user, handled>>

WaitsForText == app.detecting /\ pending = <<>>

(* A translation runs, detection waits, no text waits or the oldest is not *)
(* a tenth of a second old yet.                                            *)
Rest ==
  /\ phase = "start"
  /\ turn # NoTurn \/ WaitsForText \/ app.ready = <<>>
  /\ phase' = "idle"
  /\ UNCHANGED <<app, queueVars, hookVars, settings, turn, storeVars,
                 textVars, user, handled>>

Starting ==
  /\ phase = "start"
  /\ turn = NoTurn
  /\ UNCHANGED <<hookVars, settings, texts, user>>

(* Two seconds of detection have passed and no text waits.                 *)
DetectionTimesOut ==
  /\ Starting
  /\ WaitsForText
  /\ app' \in Ends(Finished(app, {}))
  /\ UNCHANGED <<queueVars, phase, turn, storeVars, overtaken, handled>>

(* take_next_hook_batch: the oldest text and all that are close to it, of  *)
(* its game and with its post-processors.                                  *)
Together(first, t) ==
  /\ t.game = first.game
  /\ t.post = first.post
  /\ (IF t.at >= first.at THEN t.at - first.at ELSE first.at - t.at) <= Window

(* A grouped turn and what stays pending.                                  *)
Event(q) ==
  LET taken == {i \in DOMAIN q : Together(Head(q), q[i])}
  IN  [batch |-> Selected(q, taken), rest |-> Selected(q, DOMAIN q \ taken)]

(* What a snapshot shows: the last text of every enabled hook that can be  *)
(* in one turn with the grouped texts.                                     *)
Alike(e, t) == t.game = Head(e.batch).game /\ t.post = Head(e.batch).post
Values(e) == {t \in latest : Alike(e, t) /\ Enabled(t.hook)}
Shown(e, t) == Alike(e, t) /\ t.hook \in {v.hook : v \in Values(e)}

(* Those that came with the turn or still wait are marked as updated.      *)
Marked(e) ==
  LET fresh == {t.hook : t \in Elements(e.batch) \cup
                               {p \in Elements(e.rest) : Shown(e, p)}}
  IN  {[v EXCEPT !.updated = v.hook \in fresh] : v \in Values(e)}

(* By time, and by hook the texts of one time.                             *)
Earlier(s, t) == s.at < t.at \/ (s.at = t.at /\ s.hook < t.hook)
InTimeOrder(S) == Sorted(S, {p \in S \X S : Earlier(p[1], p[2])})

(* Mutant: the texts a snapshot already shows stay pending.                *)
Snapshot_KeepsPending(e) ==
  IF Values(e) = {} THEN e
  ELSE [batch |-> InTimeOrder(Marked(e)), rest |-> e.rest]

(* latest_hook_snapshot: nothing that the turn shows stays pending.        *)
Snapshot(e) ==
  IF Values(e) = {} THEN e
  ELSE [batch |-> InTimeOrder(Marked(e)),
        rest |-> Selected(e.rest, {i \in DOMAIN e.rest : ~Shown(e, e.rest[i])})]

(* The later texts of a turn and the earlier ones of their hooks it left.  *)
PassedBy(e) ==
  UNION {{<<s.n, t.n>> : t \in {r \in Elements(e.rest) : r.hook = s.hook /\ r.n < s.n}} :
         s \in Elements(e.batch)}

NextTurnOf(q) == IF settings.latest THEN Snapshot(Event(q)) ELSE Event(q)

(* The rest of start_next_translation: without a model the queues are      *)
(* emptied, with one the turn goes to the engine.                          *)
Dispatch(a, q, batch) ==
  IF settings.model
  THEN /\ app' = a
       /\ pending' = q
       /\ turn' = [stage |-> "queued", game |-> Head(batch).game,
                   branch |-> a.branch, batch |-> batch, base |-> None]
       /\ handled' = Append(handled, [how |-> "model", batch |-> batch])
  ELSE /\ app' = [a EXCEPT !.ready = <<>>]
       /\ pending' = <<>>
       /\ UNCHANGED <<turn, handled>>

(* The first name after main that list_game_branches does not show, and    *)
(* any, even one that is taken, if the list cannot be read.                *)
ResumeName == {b \in Branch \ UserBranch : b # Main}
FreeNames(g) == {b \in ResumeName : ~Exists(g, b)}
ForkNames(g) ==
  {b \in FreeNames(g) : b = Least(FreeNames(g))}
    \cup IF StoreFails THEN ResumeName ELSE {}

(* create_resume_branch: the rest of the session goes on a branch of its   *)
(* own that starts at the position of the cursor, or on main if the store  *)
(* refuses (or the bound on names is reached).                             *)
Fork(a, q, batch, path) ==
  \/ \E name \in ForkNames(a.game) :
       LET forked == [paths EXCEPT ![a.game][name] = path]
       IN  /\ paths' = forked
           /\ Dispatch(Refreshed([a EXCEPT !.branch = name, !.retained = name],
                                 forked), q, batch)
  \/ /\ StoreFails \/ FreeNames(a.game) = {}
     /\ UNCHANGED paths
     /\ Dispatch([a EXCEPT !.branch = Main, !.retained = None], q, batch)

(* try_replay_batch, and the translation of a turn it does not replay.     *)
Process(a, q, batch) ==
  IF a.cursor = None
  THEN Dispatch(a, q, batch) /\ phase' = "idle" /\ UNCHANGED paths
  ELSE
    LET c == a.cursor
        step == CursorStep(c.path, c.position, Signature(batch))
        dropped == [a EXCEPT !.cursor = None]
        onCursor == [dropped EXCEPT !.branch = c.branch]
    IN
    \/ /\ step.outcome = "matched"
       /\ app' = Refreshed(IF AtTranslatableHead(c.path, step.position)
                           THEN onCursor
                           ELSE [a EXCEPT !.cursor.position = step.position],
                           paths)
       /\ pending' = q
       /\ handled' = Append(handled, [how |-> "replay", batch |-> batch])
       /\ UNCHANGED <<phase, turn, paths>>
    \/ /\ step.outcome = "at_head"
       /\ Dispatch(Refreshed(onCursor, paths), q, batch)
       /\ phase' = "idle"
       /\ UNCHANGED paths
    \/ /\ step.outcome = "diverged"
       /\ Fork(dropped, q, batch, SubSeq(c.path, 1, step.position))
       /\ phase' = "idle"
    \/ /\ step.outcome = "unavailable" \/ StoreFails
       /\ Dispatch([dropped EXCEPT !.branch = Main], q, batch)
       /\ phase' = "idle"
       /\ UNCHANGED paths

(* Turns the detection has released come first.                            *)
TakeReady ==
  /\ Starting
  /\ ~WaitsForText
  /\ app.ready # <<>>
  /\ Process([app EXCEPT !.ready = Tail(@)], pending, Head(app.ready))
  /\ UNCHANGED <<latest, commits, overtaken>>

(* A turn grouped from the pending texts is compared with the history      *)
(* while detection is active and processed otherwise.                      *)
TakePending ==
  /\ Starting
  /\ pending # <<>>
  /\ app.ready = <<>>
  /\ LET e == NextTurnOf(pending)
         b == [app EXCEPT !.buffer = Append(@, e.batch)]
     IN
     /\ overtaken' = overtaken \cup PassedBy(e)
     /\ IF app.detecting
        THEN /\ pending' = e.rest
             /\ \/ \E late \in BOOLEAN : app' \in Ends(Observed(app, e.batch, late))
                \/ StoreFails /\ app' \in Ends(Finished(b, {}))
                \/ /\ StoreFails /\ Len(b.buffer) <= 3 /\ Unique(Candidates(b))
                   /\ app' \in Ends(Released(b))
             /\ phase' = "idle"
             /\ UNCHANGED <<turn, paths, handled>>
        ELSE Process(app, e.rest, e.batch)
  /\ UNCHANGED <<latest, commits>>

-----------------------------------------------------------------------------
(* The translation: an engine of its own on a connection of its own.       *)

Engine ==
  UNCHANGED <<app, queueVars, hookVars, settings, phase, textVars, user,
              handled>>

(* translate_turn reads the head of the branch; it fails without one.      *)
EngineReads ==
  /\ Engine
  /\ turn.stage = "queued"
  /\ Exists(turn.game, turn.branch)
  /\ turn' = [turn EXCEPT !.stage = "running",
                !.base = HeadId(turn.game, turn.branch)]
  /\ UNCHANGED storeVars

(* The signature a commit of this turn will have.                          *)
CommitSignature(batch) ==
  IF \A t \in Elements(batch) : t.text = Blank THEN Structural
  ELSE Signature(batch)

(* What the UPDATE of advance_game_branch compares.                        *)
HeadIs(g, b, id) == Exists(g, b) /\ HeadId(g, b) = id

EngineCommits ==
  /\ Engine
  /\ turn.stage = "running"
  /\ HeadIs(turn.game, turn.branch, turn.base)
  /\ paths' = [paths EXCEPT ![turn.game][turn.branch] =
       Append(@, [id |-> commits + 1, sig |-> CommitSignature(turn.batch)])]
  /\ commits' = commits + 1
  /\ turn' = [turn EXCEPT !.stage = "done"]

(* The provider or the store fails, or the branch has moved.               *)
EngineFails ==
  /\ Engine
  /\ turn.stage \in {"queued", "running"}
  /\ turn' = [turn EXCEPT !.stage = "failed"]
  /\ UNCHANGED storeVars

(* The window hears of the end of the translation and starts the next.     *)
Complete ==
  /\ phase = "idle"
  /\ turn.stage \in {"done", "failed"}
  /\ app' = IF turn.stage = "done" THEN Refreshed(app, paths) ELSE app
  /\ turn' = NoTurn
  /\ phase' = "start"
  /\ UNCHANGED <<queueVars, hookVars, settings, storeVars, textVars, user,
                 handled>>

-----------------------------------------------------------------------------
(* Messages of the user.                                                   *)

UserActs ==
  /\ phase = "idle"
  /\ user < MaxUser
  /\ user' = user + 1
  /\ UNCHANGED <<phase, turn, textVars, handled>>

(* TextHookConfigChanged: the row of a known hook changes a setting.  The  *)
(* texts that wait get the new settings of an enabled hook; the last value *)
(* of a disabled one is dropped.                                           *)
ChangeHook(h, c) ==
  LET updated(t) == IF t.hook = h THEN [t EXCEPT !.post = c.post] ELSE t IN
  /\ UserActs
  /\ config[h] # None /\ config[h] # c
  /\ config' = [config EXCEPT ![h] = c]
  /\ IF c.enabled
     THEN /\ pending' = [i \in DOMAIN pending |-> updated(pending[i])]
          /\ latest' = {updated(t) : t \in latest}
     ELSE /\ latest' = {t \in latest : t.hook # h}
          /\ UNCHANGED pending
  /\ UNCHANGED <<app, routes, link, settings, storeVars>>

Forget(h) ==
  /\ UserActs
  /\ config[h] # None
  /\ config' = [config EXCEPT ![h] = None]
  /\ routes' = {r \in routes : r[1] # h}
  /\ latest' = {t \in latest : t.hook # h}
  /\ UNCHANGED <<app, pending, link, settings, storeVars>>

(* DetachHooks: the bridges are told to shut down and leave the routes.    *)
Detach ==
  /\ UserActs
  /\ routes' = {}
  /\ UNCHANGED <<app, queueVars, config, link, settings, storeVars>>

(* The model name or the target language becomes blank or is set again, or *)
(* the mode of snapshots is switched.                                      *)
Configure(setting) ==
  /\ UserActs
  /\ settings' = [settings EXCEPT ![setting] = ~@]
  /\ UNCHANGED <<app, queueVars, hookVars, storeVars>>

(* select_history_commit: a row of the history list, as last refreshed; a  *)
(* commit of several branches is listed on main or else on the first.      *)
SelectCommit(b, i) ==
  LET path == app.seen[b]
      holders == {x \in Branch : path[i] \in Elements(app.seen[x])}
  IN
  /\ UserActs
  /\ b = IF Main \in holders THEN Main ELSE Least(holders)
  /\ app' = Refreshed([app EXCEPT
       !.retained = IF @ = b THEN b ELSE None,
       !.cursor = [branch |-> b, path |-> path, position |-> i],
       !.branch = b, !.detecting = FALSE, !.started = TRUE, !.manual = TRUE,
       !.ready = @ \o app.buffer, !.buffer = <<>>, !.found = {}], paths)
  /\ UNCHANGED <<queueVars, hookVars, settings, storeVars>>

(* CreateBranch: the name is put on the head of the active branch.         *)
CreateBranch(name) ==
  /\ UserActs
  /\ Exists(app.game, app.branch)
  /\ paths' = [paths EXCEPT ![app.game][name] = paths[app.game][app.branch]]
  /\ app' = Refreshed(app, paths')
  /\ UNCHANGED <<queueVars, hookVars, settings, commits>>

(* commit_scratchpad: a commit without texts on the active branch.         *)
CommitScratchpad ==
  /\ UserActs
  /\ Exists(app.game, app.branch)
  /\ paths' = [paths EXCEPT ![app.game][app.branch] =
       Append(@, [id |-> commits + 1, sig |-> Structural])]
  /\ commits' = commits + 1
  /\ app' = Refreshed(app, paths')
  /\ UNCHANGED <<queueVars, hookVars, settings>>

-----------------------------------------------------------------------------
HookSettings == [enabled : BOOLEAN, post : BOOLEAN]

HookEvent ==
  \E s \in Source :
    \/ Connected(s) \/ Disconnected(s)
    \/ \E h \in Hook : Candidate(s, h) \/ \E x \in Text : HookedText(s, h, x)

UserMessage ==
  \/ \E h \in Hook : Forget(h) \/ \E c \in HookSettings : ChangeHook(h, c)
  \/ Detach \/ CommitScratchpad
  \/ \E setting \in {"model", "latest"} : Configure(setting)
  \/ \E b \in Branch : \E i \in DOMAIN app.seen[b] : SelectCommit(b, i)
  \/ \E name \in UserBranch : CreateBranch(name)

Next ==
  \/ HookEvent
  \/ PollStart \/ Rest \/ DetectionTimesOut \/ TakeReady \/ TakePending
  \/ EngineReads \/ EngineCommits \/ EngineFails \/ Complete
  \/ UserMessage

Spec == Init /\ [][Next]_vars

(* GTK keeps polling and time passes, so whenever a turn can start again   *)
(* and again it does; the engine ends every turn it has begun.             *)
Fairness ==
  /\ WF_vars(PollStart)
  /\ SF_vars(Rest) /\ SF_vars(DetectionTimesOut)
  /\ SF_vars(TakeReady) /\ SF_vars(TakePending)
  /\ WF_vars(EngineReads) /\ WF_vars(EngineFails) /\ SF_vars(Complete)

FairSpec == Spec /\ Fairness

-----------------------------------------------------------------------------
(* Properties.                                                             *)

HookedTexts ==
  [n : 1 .. MaxTexts, from : Game, game : Game, hook : Hook, text : Text,
   at : 0 .. MaxTime, post : BOOLEAN, updated : BOOLEAN]

TypeOK ==
  /\ app.game \in Game /\ app.branch \in Branch
  /\ app.retained \in Branch \cup {None}
  /\ app.cursor # None =>
       /\ app.cursor.branch \in Branch
       /\ app.cursor.position \in DOMAIN app.cursor.path
  /\ <<app.detecting, app.started, app.manual>> \in BOOLEAN \X BOOLEAN \X BOOLEAN
  /\ \A b \in Elements(app.buffer) \cup Elements(app.ready) : b # <<>>
  /\ Queued \cup latest \subseteq HookedTexts
  /\ Len(pending) <= MaxPending /\ Len(app.buffer) <= 3
  /\ config \in [Hook -> HookSettings \cup {None}]
  /\ routes \subseteq Hook \X Source
  /\ settings \in [model : BOOLEAN, latest : BOOLEAN]
  /\ phase \in {"idle", "events", "start"}
  /\ turn.stage \in {"none", "queued", "running", "done", "failed"}
  /\ \A g \in Game : app.game = g => Exists(g, Main)

(* Whatever waits belongs to the active game, so that no turn reaches a    *)
(* branch of another game's history (activate_game empties every queue).   *)
QueuedForActiveGame == \A t \in Queued : t.game = app.game

(* The way of the texts: turns handled, ready and buffered, then pending.  *)
Line ==
  [i \in DOMAIN handled |-> handled[i].batch] \o app.ready \o app.buffer
    \o [i \in DOMAIN pending |-> <<pending[i]>>]

(* A text a turn took past an earlier one, and so may be shown again in    *)
(* place of that one.                                                      *)
Jumped(n) == \E o \in overtaken : o[1] = n

(* New texts of a hook are handled in the order they were hooked, and none *)
(* of them twice, across grouping, detection, replay and snapshots.  Only  *)
(* a text whose stamp takes it into a turn past one that waits comes       *)
(* before that one, and only it may come again, where a snapshot shows it  *)
(* in place of the one it passed.                                          *)
InOrder ==
  \A i, j \in DOMAIN Line : i < j =>
    \A s \in Elements(Line[i]), t \in Elements(Line[j]) :
      s.hook = t.hook /\ s.updated /\ t.updated =>
        s.n < t.n \/ <<s.n, t.n>> \in overtaken \/ (s.n = t.n /\ Jumped(s.n))

(* The turns by which detection identified a unique position are replayed  *)
(* from the store: the model is not asked for their new texts again.  That *)
(* needs a path that can be read: the search of a position skips turns     *)
(* without a readable payload, and the replay stops at the first of them;  *)
(* and a snapshot may show a text again in place of one it jumped.         *)
DetectedReplayed ==
  turn # NoTurn =>
    \A t \in Elements(turn.batch) :
      t.updated => Jumped(t.n) \/ \A s \in app.found : s.n # t.n

Dispatched == turn = NoTurn /\ turn' # NoTurn

(* A turn that ends a replay is put on a branch that holds the replayed    *)
(* history, and no stored turn that was not replayed lies in between       *)
(* (ReplayCursor::step and create_resume_branch).                          *)
ReplayContinues ==
  [][Dispatched /\ app.cursor # None =>
       LET c == app.cursor
           p == paths'[app'.game][app'.branch]
       IN  \/ StoreFails
           \/ \E commit \in Elements(c.path) : commit.sig = Unreadable
           \/ /\ SubSeq(p, 1, c.position) = SubSeq(c.path, 1, c.position)
              /\ \A i \in c.position + 1 .. Len(c.path) :
                   i <= Len(p) /\ p[i] = c.path[i] => IsStructural(p[i])]_vars

(* Every text that is accepted leaves the queues: it is replayed, sent to  *)
(* the model or dropped with its session.                                  *)
TextsLeave ==
  \A n \in 1 .. MaxTexts :
    (\E t \in Queued : t.n = n) ~> (\A t \in Queued : t.n # n)

(* Disabled text never reaches the model.                                  *)
DisabledNeverSent ==
  [][Dispatched => \A t \in Elements(turn'.batch) : Enabled(t.hook)]_vars

(* After a divergence the resume branch remains the active context until   *)
(* the user selects another position or the game changes.                  *)
ResumeStays ==
  [][app.retained # None /\ app.branch = app.retained /\ user' = user
       /\ app'.game = app.game => app'.branch = app.branch]_vars

============================================================================
