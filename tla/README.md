# TerraTranslate in TLA+

TerraTranslate translates games while they run. Hooks inside a game (or AT-SPI, from outside)
report the text it draws; a control window groups the texts into turns; an engine has a model
translate one turn at a time and stores every turn as an immutable commit in a Git-like history,
one namespace of branches per game. When a game is started again, the window finds out where in
its history the game is and replays stored translations until the game leaves the known path.

This directory holds TLA+ specifications of that system, the TLC configurations that check them
on small instances, and theorems about them with proofs that TLAPS checks. All paths below are
relative to `src/crates/`, and `store`, `engine`, `app` ... stand for `terratranslate-store` and
so on. `PROJECT.json` maps every definition to the lines it models.

## The system

| Part | State | Operations | What makes it correct |
| --- | --- | --- | --- |
| Session store (`store/src/lib.rs`) | SQLite tables `games`, `commits`, `commit_parents`, `game_branches` | `ensure_game`, `put_commit`, `create_game_branch`, `advance_game_branch`, merges, histories | Commits are never lost or changed; a branch only advances from the head its writer has read; games do not share history |
| Payloads (`store/src/lib.rs`, `put_blob`) | one file per digest, one temporary name per digest | check, write, rename | What a commit refers to can be read, whoever else stores the same bytes |
| Context and merge (`core/src/merge.rs`, `store/src/lib.rs`) | context snapshots in commits | patch, scratchpad edit, merge base, three-way merge | A change of one side is kept; a scratchpad is edited, retained or left out, never lost |
| Engine (`engine/src/lib.rs`) | one turn: head, context, answer | `translate_turn`: read head, prepare context, ask the model, patch, store, advance | A turn lands on the branch it was asked for, on top of the head it was based on, or nowhere; what it says about the context is true |
| Command line (`cli/src/main.rs`) | none | translate, branch, merge, history | The same store, at the same time as the window |
| Replay (`engine/src/replay.rs`, `core/src/replay.rs`) | cursor on a copy of a path | `find_resume_candidates`, `ReplayCursor::step` | A position is taken only if it is the only one; stored turns are neither repeated nor skipped |
| Control window (`app/src/main.rs`) | active game and branch, three queues of text, detection and replay state, hook settings, routes | hook events, user messages, `start_next_translation` | Texts keep their order and their game; only enabled text is sent; every text leaves the queues |
| Hook service (`platform-linux/src/wine_bridge.rs`) | registry of connections, candidates, enabled sets, command and event queues | handshake, enable, disable, shutdown, receive | A candidate that was announced can be enabled; text only flows for enabled candidates of live connections |
| Launches (`app/src/main.rs`, `wine_bridge.rs`) | the socket, the configuration file and the settings files of a data directory | clear the socket, bind, write the configuration, load and save settings, remove the socket | What a dead window has left neither locks the user out nor loses games or settings |
| Native hook (`native-hook/src/lib.rs`) | process id and queue pointer, a bounded queue, call sites, texts held back | observe from any thread, fork, connect, announce, send | One sender per process; a text is sent once, for the best adapter, and at last |
| Wine hook (`wine-hook/src/windows`) | flags of the library, hooks, the worker, candidate book, texts remembered under addresses | start, stop, reset, detours, observe, set enabled | One worker per process; a detour has its original; an object is observed with its own text |
| Capture (`platform-linux/src/pipewire_video.rs`, app) | a thread and a queue per session, a cached frame | start, offer a frame, stop, take, encode | One capture for the window; the newest frame is encoded |
| Ingestion (`core/src/ingestion.rs`) | time and digests of frames; open segment and its silence | sample, push | No frame comes back that was replaced; no voice is lost |
| Targets (`native_accessibility.rs`, `wine_targets.rs`, injector, app) | lists of applications and processes, the choice, the listener's selection | list, choose, find, forward a text | What the user picked is heard or injected, not what took its place in the list |
| I/O (`provider`, portal, launchers, plugin runner, HUD) and pure text functions (templates, processors) | handles of external services | requests and callbacks | Not modelled, see below |

How the parts meet: a hook library connects to the hook service over a socket; the service, a thread
with one current-thread runtime, hands events to the window through a bounded channel that the
window polls every 100 ms, and takes commands through a bounded channel per connection. The window
runs on the GTK thread, one message at a time. It keeps a store connection of its own, and runs each
turn on a worker with a *second* connection and a fresh engine. The command line is a third program
on the same database. Inside a game the libraries are called by any of its threads, fork with it,
and share a few atomics with the thread that serves the connection. So the hard parts are:
statements of several connections that interleave; programs that die between two of them; a model
that answers seconds after the head was read; events of several games that alternate; settings,
routes and the active game changing while texts wait in queues; lists that are replaced under a
choice; threads that start, stop and fork between two atomics; and bounded queues and tables that
drop, evict or block.

## Modules

| Module | Models | Kind |
| --- | --- | --- |
| `CommitGraph` | the commit DAG: parents, reachability, the insert of a commit | operators |
| `SessionStore` | the tables and the single SQL statements on them | state and actions |
| `Sessions` | several programs on one store, statement by statement, with failures and deaths | system |
| `BranchHistory` | what a versioned session promises, without clients, statements or heads | abstract specification |
| `Selection` | sorting a set and filtering a sequence, by position | operators |
| `Replay` | signatures, the replay cursor, the search for resume candidates | operators |
| `TurnPipeline` | the control window from hook events to commits | system |
| `HookHost` | hook libraries, hook service and the routes of the window | system |
| `Launch` | windows that are launched, closed and die over one data directory, and the game that looks for them | system |
| `ContextMerge` | the three-way merge of contexts, the base it takes, the order of a history | operators |
| `Turns` | what commits hold: contexts and scratchpads, turns in each context mode, edits, merges | system |
| `SenderStart`, `NativeSender` | how the preloaded library starts its sender, and the sender's loop | systems |
| `WineWorker` | start and stop of the injected library's worker, and the hooks made later | system |
| `CandidateBook`, `TextAssociations` | the injected library's identifiers and its tables of texts | systems |
| `BlobStore` | the files of payloads and their writers | system |
| `Frames`, `Ingestion` | capture, the vision cache, the sampler and the segmenter | systems |
| `Targets` | lists of targets, the choice, the listener and the way to injection | system |
| `MCSessions`, `MCTurnPipeline`, `MCHookHost`, `MCLaunch`, `MCTurns`, `MCParts` | instances for TLC | model checking |
| `CommitGraphProofs`, `SessionsProofs`, `TurnsProofs` | theorems of `CommitGraph` and `ContextMerge`, of `Sessions`, of `Turns` | proofs |
| `PipelineProofs`, `PipelineOrderProofs`, `PipelineReplayProofs` | theorems of `TurnPipeline`: types and games, order, detection and replay | proofs |
| `HostProofs`, `PartsProofs` | theorems of `HookHost` and `Launch`; of the ten parts of `MCParts` | proofs |

### The store and its clients

`SessionStore` has one variable per table (`games`, `commits` as a function from ids to parent
sequences, `head` for `game_branches`). Its actions are single statements, which SQLite makes
atomic. `Sessions` gives every client a program counter and lets the clients' statements
interleave in any order:

* opening the store (`open_store`, `initialize_store`): tables, default namespace, and a root with
  a main branch if no branch is listed;
* `ensure_game`: register, check for main, store a root, create main, each a statement;
* a turn (`translate_turn`): read the head, ask the model, store the commit, advance the branch by
  compare-and-swap, or fail with `BranchMoved`;
* a scratchpad edit: the same without the model;
* branch, resume branch and merge: resolve references, store the merge commit, upsert the branch.

`put_commit` opens a deferred transaction, reads the parents and then writes. In WAL mode SQLite
refuses the write if another connection has written since the read; `stale` records for whom that
has happened, and the put then fails (`Fail`). A root has no parents to read, so its put is one
write. A commit id is a content hash, so two roots of one game made in the same millisecond are one
commit (`PutRoot` may pick a stored root). `Crash` closes a client at any point and rolls its open
transaction back; `Fail` ends an operation early at any point. `RawIds` says whether users name
commits of other games by id, which the command line allows.

`owner`, `checkedOut` and `repositioned` are history variables: the game a commit was made for, the
turns a client was told are committed, and the branches that were moved off a head they had.

Not modelled: the copy of the pre-namespace `branches` table (idempotent, on old databases only) and
the settings table. `Turns` has the contents of commits, `BlobStore` the files.

### Contexts, scratchpads and merges

`Turns` is about the data between the statements: what a turn, an edit or a merge reads at one time
and stores at a later one, in the history of one game. A context is a function from slots to values;
a slot is a scalar field or one key of a map, since `plan_context_merge` treats both by one rule.
`BeginTurn`, `ReadHistory`, `Answer` and `Advance` are `translate_turn` with its reads in order: in
the two endless modes the context comes from the last commit of main, read *after* the head of the
branch, and the scratchpad from the branch or from nowhere (`Prepared`). `Patched` and `EditOf` are
`apply_patch` and the comparison that decides which scratchpad edit the commit records.
`BeginEdit`/`PutEdit` are `commit_scratchpad`, `MergePlan`/`PutMerge`/`PlaceMerge` the two commands
`merge-plan` and `merge`, which resolve the branch names separately. `Stops` ends an operation at
any point, as an error or the end of the program does.

`ContextMerge` holds the operators: `AutoMerged` and `Conflicts` for the merge, `MergeBases` for
`merge_base` (least sum of distances; which of several equals it takes depends on the order of
rows, so all are possible), `HistoryFromHead` for the order in which `history` returns commits. Prompts,
processors and the provider are an answer with some patch, or a failure. `by`, `mode`, `basis`,
`plan` and `repositioned` are history fields.

A run begins with a history from `Start`. `StartAssumption` says what holds of one: it was made by these
programs from a new session, so it has the properties that their steps keep. That this is no more than
the code justifies is proved: a new session has them (`NewSessionSound`), and the inductive invariant
says that every step keeps them.

`BlobStore` follows `put_blob` system call by system call: the check for the final name, opening
(and truncating) the temporary name, writing to whatever that open returned, the rename, and the commit
that refers to the digest. Several writers of one digest share the temporary name. A file is known by
the writer that created it; `filled` says which files are complete. A program may end anywhere.

### The control window

`TurnPipeline` follows `app/src/main.rs` on the GTK thread. Since every handler runs to completion,
a handler is one action; a poll is the exception, because it handles any number of events and then
starts at most one translation, and `phase` tells where in a poll the thread is. The record `app`
holds the fields that follow the active game; `pending`, `latest`, `config` and `routes` are the
fields of those names in `AppModel` (`pending_hook_text`, `latest_hook_text`, `text_hook_configs`,
`hook_routes`). Times that only gate progress (a text is ripe after 100 ms, detection ends after two
seconds) are choices. The time that decides which texts form one turn is `at`, the stamp of the
producer: any time, since a producer may hold a text back, and a hook may have several producers; so
stamps need not follow the order of the queue. `overtaken` is a history variable: the pairs of texts of
a hook of which a turn took the later one and left the earlier one pending (`PassedBy`).

A history is a path of commits per branch. A commit is its id and replay signature; it is `Structural`
without text (roots, edits, merges, turns of white space) and `Unreadable` when its payload is lost.
Branch names are numbers in list order, since order decides which branch a candidate is shown on. A
launch starts from any history in `History` and any settings in `Saved`. The engine's three steps (read
the head, commit, fail) are separate actions, so that user messages and events fall between them. If
`StoreFails`, statements of the window's connection may fail where the code handles that: a list of
paths that cannot be read ends a detection without a position (`Finished`), or with a unique candidate
that has no path any more (`Released`), and leaves the window with no history to select from
(`Unlisted`); a list of branches that cannot be read is taken for an empty one, so the name of a resume
branch may be one that is taken, and the upsert then moves that branch (`ForkNames`).

`refresh_history` is part of every action that calls it; it decides which rows a user can select
next (`seen`). `latest_hook_snapshot` sorts and `take_next_hook_batch` filters a queue; `Selection`
says both without recursion: an element stands where the number of elements before it puts it. `found`
is a history field: the new texts of the turns by which detection found its position, when every
turn of that path can be read.

`HistoryAssumption` says what holds of the histories a launch may find: they are paths in which a root
has nothing before it, a commit has one depth in all paths of its game, since its id is a hash of its
parents' ids too, main of the default game exists, since `initialize_store` has made it, and a game has
finitely many branches.

Not modelled in this module: what a turn makes of its context (`Turns` has it), labels and
pre-processors of hooks (they change what a text says, not where it goes), the commands sent back to
the producers, and the HUD.

### The bridges

`HookHost` follows a message from a game to the window and a command back. A *producer* is a game
process: `Wine` ones run the injected library's worker, `Native` ones the preloaded library's
sender. A *connection* is a record with the task of the service (`link`, `candidates`, `enabled`,
`frame`), its command queue (`commands`) and the bytes in flight (`up`, `down`). Bridge and candidate
ids are made anew for each connection, so a connection is its position in `connections` and a
candidate a hook on a connection.

The service's thread and the window's share, under locks held for a moment, the set of enabled
candidates of each connection. The tasks of the service run on one thread: `Accepts`, `Receives`, `Commands` and
`Ends` are what one does in a poll. A message is taken in two steps, because the lock is free between them:
`Receives` reads whether a text passes and puts it in hand (`sending`); `Delivers` sends it, or drops it if
the queue is full, or waits for a place for a candidate. No other task moves meanwhile, but the window does.
`select!` may prefer a command to a message of which it has read the length only; `frame` records that
the rest is then misread.

The window's messages are `Polls`, `Configure`, `Forget`, `Detach` and `Attach`; unlike in
`TurnPipeline`, events wait in a queue until they are polled. One that sends commands only begins a
handler; `handler` says which, for which hook, and which connections it has not come to. For each of
them it changes the set of enabled candidates (`Marks`), then queues the command (`Sends`), and a
refused enabling is taken back then; at the end come the settings and routes (`Finishes`), while
`Forget` removes its routes first. The service may act between any two of these steps; the window begins
nothing else.

A producer's table outlives its connections in the injected library and does not in the preloaded one,
which also waits only 20 ms for its welcome and for the body of a message whose length has come
(`MissesBody`), holds texts back, and takes a `Shutdown` for a lost connection.

Abstracted: authentication and validation of messages (a producer of another program is never
accepted), pings and diagnostics, the limits of candidates, and repeated texts, which are not
sent. `offered`, `refused` and `told` are history variables for the properties. The next modules
have what the libraries do inside the game.

### Launches

`Launch` is `main` and `start_wine_hook` of any number of windows with the same data directory: the
check whether a window answers at the socket, the removal, the bind, the configuration written in place,
the settings loaded, changed and saved in place, and the drop of the service, which removes whatever is
at the path by then. Each is a step of its own, and a window may die between any two; a launch that
fails for a reason of the system (`LaunchFails`) ends like one that dies, and may leave its socket
behind. A game looks for a window meanwhile (`sender_loop`, `worker_main`): it reads the configuration
before each attempt; the preloaded library connects to the socket, the injected one to the port, and the
token must be the window's own. A game is served from then on; `HookHost` has what is said.

A run begins with what earlier launches may have left: a dead socket or none, a configuration or
none, settings or a file that cannot be read. `HookHost` has one window that
runs all the time, so the two modules share no state, and `MCLaunch` checks them in one run in the
way of `MCParts`. Abstracted: the three settings files are one, the values an environment variable replaces
are left out, the thread of the service is taken to start its runtime, and GTK's own rule that a
second window of one desktop session ends at once is one of the ways in which a window closes.
`crossed` and `kept` are history variables: the windows that were launched beside another launch or
end, and what was saved last.

### Inside a game

`SenderStart` is `observe` of the preloaded library: the load of `SENDER.pid`, the compare-and-swap,
the spawn, the store of the queue pointer and the send are separate steps of each thread, and
`Forks` copies the two atomics, as `fork` copies memory, but no other thread. Processes end (`Exits`) and
their numbers are used again; `mistaken` is a history variable: the descendants that were given the
number of the process whose mark they inherited.

`NativeSender` is the sender's loop. Time is in ticks: since a text was held (`held`) and since it
was sent (`quiet`), up to the duplicate window. `Loop` is one turn of the loop: take an observation,
announce an unknown call site, hold the text back for the best adapter, send what is due. Texts that
come due together leave in any order, because the code keeps them in a hash map. A full queue drops
an observation, full tables refuse call sites and texts. `due`, `drawn` and `quiet` are history
variables for the properties.

`WineWorker` has the flags of the injected library (`STARTED`, `ACTIVE`, `HOOKS_INSTALLED`,
`OBSERVATIONS`, `CREATE_LAYOUT`) and the threads that share them: injectors in
`TerraTranslateHookStartW`, workers in `worker_main`, and threads of the game in
`hook_create_layout`, which make one more hook when DirectWrite is first used. Enabling all hooks may
fail halfway (`InstallFails`), and disabling them too; `patched` says which are enabled. `hook_draw`
is guarded and stored in the same way and is not modelled twice.

`CandidateBook` has the identifiers, which are new on every connection, and the limit. A write of the
advertisement may fail and the rest of it is not sent; the connection is `broken` then, until the next
read or write fails too. `TextAssociations` has the tables under which a text is remembered between the
call that takes it and the call that draws it (Uniscribe analyses and glyphs, DirectWrite layouts): an
address may be freed and used again, a table evicts an entry at its limit, and `try_lock` skips both
remembering and forgetting while another thread holds the lock. An object's text is its own, so an
object is its number. Detours that pass a text on within one call (GDI, HarfBuzz) keep nothing and are
not modelled.

### Capture, ingestion and targets

`Frames` follows a capture session: the thread that is spawned, its setup, which may fail, the bounded
queue that drops the newest frame when full, the window that starts and stops sessions through messages,
and its poll, which drains the queue frame by frame while others arrive (`PollsFrame`, `DrainsFrame`),
lets `VisionFrameCache::select` replace the last one by the one it has when both look alike, and encodes
on another thread. How the format is negotiated is left out. The cache is taken to be on with a fixed
threshold; `Alike` says which pictures reach it. Frames are numbered in the order of capture. The audio
receiver has the same thread and queue, but no part of the program uses it.

`Ingestion` has the two helpers of `core` as sequences of calls: `FrameSampler::sample` with its
minimum interval, recent digests and similarity cache, and `VoiceSegmenter::push_chunk` with its trailing
silence. Reference definitions are the properties: segments are runs of consecutive chunks that hold
every voiced one.

`Targets` has the two drop-downs. A list is read on another thread and replaces the one shown; a choice
is a *position*, whose message may meet another list. For native applications the choice decides which
bus name the AT-SPI listener forwards: it reads the selection (`TextChanges`), lets the lock go and
sends the text in its hand later (`SendsText`), so the window may select another one in between; for
Wine targets the executable is looked up again among the running processes before injection. Numbers
(process ids) are used again, bus names are not while the old owner runs (`Owns`). The order of a list
is by number instead of by name (`SortedLists`): no property depends on which order it is, only that a
new list may have another one.

`MCParts` checks these ten parts (`SenderStart`, `NativeSender`, `WineWorker`, `CandidateBook`,
`TextAssociations`, `BlobStore`, `Frames`, the two halves of `Ingestion`, `Targets`) in one run.
They share no state, so nothing is learnt from interleaving them: the variable `part` picks the one
a behaviour follows and the rest of the state stands still.

## What the runs check

| Run | Bounds | Shows |
| --- | --- | --- |
| `sessions_turns` | two clients, three commits, main and a side branch | `KeepsPromise`: every step is a step of `BranchHistory`, so a success is exactly one new commit on exactly one branch. `NoTurnLost`: a turn that was reported stays until its branch is repositioned |
| `sessions_games` | two namespaces, two branch names, three commits | `OwnHistory`: the history of a game holds only its own commits |
| `pipeline_replay` | one game with two remembered branches, or one with a lost payload; two hooks, three texts with one of two stamps each, a queue of three, one user message | `DetectedReplayed`: the new texts that identified the position on a readable path are not sent to the model. `InOrder`: the turns of a hook are handled in the order of their texts, none twice, unless a stamp took a later one past one that waits. `ReplayContinues`: a turn that leaves a replay goes on a branch that holds the replayed history |
| `pipeline_games` | a bridge with two hooks and an AT-SPI application of two games, failing store, one place in the queue | `QueuedForActiveGame` |
| `pipeline_live` | one game, two texts | `TextsLeave`: every accepted text is replayed, sent or dropped with its session |
| `hooks` | one library of each kind with one hook, two connections, one place in the event queue and two in a command queue, two texts, three messages of the user | `Agreement`: service, settings and library agree on what is enabled. `OnlyEnabledText`: a text is taken up for the window only if its hook is enabled and attached, or the handler that ends that has not come to its connection. `WantedGetsEnabled`: an enabled hook is not announced in vain |
| `hooks`, in its behaviours of `Launch` | three launches after any earlier ones, one change of the settings with two values, a game with either library | `RunsReachable`: a window that runs is the one games find. `NotLockedOut`: a launch is refused only for a window that is there. `SettingsKept`: it begins with what was saved last. `GameReconnects`: a game ends up with a window that runs |
| `turns` | an engine that does turns in three modes and a user who edits, branches and merges; main and a side branch that have diverged; slots summary and scratchpad, each empty or not; five commits | `ScratchpadAccounted`: what a commit says of its scratchpad is true. `AdvancesOnNewest`: a turn or edit continues exactly what it replaces, context included. `HistoryOrdered`: a history has each commit once, parents first. `FirstMergeKeepsOneSided`: a first merge keeps what one side changed |
| `parts` | see below | the safety of the ten parts, and `HeldLeaves` |

| Part of `parts` | Bounds | Shows |
| --- | --- | --- |
| `SenderStart` | two processes that fork, end and are replaced under their numbers, two threads each | `OneSender`: at most one per process, and its texts go to it |
| `NativeSender` | three adapters, three texts, queue of one, two call sites, two texts held, window of one tick | `SentApart`: no text twice within the window, even over connections; `BestHeld`; `HeldLeaves` |
| `WineWorker` | two injectors, two drawing threads, three workers | `OneWorker`; `ActiveServed`; `DetourHasOriginal` |
| `CandidateBook` | three places, room for two, five identifiers | `KnownAnnounced`, at the limit too |
| `TextAssociations` | two threads, two addresses, a table of one entry, three objects | `ObservedOwnText` |
| `BlobStore` | three writers, two digests | `PayloadsKept` |
| `Frames` | two sessions, four frames, queue of two, three pictures of which two look alike | `OneCapture`; `TakesNewest`, unless the queue refused it |
| `Ingestion` | frames at times up to four with three contents, two of them alike; five chunks of length one or two, a pause of three | `ReusesLastSampled`; `SegmentsComplete` |
| `Targets` | three programs, two with the same number and two with the same executable; one list, choice and text under way | `HearsChosen`; `FindsPicked`: nothing that was not picked is heard or found |

Three commits let one client base work on a commit while another moves the branch and a third commit
shows the damage; every property of `Sessions` speaks of at most two commits and one branch at a time.
Three texts are enough for a turn in flight, one buffered and one pending, and for a snapshot that
overtakes; the histories hold three turns because detection looks at no more than three. In `hooks` one
hook is enough because every rule speaks of one candidate, two connections let one be stale, and two
queued commands and a refused one fit in the messages of the user. Three launches are one that dies or
closes anywhere, one that follows it or runs beside it, and one that meets what both left; all that
earlier ones can leave is in the initial states. In `pipeline_replay` two stamps and a window of no
width are enough for a late text with an early stamp to be grouped past one that waits, and a queue of
three holds all texts. In `turns` five commits are the root, two that diverge, and two more: a turn that
loses its race and the one it loses to, or a merge and a turn on it. In `parts` each limit is as small
as lets it be met and exceeded while the properties still hold a place free: a table of one entry evicts
on its second text, a book of two has a third place that waits, three writers are one that fills a file,
one that renames it and one that truncates it, three workers are one that ends, one that starts and one
that starts after a failure. The bounds stop `hooks`, `turns` and `parts` (commits, identifiers, frames,
workers and launches run out), so they do not check deadlock. The ids, names, clients and hooks are
interchangeable, which the symmetry sets use in the runs that check no liveness.

Four runs end in a counterexample on purpose: the code does not do what its own documentation says.

* `sessions_bootstrap` (`MainOnlyIfNeeded`): `ensure_game` checks for main, stores a root and
  upserts main in separate statements. Two clients begin the first turn of one game, and both find no
  main. The faster one creates it, translates, and is told that its turn is committed; the slower one
  then upserts main onto its own root, and the turn is on no branch (its commit is kept).
* `pipeline_disabled` (`DisabledNeverSent`): disabling a hook leaves its pending and grouped texts in
  the queues, and they are sent.
* `pipeline_resume` (`ResumeStays`): a later detection with a unique candidate, or an unreadable
  payload, takes the session off the retained resume branch without a choice of the user.
* `hooks_detach` (`DetachIsFinal`): the service closes a connection right after `Shutdown`; a worker that
  reads both at once reports the end of file, keeps running and connects again.

Other behaviours came up while the properties were stated. They have no run of their own; the modules
contain them and the properties say where they stop:

* When `ensure_game` fails for a second game, `activate_game` returns and its caller queues the text for
  the game that is still active (`app/src/main.rs:1668`). `QueuedForActiveGame` holds of everything else.
* `find_resume_candidates` passes over commits it cannot read (`engine/src/replay.rs:171`), so a
  position may be found across a turn whose payload is lost. The replay then stops at that turn
  (`Unavailable`), and the turns that identified the position are translated again: the exception for
  readable paths in `DetectedReplayed`.
* A `Disconnected` event that meets a full queue is lost, and nothing else removes the routes of that
  connection (`platform-linux/src/wine_bridge.rs:653`).
* `merge_base` takes the least sum of distances. After an earlier merge that may be an ancestor of a
  later common ancestor, and the merge brings back a value that was changed since
  (`store/src/lib.rs:564`). Hence the *First* in `FirstMergeKeepsOneSided`.
* With the table of call sites full, each observation of another one ends the turn of the sender's loop
  before it sends what is due (`native-hook/src/lib.rs:208`): the exception in `HeldLeaves`.
* A full frame queue keeps the older frames, so the frame called most recent need not be
  (`platform-linux/src/pipewire_video.rs:336`): the exception in `TakesNewest`.
* A text that passed the filter before its hook was disabled, forgotten or detached, and is in the
  hands of the service or waits in its queue, still reaches the window
  (`platform-linux/src/wine_bridge.rs:607`): `OnlyEnabledText` is about what the service takes up. The
  window looks at its routes and settings again when it takes the text out (`QueueText`).
* In the same way a text of an AT-SPI application that the listener has in its hand or in the queue when
  another one is selected still reaches the window (`platform-linux/src/native_accessibility.rs:193`):
  `HearsChosen` is about what the listener lets pass.
* Turns are grouped by the stamps of the producers. A text that comes late with an early stamp is
  grouped past one of its hook that came before it (`app/src/main.rs:2159`), and when the mode is
  switched to snapshots before that one is taken, the later text is shown again in its place. `InOrder`
  and `DetectedReplayed` except the texts in `overtaken`.
* A process that is given the number of the ancestor whose mark it inherited takes itself for one that
  has a sender, and its texts go nowhere (`native-hook/src/lib.rs:105`): `mistaken` in `OneSender`.
* When the list of branches cannot be read, the name of a new resume branch may be taken, and that
  branch is moved (`app/src/main.rs:2221`).
* Hooks that were enabled before the enabling of all failed stay enabled, unless an earlier worker had
  enabled all of them (`wine-hook/src/windows/mod.rs:198`); no text is taken meanwhile (`ActiveServed`).
* A start that meets a worker that is ending reports success, and then there is no worker
  (`wine-hook/src/windows/mod.rs:72`); `OneWorker` allows for it.
* A worker that starts again while a thread of the game is between the creation of a DirectWrite
  hook and the store of its original enables the hook too soon
  (`wine-hook/src/windows/directwrite.rs:75`): the exception in `DetourHasOriginal`.
* `ScriptStringFree` forgets the text after the original has freed the analysis; a thread that gets an
  analysis at the same address in between, without a text, is observed with the old one
  (`wine-hook/src/windows/uniscribe.rs:155`): the exception for a moment in `ObservedOwnText`.
* A process id may pass to another process between finding and opening the target of an injection
  (the last step of `FindsPicked`).
* Two windows launched at the same time over a stale socket may both find it stale, and the second
  removes the socket of the first; a window that closes removes the socket of one that took its place
  (`app/src/main.rs:3024`, `platform-linux/src/wine_bridge.rs:426`). All properties of `Launch` leave
  out windows that were launched beside another launch or end (`crossed`).
* A window that is killed while it saves leaves settings no window can read, and the next one starts
  with defaults (`app/src/main.rs:2930`): the exception in `SettingsKept`.
* A writer that ends while it fills the temporary file, after another one has renamed it, leaves a short
  file under the final name; `PayloadsKept` counts such files in `torn`.

### Fairness

Safety runs assume none. `pipeline_live` assumes that polls recur (`timeout_add_local` every 100 ms
in `init`) and time passes, so a step of the poll that is possible again and again is taken (strong
fairness, since a user message or an event may come first each time), and that a translation ends.
The last is an assumption about the provider: `translate_turn` awaits it without a deadline of its
own, and while it does not answer nothing else is translated.

`hooks` assumes that the window polls and its handlers end (one weak fairness condition, as it does
one or the other), that the service sends what it has in hand, and that each task of the service and each
library takes the steps it can (weak fairness): the runtime and the threads schedule them, and none of these steps
waits for the user. Nothing is assumed about users, texts, or the end of connections. For
`GameReconnects` it assumes that the thread of the library reads the configuration and dials again
(`FindsConfig`, `Dials`), which its loop does every second or half second; windows need not finish
launching or closing.

`parts` assumes for `HeldLeaves` that the sender's thread runs (weak fairness of `Loop`) and that time
passes (`Ticks`). Both are the operating system's. The game may draw all the time or never, and the
connection may be lost again and again, which is an end of holding too.

## What is proved

`SessionsProofs` proves for every set of commits, games, names, clients and operations:

* `TypeCorrect`: `Spec => []TypeOK`;
* `GraphCorrect`: `Spec => []GraphOK`: parents and heads are stored commits, branches belong to
  registered games, and the graph has no cycle;
* `Refinement`: `Spec => KeepsPromise`, the implementation of `BranchHistory`;
* `NoTurnLostCorrect` and `OwnHistoryCorrect`.

The assumptions are the named ones of `SessionStore` and `Sessions`: the default namespace and main
exist, and `None` is no commit. `GraphOK` alone is not inductive: a client between `BeginPut` and
`EndPut` carries parents it has checked, and between `EndPut` and `Advance` a commit it has stored.
`ClientOK` says that what a client carries is stored and that a commit to be advanced to is new on
top of the head that was read; `IInv == TypeOK /\ GraphOK /\ ClientOK` is inductive, and `OwnOK`
adds the owner of what is carried. That a compare-and-swap adds exactly one commit to a lineage
rests on `CommitGraphProofs`: `History` is the least parent-closed set (`HistoryLeast`), and putting
a new commit changes no old history (`OldHistory`). For the refinement each action is first reduced
to one of three effects on the tables (put a commit, move a branch, check out a commit) and each
effect to a step of `BranchHistory`.

`CommitGraphProofs` also has what the code computes of a commit graph of any size.
`HistoryFromHeadOrdered`: the loop of `history_from_head`, with its stack and its set of seen commits,
ends, and returns every reachable commit once, after its parents. `LinearBase`: if the histories of two
commits have no merge, their lowest common ancestor is the only one and the least sum of distances
picks it. The loops are recursive functions of a step count; that they end, and what holds after any
number of steps, is proved without an induction theorem: a set of numbers that is not empty has a least
one (`LeastNumber`), so the least step after which something fails contradicts the step before it.

`TurnsProofs` proves for any programs, branches, slots and values:

* `TurnTypes`, `ScratchpadsHold`, `MergesHold`, `HistoriesOrdered`: the four invariants;
* `AdvancesHold`: a turn or edit has the head it replaces as its parent, and on main it started from the
  context of that head.

The inductive invariant is `Inv`: what is stored is sound, and each program's job carries what it has
read (`JobOK`). The hard part is `Between`: in the endless modes the context is read after the head, from
whatever main's last commit is then. Commits are numbered as they are stored and, while no
branch is moved by name, main's head only grows; so the commit that was read lies between the head read
and the head now, and when the compare-and-swap finds the two equal it was that one. `MergesHold`
rests on `LinearBase`, and on `BasesStay`: new commits change no base.

`PipelineProofs`, `PipelineOrderProofs` and `PipelineReplayProofs` prove for any games, sources, hooks,
settings and capacities:

* `TypesHold`, and `ActiveGameOnly`: what waits belongs to the active game, whatever statements of the
  store fail. `Shapes` is the inductive invariant of both; a cursor's position needs `Histories` too, which
  says that what the store, the list and the cursor hold are paths, and is kept since a new commit has an
  id above all others.
* `LineOrder`: `InOrder`, for stamps in any order. `Orderly` lines up the handled turns, the turns that
  are ready, those that wait for detection and the pending texts, and says that each part is before the
  next hook by hook (`Before`), where a text is also before those it has overtaken, and before itself
  once it has overtaken any. The pairs only grow (`BeforeGrows`). `LatestSound` says that the last text
  of a hook is as late as any that waits and any that has overtaken one that waits, so a snapshot shows
  nothing older than what it replaces. Grouping filters the queue and a snapshot is sorted, so this
  rests on what `Sorted` and `Selected` return (`PipelineProofs`, first part).
* `DetectedTurnsReplayed`: `DetectedReplayed`, while the store works (`~StoreFails`; a failing write stops a
  replay, and its turn is then sent) and `None` is no cursor. `Detections` says that the turns that are
  ready are the next turns of the cursor's path (`Follows`); so each matches. What waits comes after what
  was found in the sense of `Before`, so a new turn holds a text that was found only if that has overtaken one.
* `ReplaysContinue`: `ReplayContinues`, if names for resume branches do not run out: the code numbers them
  until one is free, so there are infinitely many. `Placement` says that the cursor's path is the
  beginning of that of the active branch. In a run the names are few, and the property holds there because
  the bounds on texts and messages come first.

`HostProofs` proves for any libraries, hooks, capacities and number of connections:

* `OnlyEnabledTextCorrect`: a text is taken up only while its hook is enabled and its connection routed,
  or the handler in progress has not come to it. The property speaks of one step; what makes it true is
  `HostInv`: what the service lets through of a connection is permitted (`Permitted`), a handler that
  enables goes through routed connections, nothing is enabled on one the service does not serve, and a
  disconnection that waits in the queue is of a connection that is closed already.
* `AgreementHolds`: both halves of `Agreement`. `AgreeInv` adds what is on its way. `InformedOK` says
  that a library's own set, changed by the commands it has not read, is the service's set, hook by hook
  (`Obeyed`: the last command about a hook counts), unless a command was refused or is in the hands of the
  window (`InHand`); `HandlerWired` says what those hands hold. `LibrariesOK`
  says which connection a library speaks on, `IntroducedOK` that what is enabled was announced there.
* `HostTypes`: the types and capacities.

and for any number of windows that are launched over any leftovers:

* `RunsReachableCorrect`, `NotLockedOutCorrect`, `SettingsKeptCorrect`, `LaunchTypes`. `LaunchInv` says of
  every window that no other launch or end has crossed whom it can meet (`Company`) and what it has found and
  left at the path and in the configuration at each of its steps (`Way`); and that, while nobody saves, what
  was saved last is what would be loaded.
* `PartTypes`: the types of both in the instance `MCLaunch`, since a behaviour of that is one of each
  (`FollowsBoth`).

`PartsProofs` proves properties of the parts, each for a specification without fairness that the module
names (`StartSpec`, `WorkerSpec`, ...), for any values of the constants:

* `OneSenderCorrect`: a process that is marked has exactly one
  thread that claims it or one sender, unless it was given the number it inherited (`IdsOK`, `ClaimsOK`,
  `SendersOK`).
* `OneWorkerCorrect`, `ActiveServedCorrect`, `DetourHasOriginalCorrect`: `STARTED` is set exactly while one
  injector starts a worker or one worker has not ended (`StartedOK`); so no step of a worker meets another
  one, on which `ServedOK` and `DetoursOK` rest. The last theorem is about the time before a second worker.
* `KnownAnnouncedCorrect`, for any places and any limit.
* `PayloadsKeptCorrect`: what a rename is about to publish must be as whole as what is published (`FilesOK`).
* `SentApartCorrect`, `BestHeldCorrect`: a text is held no longer than it has been quiet, and is due only when
  it has been held for the window (`HeldOK`).
* `OneCaptureCorrect`, `TakesNewestCorrect`: the last frame of a queue that did not refuse one is the
  newest, and so is the drained one when nothing waits (`QueuesOK`).
* `ReusesLastSampledCorrect`, and `SegmentsCompleteCorrect`, whose invariant `Segmented` places the open
  segment after all others, up to the last chunk.
* `ObservedOwnTextCorrect`: objects in use are at different addresses, and the text under the address of one is
  its own unless its association is still to come (`AssocInv`).
* `FindsPickedCorrect`, `HearsChosenCorrect`: a choice that waits is at its position unless the list has
  changed, and the listener forwards what is selected (`TargetsInv`).
* `PartsTypes`: the types and limits of all parts in the instance `MCParts`.

The assumptions are those named in the modules (`TurnsAssumption`, `PipelineAssumption`, ...), which TLC
evaluates in the runs, and the hypotheses given above.

Only model-checked is liveness: `TextsLeave`, `WantedGetsEnabled`, `GameReconnects` and `HeldLeaves`. Liveness
under fairness and `ENABLED` are outside the prover. So is the induction theorem of the library, which takes an
operator as its parameter; the least counterexample takes its place. The four properties the code does not have
(`MainOnlyIfNeeded`, `DisabledNeverSent`, `ResumeStays`, `DetachIsFinal`) are shown by their runs. Every other
property of a run is a theorem. No module uses `RECURSIVE`.

## Plan

Done: the modules above, their runs, and a theorem for every safety property that the code has.

What could come next: that `Turns` implements `BranchHistory` too, which ties what commits hold to what the
statements promise; what the assumptions about the histories found (`HistoryAssumption`) are worth for a store that
several programs have written, as `NewSessionSound` does for `Turns`; and the measure by which every poll brings a
text nearer to its end, which is the part of `TextsLeave` that needs no fairness.

Not planned: the provider client, the portal, launches of native programs, the plugin runner and the
HUD, which are I/O with services outside the repository and keep no protocol state; the prompt
template parser and the processors, which are pure functions of a text; the audio receiver, which
nothing uses; the copy of branches from before there were games; and the vendored MinHook.
