------------------------------ MODULE HookHost ------------------------------
(***************************************************************************)
(* The bridges between the hook libraries inside games and the control     *)
(* window: a producer per game process, the hook service with one task per *)
(* connection on one thread, and the window that polls its events.         *)
(*                                                                         *)
(* A connection has an identity of its own, so candidates are named by     *)
(* their hook and the connection.  Candidate events block the thread of    *)
(* the service while the event queue is full; all others are dropped then. *)
(* Both sides lock the sets of enabled candidates only for a moment: the   *)
(* service has read them before it sends a text, and the window changes    *)
(* them, queues the command and writes its settings in steps of its own.   *)
(***************************************************************************)
EXTENDS Naturals, SequencesExt

CONSTANTS
  Native,          \* game processes with the preloaded library
  Wine,            \* game processes with the injected library
  Hook,            \* stable keys of the hooks
  None,            \* nothing to send, no hook, or no connection
  EventCapacity,   \* of the queue from the service to the window
  CommandCapacity, \* of the queue from the window to a connection's task
  MaxConnections,  \* bound: connections in a run
  MaxShown,        \* bound: texts shown in a run
  MaxUser          \* bound: messages of the user in a run

ASSUME HostAssumption ==
  /\ Native \cap Wine = {} /\ None \notin Nat \cup Hook
  /\ EventCapacity \in Nat \ {0} /\ CommandCapacity \in Nat \ {0}

VARIABLES
  producers,       \* the state of each hook library
  connections,     \* the connections made so far, in order
  events,          \* the queue of events for the window
  sending,         \* the candidate or text the service is to send, or None
  handler,         \* where the window is in a handler that sends commands
  rows,            \* hooks with saved settings
  wanted,          \* those that are enabled in the settings
  routes,          \* <<hook, connection>> pairs the window can command
  shown,           \* texts shown so far
  user,            \* messages of the user so far
  offered,         \* ghost: the pairs the window has seen a candidate of
  refused,         \* ghost: connections a command was not queued for
  told             \* ghost: detached producers, not attached since

windowVars == <<rows, wanted, routes>>
boundVars == <<shown, user>>
ghostVars == <<offered, refused, told>>
vars == <<producers, connections, events, sending, handler, windowVars,
          boundVars, ghostVars>>

Producer == Native \cup Wine
Link(c) == connections[c].link
Registered(x) == x.link = "open"

(* The last connection of a producer that has one.                         *)
Mine(p) == producers[p].connection
Serving(p) == producers[p].phase = "serving"

Off == [phase |-> "off", connection |-> None, known |-> {}, enabled |-> {},
        waiting |-> {}]

(* The handler, its hook, the connections it has not come to, and the one  *)
(* it has a command for.                                                   *)
Handler(doing, h, S) == [doing |-> doing, hook |-> h, left |-> S, sends |-> None]
Idle == Handler("nothing", None, {})

Init ==
  /\ producers = [p \in Producer |-> Off]
  /\ connections = <<>>
  /\ events = <<>>
  /\ sending = None
  /\ handler = Idle
  /\ rows \in SUBSET Hook
  /\ wanted \in SUBSET rows
  /\ routes = {}
  /\ shown = 0
  /\ user = 0
  /\ offered = {}
  /\ refused = {}
  /\ told = {}

-----------------------------------------------------------------------------
(* The hook libraries.                                                     *)

Library ==
  UNCHANGED <<events, sending, handler, windowVars, user, offered, refused>>

(* A producer starts over: enabled candidates and waiting texts are gone.  *)
Seeking(p) ==
  [producers EXCEPT ![p].phase = "seek", ![p].enabled = {}, ![p].waiting = {}]

Candidates(S) == [i \in DOMAIN SetToSeq(S) |->
                    [kind |-> "candidate", hook |-> SetToSeq(S)[i]]]

(* worker_main and run_connection up to the hello.  The injected library   *)
(* keeps its book of candidates, advertises it at once and does not wait   *)
(* for the host; the preloaded one starts with an empty table.             *)
Connects(p) ==
  /\ producers[p].phase = "seek"
  /\ Len(connections) < MaxConnections
  /\ producers' = [producers EXCEPT
       ![p].connection = Len(connections) + 1,
       ![p].phase = IF p \in Wine THEN "serving" ELSE "hello",
       ![p].known = IF p \in Wine THEN @ ELSE {}]
  /\ connections' = Append(connections,
       [by |-> p, link |-> "hello", eof |-> FALSE, frame |-> "none",
        candidates |-> {}, enabled |-> {}, commands |-> <<>>, down |-> <<>>,
        up |-> IF p \in Wine THEN Candidates(producers[p].known) ELSE <<>>])
  /\ UNCHANGED <<shown, told>>
  /\ Library

Welcomed(p) ==
  /\ producers[p].phase = "hello"
  /\ Link(Mine(p)) = "open"
  /\ producers' = [producers EXCEPT ![p].phase = "serving"]
  /\ UNCHANGED <<connections, shown, told>>
  /\ Library

(* The socket of a producer that leaves is closed on its side.             *)
Hangup(p) ==
  IF Mine(p) = None THEN connections
  ELSE [connections EXCEPT ![Mine(p)].eof = TRUE]

(* The preloaded library waits 20 ms for the answer to its hello.          *)
GivesUp(p) ==
  /\ producers[p].phase = "hello"
  /\ producers' = Seeking(p)
  /\ connections' = Hangup(p)
  /\ UNCHANGED <<shown, told>>
  /\ Library

(* CandidateBook::observe and its counterpart in run_connection: a hook is *)
(* announced once, and its text goes out if it is enabled.  The preloaded  *)
(* library holds the text back for a tenth of a second.                    *)
Shows(p, h) ==
  LET isNew == h \notin producers[p].known
      isEnabled == h \in producers[p].enabled
  IN
  /\ Serving(p)
  /\ Link(Mine(p)) # "closed"
  /\ shown < MaxShown
  /\ shown' = shown + 1
  /\ producers' = [producers EXCEPT
       ![p].known = @ \cup {h},
       ![p].waiting = IF p \in Native /\ isEnabled THEN @ \cup {h} ELSE @]
  /\ connections' = [connections EXCEPT ![Mine(p)].up = @
       \o (IF isNew THEN <<[kind |-> "candidate", hook |-> h]>> ELSE <<>>)
       \o (IF p \in Wine /\ isEnabled THEN <<[kind |-> "text", hook |-> h]>>
           ELSE <<>>)]
  /\ UNCHANGED told
  /\ Library

(* The texts held back are sent even if their hook was disabled meanwhile. *)
Flushes(p, h) ==
  /\ h \in producers[p].waiting
  /\ Link(Mine(p)) # "closed"
  /\ producers' = [producers EXCEPT ![p].waiting = @ \ {h}]
  /\ connections' = [connections EXCEPT
       ![Mine(p)].up = Append(@, [kind |-> "text", hook |-> h])]
  /\ UNCHANGED <<shown, told>>
  /\ Library

(* A message of the host.  The injected library stops at a Shutdown, the   *)
(* preloaded one treats it like a lost connection.                         *)
Obeys(p) ==
  LET c == Mine(p)
      m == Head(connections[c].down)
  IN
  /\ Serving(p)
  /\ connections[c].down # <<>>
  /\ connections' = [connections EXCEPT ![c].down = Tail(@)]
  /\ producers' =
       CASE m.kind = "enable" ->
              [producers EXCEPT ![p].enabled = @ \cup {m.hook}]
         [] m.kind = "disable" ->
              [producers EXCEPT ![p].enabled = @ \ {m.hook}]
         [] m.kind = "shutdown" /\ p \in Wine ->
              [producers EXCEPT ![p].phase = "leaving", ![p].enabled = {}]
         [] OTHER -> Seeking(p)
  /\ UNCHANGED <<shown, told>>
  /\ Library

(* The body of a message does not come within 20 ms of its length.         *)
MissesBody(p) ==
  /\ p \in Native /\ Serving(p)
  /\ connections[Mine(p)].down # <<>>
  /\ producers' = Seeking(p)
  /\ connections' = Hangup(p)
  /\ UNCHANGED <<shown, told>>
  /\ Library

(* The host has closed: a failed write or an end of file is noticed before *)
(* or instead of the messages that still arrive.                           *)
Loses(p) ==
  /\ producers[p].phase \in {"hello", "serving"}
  /\ Link(Mine(p)) = "closed"
  /\ producers' = Seeking(p)
  /\ UNCHANGED <<connections, shown, told>>
  /\ Library

(* reset_worker_state: only now can the injected library be started again. *)
Leaves(p) ==
  /\ producers[p].phase = "leaving"
  /\ producers' = [producers EXCEPT ![p] = Off]
  /\ connections' = Hangup(p)
  /\ UNCHANGED <<shown, told>>
  /\ Library

(* The game process ends.                                                  *)
Exits(p) ==
  /\ producers[p].phase # "off"
  /\ producers' = [producers EXCEPT ![p] = Off]
  /\ connections' = Hangup(p)
  /\ told' = told \ {p}
  /\ UNCHANGED shown
  /\ Library

-----------------------------------------------------------------------------
(* The hook service: one thread, that does nothing else while it sends.    *)

Service ==
  /\ sending = None
  /\ UNCHANGED <<producers, handler, windowVars, boundVars, ghostVars>>

(* Mutant: there is always a place in the queue.                           *)
Send_Unbounded(q, e) == Append(q, e)

(* send_event for anything but a candidate: dropped if the queue is full.  *)
Send(q, e) == IF Len(q) < EventCapacity THEN Append(q, e) ELSE q

Event(kind, c) == [kind |-> kind, connection |-> c, hook |-> None]

Closed(x) ==
  [x EXCEPT !.link = "closed", !.frame = "none", !.enabled = {},
            !.commands = <<>>, !.up = <<>>]

(* The end of receive_hook_events after an error.                          *)
Ends(c) ==
  /\ connections' = [connections EXCEPT ![c] = Closed(@)]
  /\ events' = Send(Send(events, Event("error", c)), Event("disconnected", c))
  /\ UNCHANGED sending

(* run_hook_server: a hello is accepted.  The two listeners are selected   *)
(* from, so the handshake the other one was in the middle of is dropped.   *)
Accepts(c) ==
  LET isNative(d) == connections[d].by \in Native
      other(d) == isNative(d) # isNative(c)
      halfway == {d \in DOMAIN connections : Link(d) = "hello" /\ other(d)}
  IN
  /\ Service
  /\ Link(c) = "hello"
  /\ \E dropped \in {{}} \cup {{d} : d \in halfway} :
       connections' = [d \in DOMAIN connections |->
         IF d = c THEN [connections[d] EXCEPT !.link = "open"]
         ELSE IF d \in dropped THEN Closed(connections[d]) ELSE connections[d]]
  /\ events' = Send(events, Event("connected", c))
  /\ UNCHANGED sending

(* The client has gone, or its hello has not come within two seconds.      *)
Rejects(c) ==
  /\ Service
  /\ Link(c) = "hello"
  /\ connections' = [connections EXCEPT ![c] = Closed(@)]
  /\ events' = Send(events, Event("error", c))
  /\ UNCHANGED sending

(* The preloaded library writes the length and the body of a frame apart,  *)
(* and only the length has come.                                           *)
ReceivesLength(c) ==
  /\ Service
  /\ Link(c) = "open"
  /\ connections[c].frame = "none" /\ connections[c].up # <<>>
  /\ connections[c].by \in Native
  /\ connections' = [connections EXCEPT ![c].frame = "half"]
  /\ UNCHANGED <<events, sending>>

(* Mutant: the service relies on the producer.                             *)
Passes_Known(x, h) == h \in x.candidates

(* A text passes if its candidate is known and enabled.                    *)
Passes(x, h) == h \in x.candidates /\ h \in x.enabled

(* A message of the producer: a candidate becomes known, and the thread is *)
(* about to send it, or a text that passes.                                *)
Receives(c) ==
  LET x == connections[c]
      m == Head(x.up)
      e == [kind |-> m.kind, connection |-> c, hook |-> m.hook]
      rest == [x EXCEPT !.up = Tail(@), !.frame = "none"]
  IN
  /\ Service
  /\ Link(c) = "open"
  /\ x.frame # "torn" /\ x.up # <<>>
  /\ \/ /\ m.kind = "candidate"
        /\ connections' = [connections EXCEPT ![c] =
             [rest EXCEPT !.candidates = @ \cup {m.hook}]]
        /\ sending' = e
     \/ /\ m.kind = "text"
        /\ connections' = [connections EXCEPT ![c] = rest]
        /\ sending' = IF Passes(x, m.hook) THEN e ELSE None
  /\ UNCHANGED events

(* The body of a frame whose length is lost reads as an impossible length; *)
(* or the producer has gone and everything it sent is read.                *)
ReceiveFails(c) ==
  LET x == connections[c] IN
  /\ Service
  /\ Link(c) = "open"
  /\ \/ x.frame = "torn" /\ (x.up # <<>> \/ x.eof)
     \/ x.eof /\ x.up = <<>>
  /\ Ends(c)

(* A command of the window: select! prefers it to a message that is only   *)
(* half received, and what was read of that is lost.                       *)
Commands(c) ==
  LET x == connections[c]
      m == Head(x.commands)
      sent == [x EXCEPT !.commands = Tail(@), !.down = Append(@, m),
                        !.frame = IF @ = "half" THEN "torn" ELSE @]
  IN
  /\ Service
  /\ Link(c) = "open"
  /\ x.commands # <<>>
  /\ \/ /\ m.kind # "shutdown"
        /\ connections' = [connections EXCEPT ![c] = sent]
        /\ UNCHANGED <<events, sending>>
     \/ /\ m.kind # "shutdown" /\ x.eof
        /\ Ends(c)
     \/ /\ m.kind = "shutdown"
        /\ connections' = [connections EXCEPT ![c] = Closed(sent)]
        /\ events' = Send(events, Event("disconnected", c))
        /\ UNCHANGED sending

(* Mutant: candidates are dropped like all other events.                   *)
MustWait_None(e) == FALSE

(* send_event: the thread waits for a place for a candidate.               *)
MustWait(e) == e.kind = "candidate"

Delivers ==
  /\ sending # None
  /\ MustWait(sending) => Len(events) < EventCapacity
  /\ events' = Send(events, sending)
  /\ sending' = None
  /\ UNCHANGED <<producers, connections, handler, windowVars, boundVars,
                 ghostVars>>

-----------------------------------------------------------------------------
(* The window: commands go to registered connections that know the hook.   *)
(* Its thread runs one handler at a time.                                  *)

Resting == handler.doing = "nothing"

Queued(x, m) == [x EXCEPT !.commands = Append(@, m)]
Full(x) == Len(x.commands) = CommandCapacity

(* Mutant: disabling is left to the producer.                              *)
Marked_Later(E) ==
  CASE handler.doing = "enable" -> E \cup {handler.hook}
    [] handler.doing = "detach" -> {}
    [] OTHER -> E

(* What enable_candidate, disable_candidate and shutdown make of the set   *)
(* of enabled candidates.                                                  *)
Marked(E) ==
  CASE handler.doing = "enable" -> E \cup {handler.hook}
    [] handler.doing = "detach" -> {}
    [] OTHER -> E \ {handler.hook}

(* Their first half: the service goes by the new set from now on.          *)
Marks(c) ==
  LET x == connections[c]
      found == /\ Registered(x)
               /\ handler.doing = "enable" => handler.hook \in x.candidates
  IN
  /\ c \in handler.left /\ handler.sends = None
  /\ handler' = [handler EXCEPT !.left = @ \ {c},
                               !.sends = IF found THEN c ELSE None]
  /\ connections' = IF found
       THEN [connections EXCEPT ![c].enabled = Marked(@)] ELSE connections
  /\ UNCHANGED <<producers, events, sending, windowVars, boundVars, ghostVars>>

(* What the handler says to the libraries.                                 *)
Notice ==
  [kind |-> CASE handler.doing = "forget" -> "disable"
              [] handler.doing = "detach" -> "shutdown"
              [] OTHER -> handler.doing,
   hook |-> handler.hook]

(* Their second half: the command is queued; without room for it, or when  *)
(* the connection has ended meanwhile, only enabling is taken back.        *)
Notified(x) ==
  IF Registered(x) /\ ~Full(x) THEN Queued(x, Notice)
  ELSE IF handler.doing = "enable"
  THEN [x EXCEPT !.enabled = @ \ {handler.hook}]
  ELSE x

Sends ==
  LET c == handler.sends
      full == Full(connections[c])
  IN
  /\ c # None
  /\ handler' = [handler EXCEPT !.sends = None]
  /\ connections' = [connections EXCEPT ![c] = Notified(@)]
  /\ refused' = IF full THEN refused \cup {c} ELSE refused
  /\ told' = IF handler.doing = "detach" /\ Link(c) = "open" /\ ~full
             THEN told \cup {p \in Producer : Mine(p) = c /\ Serving(p)}
             ELSE told
  /\ UNCHANGED <<producers, events, sending, windowVars, boundVars, offered>>

(* The end of the handlers: settings and routes follow.                    *)
Finishes ==
  LET h == handler.hook
      doing == handler.doing
  IN
  /\ ~Resting /\ handler.left = {} /\ handler.sends = None
  /\ handler' = Idle
  /\ wanted' = IF doing = "enable" THEN wanted \cup {h} ELSE wanted \ {h}
  /\ rows' = IF doing = "forget" THEN rows \ {h} ELSE rows
  /\ routes' = IF doing = "detach" THEN {} ELSE routes
  /\ UNCHANGED <<producers, connections, events, sending, boundVars, ghostVars>>

Handles == (\E c \in handler.left : Marks(c)) \/ Sends \/ Finishes

(* poll_wine_hook takes one event: what is wanted is enabled.              *)
Polls ==
  LET e == Head(events)
      c == e.connection
      pair == <<e.hook, c>>
  IN
  /\ Resting
  /\ events # <<>>
  /\ events' = Tail(events)
  /\ \/ /\ e.kind = "candidate"
        /\ rows' = rows \cup {e.hook}
        /\ routes' = routes \cup {pair}
        /\ offered' = offered \cup {pair}
        /\ handler' = IF e.hook \in wanted
                      THEN Handler("enable", e.hook, {c}) ELSE handler
     \/ /\ e.kind = "disconnected"
        /\ routes' = {r \in routes : r[2] # c}
        /\ UNCHANGED <<rows, handler, offered>>
     \/ /\ e.kind \in {"connected", "text", "error"}
        /\ UNCHANGED <<rows, routes, handler, offered>>
  /\ UNCHANGED <<producers, connections, sending, wanted, boundVars, refused,
                 told>>

UserActs ==
  /\ Resting
  /\ user < MaxUser
  /\ user' = user + 1
  /\ UNCHANGED <<connections, events, sending, shown, rows, wanted, offered,
                 refused>>

Routed(h) == {r[2] : r \in {r \in routes : r[1] = h}}

(* TextHookConfigChanged, with the settings on or off: a command goes out  *)
(* even if it is another setting that changed.                             *)
Configure(h, on) ==
  /\ UserActs
  /\ h \in rows
  /\ handler' = Handler(IF on THEN "enable" ELSE "disable", h, Routed(h))
  /\ UNCHANGED <<producers, routes, told>>

(* ForgetTextHook: its routes go first.                                    *)
Forget(h) ==
  /\ UserActs
  /\ h \in rows
  /\ handler' = Handler("forget", h, Routed(h))
  /\ routes' = {r \in routes : r[1] # h}
  /\ UNCHANGED <<producers, told>>

(* DetachHooks: every bridge with a route is told to shut down.            *)
Detach ==
  /\ UserActs
  /\ handler' = Handler("detach", None, {r[2] : r \in routes})
  /\ UNCHANGED <<producers, routes, told>>

(* The user attaches to a game, or launches it with the library preloaded. *)
(* TerraTranslateHookStartW does nothing while a worker runs or resets.    *)
Attach(p) ==
  /\ UserActs
  /\ producers[p].phase = "off"
  /\ producers' = [producers EXCEPT ![p].phase = "seek"]
  /\ told' = told \ {p}
  /\ UNCHANGED <<handler, routes>>

-----------------------------------------------------------------------------
Libraries ==
  \E p \in Producer :
    \/ Connects(p) \/ Welcomed(p) \/ GivesUp(p)
    \/ Obeys(p) \/ MissesBody(p) \/ Loses(p) \/ Leaves(p) \/ Exits(p)
    \/ \E h \in Hook : Shows(p, h) \/ Flushes(p, h)

Tasks ==
  \/ Delivers
  \/ \E c \in DOMAIN connections :
       \/ Accepts(c) \/ Rejects(c) \/ ReceivesLength(c) \/ Receives(c)
       \/ ReceiveFails(c) \/ Commands(c)

Window ==
  \/ Polls \/ Handles \/ Detach
  \/ \E h \in Hook : (\E on \in BOOLEAN : Configure(h, on)) \/ Forget(h)
  \/ \E p \in Producer : Attach(p)

Next == Libraries \/ Tasks \/ Window

Spec == Init /\ [][Next]_vars

(* The window polls and its handlers end, the thread of the service gets   *)
(* on with every connection, and so do the workers of the producers.       *)
Fairness ==
  /\ WF_vars(Polls \/ Handles) /\ WF_vars(Delivers)
  /\ \A c \in 1 .. MaxConnections :
       WF_vars(c \in DOMAIN connections
               /\ (Accepts(c) \/ Receives(c) \/ ReceiveFails(c) \/ Commands(c)))
  /\ \A p \in Producer : WF_vars(Welcomed(p) \/ Obeys(p) \/ Loses(p))

FairSpec == Spec /\ Fairness

-----------------------------------------------------------------------------
(* Properties.                                                             *)

Message(kinds) == [kind : kinds, hook : Hook \cup {None}]

TypeOK ==
  /\ producers \in [Producer ->
       [phase : {"off", "seek", "hello", "serving", "leaving"},
        connection : DOMAIN connections \cup {None},
        known : SUBSET Hook, enabled : SUBSET Hook, waiting : SUBSET Hook]]
  /\ \A c \in DOMAIN connections : LET x == connections[c] IN
       /\ x.by \in Producer /\ x.link \in {"hello", "open", "closed"}
       /\ x.frame \in {"none", "half", "torn"} /\ x.eof \in BOOLEAN
       /\ x.candidates \subseteq Hook /\ x.enabled \subseteq x.candidates
       /\ x.commands \in Seq(Message({"enable", "disable", "shutdown"}))
       /\ x.down \in Seq(Message({"enable", "disable", "shutdown"}))
       /\ x.up \in Seq(Message({"candidate", "text"}))
       /\ Len(x.commands) <= CommandCapacity
  /\ Len(events) <= EventCapacity
  /\ handler \in
       [doing : {"nothing", "enable", "disable", "forget", "detach"},
        hook : Hook \cup {None}, left : SUBSET DOMAIN connections,
        sends : DOMAIN connections \cup {None}]
  /\ handler.doing \notin {"nothing", "detach"} => handler.hook \in rows
  /\ wanted \subseteq rows /\ rows \subseteq Hook
  /\ routes \subseteq offered /\ offered \subseteq Hook \X DOMAIN connections

(* A producer and the window agree about a connection: no command is on    *)
(* its way and none was refused.                                           *)
Settled(c) ==
  LET x == connections[c] IN
  /\ x.link = "open" /\ x.commands = <<>> /\ x.down = <<>> /\ c \notin refused
  /\ producers[x.by].connection = c /\ Serving(x.by)

(* The handler is about to silence a hook, or this is the moment of it.    *)
Silencing(h) ==
  \/ handler.doing = "detach"
  \/ handler.doing \in {"disable", "forget"} /\ handler.hook = h

(* What may be enabled on a connection: a hook that is enabled in the      *)
(* settings or is just being enabled, and routed or just being forgotten,  *)
(* and that is not being silenced, unless the handler has yet to come to   *)
(* the connection.                                                         *)
Permitted(h, c) ==
  /\ h \in wanted \/ (handler.doing = "enable" /\ handler.hook = h)
  /\ <<h, c>> \in routes \/ (handler.doing = "forget" /\ handler.hook = h)
  /\ Silencing(h) => c \in handler.left

(* The service lets text of a candidate through only where it is permitted,*)
(* and a producer that has read all its commands sends text for exactly    *)
(* what is enabled in the settings and routed, but for the hook a handler  *)
(* is busy with, over reconnects, detaching, forgetting and lost events.   *)
Agreement ==
  \A c \in DOMAIN connections, h \in Hook :
    LET x == connections[c] IN
    /\ h \in x.enabled => Permitted(h, c)
    /\ Settled(c) /\ handler.doing # "detach" /\ handler.hook # h =>
         /\ h \in producers[x.by].enabled <=> h \in x.enabled
         /\ h \in x.enabled <=> h \in wanted /\ <<h, c>> \in routes

(* A text that the service takes up to send is of a hook that is enabled   *)
(* in the settings and not detached at that moment, or whose handler has   *)
(* not come to this connection, although producers send texts late and     *)
(* learn of a command later (docs/architecture.md).                        *)
OnlyEnabledText ==
  [][sending' # sending /\ sending' # None /\ sending'.kind = "text" =>
       Permitted(sending'.hook, sending'.connection)]_vars

(* A hook that is enabled in the settings and known to a producer becomes  *)
(* enabled there, unless the connection ends, the window loses interest or *)
(* a command is refused: no candidate is announced in vain (send_event).   *)
WantedGetsEnabled ==
  \A h \in Hook, c \in 1 .. MaxConnections :
    LET p == connections[c].by
        here == /\ c \in DOMAIN connections
                /\ Mine(p) = c /\ producers[p].phase \in {"hello", "serving"}
        reached == h \in producers[p].enabled
        given_up ==
          \/ h \notin wanted \/ c \in refused \/ p \in told
          \/ <<h, c>> \in offered \ routes
    IN  (here /\ h \in producers[p].known) ~> (~here \/ reached \/ given_up)

(* Libraries are inert after they were detached: a producer that was told  *)
(* to shut down makes no other connection until it is attached again.      *)
DetachIsFinal ==
  [][\A p \in told \cap told' : Mine(p)' \in {Mine(p), None}]_vars

============================================================================
