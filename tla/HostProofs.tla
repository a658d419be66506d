----------------------------- MODULE HostProofs -----------------------------
(* HookHost for any libraries, hooks and capacities and any number of      *)
(* connections, and Launch for any number of windows.                      *)
EXTENDS MCLaunch, FiniteSetTheorems, SequenceTheorems, TLAPS

-----------------------------------------------------------------------------
(* The invariant                                                           *)

(* What the proof uses of the shape of queues and connections, whatever    *)
(* they hold.                                                              *)
IsSeq(q) == \E S : q \in Seq(S)
IsRecord(x) == "link" \in DOMAIN x /\ "enabled" \in DOMAIN x

(* The service knows of nothing enabled on a connection it does not serve. *)
Sound(x) == IsRecord(x) /\ (x.link # "open" => x.enabled = {})

Doings == {"nothing", "enable", "disable", "forget", "detach"}

(* A handler that enables goes through connections with a route.           *)
HandlerOK ==
  /\ handler = [doing |-> handler.doing, hook |-> handler.hook,
                left |-> handler.left, sends |-> handler.sends]
  /\ handler.doing \in Doings
  /\ Resting => handler = Idle
  /\ handler.doing = "enable" =>
       \A c \in handler.left : <<handler.hook, c>> \in routes

(* What the service lets through of a connection is permitted.             *)
ConnectionsOK ==
  /\ IsSeq(connections)
  /\ \A r \in routes : r = <<r[1], r[2]>>
  /\ \A c \in DOMAIN connections :
       /\ Sound(connections[c])
       /\ \A h \in connections[c].enabled : Permitted(h, c)

(* What the service sends itself is no end of a connection.                *)
Reports(e) == e # None => e.kind \in {"candidate", "text"}

(* The end of a connection is announced after it, so a route that the      *)
(* window removes has nothing enabled.                                     *)
EndsOK ==
  /\ IsSeq(events)
  /\ \A i \in DOMAIN events : events[i].kind = "disconnected" =>
       /\ events[i].connection \in DOMAIN connections
       /\ Link(events[i].connection) = "closed"
  /\ Reports(sending)

HostInv == ConnectionsOK /\ EndsOK /\ HandlerOK

-----------------------------------------------------------------------------
(* Lemmas about queues and connections                                     *)

(* What Append does to a queue, whatever it holds.                         *)
LEMMA AppendShape ==
  ASSUME NEW q, NEW e, IsSeq(q)
  PROVE  /\ IsSeq(Append(q, e))
         /\ Len(q) \in Nat /\ DOMAIN q = 1 .. Len(q)
         /\ DOMAIN Append(q, e) = 1 .. Len(q) + 1
         /\ Append(q, e)[Len(q) + 1] = e
         /\ \A i \in DOMAIN q : Append(q, e)[i] = q[i]
<1>1. PICK S : q \in Seq(S)
  BY DEF IsSeq
<1>2. q \in Seq(S \cup {e}) /\ e \in S \cup {e}
  BY <1>1
<1>3. Append(q, e) \in Seq(S \cup {e})
  BY <1>2
<1> QED
  BY <1>2, <1>3 DEF IsSeq

(* What Tail does to a queue that is not empty.                            *)
LEMMA TailShape ==
  ASSUME NEW q, IsSeq(q), q # <<>>
  PROVE  /\ IsSeq(Tail(q)) /\ DOMAIN Tail(q) \subseteq DOMAIN q
         /\ 1 \in DOMAIN q /\ Head(q) = q[1]
         /\ \A i \in DOMAIN Tail(q) : i + 1 \in DOMAIN q /\ Tail(q)[i] = q[i + 1]
<1>1. PICK S : q \in Seq(S)
  BY DEF IsSeq
<1> QED
  BY <1>1 DEF IsSeq

(* Replacing elements of a sequence leaves a sequence.                     *)
LEMMA MapShape ==
  ASSUME NEW q, NEW r, IsSeq(q), DOMAIN r = DOMAIN q, r = [i \in DOMAIN r |-> r[i]]
  PROVE  IsSeq(r)
<1>1. PICK S : q \in Seq(S)
  BY DEF IsSeq
<1>2. DOMAIN r = 1 .. Len(q) /\ Len(q) \in Nat
  BY <1>1
<1>3. r \in [1 .. Len(q) -> {r[i] : i \in DOMAIN r}]
  BY <1>2
<1>4. r \in Seq({r[i] : i \in DOMAIN r})
  BY <1>2, <1>3
<1> QED
  BY <1>4 DEF IsSeq

(* A connection that the service closes has nothing enabled.               *)
LEMMA ClosedSound ==
  ASSUME NEW x, IsRecord(x)
  PROVE  Sound(Closed(x)) /\ Closed(x).link = "closed" /\ Closed(x).enabled = {}
  BY DEF IsRecord, Sound, Closed

-----------------------------------------------------------------------------
(* Effects of a step                                                       *)

(* Everything that is not the window's leaves a connection as it is for    *)
(* the proof, begins it or ends it.                                        *)
Quieter(x, y) ==
  /\ Sound(y)
  /\ y.enabled \subseteq x.enabled
  /\ x.link = "closed" => y.link = "closed"

(* The connections of before are at most quieter, and nothing is enabled   *)
(* on new ones.                                                            *)
AllQuieter ==
  /\ IsSeq(connections')
  /\ DOMAIN connections \subseteq DOMAIN connections'
  /\ \A c \in DOMAIN connections : Quieter(connections[c], connections'[c])
  /\ \A c \in DOMAIN connections' \ DOMAIN connections :
       Sound(connections'[c]) /\ connections'[c].enabled = {}

(* What may be announced: the end of what has ended.                       *)
Announceable(e) ==
  e.kind = "disconnected" =>
    e.connection \in DOMAIN connections' /\ connections'[e.connection].link = "closed"

(* The queue grew by at most that.                                         *)
Announced(q, r) ==
  /\ IsSeq(r)
  /\ \A i \in DOMAIN r : (i \in DOMAIN q /\ r[i] = q[i]) \/ Announceable(r[i])

(* A step with such an effect keeps the first part of the invariant.       *)
LEMMA QuieterOK ==
  ASSUME ConnectionsOK, HandlerOK, AllQuieter, UNCHANGED <<wanted, routes, handler>>
  PROVE  ConnectionsOK' /\ HandlerOK'
<1>1. \A h, c : Permitted(h, c)' = Permitted(h, c)
  BY DEF Permitted, Silencing
<1>2. HandlerOK'
  BY DEF HandlerOK, Resting
<1> QED
  BY <1>1, <1>2 DEF ConnectionsOK, AllQuieter, Quieter, Sound

(* And the second, as closed connections stay closed.                      *)
LEMMA AnnouncedOK ==
  ASSUME EndsOK, DOMAIN connections \subseteq DOMAIN connections',
         \A c \in DOMAIN connections : Link(c) = "closed" => connections'[c].link = "closed",
         Announced(events, events'), Reports(sending)'
  PROVE  EndsOK'
  BY DEF EndsOK, Announced, Announceable, Link

(* A step that changes one connection.                                     *)
LEMMA OneQuieter ==
  ASSUME ConnectionsOK, NEW k, NEW y, connections' = [connections EXCEPT ![k] = y],
         k \in DOMAIN connections => Quieter(connections[k], y)
  PROVE  AllQuieter
<1>1. DOMAIN connections' = DOMAIN connections /\ IsSeq(connections)
  BY DEF ConnectionsOK
<1>2. connections' = [c \in DOMAIN connections' |-> connections'[c]]
  BY <1>1
<1>3. IsSeq(connections')
  BY <1>1, <1>2, MapShape
<1>4. ASSUME NEW c \in DOMAIN connections PROVE Quieter(connections[c], connections'[c])
  BY <1>4 DEF ConnectionsOK, Quieter
<1> QED
  BY <1>1, <1>3, <1>4 DEF AllQuieter

(* A step that changes none.                                               *)
LEMMA SameQuieter ==
  ASSUME ConnectionsOK, connections' = connections
  PROVE  AllQuieter
  BY DEF ConnectionsOK, AllQuieter, Quieter

-----------------------------------------------------------------------------
(* The steps                                                               *)

(* A hook library writes to its connection, reads from it, closes its side *)
(* of it or makes a new one.                                               *)
LEMMA LibrariesQuieter == HostInv /\ Libraries => AllQuieter
<1> SUFFICES ASSUME ConnectionsOK, Libraries PROVE AllQuieter
  BY DEF HostInv
<1> DEFINE x(k) == connections[k]
<1>1. ASSUME NEW k \in DOMAIN connections
      PROVE  /\ \A v : Quieter(x(k), [x(k) EXCEPT !.eof = v])
             /\ \A v : Quieter(x(k), [x(k) EXCEPT !.up = v])
             /\ \A v : Quieter(x(k), [x(k) EXCEPT !.down = v])
  BY DEF ConnectionsOK, Quieter, Sound, IsRecord
<1>2. ASSUME NEW k, NEW v, \/ connections' = [connections EXCEPT ![k].eof = v]
                           \/ connections' = [connections EXCEPT ![k].up = v]
                           \/ connections' = [connections EXCEPT ![k].down = v]
      PROVE  AllQuieter
  <2>1. CASE connections' = [connections EXCEPT ![k].eof = v]
    BY <1>1, <2>1, OneQuieter
  <2>2. CASE connections' = [connections EXCEPT ![k].up = v]
    BY <1>1, <2>2, OneQuieter
  <2>3. CASE connections' = [connections EXCEPT ![k].down = v]
    BY <1>1, <2>3, OneQuieter
  <2> QED
    BY <1>2, <2>1, <2>2, <2>3
<1> HIDE DEF x
<1>3. ASSUME NEW p \in Producer, connections' = Hangup(p) PROVE AllQuieter
  BY <1>2, <1>3, SameQuieter DEF Hangup
<1>4. ASSUME NEW p \in Producer, Connects(p) PROVE AllQuieter
  <2>1. PICK y : connections' = Append(connections, y) /\ Sound(y) /\ y.enabled = {}
    BY <1>4 DEF Connects, Sound, IsRecord
  <2> QED
    BY <2>1, AppendShape DEF AllQuieter, ConnectionsOK, Quieter
<1>5. ASSUME NEW p \in Producer, Welcomed(p) \/ Loses(p) PROVE AllQuieter
  BY <1>5, SameQuieter DEF Welcomed, Loses
<1>6. ASSUME NEW p \in Producer, GivesUp(p) \/ MissesBody(p) \/ Leaves(p) \/ Exits(p)
      PROVE  AllQuieter
  BY <1>3, <1>6 DEF GivesUp, MissesBody, Leaves, Exits
<1>7. ASSUME NEW p \in Producer, Obeys(p) PROVE AllQuieter
  BY <1>2, <1>7 DEF Obeys
<1>8. ASSUME NEW p \in Producer, NEW h \in Hook, Shows(p, h) \/ Flushes(p, h)
      PROVE  AllQuieter
  BY <1>2, <1>8 DEF Shows, Flushes
<1> QED
  BY <1>4, <1>5, <1>6, <1>7, <1>8 DEF Libraries

(* The service accepts, closes, reads from and writes to connections, and  *)
(* what it announces as ended has ended.                                   *)
LEMMA TasksQuieter ==
  ASSUME HostInv, Tasks
  PROVE  /\ AllQuieter /\ Announced(events, events')
         /\ Reports(sending)'
<1> USE DEF HostInv
<1>0. IsSeq(events) /\ IsSeq(connections)
  BY DEF ConnectionsOK, EndsOK
<1>1. ASSUME NEW q, NEW e, IsSeq(q), Announced(events, q),
             Announceable(e)
      PROVE  Announced(events, Send(q, e)) /\ Announced(events, Append(q, e))
  BY <1>1, AppendShape DEF Announced, Send
<1>2. Announced(events, events)
  BY <1>0 DEF Announced
<1>3. ASSUME NEW c \in DOMAIN connections, NEW y, connections' = [connections EXCEPT ![c] = y],
             Quieter(connections[c], y)
      PROVE  AllQuieter
  BY <1>3, OneQuieter
<1>4. ASSUME NEW c \in DOMAIN connections, Ends(c), sending = None
      PROVE  /\ AllQuieter /\ Announced(events, events')
             /\ Reports(sending)'
  <2>1. Quieter(connections[c], Closed(connections[c]))
    BY ClosedSound DEF ConnectionsOK, Sound, Quieter
  <2>2. connections' = [connections EXCEPT ![c] = Closed(connections[c])]
    BY <1>4 DEF Ends
  <2>3. c \in DOMAIN connections' /\ connections'[c].link = "closed"
    BY <2>2, ClosedSound DEF ConnectionsOK, Sound
  <2> DEFINE first == Send(events, Event("error", c))
  <2>4. Announced(events, first)
    BY <1>0, <1>1, <1>2 DEF Event, Announceable
  <2>5. Announced(events, Send(first, Event("disconnected", c)))
    BY <1>1, <2>3, <2>4 DEF Event, Announced, Announceable
  <2> QED
    BY <1>3, <1>4, <2>1, <2>2, <2>5 DEF Ends, Reports
<1>5. ASSUME NEW c \in DOMAIN connections, Accepts(c)
      PROVE  /\ AllQuieter /\ Announced(events, events')
             /\ Reports(sending)'
  <2>1. Link(c) = "hello" /\ sending = None /\ sending' = sending
        /\ events' = Send(events, Event("connected", c))
    BY <1>5 DEF Accepts, Service
  <2>2. PICK dropped :
          connections' = [d \in DOMAIN connections |->
            IF d = c THEN [connections[d] EXCEPT !.link = "open"]
            ELSE IF d \in dropped THEN Closed(connections[d]) ELSE connections[d]]
    BY <1>5 DEF Accepts
  <2>3. DOMAIN connections' = DOMAIN connections /\ IsSeq(connections')
    BY <1>0, <2>2, MapShape
  <2>4. ASSUME NEW d \in DOMAIN connections PROVE Quieter(connections[d], connections'[d])
    <3>1. CASE d = c
      BY <2>1, <2>2, <3>1 DEF ConnectionsOK, Sound, IsRecord, Quieter, Link
    <3>2. CASE d # c /\ d \in dropped
      BY <2>2, <3>2, ClosedSound DEF ConnectionsOK, Sound, Quieter
    <3>3. CASE d # c /\ d \notin dropped
      BY <2>2, <3>3 DEF ConnectionsOK, Quieter
    <3> QED
      BY <3>1, <3>2, <3>3
  <2>5. AllQuieter
    BY <2>3, <2>4 DEF AllQuieter
  <2>6. Announced(events, events')
    BY <1>0, <1>1, <1>2, <2>1 DEF Event, Announceable
  <2> QED
    BY <2>1, <2>5, <2>6 DEF Reports
<1>6. ASSUME NEW c \in DOMAIN connections, Rejects(c)
      PROVE  /\ AllQuieter /\ Announced(events, events')
             /\ Reports(sending)'
  <2>1. Quieter(connections[c], Closed(connections[c]))
    BY ClosedSound DEF ConnectionsOK, Sound, Quieter
  <2>2. AllQuieter
    BY <1>3, <1>6, <2>1 DEF Rejects
  <2>3. Announced(events, events')
    BY <1>0, <1>1, <1>2, <1>6 DEF Rejects, Event, Announceable
  <2> QED
    BY <1>6, <2>2, <2>3 DEF Rejects, Service, Reports
<1>7. ASSUME NEW c \in DOMAIN connections, ReceivesLength(c)
      PROVE  /\ AllQuieter /\ Announced(events, events')
             /\ Reports(sending)'
  <2>1. Quieter(connections[c], [connections[c] EXCEPT !.frame = "half"])
    BY DEF ConnectionsOK, Sound, IsRecord, Quieter
  <2>2. connections' = [connections EXCEPT ![c] = [connections[c] EXCEPT !.frame = "half"]]
    BY <1>7 DEF ReceivesLength
  <2> QED
    BY <1>2, <1>3, <1>7, <2>1, <2>2 DEF ReceivesLength, Service, Reports
<1>8. ASSUME NEW c \in DOMAIN connections, Receives(c)
      PROVE  /\ AllQuieter /\ Announced(events, events')
             /\ Reports(sending)'
  <2> DEFINE x == connections[c]
             m == Head(x.up)
             e == [kind |-> m.kind, connection |-> c, hook |-> m.hook]
             rest == [x EXCEPT !.up = Tail(@), !.frame = "none"]
  <2>1. Quieter(x, rest) /\ \A v : Quieter(x, [rest EXCEPT !.candidates = v])
    BY DEF ConnectionsOK, Sound, IsRecord, Quieter
  <2>2. \/ connections' = [connections EXCEPT ![c] = rest]
        \/ \E v : connections' = [connections EXCEPT ![c] = [rest EXCEPT !.candidates = v]]
    BY <1>8 DEF Receives
  <2>3. AllQuieter
    BY <1>3, <2>1, <2>2
  <2>4. /\ m.kind \in {"candidate", "text"} /\ e.kind = m.kind
        /\ sending' = e \/ sending' = None
    BY <1>8 DEF Receives
  <2> HIDE DEF e
  <2> QED
    BY <1>2, <1>8, <2>3, <2>4 DEF Receives, Reports
<1>9. ASSUME NEW c \in DOMAIN connections, ReceiveFails(c)
      PROVE  /\ AllQuieter /\ Announced(events, events')
             /\ Reports(sending)'
  BY <1>4, <1>9 DEF ReceiveFails, Service
<1>10. ASSUME NEW c \in DOMAIN connections, Commands(c)
       PROVE  /\ AllQuieter /\ Announced(events, events')
              /\ Reports(sending)'
  <2> DEFINE x == connections[c]
             sent == [x EXCEPT !.commands = Tail(@), !.down = Append(@, Head(x.commands)),
                               !.frame = IF @ = "half" THEN "torn" ELSE @]
  <2>1. Quieter(x, sent) /\ IsRecord(sent)
    BY DEF ConnectionsOK, Sound, IsRecord, Quieter
  <2>2. Quieter(x, Closed(sent)) /\ Closed(sent).link = "closed"
    BY <2>1, ClosedSound DEF Quieter
  <2>6. \/ connections' = [connections EXCEPT ![c] = sent] /\ UNCHANGED <<events, sending>>
        \/ Ends(c)
        \/ /\ connections' = [connections EXCEPT ![c] = Closed(sent)]
           /\ events' = Send(events, Event("disconnected", c)) /\ sending' = sending
    BY <1>10, Zenon DEF Commands
  <2> HIDE DEF sent
  <2>3. CASE connections' = [connections EXCEPT ![c] = sent] /\ UNCHANGED <<events, sending>>
    BY <1>2, <1>3, <1>10, <2>1, <2>3 DEF Commands, Service, Reports
  <2>4. CASE Ends(c)
    BY <1>4, <1>10, <2>4 DEF Commands, Service, Reports
  <2>5. CASE /\ connections' = [connections EXCEPT ![c] = Closed(sent)]
             /\ events' = Send(events, Event("disconnected", c)) /\ sending' = sending
    <3>1. AllQuieter
      BY <1>3, <2>2, <2>5
    <3>2. c \in DOMAIN connections' /\ connections'[c].link = "closed"
      BY <2>2, <2>5
    <3>3. Announced(events, events')
      BY <1>0, <1>1, <1>2, <2>5, <3>2 DEF Event, Announceable
    <3> QED
      BY <1>10, <2>5, <3>1, <3>3 DEF Commands, Service, Reports
  <2> QED
    BY <2>3, <2>4, <2>5, <2>6
<1>11. ASSUME Delivers
       PROVE  /\ AllQuieter /\ Announced(events, events')
              /\ Reports(sending)'
  <2>1. Announceable(sending) /\ sending # None
    BY <1>11 DEF Delivers, EndsOK, Reports, Announceable
  <2>2. Announced(events, Send(events, sending))
    BY <1>0, <1>1, <1>2, <2>1
  <2> QED
    BY <1>11, <2>2, SameQuieter DEF Delivers, Reports
<1> QED
  BY <1>5, <1>6, <1>7, <1>8, <1>9, <1>10, <1>11 DEF Tasks

(* A step of the window that leaves the connections alone.                 *)
LEMMA WindowQuiet ==
  ASSUME HostInv, UNCHANGED <<connections, sending>>,
         events' = events \/ (events # <<>> /\ events' = Tail(events)), HandlerOK',
         \A r \in routes' : r = <<r[1], r[2]>>,
         \A c \in DOMAIN connections : \A h \in connections[c].enabled :
           Permitted(h, c) => Permitted(h, c)'
  PROVE  HostInv'
<1>1. EndsOK'
  <2>1. /\ EndsOK /\ IsSeq(events) /\ connections' = connections
        /\ Reports(sending)'
    BY DEF HostInv, EndsOK, Reports
  <2>2. CASE events' = events
    BY <2>1, <2>2 DEF EndsOK, Link
  <2>3. CASE events # <<>> /\ events' = Tail(events)
    BY <2>1, <2>3, TailShape DEF EndsOK, Link
  <2> QED
    BY <2>2, <2>3
<1>2. ConnectionsOK'
  BY DEF HostInv, ConnectionsOK
<1> QED
  BY <1>1, <1>2 DEF HostInv

(* The window starts a handler that silences what it must come to yet.     *)
LEMMA UserOK ==
  ASSUME HostInv,
         \/ \E h \in Hook : (\E on \in BOOLEAN : Configure(h, on)) \/ Forget(h)
         \/ Detach \/ \E p \in Producer : Attach(p)
  PROVE  HostInv'
<1>1. Resting /\ HandlerOK /\ handler = Idle
  BY DEF Configure, Forget, Detach, Attach, UserActs, HostInv, HandlerOK
<1>2. handler.doing = "nothing"
  BY <1>1 DEF Resting
<1>3. UNCHANGED <<connections, events, sending, wanted>>
  BY DEF Configure, Forget, Detach, Attach, UserActs
<1>4. \A r \in routes : r = <<r[1], r[2]>>
  BY DEF HostInv, ConnectionsOK
<1>5. \A g, c : Permitted(g, c) <=> g \in wanted /\ <<g, c>> \in routes
  BY <1>2 DEF Permitted, Silencing
<1>6. ASSUME NEW d \in Doings, d # "nothing", NEW g, NEW S, handler' = Handler(d, g, S),
             d = "enable" => \A c \in S : <<g, c>> \in routes'
      PROVE  /\ HandlerOK'
             /\ handler'.doing = d /\ handler'.hook = g /\ handler'.left = S
  BY <1>6 DEF HandlerOK, Handler, Resting
<1>7. ASSUME NEW h \in Hook, NEW on \in BOOLEAN, Configure(h, on) PROVE HostInv'
  <2>1. handler' = Handler(IF on THEN "enable" ELSE "disable", h, Routed(h)) /\ routes' = routes
    BY <1>7 DEF Configure
  <2>2. \A c : c \in Routed(h) <=> <<h, c>> \in routes
    BY <1>4 DEF Routed
  <2>3. /\ HandlerOK'
        /\ handler'.doing \in {"enable", "disable"} /\ handler'.hook = h
        /\ handler'.left = Routed(h)
    BY <1>6, <2>1, <2>2 DEF Doings
  <2>4. \A c, g : Permitted(g, c) => Permitted(g, c)'
    BY <1>3, <1>5, <2>1, <2>2, <2>3 DEF Permitted, Silencing
  <2> QED
    BY <1>3, <1>4, <2>1, <2>3, <2>4, WindowQuiet
<1>8. ASSUME NEW h \in Hook, Forget(h) PROVE HostInv'
  <2>1. handler' = Handler("forget", h, Routed(h)) /\ routes' = {r \in routes : r[1] # h}
    BY <1>8 DEF Forget
  <2>2. \A c : c \in Routed(h) <=> <<h, c>> \in routes
    BY <1>4 DEF Routed
  <2>3. /\ HandlerOK' /\ handler'.doing = "forget" /\ handler'.hook = h
        /\ handler'.left = Routed(h)
    BY <1>6, <2>1 DEF Doings
  <2>4. \A c, g : <<g, c>> \in routes /\ g # h => <<g, c>> \in routes'
    BY <2>1
  <2>5. \A c, g : Permitted(g, c) => Permitted(g, c)'
    BY <1>3, <1>5, <2>2, <2>3, <2>4 DEF Permitted, Silencing
  <2>6. \A r \in routes' : r = <<r[1], r[2]>>
    BY <1>4, <2>1
  <2> QED
    BY <1>3, <2>3, <2>5, <2>6, WindowQuiet
<1>9. ASSUME Detach PROVE HostInv'
  <2>1. handler' = Handler("detach", None, {r[2] : r \in routes}) /\ routes' = routes
    BY <1>9 DEF Detach
  <2>2. \A c, g : <<g, c>> \in routes => c \in {r[2] : r \in routes}
    OBVIOUS
  <2>3. /\ HandlerOK' /\ handler'.doing = "detach"
        /\ handler'.left = {r[2] : r \in routes}
    BY <1>6, <2>1 DEF Doings
  <2>4. \A c, g : Permitted(g, c) => Permitted(g, c)'
    BY <1>3, <1>5, <2>1, <2>2, <2>3 DEF Permitted, Silencing
  <2> QED
    BY <1>3, <1>4, <2>1, <2>3, <2>4, WindowQuiet
<1>10. ASSUME NEW p \in Producer, Attach(p) PROVE HostInv'
  <2>1. UNCHANGED <<routes, handler>>
    BY <1>10 DEF Attach
  <2>2. \A c, g : Permitted(g, c) => Permitted(g, c)'
    BY <1>3, <2>1 DEF Permitted, Silencing
  <2>3. HandlerOK'
    BY <1>1, <2>1 DEF HandlerOK, Resting
  <2> QED
    BY <1>3, <1>4, <2>1, <2>2, <2>3, WindowQuiet
<1> QED
  BY <1>7, <1>8, <1>9, <1>10

(* A handler enables where it has a route, and silences before it goes on. *)
LEMMA HandlesOK == HostInv /\ Handles => HostInv'
<1> SUFFICES ASSUME ConnectionsOK, EndsOK, HandlerOK, Handles PROVE HostInv'
  BY DEF HostInv
<1> DEFINE h == handler.hook
           doing == handler.doing
<1>1. /\ IsSeq(connections) /\ doing \in Doings
      /\ \A c \in DOMAIN connections :
           Sound(connections[c]) /\ \A g \in connections[c].enabled : Permitted(g, c)
  BY DEF ConnectionsOK, HandlerOK
<1>2. ASSUME NEW k, NEW y, UNCHANGED <<events, sending, wanted, routes>>,
             connections' = [connections EXCEPT ![k] = y],
             k \in DOMAIN connections =>
               y.link = connections[k].link /\ Sound(y),
             handler'.doing = doing, handler'.hook = h, HandlerOK',
             \A c \in DOMAIN connections : \A g \in connections'[c].enabled :
               Permitted(g, c)'
      PROVE  HostInv'
  <2>1. DOMAIN connections' = DOMAIN connections
        /\ connections' = [c \in DOMAIN connections' |-> connections'[c]]
    BY <1>2
  <2>2. IsSeq(connections')
    BY <1>1, <2>1, MapShape
  <2>3. \A c \in DOMAIN connections :
          Sound(connections'[c]) /\ connections'[c].link = connections[c].link
    BY <1>1, <1>2
  <2>4. EndsOK'
    BY <1>2, <2>1, <2>3 DEF EndsOK, Link
  <2>5. ConnectionsOK'
    BY <1>2, <2>1, <2>2, <2>3 DEF ConnectionsOK
  <2> QED
    BY <1>2, <2>4, <2>5 DEF HostInv
<1>3. ASSUME NEW c \in handler.left, Marks(c) PROVE HostInv'
  <2> DEFINE x == connections[c]
             found == Registered(x) /\ (doing = "enable" => h \in x.candidates)
  <2>1. /\ handler' = [handler EXCEPT !.left = @ \ {c}, !.sends = IF found THEN c ELSE None]
        /\ connections' = IF found THEN [connections EXCEPT ![c].enabled = Marked(@)]
                          ELSE connections
        /\ UNCHANGED <<events, sending, wanted, routes>>
    BY <1>3 DEF Marks, windowVars
  <2>2. /\ handler'.doing = doing /\ handler'.hook = h
        /\ handler'.left = handler.left \ {c}
        /\ handler' = [doing |-> doing, hook |-> h, left |-> handler.left \ {c},
                       sends |-> handler'.sends]
    BY <2>1 DEF HandlerOK
  <2>3. doing # "nothing"
    BY <1>3 DEF HandlerOK, Resting, Idle, Handler
  <2>4. HandlerOK'
    BY <2>1, <2>2, <2>3 DEF HandlerOK, Resting
  <2>5. ASSUME NEW d, NEW g, Permitted(g, d), d # c \/ (g # h /\ doing # "detach") \/ doing = "enable"
        PROVE  Permitted(g, d)'
    BY <2>1, <2>2, <2>5 DEF Permitted, Silencing
  <2>6. CASE found
    <3> DEFINE y == [x EXCEPT !.enabled = Marked(@)]
    <3>1. connections' = [connections EXCEPT ![c] = y]
      BY <2>1, <2>6
    <3>2. c \in DOMAIN connections =>
            y.link = x.link /\ y.enabled = Marked(x.enabled) /\ Sound(y)
      BY <1>1, <2>6 DEF Sound, IsRecord, Registered
    <3>3. ASSUME NEW d \in DOMAIN connections, NEW g \in connections'[d].enabled
          PROVE  Permitted(g, d)'
      <4>1. CASE d # c
        <5>1. connections'[d] = connections[d]
          BY <3>1, <4>1
        <5> QED
          BY <1>1, <2>5, <3>3, <4>1, <5>1
      <4>2. CASE d = c
        <5>1. g \in Marked(x.enabled)
          BY <3>1, <3>2, <3>3, <4>2
        <5>2. CASE g \in x.enabled /\ (doing = "enable" \/ (g # h /\ doing # "detach"))
          BY <1>1, <2>5, <4>2, <5>2
        <5>3. CASE doing = "enable" /\ g = h
          BY <2>1, <2>2, <4>2, <5>3 DEF Permitted, Silencing, HandlerOK
        <5> QED
          BY <1>1, <5>1, <5>2, <5>3 DEF Marked, Doings
      <4> QED
        BY <4>1, <4>2
    <3>4. c \in DOMAIN connections => y.link = connections[c].link /\ Sound(y)
      BY <3>2
    <3>5. \A d \in DOMAIN connections : \A g \in connections'[d].enabled : Permitted(g, d)'
      BY <3>3
    <3>6. /\ UNCHANGED <<events, sending, wanted, routes>>
          /\ handler'.doing = doing /\ handler'.hook = h
      BY <2>1, <2>2
    <3> HIDE DEF y, found, x, doing, h
    <3> QED
      BY <1>2, <2>4, <3>1, <3>4, <3>5, <3>6
  <2>7. CASE ~found
    <3>1. connections' = connections
      BY <2>1, <2>7
    <3>2. ASSUME NEW d \in DOMAIN connections, NEW g \in connections[d].enabled
          PROVE  Permitted(g, d)'
      <4>1. CASE d = c /\ doing # "enable"
        BY <1>1, <2>7, <3>2, <4>1 DEF Sound, Registered
      <4>2. CASE d # c \/ doing = "enable"
        BY <1>1, <2>5, <3>2, <4>2
      <4> QED
        BY <4>1, <4>2
    <3>3. \A r \in routes : r = <<r[1], r[2]>>
      BY DEF ConnectionsOK
    <3> HIDE DEF found
    <3> QED
      BY <2>1, <2>4, <3>1, <3>2, <3>3, WindowQuiet DEF HostInv
  <2> QED
    BY <2>6, <2>7
<1>4. ASSUME Sends PROVE HostInv'
  <2> DEFINE c == handler.sends
             x == connections[c]
             y == Notified(x)
  <2>1. /\ handler' = [handler EXCEPT !.sends = None] /\ c # None
        /\ connections' = [connections EXCEPT ![c] = y]
        /\ UNCHANGED <<events, sending, wanted, routes>>
    BY <1>4 DEF Sends, windowVars
  <2>2. /\ handler'.doing = doing /\ handler'.hook = h /\ handler'.left = handler.left
        /\ handler' = [doing |-> doing, hook |-> h, left |-> handler.left, sends |-> None]
    BY <2>1 DEF HandlerOK
  <2>3. doing # "nothing"
    BY <2>1 DEF HandlerOK, Resting, Idle, Handler
  <2>4. HandlerOK'
    BY <2>1, <2>2, <2>3 DEF HandlerOK, Resting
  <2>5. \A d, g : Permitted(g, d)' = Permitted(g, d)
    BY <2>1, <2>2 DEF Permitted, Silencing
  <2>6. c \in DOMAIN connections =>
          y.link = x.link /\ y.enabled \subseteq x.enabled /\ Sound(y)
    BY <1>1 DEF Notified, Queued, Sound, IsRecord
  <2>7. \A d \in DOMAIN connections : \A g \in connections'[d].enabled : Permitted(g, d)'
    BY <1>1, <2>1, <2>5, <2>6
  <2> HIDE DEF c, y
  <2> QED
    BY <1>2, <2>1, <2>2, <2>4, <2>6, <2>7
<1>5. ASSUME Finishes PROVE HostInv'
  <2>1. /\ ~Resting /\ handler.left = {} /\ handler' = Idle
        /\ wanted' = IF doing = "enable" THEN wanted \cup {h} ELSE wanted \ {h}
        /\ routes' = IF doing = "detach" THEN {} ELSE routes
        /\ UNCHANGED <<connections, events, sending>>
    BY <1>5 DEF Finishes
  <2>2. HandlerOK' /\ handler'.doing = "nothing"
    BY <2>1 DEF HandlerOK, Resting, Idle, Handler, Doings
  <2>3. ASSUME NEW d, NEW g, Permitted(g, d) PROVE Permitted(g, d)'
    BY <1>1, <2>1, <2>2, <2>3 DEF Permitted, Silencing, Doings, Resting
  <2>4. \A r \in routes' : r = <<r[1], r[2]>>
    BY <2>1 DEF ConnectionsOK
  <2> QED
    BY <2>1, <2>2, <2>3, <2>4, WindowQuiet DEF HostInv
<1> QED
  BY <1>3, <1>4, <1>5 DEF Handles

(* The window removes a route only from what has ended, or when it has     *)
(* silenced it, and enables only where it has just given a route.          *)
LEMMA WindowOK == HostInv /\ Window => HostInv'
<1> SUFFICES ASSUME HostInv, Window PROVE HostInv'
  OBVIOUS
<1>1. ASSUME Polls PROVE HostInv'
  <2> DEFINE e == Head(events)
             c == e.connection
  <2>1. /\ Resting /\ events # <<>> /\ events' = Tail(events)
        /\ UNCHANGED <<connections, sending, wanted>> /\ HandlerOK /\ handler = Idle
    BY <1>1 DEF Polls, HostInv, HandlerOK
  <2>2. e = events[1] /\ 1 \in DOMAIN events
    BY <2>1, TailShape DEF HostInv, EndsOK
  <2>3. \A g, d : Permitted(g, d) <=> g \in wanted /\ <<g, d>> \in routes
    BY <2>1 DEF Permitted, Silencing, Resting
  <2>4. \A r \in routes : r = <<r[1], r[2]>>
    BY DEF HostInv, ConnectionsOK
  <2>5. CASE handler' = handler
    <3>1. HandlerOK' /\ handler'.doing = "nothing"
      BY <2>1, <2>5 DEF HandlerOK, Resting
    <3>2. \A g, d : Permitted(g, d)' <=> g \in wanted /\ <<g, d>> \in routes'
      BY <2>1, <3>1 DEF Permitted, Silencing
    <3>3. /\ \/ routes' = routes \/ routes' = routes \cup {<<e.hook, c>>}
             \/ e.kind = "disconnected" /\ routes' = {r \in routes : r[2] # c}
      BY <1>1 DEF Polls
    <3>4. ASSUME NEW d \in DOMAIN connections, NEW g \in connections[d].enabled, Permitted(g, d)
          PROVE  Permitted(g, d)'
      <4>1. e.kind = "disconnected" => d # c
        BY <2>2, <3>4 DEF HostInv, EndsOK, ConnectionsOK, Sound, Link
      <4> HIDE DEF e, c
      <4> QED
        BY <2>3, <3>2, <3>3, <3>4, <4>1
    <3>5. \A r \in routes' : r = <<r[1], r[2]>>
      BY <2>4, <3>3
    <3> QED
      BY <2>1, <3>1, <3>4, <3>5, WindowQuiet
  <2>6. CASE /\ handler' = Handler("enable", e.hook, {c})
             /\ routes' = routes \cup {<<e.hook, c>>}
    <3>1. /\ HandlerOK' /\ handler'.doing = "enable"
      BY <2>6 DEF HandlerOK, Handler, Resting, Doings
    <3>2. \A g, d : Permitted(g, d) => Permitted(g, d)'
      BY <2>1, <2>3, <2>6, <3>1 DEF Permitted, Silencing
    <3>3. \A r \in routes' : r = <<r[1], r[2]>>
      BY <2>4, <2>6
    <3> QED
      BY <2>1, <3>1, <3>2, <3>3, WindowQuiet
  <2> QED
    BY <1>1, <2>5, <2>6 DEF Polls
<1>2. CASE Handles
  BY <1>2, HandlesOK
<1> QED
  BY <1>1, <1>2, UserOK DEF Window

(* At first there are no connections.                                      *)
LEMMA HostInvInit == Init => HostInv
<1> SUFFICES ASSUME Init PROVE HostInv
  OBVIOUS
<1>1. /\ connections = <<>> /\ events = <<>> /\ sending = None /\ routes = {}
      /\ handler = Idle
  BY DEF Init
<1>2. <<>> \in Seq({})
  OBVIOUS
<1>3. DOMAIN connections = {} /\ DOMAIN events = {}
  BY <1>1
<1>4. HandlerOK
  BY <1>1 DEF HandlerOK, Idle, Handler, Doings
<1> QED
  BY <1>1, <1>2, <1>3, <1>4 DEF HostInv, ConnectionsOK, EndsOK, IsSeq, Reports

(* Every step keeps the invariant.                                         *)
LEMMA HostInvNext == HostInv /\ [Next]_vars => HostInv'
<1> SUFFICES ASSUME HostInv, [Next]_vars PROVE HostInv'
  OBVIOUS
<1>1. ASSUME AllQuieter, UNCHANGED <<wanted, routes, handler>>,
             Announced(events, events'), Reports(sending)'
      PROVE  HostInv'
  <2>1. DOMAIN connections \subseteq DOMAIN connections'
        /\ \A c \in DOMAIN connections : Link(c) = "closed" => connections'[c].link = "closed"
    BY <1>1 DEF AllQuieter, Quieter, Link
  <2> QED
    BY <1>1, <2>1, QuieterOK, AnnouncedOK DEF HostInv
<1>2. CASE Libraries
  <2>1. UNCHANGED <<events, sending, handler, wanted, routes>>
    BY <1>2 DEF Libraries, Connects, Welcomed, GivesUp, Obeys, MissesBody, Loses, Leaves,
                Exits, Shows, Flushes, Library, windowVars
  <2>2. Reports(sending)' /\ Announced(events, events')
    BY <2>1 DEF HostInv, EndsOK, Reports, Announced
  <2> QED
    BY <1>1, <1>2, <2>1, <2>2, LibrariesQuieter
<1>3. CASE Tasks
  <2>1. UNCHANGED <<wanted, routes, handler>>
    BY <1>3 DEF Tasks, Delivers, Accepts, Rejects, ReceivesLength, Receives,
                ReceiveFails, Commands, Service, windowVars
  <2> QED
    BY <1>1, <1>3, <2>1, TasksQuieter
<1>4. CASE Window
  BY <1>4, WindowOK
<1>5. CASE UNCHANGED vars
  <2>1. HandlerOK'
    BY <1>5 DEF vars, windowVars, HostInv, HandlerOK, Resting
  <2> QED
    BY <1>5, <2>1, WindowQuiet DEF vars, windowVars, HostInv, ConnectionsOK, Permitted, Silencing
<1> QED
  BY <1>2, <1>3, <1>4, <1>5 DEF Next

-----------------------------------------------------------------------------
(* The theorem                                                             *)

(* A text is taken up to be sent only while its hook is enabled and the    *)
(* connection not detached, or the handler that says otherwise has yet to  *)
(* come to it, whatever libraries send, lose and repeat and however late   *)
(* they learn of a command.                                                *)
THEOREM OnlyEnabledTextCorrect == Spec => OnlyEnabledText
<1> DEFINE OnlyWanted ==
             sending' # sending /\ sending' # None /\ sending'.kind = "text" =>
               Permitted(sending'.hook, sending'.connection)
<1>1. ASSUME HostInv, [Next]_vars PROVE [OnlyWanted]_vars
  <2>1. ASSUME NEW c \in DOMAIN connections, Receives(c) PROVE OnlyWanted
    <3> DEFINE m == Head(connections[c].up)
               e == [kind |-> m.kind, connection |-> c, hook |-> m.hook]
    <3>1. \/ m.kind = "candidate" /\ sending' = e
          \/ m.kind = "text" /\ sending' = IF Passes(connections[c], m.hook) THEN e ELSE None
      BY <2>1 DEF Receives
    <3>2. e.kind = m.kind /\ e.hook = m.hook /\ e.connection = c
      OBVIOUS
    <3>3. Passes(connections[c], m.hook) => Permitted(m.hook, c)
      BY <1>1, <2>1 DEF Passes, HostInv, ConnectionsOK
    <3> HIDE DEF e, m
    <3> QED
      BY <3>1, <3>2, <3>3
  <2>2. CASE Tasks /\ ~\E c \in DOMAIN connections : Receives(c)
    <3>1. sending' = sending \/ sending' = None
      BY <2>2 DEF Tasks, Delivers, Accepts, Rejects, ReceivesLength, ReceiveFails,
                  Commands, Ends, Service
    <3> QED
      BY <3>1
  <2>3. CASE Libraries
    BY <2>3 DEF Libraries, Connects, Welcomed, GivesUp, Obeys, MissesBody, Loses, Leaves,
                Exits, Shows, Flushes, Library
  <2>4. CASE Window
    BY <2>4 DEF Window, Polls, Handles, Marks, Sends, Finishes, Detach, Configure, Forget,
                Attach, UserActs
  <2> QED
    BY <1>1, <2>1, <2>2, <2>3, <2>4 DEF Next
<1> QED
  BY <1>1, HostInvInit, HostInvNext, PTL DEF Spec, OnlyEnabledText

-----------------------------------------------------------------------------
(* The agreement of window, service and libraries                          *)

(* What the window and the service say to a library.                       *)
Command == [kind : {"enable", "disable"}, hook : Hook]
             \cup [kind : {"shutdown"}, hook : {None}]

(* What a library says.                                                    *)
Report == [kind : {"candidate", "text"}, hook : Hook]

HasShutdown(q) == \E i \in DOMAIN q : q[i].kind = "shutdown"

(* A connection begins with nothing, and ends with a shutdown.             *)
Wired(x) ==
  /\ DOMAIN x = {"by", "link", "eof", "frame", "candidates", "enabled", "commands",
                 "down", "up"}
  /\ x.by \in Producer /\ x.link \in {"hello", "open", "closed"}
  /\ x.candidates \subseteq Hook
  /\ x.enabled \subseteq x.candidates
  /\ x.commands \in Seq(Command) /\ x.down \in Seq(Command)
  /\ x.link = "hello" =>
       x.candidates = {} /\ x.commands = <<>> /\ x.down = <<>>
  /\ x.link # "closed" => ~HasShutdown(x.down)
  /\ x.up \in Seq(Report)

(* The service knows the candidates that the window has a route to or will *)
(* hear of.                                                                *)
Introduced(h, c) == c \in DOMAIN connections /\ h \in connections[c].candidates

IntroducedOK ==
  /\ \A r \in routes : Introduced(r[1], r[2])
  /\ \A i \in DOMAIN events : events[i].kind = "candidate" =>
       Introduced(events[i].hook, events[i].connection)
  /\ sending # None => Introduced(sending.hook, sending.connection)

(* A library that talks to the service does so on its own connection, and  *)
(* nothing is enabled in others.                                           *)
Talking(p) == producers[p].phase \in {"hello", "serving"}

LibraryOK(p) ==
  /\ DOMAIN producers[p] = {"phase", "connection", "known", "enabled", "waiting"}
  /\ producers[p].enabled \subseteq Hook
  /\ producers[p].known \subseteq Hook /\ IsFiniteSet(producers[p].known)
  /\ Talking(p) => Mine(p) \in DOMAIN connections /\ connections[Mine(p)].by = p
  /\ ~Serving(p) => producers[p].enabled = {}

(* What a library that has E enabled makes of hook h when it has obeyed q. *)
About(q, h) == {i \in DOMAIN q : q[i].hook = h}

Obeyed(q, E, h) ==
  \/ About(q, h) = {} /\ h \in E
  \/ \E i \in About(q, h) :
       q[i].kind = "enable" /\ \A j \in About(q, h) : j <= i

(* What the handler has in its hands.                                      *)
Held == handler.left \cup ({handler.sends} \ {None})

(* The handler is busy with connections whose candidates are known.        *)
HandlerWired ==
  /\ handler.doing \notin {"nothing", "detach"} => handler.hook \in rows
  /\ handler.doing \in {"nothing", "detach"} => handler.hook = None
  /\ handler.sends \notin handler.left
  /\ \A c \in Held :
       /\ c \in DOMAIN connections
       /\ connections[c].candidates # {}
       /\ handler.doing # "detach" => handler.hook \in connections[c].candidates
       /\ handler.doing = "enable" => <<handler.hook, c>> \in routes

(* What must be enabled by now: what is wanted and routed, or is just      *)
(* being enabled, and not what the handler silences or has not come to.    *)
Due(h, c) ==
  /\ h \in wanted \/ (handler.doing = "enable" /\ handler.hook = h)
  /\ <<h, c>> \in routes
  /\ ~Silencing(h)
  /\ ~(handler.hook = h /\ c \in handler.left)

(* The service knows and the library is not told yet.                      *)
InHand(h, c) ==
  handler.sends = c /\ (handler.doing = "detach" \/ handler.hook = h)

(* While no command was refused and none tells the library to leave, the   *)
(* service enables what the window wants, and the library will do the same *)
(* when it has obeyed what is on its way and what is in hand.              *)
Informed(c) ==
  LET x == connections[c] IN
  x.link # "closed" /\ c \notin refused /\ ~HasShutdown(x.commands) =>
    /\ \A h \in Hook : Due(h, c) => h \in x.enabled
    /\ Mine(x.by) = c /\ Talking(x.by) =>
         \A h \in Hook : InHand(h, c) \/
           (h \in x.enabled <=>
              Obeyed(x.down \o x.commands, producers[x.by].enabled, h))

InformedOK == \A c \in DOMAIN connections : Informed(c)

WiredOK == \A c \in DOMAIN connections : Wired(connections[c])

LibrariesOK == DOMAIN producers = Producer /\ \A p \in Producer : LibraryOK(p)

AgreeInv ==
  /\ HostInv /\ WiredOK /\ LibrariesOK /\ IntroducedOK /\ HandlerWired /\ InformedOK
  /\ rows \subseteq Hook

-----------------------------------------------------------------------------
(* Lemmas about commands                                                   *)

(* The order of commands on their way to a library.                        *)
LEMMA CommandOrder ==
  ASSUME NEW T, NEW d \in Seq(T), NEW q \in Seq(T)
  PROVE  /\ d \o q \in Seq(T)
         /\ \A m \in T : d \o Append(q, m) = Append(d \o q, m)
         /\ q # <<>> => /\ Head(q) \in T
                        /\ Append(d, Head(q)) \o Tail(q) = d \o q
         /\ d # <<>> => /\ Head(d \o q) = Head(d) /\ d \o q # <<>>
                        /\ Tail(d) \o q = Tail(d \o q)
<1>1. d \o q \in Seq(T)
  OBVIOUS
<1>2. ASSUME NEW m \in T PROVE d \o Append(q, m) = Append(d \o q, m)
  OBVIOUS
<1>3. ASSUME q # <<>>
      PROVE  Head(q) \in T /\ Append(d, Head(q)) \o Tail(q) = d \o q
  BY <1>3
<1>4. ASSUME d # <<>>
      PROVE  /\ Head(d \o q) = Head(d) /\ d \o q # <<>>
             /\ Tail(d) \o q = Tail(d \o q)
  BY <1>4
<1> QED
  BY <1>1, <1>2, <1>3, <1>4

(* What is left of a queue when the first is taken.                        *)
LEMMA FirstTaken ==
  ASSUME NEW T, NEW q \in Seq(T), q # <<>>
  PROVE  /\ Head(q) \in T /\ Tail(q) \in Seq(T) /\ q[1] = Head(q)
         /\ \A i \in DOMAIN q : i # 1 =>
              i - 1 \in DOMAIN Tail(q) /\ Tail(q)[i - 1] = q[i]
  OBVIOUS

(* A shutdown that is not the first command is still to come.              *)
LEMMA ShutdownLater ==
  ASSUME NEW q \in Seq(Command), q # <<>>, Head(q).kind # "shutdown", HasShutdown(q)
  PROVE  HasShutdown(Tail(q))
<1>1. PICK i \in DOMAIN q : q[i].kind = "shutdown"
  BY DEF HasShutdown
<1>2. i # 1
  BY <1>1, FirstTaken
<1> QED
  BY <1>1, <1>2, FirstTaken DEF HasShutdown

(* The last command about a hook is the one that counts.                   *)
LEMMA ObeyedLast ==
  ASSUME NEW q \in Seq(Command), NEW m \in Command, NEW E, NEW h
  PROVE  Obeyed(Append(q, m), E, h) <=>
           IF m.hook = h THEN m.kind = "enable" ELSE Obeyed(q, E, h)
<1> DEFINE r == Append(q, m)
           n == Len(q) + 1
<1>1. /\ n \in DOMAIN r /\ r[n] = m /\ n \notin DOMAIN q
      /\ DOMAIN r = DOMAIN q \cup {n} /\ DOMAIN q \subseteq Nat
      /\ \A i \in DOMAIN q : r[i] = q[i] /\ i < n
  OBVIOUS
<1>2. CASE m.hook = h
  <2>1. About(r, h) = About(q, h) \cup {n}
    BY <1>1, <1>2 DEF About
  <2>2. \A j \in About(r, h) : j <= n
    BY <1>1 DEF About
  <2>3. \A i \in About(q, h) : ~(n <= i)
    BY <1>1 DEF About
  <2> QED
    BY <1>1, <1>2, <2>1, <2>2, <2>3 DEF Obeyed
<1>3. CASE m.hook # h
  <2>1. About(r, h) = About(q, h)
    BY <1>1, <1>3 DEF About
  <2>2. \A i \in About(q, h) : r[i] = q[i]
    BY <1>1 DEF About
  <2> QED
    BY <1>3, <2>1, <2>2 DEF Obeyed
<1> QED
  BY <1>2, <1>3

(* Obeying the first command makes no difference to the end.               *)
LEMMA ObeyedFirst ==
  ASSUME NEW q \in Seq(Command), q # <<>>, NEW E, NEW F, NEW h,
         \/ Head(q).kind = "enable" /\ F = E \cup {Head(q).hook}
         \/ Head(q).kind = "disable" /\ F = E \ {Head(q).hook}
  PROVE  Obeyed(Tail(q), F, h) <=> Obeyed(q, E, h)
<1> DEFINE r == Tail(q)
<1> SUFFICES Obeyed(r, F, h) <=> Obeyed(q, E, h)
  OBVIOUS
<1>1. /\ 1 \in DOMAIN q /\ q[1] = Head(q)
      /\ \A i \in DOMAIN r : i + 1 \in DOMAIN q /\ r[i] = q[i + 1] /\ i \in Nat
      /\ \A i \in DOMAIN q : i \in Nat /\ 1 <= i /\ (i # 1 => i - 1 \in DOMAIN r /\ q[i] = r[i - 1])
  OBVIOUS
<1> HIDE DEF r
<1>2. CASE About(r, h) = {}
  <2>1. About(q, h) = IF Head(q).hook = h THEN {1} ELSE {}
    <3>1. \A i \in About(q, h) : i = 1
      BY <1>1, <1>2 DEF About
    <3> QED
      BY <1>1, <3>1 DEF About
  <2>2. CASE Head(q).hook = h
    BY <1>1, <1>2, <2>1, <2>2 DEF Obeyed
  <2>3. CASE Head(q).hook # h
    BY <1>2, <2>1, <2>3 DEF Obeyed
  <2> QED
    BY <2>2, <2>3
<1>3. CASE About(r, h) # {}
  <2>1. \A i \in About(r, h) : i + 1 \in About(q, h) /\ i \in Nat /\ r[i] = q[i + 1] /\ ~(i + 1 <= 1)
    BY <1>1 DEF About
  <2>2. \A i \in About(q, h) : i \in Nat /\ (i # 1 => i - 1 \in About(r, h))
    BY <1>1 DEF About
  <2>3. ASSUME NEW i \in About(r, h), \A j \in About(r, h) : j <= i
        PROVE  \A j \in About(q, h) : j <= i + 1
    BY <2>1, <2>2, <2>3
  <2>4. ASSUME NEW i \in About(q, h), \A j \in About(q, h) : j <= i
        PROVE  /\ i - 1 \in About(r, h) /\ r[i - 1] = q[i]
               /\ \A j \in About(r, h) : j <= i - 1
    <3>1. i # 1
      BY <1>3, <2>1, <2>4
    <3>2. i - 1 \in About(r, h) /\ i \in Nat
      BY <2>2, <3>1
    <3>3. \A j \in About(r, h) : j + 1 <= i /\ j \in Nat
      BY <2>1, <2>4
    <3> QED
      BY <1>1, <3>1, <3>2, <3>3 DEF About
  <2>5. About(q, h) # {}
    BY <1>3, <2>1
  <2>6. Obeyed(r, F, h) => Obeyed(q, E, h)
    BY <1>3, <2>1, <2>3 DEF Obeyed
  <2>7. Obeyed(q, E, h) => Obeyed(r, F, h)
    BY <2>4, <2>5 DEF Obeyed
  <2> QED
    BY <2>6, <2>7
<1> QED
  BY <1>2, <1>3

-----------------------------------------------------------------------------
(* Effects of a step of a library or of the service                        *)

(* A connection stays with its library, and its candidates stay known.     *)
Kept(x, y) == Wired(y) /\ y.by = x.by /\ x.candidates \subseteq y.candidates

(* As long as a connection is open, what is enabled and what is on its way *)
(* stays the same.                                                         *)
Steady(x, y) ==
  /\ Kept(x, y)
  /\ y.link # "closed" =>
       /\ x.link # "closed" /\ y.enabled = x.enabled
       /\ y.down \o y.commands = x.down \o x.commands
       /\ HasShutdown(x.commands) => HasShutdown(y.commands)

(* What a connection does that neither opens nor reads commands.           *)
LEMMA SteadyFields ==
  ASSUME NEW x, Wired(x)
  PROVE  /\ Steady(x, x)
         /\ \A v : Steady(x, [x EXCEPT !.eof = v]) /\ Steady(x, [x EXCEPT !.frame = v])
         /\ \A v \in Seq(Report) : Steady(x, [x EXCEPT !.up = v])
         /\ x.link = "hello" => Steady(x, [x EXCEPT !.link = "open"])
<1>1. \A v : Steady(x, [x EXCEPT !.eof = v]) /\ Steady(x, [x EXCEPT !.frame = v])
  BY DEF Wired, Steady, Kept
<1>2. \A v \in Seq(Report) : Steady(x, [x EXCEPT !.up = v])
  BY DEF Wired, Steady, Kept
<1>3. x.link = "hello" => Steady(x, [x EXCEPT !.link = "open"])
  BY DEF Wired, Steady, Kept
<1> QED
  BY <1>1, <1>2, <1>3 DEF Steady, Kept

(* A connection that the service closes.                                   *)
LEMMA SteadyClosed ==
  ASSUME NEW x, Wired(x)
  PROVE  Steady(x, Closed(x))
<1> DEFINE y == Closed(x)
<1>1. /\ DOMAIN y = DOMAIN x /\ y.by = x.by /\ y.link = "closed"
      /\ y.candidates = x.candidates /\ y.enabled = {} /\ y.down = x.down
      /\ y.commands = <<>> /\ y.up = <<>>
  BY DEF Wired, Closed
<1>2. <<>> \in Seq(Command) /\ <<>> \in Seq(Report)
  OBVIOUS
<1> HIDE DEF y
<1> QED
  BY <1>1, <1>2 DEF Wired, Steady, Kept, y

(* A message that the service reads.                                       *)
LEMMA SteadyRead ==
  ASSUME NEW x, Wired(x), x.up # <<>>, x.link = "open",
         NEW rest, rest = [x EXCEPT !.up = Tail(@), !.frame = "none"]
  PROVE  /\ Head(x.up) \in Report
         /\ Steady(x, rest)
         /\ Steady(x, [rest EXCEPT !.candidates = @ \cup {Head(x.up).hook}])
<1>1. Head(x.up) \in Report /\ Tail(x.up) \in Seq(Report) /\ Head(x.up).hook \in Hook
  <2>1. Head(x.up) \in Report /\ Tail(x.up) \in Seq(Report)
    BY FirstTaken DEF Wired
  <2> QED
    BY <2>1 DEF Report
<1>2. Steady(x, rest)
  BY <1>1 DEF Wired, Steady, Kept
<1>3. \A h \in Hook : Steady(x, [rest EXCEPT !.candidates = @ \cup {h}])
  BY <1>1 DEF Wired, Steady, Kept
<1> QED
  BY <1>1, <1>2, <1>3

(* A command that the service passes on.                                   *)
LEMMA SteadyPassed ==
  ASSUME NEW x, Wired(x), x.commands # <<>>, x.link = "open", NEW f, NEW sent,
         sent = [x EXCEPT !.commands = Tail(@), !.down = Append(@, Head(x.commands)),
                          !.frame = f]
  PROVE  /\ Head(x.commands).kind # "shutdown" => Steady(x, sent)
         /\ Steady(x, Closed(sent))
<1>1. /\ Head(x.commands) \in Command /\ Tail(x.commands) \in Seq(Command)
      /\ Append(x.down, Head(x.commands)) \in Seq(Command)
  BY DEF Wired
<1>2. sent.down \o sent.commands = x.down \o x.commands
  <2>1. Append(x.down, Head(x.commands)) \o Tail(x.commands) = x.down \o x.commands
    BY CommandOrder DEF Wired
  <2> QED
    BY <2>1 DEF Wired
<1>3. /\ DOMAIN sent = DOMAIN x /\ sent.by = x.by /\ sent.link = x.link
      /\ sent.candidates = x.candidates /\ sent.enabled = x.enabled /\ sent.up = x.up
      /\ sent.commands = Tail(x.commands) /\ sent.down = Append(x.down, Head(x.commands))
  BY DEF Wired
<1>4. Steady(x, sent) \/ Head(x.commands).kind = "shutdown"
  <2> SUFFICES ASSUME Head(x.commands).kind # "shutdown" PROVE Steady(x, sent)
    OBVIOUS
  <2>1. ~HasShutdown(sent.down)
    <3> DEFINE d == Append(x.down, Head(x.commands))
    <3>1. DOMAIN d = DOMAIN x.down \cup {Len(x.down) + 1}
          /\ d[Len(x.down) + 1] = Head(x.commands)
          /\ \A i \in DOMAIN x.down : d[i] = x.down[i]
      BY DEF Wired
    <3> QED
      BY <1>3, <3>1 DEF Wired, HasShutdown
  <2>2. HasShutdown(x.commands) => HasShutdown(sent.commands)
    <3>1. HasShutdown(x.commands) => HasShutdown(Tail(x.commands))
      BY ShutdownLater DEF Wired
    <3> QED
      BY <1>3, <3>1
  <2> QED
    BY <1>1, <1>2, <1>3, <2>1, <2>2 DEF Wired, Steady, Kept
<1>5. Steady(x, Closed(sent))
  <2> DEFINE y == Closed(sent)
  <2>1. /\ DOMAIN y = DOMAIN x /\ y.by = x.by /\ y.link = "closed"
        /\ y.candidates = x.candidates /\ y.enabled = {} /\ y.down = sent.down
        /\ y.commands = <<>> /\ y.up = <<>>
    BY <1>3 DEF Wired, Closed
  <2>2. <<>> \in Seq(Command) /\ <<>> \in Seq(Report)
    OBVIOUS
  <2> HIDE DEF y
  <2> QED
    BY <1>1, <1>3, <2>1, <2>2 DEF Wired, Steady, Kept, y
<1> QED
  BY <1>4, <1>5

(* The connections of before are steady.                                   *)
AllSteady ==
  /\ DOMAIN connections \subseteq DOMAIN connections'
  /\ \A c \in DOMAIN connections : Steady(connections[c], connections'[c])

(* And they are still there.                                               *)
AllKept ==
  /\ DOMAIN connections \subseteq DOMAIN connections'
  /\ \A c \in DOMAIN connections : Kept(connections[c], connections'[c])

(* What is enabled on a steady connection is what it was, if its library   *)
(* has not obeyed or begun to talk.                                        *)
LEMMA SteadyInformed ==
  ASSUME InformedOK, AllSteady, NEW c \in DOMAIN connections,
         UNCHANGED <<wanted, routes, refused, handler>>,
         LET p == connections[c].by IN
           producers'[p].phase \in {"hello", "serving"} /\ producers'[p].connection = c =>
             /\ Talking(p) /\ Mine(p) = c
             /\ producers'[p].enabled = producers[p].enabled
  PROVE  Informed(c)'
<1> DEFINE x == connections[c]
           y == connections'[c]
           p == x.by
<1>1. Steady(x, y) /\ Informed(c)
  BY DEF AllSteady, InformedOK
<1>2. y.by = p
  BY <1>1 DEF Steady, Kept
<1> SUFFICES ASSUME y.link # "closed", c \notin refused, ~HasShutdown(y.commands)
             PROVE  /\ \A h \in Hook : Due(h, c) => h \in y.enabled
                    /\ producers'[p].connection = c /\ producers'[p].phase \in {"hello", "serving"} =>
                         \A h \in Hook : InHand(h, c) \/
                           (h \in y.enabled <=>
                              Obeyed(y.down \o y.commands, producers'[p].enabled, h))
  <2>1. \A h : (Due(h, c)' <=> Due(h, c)) /\ (InHand(h, c)' <=> InHand(h, c))
    BY DEF Due, InHand, Silencing
  <2> QED
    BY <1>2, <2>1, Zenon DEF Informed, Talking, Mine
<1>3. /\ x.link # "closed" /\ y.enabled = x.enabled
      /\ y.down \o y.commands = x.down \o x.commands
      /\ ~HasShutdown(x.commands)
  BY <1>1 DEF Steady, Kept
<1>4. /\ \A h \in Hook : Due(h, c) => h \in x.enabled
      /\ Mine(p) = c /\ Talking(p) =>
           \A h \in Hook : InHand(h, c) \/
             (h \in x.enabled <=> Obeyed(x.down \o x.commands, producers[p].enabled, h))
  BY <1>1, <1>3, Zenon DEF Informed
<1> HIDE DEF x, y, p
<1> QED
  BY <1>3, <1>4 DEF x, y, p

(* The handler stays where it is, and what it is busy with stays known.    *)
LEMMA SameHandler ==
  ASSUME HandlerWired, AllKept, UNCHANGED <<handler, rows, routes>>
  PROVE  HandlerWired'
<1>1. Held' = Held
  BY DEF Held
<1>2. \A c \in DOMAIN connections : /\ c \in DOMAIN connections'
                                    /\ connections[c].candidates \subseteq connections'[c].candidates
  BY DEF AllKept, Kept
<1> QED
  BY <1>1, <1>2 DEF HandlerWired

(* Candidates stay known.                                                  *)
LEMMA KeptIntroduced ==
  ASSUME IntroducedOK, AllKept, routes' = routes, sending' = sending,
         \A i \in DOMAIN events' :
           \/ i \in DOMAIN events /\ events'[i] = events[i]
           \/ events'[i].kind # "candidate"
  PROVE  IntroducedOK'
<1>1. \A h, c : Introduced(h, c) => Introduced(h, c)'
  BY DEF Introduced, AllKept, Kept
<1> QED
  BY <1>1 DEF IntroducedOK

(* A step that changes one connection.                                     *)
LEMMA OneSteady ==
  ASSUME WiredOK, NEW k, NEW y, connections' = [connections EXCEPT ![k] = y],
         k \in DOMAIN connections => Steady(connections[k], y)
  PROVE  AllSteady /\ AllKept /\ WiredOK' /\ DOMAIN connections' = DOMAIN connections
<1>1. DOMAIN connections' = DOMAIN connections
  OBVIOUS
<1>2. ASSUME NEW c \in DOMAIN connections PROVE Steady(connections[c], connections'[c])
  BY <1>2, SteadyFields DEF WiredOK
<1> QED
  BY <1>1, <1>2 DEF AllSteady, AllKept, WiredOK, Steady, Kept

(* Libraries that do not change know their connections.                    *)
LEMMA SameLibraries ==
  ASSUME LibrariesOK, AllKept, producers' = producers
  PROVE  LibrariesOK'
<1>1. ASSUME NEW p \in Producer PROVE LibraryOK(p)'
  <2>1. LibraryOK(p)
    BY DEF LibrariesOK
  <2>2. \A c \in DOMAIN connections :
          c \in DOMAIN connections' /\ connections'[c].by = connections[c].by
    BY DEF AllKept, Kept
  <2> QED
    BY <2>1, <2>2 DEF LibraryOK, Talking, Serving, Mine
<1> QED
  BY <1>1 DEF LibrariesOK

(* What is announced by the service is known to it, and nothing that       *)
(* matters here changes.                                                   *)
LEMMA TasksAgree == AgreeInv /\ Tasks => AgreeInv'
<1> SUFFICES ASSUME AgreeInv, Tasks PROVE AgreeInv'
  OBVIOUS
<1>0. HostInv /\ WiredOK /\ LibrariesOK /\ IntroducedOK /\ InformedOK /\ rows \subseteq Hook
      /\ IsSeq(events) /\ HandlerWired /\ Reports(sending)
  BY DEF AgreeInv, HostInv, EndsOK
<1>1. HostInv'
  BY <1>0, HostInvNext DEF Next
<1>2. UNCHANGED <<producers, rows, wanted, routes, refused, handler>>
  BY DEF Tasks, Delivers, Accepts, Rejects, ReceivesLength, Receives,
         ReceiveFails, Commands, Service, windowVars, ghostVars
<1>3. ASSUME AllSteady, AllKept, WiredOK', DOMAIN connections' = DOMAIN connections,
             IntroducedOK'
      PROVE  AgreeInv'
  <2>1. LibrariesOK'
    BY <1>0, <1>2, <1>3, SameLibraries
  <2>2. ASSUME NEW c \in DOMAIN connections PROVE Informed(c)'
    BY <1>0, <1>2, <1>3, SteadyInformed DEF Talking, Mine
  <2>3. InformedOK'
    BY <1>3, <2>2 DEF InformedOK
  <2> QED
    BY <1>0, <1>1, <1>2, <1>3, <2>1, <2>3, SameHandler DEF AgreeInv
<1>4. ASSUME NEW q, IsSeq(q), NEW e, e.kind # "candidate",
             \A i \in DOMAIN q : \/ i \in DOMAIN events /\ q[i] = events[i]
                                 \/ q[i].kind # "candidate"
      PROVE  /\ IsSeq(Send(q, e))
             /\ \A i \in DOMAIN Send(q, e) :
                  \/ i \in DOMAIN events /\ Send(q, e)[i] = events[i]
                  \/ Send(q, e)[i].kind # "candidate"
  BY <1>4, AppendShape DEF Send
<1>5. ASSUME NEW c \in DOMAIN connections, NEW y, Steady(connections[c], y),
             connections' = [connections EXCEPT ![c] = y], sending' = sending,
             \A i \in DOMAIN events' : \/ i \in DOMAIN events /\ events'[i] = events[i]
                                       \/ events'[i].kind # "candidate"
      PROVE  AgreeInv'
  <2>1. AllSteady /\ AllKept /\ WiredOK' /\ DOMAIN connections' = DOMAIN connections
    BY <1>0, <1>5, OneSteady
  <2> QED
    BY <1>0, <1>2, <1>3, <1>5, <2>1, KeptIntroduced
<1>6. ASSUME NEW c \in DOMAIN connections, Ends(c) PROVE AgreeInv'
  <2>1. \A i \in DOMAIN events' : \/ i \in DOMAIN events /\ events'[i] = events[i]
                                  \/ events'[i].kind # "candidate"
    BY <1>0, <1>4, <1>6 DEF Ends, Event
  <2>2. connections' = [connections EXCEPT ![c] = Closed(connections[c])]
    BY <1>6 DEF Ends
  <2> QED
    BY <1>0, <1>5, <1>6, <2>1, <2>2, SteadyClosed DEF Ends, WiredOK
<1>7. ASSUME NEW c \in DOMAIN connections, Accepts(c) PROVE AgreeInv'
  <2>1. \A i \in DOMAIN events' : \/ i \in DOMAIN events /\ events'[i] = events[i]
                                  \/ events'[i].kind # "candidate"
    BY <1>0, <1>4, <1>7 DEF Accepts, Event
  <2>2. PICK dropped :
          connections' = [d \in DOMAIN connections |->
            IF d = c THEN [connections[d] EXCEPT !.link = "open"]
            ELSE IF d \in dropped THEN Closed(connections[d]) ELSE connections[d]]
    BY <1>7 DEF Accepts
  <2>3. DOMAIN connections' = DOMAIN connections
    BY <2>2
  <2>4. ASSUME NEW d \in DOMAIN connections PROVE Steady(connections[d], connections'[d])
    <3>1. CASE d = c
      BY <1>0, <1>7, <2>2, <3>1, SteadyFields DEF Accepts, Link, WiredOK
    <3>2. CASE d # c
      BY <1>0, <2>2, <3>2, SteadyFields, SteadyClosed DEF WiredOK
    <3> QED
      BY <3>1, <3>2
  <2>5. AllSteady /\ AllKept /\ WiredOK'
    BY <2>3, <2>4 DEF AllSteady, AllKept, WiredOK, Steady, Kept
  <2>6. IntroducedOK'
    BY <1>0, <1>2, <1>7, <2>1, <2>5, KeptIntroduced DEF Accepts
  <2> QED
    BY <1>3, <2>3, <2>5, <2>6
<1>8. ASSUME NEW c \in DOMAIN connections, Rejects(c) PROVE AgreeInv'
  <2>1. \A i \in DOMAIN events' : \/ i \in DOMAIN events /\ events'[i] = events[i]
                                  \/ events'[i].kind # "candidate"
    BY <1>0, <1>4, <1>8 DEF Rejects, Event
  <2>2. connections' = [connections EXCEPT ![c] = Closed(connections[c])]
    BY <1>8 DEF Rejects
  <2> QED
    BY <1>0, <1>5, <1>8, <2>1, <2>2, SteadyClosed DEF Rejects, WiredOK
<1>9. ASSUME NEW c \in DOMAIN connections, ReceivesLength(c) PROVE AgreeInv'
  <2>1. connections' = [connections EXCEPT ![c] = [connections[c] EXCEPT !.frame = "half"]]
    BY <1>9 DEF ReceivesLength
  <2>2. Steady(connections[c], [connections[c] EXCEPT !.frame = "half"])
    BY <1>0, SteadyFields DEF WiredOK
  <2> QED
    BY <1>5, <1>9, <2>1, <2>2 DEF ReceivesLength
<1>10. ASSUME NEW c \in DOMAIN connections, Receives(c) PROVE AgreeInv'
  <2> DEFINE x == connections[c]
             m == Head(x.up)
             e == [kind |-> m.kind, connection |-> c, hook |-> m.hook]
             rest == [x EXCEPT !.up = Tail(@), !.frame = "none"]
             more == [rest EXCEPT !.candidates = @ \cup {m.hook}]
  <2>1. Steady(x, rest) /\ Steady(x, more) /\ m.hook \in more.candidates
    <3>1. Wired(x) /\ x.up # <<>> /\ x.link = "open"
      BY <1>0, <1>10 DEF Receives, Link, WiredOK
    <3>2. Steady(x, rest) /\ Steady(x, more)
      BY <3>1, SteadyRead
    <3> QED
      BY <3>1, <3>2 DEF Wired
  <2>2. \/ /\ m.kind = "candidate"
           /\ connections' = [connections EXCEPT ![c] = more] /\ sending' = e
           /\ events' = events
        \/ /\ m.kind = "text"
           /\ connections' = [connections EXCEPT ![c] = rest]
           /\ events' = events
           /\ sending' = IF Passes(x, m.hook) THEN e ELSE None
    BY <1>10, Zenon DEF Receives
  <2>3. e.kind = m.kind /\ e.hook = m.hook /\ e.connection = c
    OBVIOUS
  <2> HIDE DEF m, e, rest, more
  <2>4. ASSUME NEW y, Steady(x, y), connections' = [connections EXCEPT ![c] = y],
               events' = events, sending' # None => sending' = e /\ m.hook \in y.candidates
        PROVE  AgreeInv'
    <3>1. AllSteady /\ AllKept /\ WiredOK' /\ DOMAIN connections' = DOMAIN connections
      BY <1>0, <2>4, OneSteady
    <3>2. \A h, d : Introduced(h, d) => Introduced(h, d)'
      BY <3>1 DEF Introduced, AllKept, Kept
    <3>3. PICK h : h = m.hook
      OBVIOUS
    <3>4. sending' # None => /\ sending'.hook = h /\ sending'.connection = c
                             /\ Introduced(h, c)'
      BY <2>3, <2>4, <3>1, <3>3 DEF Introduced
    <3>5. sending' # None => Introduced(sending.hook, sending.connection)'
      BY <3>4
    <3>6. IntroducedOK'
      BY <1>0, <1>2, <2>4, <3>2, <3>5 DEF IntroducedOK
    <3> QED
      BY <1>3, <3>1, <3>6
  <2>5. Passes(x, m.hook) => m.hook \in rest.candidates
    <3>1. Wired(x)
      BY <1>0 DEF WiredOK
    <3> QED
      BY <3>1 DEF Passes, Wired, rest
  <2> QED
    BY <2>1, <2>2, <2>4, <2>5
<1>11. ASSUME NEW c \in DOMAIN connections, ReceiveFails(c) PROVE AgreeInv'
  BY <1>6, <1>11 DEF ReceiveFails
<1>12. ASSUME NEW c \in DOMAIN connections, Commands(c) PROVE AgreeInv'
  <2> DEFINE x == connections[c]
             f == IF x.frame = "half" THEN "torn" ELSE x.frame
             sent == [x EXCEPT !.commands = Tail(@), !.down = Append(@, Head(x.commands)),
                               !.frame = f]
  <2>1. /\ Head(x.commands).kind # "shutdown" => Steady(x, sent)
        /\ Steady(x, Closed(sent))
    <3>1. Wired(x) /\ x.commands # <<>> /\ x.link = "open"
      BY <1>0, <1>12 DEF Commands, Link, WiredOK
    <3> QED
      BY <3>1, SteadyPassed
  <2>2. \/ /\ Head(x.commands).kind # "shutdown"
           /\ connections' = [connections EXCEPT ![c] = sent] /\ UNCHANGED <<events, sending>>
        \/ Ends(c)
        \/ /\ connections' = [connections EXCEPT ![c] = Closed(sent)]
           /\ events' = Send(events, Event("disconnected", c)) /\ sending' = sending
    BY <1>12, Zenon DEF Commands
  <2> HIDE DEF sent
  <2>3. CASE /\ Head(x.commands).kind # "shutdown"
             /\ connections' = [connections EXCEPT ![c] = sent] /\ UNCHANGED <<events, sending>>
    BY <1>5, <2>1, <2>3
  <2>4. CASE /\ connections' = [connections EXCEPT ![c] = Closed(sent)]
             /\ events' = Send(events, Event("disconnected", c)) /\ sending' = sending
    <3>1. \A i \in DOMAIN events' : \/ i \in DOMAIN events /\ events'[i] = events[i]
                                    \/ events'[i].kind # "candidate"
      BY <1>0, <1>4, <2>4 DEF Event
    <3> QED
      BY <1>5, <2>1, <2>4, <3>1
  <2> QED
    BY <1>6, <2>2, <2>3, <2>4
<1>13. ASSUME Delivers PROVE AgreeInv'
  <2>1. AllSteady /\ AllKept /\ WiredOK' /\ DOMAIN connections' = DOMAIN connections
    BY <1>0, <1>13, SteadyFields DEF Delivers, AllSteady, AllKept, Steady, WiredOK
  <2>2. \A i \in DOMAIN events' : (i \in DOMAIN events /\ events'[i] = events[i])
                                   \/ events'[i] = sending
    BY <1>0, <1>13, AppendShape DEF Delivers, Send
  <2>3. IntroducedOK'
    BY <1>0, <1>2, <1>13, <2>2 DEF Delivers, IntroducedOK, Introduced
  <2> QED
    BY <1>3, <2>1, <2>3
<1> QED
  BY <1>7, <1>8, <1>9, <1>10, <1>11, <1>12, <1>13 DEF Tasks

(* One library changes.                                                    *)
Becomes(p, r) ==
  /\ DOMAIN producers' = Producer /\ producers'[p] = r
  /\ \A q \in Producer \ {p} : producers'[q] = producers[q]

(* What a library advertises at once are candidates.                       *)
LEMMA CandidatesShape ==
  ASSUME NEW S, S \subseteq Hook, IsFiniteSet(S)
  PROVE  Candidates(S) \in Seq(Report)
<1> DEFINE n == Cardinality(S)
           s == SetToSeq(S)
<1>1. n \in Nat /\ ExistsBijection(1 .. n, S)
  BY FS_CardinalityType
<1>2. \E f \in [1 .. n -> S] : IsInjective(f)
  BY <1>1 DEF ExistsBijection, Bijection, Injection
<1>3. s \in [1 .. n -> S]
  BY <1>2 DEF SetToSeq
<1>4. Candidates(S) = [i \in 1 .. n |-> [kind |-> "candidate", hook |-> s[i]]]
  BY <1>3 DEF Candidates
<1> HIDE DEF n, s
<1> QED
  BY <1>1, <1>3, <1>4 DEF Report

(* A library that obeys does what the command says, one that makes a       *)
(* connection or loses it has nothing enabled.                             *)
LEMMA LibrariesAgree == AgreeInv /\ Libraries => AgreeInv'
<1> SUFFICES ASSUME AgreeInv, Libraries PROVE AgreeInv'
  OBVIOUS
<1>0. HostInv /\ WiredOK /\ LibrariesOK /\ IntroducedOK /\ InformedOK /\ rows \subseteq Hook
      /\ IsSeq(connections) /\ HandlerWired
  BY DEF AgreeInv, HostInv, ConnectionsOK
<1>1. HostInv'
  BY <1>0, HostInvNext DEF Next
<1>2. UNCHANGED <<events, sending, handler, rows, wanted, routes, refused>>
  BY DEF Libraries, Connects, Welcomed, GivesUp, Obeys, MissesBody, Loses, Leaves, Exits,
         Shows, Flushes, Library, windowVars
<1>3. ASSUME AllKept, WiredOK', LibrariesOK', InformedOK'
      PROVE  AgreeInv'
  BY <1>0, <1>1, <1>2, <1>3, KeptIntroduced, SameHandler DEF AgreeInv
<1>4. ASSUME AllSteady, AllKept, WiredOK', LibrariesOK', DOMAIN connections' = DOMAIN connections,
             \A p \in Producer : producers'[p].phase \in {"hello", "serving"} =>
               /\ Talking(p) /\ producers'[p].connection = Mine(p)
               /\ producers'[p].enabled = producers[p].enabled
      PROVE  AgreeInv'
  <2>1. ASSUME NEW c \in DOMAIN connections PROVE Informed(c)'
    <3>1. connections[c].by \in Producer
      BY <1>0 DEF WiredOK, Wired
    <3> QED
      BY <1>0, <1>2, <1>4, <3>1, SteadyInformed
  <2> QED
    BY <1>3, <1>4, <2>1 DEF InformedOK
<1>5. ASSUME NEW p \in Producer, AllKept, NEW r,
             Becomes(p, r), LibraryOK(p)'
      PROVE  LibrariesOK'
  <2>1. ASSUME NEW q \in Producer PROVE LibraryOK(q)'
    <3>1. CASE q = p
      BY <1>5, <3>1
    <3>2. CASE q # p
      <4>1. LibraryOK(q) /\ producers'[q] = producers[q]
        BY <1>0, <1>5, <3>2 DEF LibrariesOK, Becomes
      <4>2. \A c \in DOMAIN connections :
              c \in DOMAIN connections' /\ connections'[c].by = connections[c].by
        BY <1>5 DEF AllKept, Kept
      <4> QED
        BY <4>1, <4>2 DEF LibraryOK, Talking, Serving, Mine
    <3> QED
      BY <3>1, <3>2
  <2> QED
    BY <1>5, <2>1 DEF LibrariesOK, Becomes
<1>6. ASSUME NEW p \in Producer, NEW r, Becomes(p, r), LibraryOK(p)',
             AllSteady, AllKept, WiredOK', DOMAIN connections' = DOMAIN connections,
             r.phase \in {"hello", "serving"} =>
               /\ Talking(p) /\ r.connection = Mine(p) /\ r.enabled = producers[p].enabled
      PROVE  AgreeInv'
  <2>1. ASSUME NEW q \in Producer, producers'[q].phase \in {"hello", "serving"}
        PROVE  /\ Talking(q) /\ producers'[q].connection = Mine(q)
               /\ producers'[q].enabled = producers[q].enabled
    BY <1>0, <1>6, <2>1 DEF LibrariesOK, Talking, Mine, Becomes
  <2> QED
    BY <1>4, <1>5, <1>6, <2>1
<1>7. connections' = connections =>
        AllSteady /\ AllKept /\ WiredOK' /\ DOMAIN connections' = DOMAIN connections
  BY <1>0, SteadyFields DEF AllSteady, AllKept, Steady, WiredOK
<1>8. ASSUME NEW p \in Producer, connections' = Hangup(p)
      PROVE  AllSteady /\ AllKept /\ WiredOK' /\ DOMAIN connections' = DOMAIN connections
  <2>1. CASE connections' = connections
    BY <1>7, <2>1
  <2>2. CASE connections' = [connections EXCEPT ![Mine(p)].eof = TRUE]
    <3>1. connections' = [connections EXCEPT ![Mine(p)] =
                            [connections[Mine(p)] EXCEPT !.eof = TRUE]]
      BY <2>2, Zenon
    <3>2. Mine(p) \in DOMAIN connections =>
            Steady(connections[Mine(p)], [connections[Mine(p)] EXCEPT !.eof = TRUE])
      BY <1>0, SteadyFields, Zenon DEF WiredOK
    <3> QED
      BY <1>0, <3>1, <3>2, OneSteady, Zenon
  <2> QED
    BY <1>8, <2>1, <2>2 DEF Hangup
<1>9. ASSUME NEW p \in Producer, producers' = Seeking(p) \/ producers' = [producers EXCEPT ![p] = Off]
      PROVE  \E r : Becomes(p, r) /\ LibraryOK(p)' /\ r.phase \notin {"hello", "serving"}
  <2>1. LibraryOK(p) /\ DOMAIN producers = Producer
    BY <1>0 DEF LibrariesOK
  <2>2. CASE producers' = Seeking(p)
    <3>1. Becomes(p, producers'[p])
      BY <2>1, <2>2 DEF Seeking, Becomes
    <3>2. /\ DOMAIN producers'[p] = DOMAIN producers[p]
          /\ producers'[p].phase = "seek" /\ producers'[p].enabled = {}
          /\ producers'[p].known = producers[p].known
      BY <2>1, <2>2 DEF Seeking, LibraryOK
    <3> QED
      BY <2>1, <3>1, <3>2 DEF LibraryOK, Talking, Serving
  <2>3. CASE producers' = [producers EXCEPT ![p] = Off]
    <3>1. Becomes(p, Off) /\ producers'[p] = Off
      BY <2>1, <2>3 DEF Becomes
    <3>2. /\ DOMAIN Off = {"phase", "connection", "known", "enabled", "waiting"}
          /\ Off.phase = "off" /\ Off.enabled = {} /\ Off.known = {}
      BY DEF Off
    <3> QED
      BY <3>1, <3>2, FS_EmptySet DEF LibraryOK, Talking, Serving
  <2> QED
    BY <1>9, <2>2, <2>3
<1>10. ASSUME NEW p \in Producer, producers' = Seeking(p) \/ producers' = [producers EXCEPT ![p] = Off],
              AllSteady, AllKept, WiredOK', DOMAIN connections' = DOMAIN connections
       PROVE  AgreeInv'
  BY <1>6, <1>9, <1>10
<1>11. ASSUME NEW p \in Producer, Welcomed(p) PROVE AgreeInv'
  <2> DEFINE r == [producers[p] EXCEPT !.phase = "serving"]
  <2>1. LibraryOK(p) /\ producers[p].phase = "hello" /\ connections' = connections
        /\ Becomes(p, r)
    BY <1>0, <1>11 DEF Welcomed, LibrariesOK, Becomes
  <2>2. /\ DOMAIN r = DOMAIN producers[p] /\ r.phase = "serving"
        /\ r.connection = Mine(p) /\ r.enabled = producers[p].enabled
        /\ r.known = producers[p].known
    BY <2>1 DEF LibraryOK, Mine
  <2> HIDE DEF r
  <2>3. LibraryOK(p)'
    BY <2>1, <2>2 DEF LibraryOK, Talking, Serving, Mine, Becomes
  <2> QED
    BY <1>6, <1>7, <2>1, <2>2, <2>3 DEF Talking
<1>12. ASSUME NEW p \in Producer, Connects(p) PROVE AgreeInv'
  <2> PICK r : r = producers'[p]
    OBVIOUS
  <2>1. PICK y : /\ connections' = Append(connections, y)
                 /\ y = [by |-> p, link |-> "hello", eof |-> FALSE, frame |-> "none",
                         candidates |-> {}, enabled |-> {}, commands |-> <<>>, down |-> <<>>,
                         up |-> IF p \in Wine THEN Candidates(producers[p].known) ELSE <<>>]
    BY <1>12 DEF Connects
  <2>2. /\ LibraryOK(p) /\ producers[p].phase = "seek" /\ r = producers'[p]
        /\ Becomes(p, r)
    BY <1>0, <1>12 DEF Connects, LibrariesOK, Becomes
  <2>3. /\ y.by = p /\ y.link = "hello" /\ y.candidates = {} /\ y.enabled = {}
        /\ y.commands = <<>> /\ y.down = <<>>
        /\ DOMAIN y = {"by", "link", "eof", "frame", "candidates", "enabled", "commands",
                       "down", "up"}
        /\ y.up = IF p \in Wine THEN Candidates(producers[p].known) ELSE <<>>
    BY <2>1
  <2>4. Wired(y)
    <3>1. y.up \in Seq(Report)
      BY <2>2, <2>3, CandidatesShape DEF LibraryOK
    <3>2. <<>> \in Seq(Command) /\ DOMAIN << >> = {}
      OBVIOUS
    <3> QED
      BY <2>3, <3>1, <3>2 DEF Wired, HasShutdown
  <2>5. PICK n : n = Len(connections) + 1
    OBVIOUS
  <2>6. /\ n \notin DOMAIN connections /\ DOMAIN connections' = DOMAIN connections \cup {n}
        /\ connections'[n] = y
        /\ \A c \in DOMAIN connections : connections'[c] = connections[c]
    BY <1>0, <2>1, <2>5, AppendShape
  <2>7. AllSteady /\ AllKept /\ WiredOK'
    BY <1>0, <2>4, <2>6, SteadyFields DEF AllSteady, AllKept, Steady, WiredOK
  <2>8. /\ DOMAIN r = {"phase", "connection", "known", "enabled", "waiting"}
        /\ r.connection = n /\ r.enabled = {}
        /\ r.known \subseteq Hook /\ IsFiniteSet(r.known)
    <3>1. /\ DOMAIN r = DOMAIN producers[p] /\ r.connection = n
          /\ r.enabled = producers[p].enabled
          /\ r.known = IF p \in Wine THEN producers[p].known ELSE {}
      <4>1. producers' = [producers EXCEPT
               ![p].connection = Len(connections) + 1,
               ![p].phase = IF p \in Wine THEN "serving" ELSE "hello",
               ![p].known = IF p \in Wine THEN @ ELSE {}]
        BY <1>12, Zenon DEF Connects
      <4> QED
        BY <1>0, <2>2, <2>5, <4>1 DEF LibrariesOK, LibraryOK
    <3> QED
      BY <2>2, <3>1, FS_EmptySet DEF LibraryOK, Serving
  <2>9. producers'[p] = r /\ \A q \in Producer \ {p} : producers'[q] = producers[q]
    BY <2>2 DEF Becomes
  <2>10. LibrariesOK'
    <3>1. LibraryOK(p)'
      BY <2>3, <2>6, <2>8, <2>9 DEF LibraryOK, Talking, Serving, Mine
    <3> QED
      BY <1>5, <2>2, <2>7, <3>1
  <2>11. ASSUME NEW c \in DOMAIN connections PROVE Informed(c)'
    <3> DEFINE q == connections[c].by
    <3>1. q \in Producer
      BY <1>0 DEF WiredOK, Wired
    <3>2. producers'[q].connection = c => producers'[q] = producers[q]
      BY <2>6, <2>8, <2>9, <3>1
    <3> HIDE DEF q
    <3> QED
      BY <1>0, <1>2, <2>7, <3>2, SteadyInformed DEF q, Talking, Mine
  <2>12. Informed(n)'
    <3>1. \A h : ~Due(h, n)'
      BY <1>0, <1>2, <2>6 DEF IntroducedOK, Introduced, Due
    <3>2. y.down \o y.commands = <<>>
      BY <2>3
    <3>3. \A h \in Hook : ~Obeyed(<<>>, {}, h)
      BY DEF Obeyed, About
    <3>4. \A h \in Hook : h \in y.enabled <=>
            Obeyed(y.down \o y.commands, producers'[p].enabled, h)
      BY <2>3, <2>8, <2>9, <3>2, <3>3
    <3> QED
      BY <1>2, <2>3, <2>6, <3>1, <3>4, Zenon DEF Informed, Mine, Talking
  <2>13. InformedOK'
    BY <2>6, <2>11, <2>12 DEF InformedOK
  <2> QED
    BY <1>3, <2>7, <2>10, <2>13
<1>14. ASSUME NEW p \in Producer, GivesUp(p) \/ MissesBody(p) \/ Loses(p) PROVE AgreeInv'
  BY <1>7, <1>8, <1>10, <1>14 DEF GivesUp, MissesBody, Loses
<1>15. ASSUME NEW p \in Producer, Leaves(p) \/ Exits(p) PROVE AgreeInv'
  BY <1>8, <1>10, <1>15 DEF Leaves, Exits
<1>16. ASSUME NEW p \in Producer, NEW r, Becomes(p, r), NEW v,
              Mine(p) \in DOMAIN connections => v \in Seq(Report),
              connections' = [connections EXCEPT ![Mine(p)].up = v],
              DOMAIN r = DOMAIN producers[p], r.phase = producers[p].phase,
              r.connection = Mine(p), r.enabled = producers[p].enabled,
              r.known \subseteq Hook, IsFiniteSet(r.known)
       PROVE  AgreeInv'
  <2>1. AllSteady /\ AllKept /\ WiredOK' /\ DOMAIN connections' = DOMAIN connections
    <3> DEFINE k == Mine(p)
               y == [connections[k] EXCEPT !.up = v]
    <3>1. connections' = [connections EXCEPT ![k] = y]
      BY <1>16
    <3>2. k \in DOMAIN connections => Steady(connections[k], y)
      BY <1>0, <1>16, SteadyFields DEF WiredOK
    <3> HIDE DEF k, y
    <3> QED
      BY <1>0, <3>1, <3>2, OneSteady
  <2>2. LibraryOK(p)'
    <3>1. LibraryOK(p) /\ producers'[p] = r
      BY <1>0, <1>16 DEF LibrariesOK, Becomes
    <3>2. \A c \in DOMAIN connections : connections'[c].by = connections[c].by
      BY <2>1 DEF AllKept, Kept
    <3> QED
      BY <1>16, <2>1, <3>1, <3>2 DEF LibraryOK, Talking, Serving, Mine
  <2> QED
    BY <1>6, <1>16, <2>1, <2>2 DEF Talking
<1>17. ASSUME NEW p \in Producer, NEW h \in Hook, Shows(p, h) PROVE AgreeInv'
  <2> DEFINE K == producers[p].known \cup {h}
             W == IF p \in Native /\ h \in producers[p].enabled
                  THEN producers[p].waiting \cup {h} ELSE producers[p].waiting
             r == [producers[p] EXCEPT !.known = K, !.waiting = W]
             v == connections[Mine(p)].up
                    \o (IF h \notin producers[p].known THEN <<[kind |-> "candidate", hook |-> h]>> ELSE <<>>)
                    \o (IF p \in Wine /\ h \in producers[p].enabled
                        THEN <<[kind |-> "text", hook |-> h]>> ELSE <<>>)
  <2>1. LibraryOK(p) /\ DOMAIN producers = Producer
    BY <1>0 DEF LibrariesOK
  <2>2. producers' = [producers EXCEPT ![p].known = K, ![p].waiting = W]
    BY <1>17 DEF Shows
  <2>3. Becomes(p, r)
    <3> HIDE DEF K, W
    <3> QED
      BY <2>1, <2>2 DEF Becomes, LibraryOK
  <2>4. /\ DOMAIN r = DOMAIN producers[p] /\ r.phase = producers[p].phase
        /\ r.connection = Mine(p) /\ r.enabled = producers[p].enabled
        /\ r.known = K
    BY <2>1 DEF LibraryOK, Mine
  <2>5. K \subseteq Hook /\ IsFiniteSet(K)
    BY <2>1, FS_AddElement DEF LibraryOK
  <2>6. connections' = [connections EXCEPT ![Mine(p)].up = v]
    BY <1>17 DEF Shows
  <2>7. Mine(p) \in DOMAIN connections => v \in Seq(Report)
    <3>1. \A k \in {"candidate", "text"} : <<[kind |-> k, hook |-> h]>> \in Seq(Report)
      BY DEF Report
    <3>2. <<>> \in Seq(Report)
      OBVIOUS
    <3>3. Mine(p) \in DOMAIN connections => connections[Mine(p)].up \in Seq(Report)
      BY <1>0 DEF WiredOK, Wired
    <3> QED
      BY <3>1, <3>2, <3>3
  <2> HIDE DEF K, W, r, v
  <2> QED
    BY <1>16, <2>3, <2>4, <2>5, <2>6, <2>7
<1>18. ASSUME NEW p \in Producer, NEW h \in Hook, Flushes(p, h) PROVE AgreeInv'
  <2> DEFINE r == [producers[p] EXCEPT !.waiting = @ \ {h}]
             v == Append(connections[Mine(p)].up, [kind |-> "text", hook |-> h])
  <2>1. LibraryOK(p) /\ DOMAIN producers = Producer
    BY <1>0 DEF LibrariesOK
  <2>2. Becomes(p, r)
    BY <1>18, <2>1 DEF Flushes, Becomes
  <2>3. /\ DOMAIN r = DOMAIN producers[p] /\ r.phase = producers[p].phase
        /\ r.connection = Mine(p) /\ r.enabled = producers[p].enabled
        /\ r.known \subseteq Hook /\ IsFiniteSet(r.known)
    BY <2>1 DEF LibraryOK, Mine
  <2>4. connections' = [connections EXCEPT ![Mine(p)].up = v]
    BY <1>18 DEF Flushes
  <2>5. Mine(p) \in DOMAIN connections => v \in Seq(Report)
    <3>1. [kind |-> "text", hook |-> h] \in Report
      BY DEF Report
    <3>2. Mine(p) \in DOMAIN connections => connections[Mine(p)].up \in Seq(Report)
      BY <1>0 DEF WiredOK, Wired
    <3> QED
      BY <3>1, <3>2
  <2> HIDE DEF r, v
  <2> QED
    BY <1>16, <2>2, <2>3, <2>4, <2>5
<1>19. ASSUME NEW p \in Producer, Obeys(p) PROVE AgreeInv'
  <2>1. PICK c : c = Mine(p)
    OBVIOUS
  <2>2. PICK x : x = connections[c]
    OBVIOUS
  <2>3. PICK m : m = Head(x.down)
    OBVIOUS
  <2> DEFINE y == [x EXCEPT !.down = Tail(@)]
  <2>4. /\ LibraryOK(p) /\ DOMAIN producers = Producer /\ c \in DOMAIN connections
        /\ x.by = p /\ Serving(p) /\ x.down # <<>> /\ Wired(x) /\ Informed(c)
        /\ connections' = [connections EXCEPT ![c] = y]
    BY <1>0, <1>19, <2>1, <2>2
       DEF Obeys, LibrariesOK, LibraryOK, Talking, Serving, WiredOK, InformedOK
  <2>5. /\ x.down \in Seq(Command) /\ x.commands \in Seq(Command)
        /\ Tail(x.down) \in Seq(Command) /\ m \in Command
        /\ HasShutdown(Tail(x.down)) => HasShutdown(x.down)
        /\ m.kind = "shutdown" => HasShutdown(x.down)
    <3>1. x.down \in Seq(Command) /\ x.commands \in Seq(Command)
      BY <2>4 DEF Wired
    <3>2. Tail(x.down) \in Seq(Command) /\ m \in Command /\ 1 \in DOMAIN x.down /\ x.down[1] = m
      BY <2>3, <2>4, <3>1
    <3>3. \A i \in DOMAIN Tail(x.down) : i + 1 \in DOMAIN x.down /\ Tail(x.down)[i] = x.down[i + 1]
      BY <2>4, <3>1
    <3> QED
      BY <3>1, <3>2, <3>3 DEF HasShutdown
  <2>6. /\ Kept(x, y) /\ y.enabled = x.enabled /\ y.link = x.link
        /\ y.down = Tail(x.down) /\ y.commands = x.commands /\ x.link # "hello"
    BY <2>4, <2>5 DEF Wired, Kept
  <2> HIDE DEF y
  <2>7. /\ AllKept /\ WiredOK' /\ DOMAIN connections' = DOMAIN connections
        /\ connections'[c] = y
        /\ \A d \in DOMAIN connections : d # c => connections'[d] = connections[d]
    BY <1>0, <2>2, <2>4, <2>6, SteadyFields DEF AllKept, WiredOK, Kept, Steady
  <2>8. \/ producers' = [producers EXCEPT ![p].enabled = @ \cup {m.hook}] /\ m.kind = "enable"
        \/ producers' = [producers EXCEPT ![p].enabled = @ \ {m.hook}] /\ m.kind = "disable"
        \/ producers' = [producers EXCEPT ![p].phase = "leaving", ![p].enabled = {}]
             /\ m.kind = "shutdown"
        \/ producers' = Seeking(p) /\ m.kind \notin {"enable", "disable"}
    BY <1>19, <2>1, <2>2, <2>3, Zenon DEF Obeys
  <2>9. m.kind \in {"enable", "disable"} => m.hook \in Hook
    BY <2>5 DEF Command
  <2>10. PICK r : /\ Becomes(p, r) /\ DOMAIN r = DOMAIN producers[p]
                  /\ r.known = producers[p].known /\ r.connection = c
                  /\ r.enabled \subseteq Hook
                  /\ \/ /\ r.phase = "serving" /\ m.kind = "enable"
                        /\ r.enabled = producers[p].enabled \cup {m.hook}
                     \/ /\ r.phase = "serving" /\ m.kind = "disable"
                        /\ r.enabled = producers[p].enabled \ {m.hook}
                     \/ r.phase \in {"leaving", "seek"} /\ r.enabled = {}
                         /\ m.kind \notin {"enable", "disable"}
    <3>1. Becomes(p, producers'[p])
      BY <2>4, <2>8 DEF Becomes, Seeking
    <3>2. /\ DOMAIN producers'[p] = DOMAIN producers[p]
          /\ producers'[p].known = producers[p].known /\ producers'[p].connection = c
          /\ producers'[p].enabled \subseteq Hook
          /\ \/ /\ producers'[p].phase = "serving" /\ m.kind = "enable"
                /\ producers'[p].enabled = producers[p].enabled \cup {m.hook}
             \/ /\ producers'[p].phase = "serving" /\ m.kind = "disable"
                /\ producers'[p].enabled = producers[p].enabled \ {m.hook}
             \/ producers'[p].phase \in {"leaving", "seek"} /\ producers'[p].enabled = {}
                 /\ m.kind \notin {"enable", "disable"}
      <4>1. CASE producers' = [producers EXCEPT ![p].enabled = @ \cup {m.hook}] /\ m.kind = "enable"
        BY <2>1, <2>4, <2>9, <4>1 DEF LibraryOK, Serving, Mine
      <4>2. CASE producers' = [producers EXCEPT ![p].enabled = @ \ {m.hook}] /\ m.kind = "disable"
        BY <2>1, <2>4, <2>9, <4>2 DEF LibraryOK, Serving, Mine
      <4>3. CASE /\ producers' = [producers EXCEPT ![p].phase = "leaving", ![p].enabled = {}]
                 /\ m.kind = "shutdown"
        BY <2>1, <2>4, <2>9, <4>3 DEF LibraryOK, Serving, Mine
      <4>4. CASE producers' = Seeking(p) /\ m.kind \notin {"enable", "disable"}
        BY <2>1, <2>4, <2>9, <4>4 DEF LibraryOK, Serving, Mine, Seeking
      <4> QED
        BY <2>8, <4>1, <4>2, <4>3, <4>4
    <3> QED
      BY <3>1, <3>2
  <2>11. LibrariesOK'
    <3>1. LibraryOK(p)'
      <4>1. producers'[p] = r /\ connections'[c].by = p
        BY <2>4, <2>6, <2>7, <2>10 DEF Becomes, Kept
      <4> QED
        BY <2>4, <2>7, <2>10, <4>1 DEF LibraryOK, Talking, Serving, Mine
    <3> QED
      BY <1>5, <2>7, <2>10, <3>1
  <2>12. Informed(c)'
    <3>0. \A h : (Due(h, c)' <=> Due(h, c)) /\ (InHand(h, c)' <=> InHand(h, c))
      BY <1>2 DEF Due, InHand, Silencing
    <3> SUFFICES ASSUME x.link # "closed", c \notin refused, ~HasShutdown(x.commands)
                 PROVE  /\ \A h \in Hook : Due(h, c) => h \in x.enabled
                        /\ \A h \in Hook : InHand(h, c) \/
                             (h \in x.enabled <=> Obeyed(y.down \o y.commands, r.enabled, h))
      BY <1>2, <2>4, <2>6, <2>7, <2>10, <3>0, Zenon DEF Informed, Kept, Mine, Becomes
    <3>1. /\ \A h \in Hook : Due(h, c) => h \in x.enabled
          /\ \A h \in Hook : InHand(h, c) \/
               (h \in x.enabled <=> Obeyed(x.down \o x.commands, producers[p].enabled, h))
      BY <2>1, <2>2, <2>4 DEF Informed, Talking, Serving
    <3>2. ~HasShutdown(x.down)
      BY <2>4 DEF Wired
    <3>3. m.kind \in {"enable", "disable"}
      BY <2>5, <3>2 DEF Command
    <3> DEFINE q == x.down \o x.commands
    <3>4. /\ q \in Seq(Command) /\ q # <<>> /\ Head(q) = m
          /\ y.down \o y.commands = Tail(q)
      <4>1. /\ q \in Seq(Command) /\ q # <<>> /\ Head(q) = Head(x.down)
            /\ Tail(x.down) \o x.commands = Tail(q)
        <5>1. ASSUME NEW d \in Seq(Command), NEW e \in Seq(Command), d # <<>>
              PROVE  /\ d \o e \in Seq(Command) /\ d \o e # <<>> /\ Head(d \o e) = Head(d)
                     /\ Tail(d) \o e = Tail(d \o e)
          BY <5>1, CommandOrder
        <5> QED
          BY <2>4, <2>5, <5>1
      <4> HIDE DEF q
      <4> QED
        BY <2>3, <2>6, <4>1
    <3> HIDE DEF q
    <3>5. \A h : Obeyed(Tail(q), r.enabled, h) <=> Obeyed(q, producers[p].enabled, h)
      BY <2>10, <3>3, <3>4, ObeyedFirst
    <3> QED
      BY <3>1, <3>4, <3>5 DEF q
  <2>13. ASSUME NEW d \in DOMAIN connections, d # c PROVE Informed(d)'
    <3>1. Informed(d) /\ connections'[d] = connections[d] /\ connections[d].by \in Producer
      BY <1>0, <2>7, <2>13 DEF InformedOK, WiredOK, Wired
    <3>2. \A q \in Producer : producers'[q].connection = d => producers'[q] = producers[q]
      BY <2>10, <2>13 DEF Becomes
    <3>3. \A h : (Due(h, d)' <=> Due(h, d)) /\ (InHand(h, d)' <=> InHand(h, d))
      BY <1>2 DEF Due, InHand, Silencing
    <3> QED
      BY <1>2, <3>1, <3>2, <3>3, Zenon DEF Informed, Talking, Mine
  <2>14. InformedOK'
    BY <2>7, <2>12, <2>13 DEF InformedOK
  <2> QED
    BY <1>3, <2>7, <2>11, <2>14
<1> QED
  BY <1>11, <1>12, <1>14, <1>15, <1>17, <1>18, <1>19 DEF Libraries

(* What has been queued, is queued still.                                  *)
LEMMA QueuedShape ==
  ASSUME NEW x, Wired(x), NEW m \in Command
  PROVE  /\ Append(x.commands, m) \in Seq(Command)
         /\ HasShutdown(x.commands) \/ m.kind = "shutdown" => HasShutdown(Append(x.commands, m))
         /\ x.down \o Append(x.commands, m) = Append(x.down \o x.commands, m)
         /\ x.down \o x.commands \in Seq(Command)
<1>1. x.commands \in Seq(Command) /\ x.down \in Seq(Command)
  BY DEF Wired
<1> DEFINE q == Append(x.commands, m)
<1>2. /\ q \in Seq(Command) /\ DOMAIN x.commands \subseteq DOMAIN q
      /\ \A i \in DOMAIN x.commands : q[i] = x.commands[i]
      /\ Len(x.commands) + 1 \in DOMAIN q /\ q[Len(x.commands) + 1] = m
  BY <1>1
<1>3. HasShutdown(x.commands) \/ m.kind = "shutdown" => HasShutdown(q)
  BY <1>2 DEF HasShutdown
<1>4. x.down \o q = Append(x.down \o x.commands, m) /\ x.down \o x.commands \in Seq(Command)
  <2>1. ASSUME NEW d \in Seq(Command), NEW e \in Seq(Command)
        PROVE  d \o Append(e, m) = Append(d \o e, m) /\ d \o e \in Seq(Command)
    BY <2>1, CommandOrder
  <2> QED
    BY <1>1, <2>1
<1> QED
  BY <1>2, <1>3, <1>4

(* A connection whose set of enabled candidates is another.                *)
LEMMA EnabledShape ==
  ASSUME NEW x, Wired(x), NEW E, E \subseteq x.candidates
  PROVE  LET y == [x EXCEPT !.enabled = E] IN
         /\ Kept(x, y) /\ y.link = x.link /\ y.enabled = E
         /\ y.down = x.down /\ y.commands = x.commands
<1> DEFINE y == [x EXCEPT !.enabled = E]
<1>1. /\ DOMAIN y = DOMAIN x /\ y.by = x.by /\ y.link = x.link /\ y.up = x.up
      /\ y.candidates = x.candidates /\ y.enabled = E
      /\ y.down = x.down /\ y.commands = x.commands
  BY DEF Wired
<1> HIDE DEF y
<1> QED
  BY <1>1 DEF Kept, Wired, y

(* The commands of the handlers.                                           *)
LEMMA NoticeShape ==
  ASSUME HandlerWired, handler.doing \in Doings, handler.doing # "nothing", rows \subseteq Hook
  PROVE  /\ Notice \in Command /\ Notice.hook = handler.hook
         /\ Notice.kind = "enable" <=> handler.doing = "enable"
         /\ Notice.kind = "shutdown" <=> handler.doing = "detach"
  BY DEF HandlerWired, Notice, Command, Doings

(* A connection that a command is queued for, or not.                      *)
LEMMA NotifiedShape ==
  ASSUME NEW x, Wired(x), Notice \in Command
  PROVE  /\ Kept(x, Notified(x)) /\ Notified(x).link = x.link
         /\ HasShutdown(x.commands) => HasShutdown(Notified(x).commands)
         /\ Registered(x) /\ ~Full(x) =>
              /\ Notified(x).enabled = x.enabled
              /\ Notified(x).down \o Notified(x).commands =
                   Append(x.down \o x.commands, Notice)
              /\ Notice.kind = "shutdown" => HasShutdown(Notified(x).commands)
<1> DEFINE y == Queued(x, Notice)
<1>1. CASE Registered(x) /\ ~Full(x)
  <2>1. Notified(x) = y
    BY <1>1 DEF Notified
  <2>2. /\ DOMAIN y = DOMAIN x /\ y.by = x.by /\ y.link = x.link /\ y.up = x.up
        /\ y.candidates = x.candidates /\ y.enabled = x.enabled
        /\ y.down = x.down /\ y.commands = Append(x.commands, Notice)
    BY DEF Wired, Queued
  <2>3. /\ Append(x.commands, Notice) \in Seq(Command)
        /\ HasShutdown(x.commands) \/ Notice.kind = "shutdown" =>
             HasShutdown(Append(x.commands, Notice))
        /\ x.down \o Append(x.commands, Notice) = Append(x.down \o x.commands, Notice)
    BY QueuedShape
  <2> HIDE DEF y
  <2> QED
    BY <1>1, <2>1, <2>2, <2>3 DEF Kept, Wired, Registered
<1>2. CASE ~(Registered(x) /\ ~Full(x))
  <2> DEFINE z == [x EXCEPT !.enabled = @ \ {handler.hook}]
  <2>1. Notified(x) = z \/ Notified(x) = x
    BY <1>2 DEF Notified
  <2>2. Kept(x, x) /\ Kept(x, z) /\ z.link = x.link /\ z.commands = x.commands
    <3>1. x.enabled \ {handler.hook} \subseteq x.candidates
      BY DEF Wired
    <3> QED
      BY <3>1, EnabledShape DEF Kept
  <2> HIDE DEF z
  <2> QED
    BY <1>2, <2>1, <2>2
<1> QED
  BY <1>1, <1>2

(* A connection that stays as it is, while no more is due.                 *)
LEMMA SameInforms ==
  ASSUME NEW c \in DOMAIN connections, Informed(c), connections'[c] = connections[c],
         connections[c].by \in Producer,
         \A p \in Producer : producers'[p].phase \in {"hello", "serving"} =>
                               producers'[p] = producers[p],
         refused \subseteq refused',
         \A h \in Hook : Due(h, c)' => Due(h, c),
         \A h \in Hook : InHand(h, c) => InHand(h, c)'
  PROVE  Informed(c)'
<1> DEFINE p == connections[c].by
<1>1. Talking(p)' => producers'[p] = producers[p] /\ Talking(p) /\ Mine(p)' = Mine(p)
  BY DEF Talking, Mine
<1> QED
  BY <1>1, Zenon DEF Informed

(* What a step of the window must keep.                                    *)
LEMMA WindowKeeps ==
  ASSUME AgreeInv, HostInv', AllKept, WiredOK', DOMAIN connections' = DOMAIN connections,
         producers' = producers, sending' = sending, rows' \subseteq Hook, HandlerWired',
         events' = events \/ (events # <<>> /\ events' = Tail(events)),
         \A r \in routes' : r \in routes \/ Introduced(r[1], r[2]),
         \A c \in DOMAIN connections : Informed(c)'
  PROVE  AgreeInv'
<1>0. HostInv /\ LibrariesOK /\ IntroducedOK /\ IsSeq(events)
  BY DEF AgreeInv, HostInv, EndsOK
<1>1. LibrariesOK'
  BY <1>0, SameLibraries
<1>2. \A h, c : Introduced(h, c) => Introduced(h, c)'
  BY DEF Introduced, AllKept, Kept
<1>3. \A r \in routes' : Introduced(r[1], r[2])
  BY <1>0 DEF IntroducedOK
<1>4. \A i \in DOMAIN events' : \E j \in DOMAIN events : events'[i] = events[j]
  BY <1>0, TailShape
<1>5. IntroducedOK'
  BY <1>0, <1>2, <1>3, <1>4 DEF IntroducedOK
<1>6. InformedOK'
  BY DEF InformedOK
<1> QED
  BY <1>1, <1>5, <1>6 DEF AgreeInv

(* The connections of before.                                              *)
LEMMA AllTheSame ==
  ASSUME WiredOK, connections' = connections
  PROVE  AllKept /\ WiredOK' /\ DOMAIN connections' = DOMAIN connections
<1>1. \A c \in DOMAIN connections : Kept(connections[c], connections[c])
  BY SteadyFields DEF WiredOK, Steady
<1> QED
  BY <1>1 DEF AllKept, WiredOK

(* The user sets a handler to work: what it will silence is no longer due, *)
(* and what it will enable is not due yet.                                 *)
LEMMA UserAgrees ==
  ASSUME AgreeInv, HostInv',
         \/ \E h \in Hook : (\E on \in BOOLEAN : Configure(h, on)) \/ Forget(h)
         \/ Detach
  PROVE  AgreeInv'
<1>0. /\ HostInv /\ WiredOK /\ IntroducedOK /\ InformedOK /\ HandlerWired
      /\ rows \subseteq Hook /\ ConnectionsOK /\ HandlerOK
  BY DEF AgreeInv, HostInv
<1>1. /\ UNCHANGED <<producers, connections, events, sending, rows, wanted, refused>>
      /\ Resting /\ routes' \subseteq routes
  BY DEF Configure, Forget, Detach, UserActs
<1>2. handler.doing = "nothing" /\ handler.sends = None
  BY <1>0, <1>1 DEF HandlerOK, Resting, Idle, Handler
<1>3. None \notin DOMAIN connections
  BY <1>0, AppendShape, HostAssumption DEF ConnectionsOK
<1>4. ASSUME NEW d \in {"enable", "disable", "forget", "detach"}, NEW g, NEW S,
             handler' = Handler(d, g, S), IF d = "detach" THEN g = None ELSE g \in rows,
             \A c \in S : \E r \in routes : r[2] = c /\ (d # "detach" => r[1] = g),
             d = "enable" => routes' = routes /\ \A c : <<g, c>> \in routes => c \in S,
             d = "forget" => \A c : <<g, c>> \notin routes'
      PROVE  AgreeInv'
  <2>1. /\ handler'.doing = d /\ handler'.hook = g /\ handler'.left = S
        /\ handler'.sends = None
    BY <1>4 DEF Handler
  <2>2. ASSUME NEW c \in S
        PROVE  /\ c \in DOMAIN connections /\ connections[c].candidates # {}
               /\ d # "detach" => g \in connections[c].candidates
               /\ d = "enable" => <<g, c>> \in routes'
    <3>1. PICK r \in routes : r[2] = c /\ (d # "detach" => r[1] = g)
      BY <1>4
    <3>2. Introduced(r[1], r[2]) /\ r = <<r[1], r[2]>>
      BY <1>0 DEF IntroducedOK, ConnectionsOK
    <3> QED
      BY <1>4, <3>1, <3>2 DEF Introduced
  <2>3. HandlerWired'
    <3>1. Held' = S
      BY <2>1 DEF Held
    <3>2. None \notin S
      BY <1>3, <2>2
    <3> QED
      BY <1>1, <1>4, <2>1, <2>2, <3>1, <3>2 DEF HandlerWired
  <2>4. ASSUME NEW c \in DOMAIN connections PROVE Informed(c)'
    <3>1. ASSUME NEW h \in Hook, Due(h, c)' PROVE Due(h, c)
      <4>1. /\ h \in wanted \/ (d = "enable" /\ g = h)
            /\ <<h, c>> \in routes'
            /\ ~(g = h /\ c \in S)
        BY <1>1, <2>1, <3>1 DEF Due
      <4>2. h \in wanted /\ <<h, c>> \in routes
        BY <1>1, <1>4, <4>1
      <4>3. g # h \/ c \notin handler.left
        BY <1>0, <1>1 DEF HandlerOK, Idle, Handler
      <4> QED
        BY <1>0, <1>1, <1>2, <4>2 DEF Due, Silencing, HandlerOK, Idle, Handler
    <3>2. \A h \in Hook : InHand(h, c) => InHand(h, c)'
      BY <1>2, <1>3 DEF InHand
    <3> QED
      BY <1>0, <1>1, <3>1, <3>2, SameInforms DEF InformedOK, WiredOK, Wired
  <2> QED
    BY <1>0, <1>1, <2>3, <2>4, AllTheSame, WindowKeeps
<1>5. ASSUME NEW h, NEW c PROVE <<h, c>> \in routes <=> c \in Routed(h)
  <2>1. \A r \in routes : r = <<r[1], r[2]>>
    BY <1>0 DEF ConnectionsOK
  <2> QED
    BY <2>1 DEF Routed
<1>6. ASSUME NEW h \in Hook, NEW on \in BOOLEAN, Configure(h, on) PROVE AgreeInv'
  <2>1. /\ handler' = Handler(IF on THEN "enable" ELSE "disable", h, Routed(h))
        /\ h \in rows /\ routes' = routes
    BY <1>6 DEF Configure
  <2>2. \A c \in Routed(h) : \E r \in routes : r[2] = c /\ r[1] = h
    BY DEF Routed
  <2> QED
    BY <1>4, <1>5, <2>1, <2>2
<1>7. ASSUME NEW h \in Hook, Forget(h) PROVE AgreeInv'
  <2>1. /\ handler' = Handler("forget", h, Routed(h))
        /\ h \in rows /\ routes' = {r \in routes : r[1] # h}
    BY <1>7 DEF Forget
  <2>2. \A c \in Routed(h) : \E r \in routes : r[2] = c /\ r[1] = h
    BY DEF Routed
  <2>3. \A c : <<h, c>> \notin routes'
    BY <2>1
  <2> QED
    BY <1>4, <2>1, <2>2, <2>3
<1>8. ASSUME Detach PROVE AgreeInv'
  <2>1. handler' = Handler("detach", None, {r[2] : r \in routes}) /\ routes' = routes
    BY <1>8 DEF Detach
  <2> QED
    BY <1>4, <2>1
<1> QED
  BY <1>6, <1>7, <1>8

(* The handler goes by a connection: what it finds there is in hand, what  *)
(* it does not find is no longer served.                                   *)
LEMMA MarksAgree ==
  ASSUME AgreeInv, HostInv', NEW c \in handler.left, Marks(c)
  PROVE  AgreeInv'
<1> DEFINE doing == handler.doing
           g == handler.hook
           x == connections[c]
           found == Registered(x) /\ (doing = "enable" => g \in x.candidates)
<1>0. /\ HostInv /\ WiredOK /\ IntroducedOK /\ InformedOK /\ HandlerWired
      /\ rows \subseteq Hook /\ ConnectionsOK /\ HandlerOK
  BY DEF AgreeInv, HostInv
<1>1. /\ UNCHANGED <<producers, events, sending, rows, wanted, routes, refused>>
      /\ handler' = [handler EXCEPT !.left = @ \ {c}, !.sends = IF found THEN c ELSE None]
      /\ connections' = IF found THEN [connections EXCEPT ![c].enabled = Marked(@)]
                        ELSE connections
      /\ handler.sends = None
  BY DEF Marks, windowVars, ghostVars
<1>2. None \notin DOMAIN connections
  BY <1>0, AppendShape, HostAssumption DEF ConnectionsOK
<1>3. /\ handler'.doing = doing /\ handler'.hook = g /\ handler'.left = handler.left \ {c}
      /\ handler'.sends = IF found THEN c ELSE None
      /\ doing \in Doings /\ doing # "nothing"
  BY <1>0, <1>1 DEF HandlerOK, Resting, Idle, Handler
<1>4. /\ c \in DOMAIN connections /\ Wired(x) /\ x.candidates # {} /\ x.link # "hello"
      /\ doing # "detach" => g \in x.candidates
      /\ doing # "detach" => g \in rows
  BY <1>0, <1>3 DEF HandlerWired, Held, WiredOK, Wired
<1>5. found \/ x.link = "closed"
  BY <1>4 DEF Registered, Wired
<1>6. DOMAIN connections' = DOMAIN connections
      /\ \A d \in DOMAIN connections : d # c \/ ~found => connections'[d] = connections[d]
  BY <1>1
<1>7. ASSUME found
      PROVE  /\ Kept(x, connections'[c]) /\ connections'[c].link = x.link
             /\ connections'[c].enabled = Marked(x.enabled)
             /\ connections'[c].down = x.down /\ connections'[c].commands = x.commands
  <2> DEFINE y == [x EXCEPT !.enabled = Marked(x.enabled)]
  <2>1. connections'[c] = y
    BY <1>1, <1>4, <1>7
  <2>2. Marked(x.enabled) \subseteq x.candidates
    BY <1>4, <1>7 DEF Marked, Wired
  <2> QED
    BY <1>4, <2>1, <2>2, EnabledShape
<1> HIDE DEF found
<1>8. AllKept /\ WiredOK'
  <2>1. ASSUME NEW d \in DOMAIN connections PROVE Kept(connections[d], connections'[d])
    BY <1>0, <1>6, <1>7, SteadyFields DEF WiredOK, Steady
  <2> QED
    BY <1>6, <2>1 DEF AllKept, WiredOK, Kept
<1>9. HandlerWired'
  <2>1. Held' \subseteq Held
    BY <1>1, <1>3 DEF Held
  <2>2. \A d \in DOMAIN connections : /\ d \in DOMAIN connections'
                                      /\ connections[d].candidates \subseteq connections'[d].candidates
    BY <1>8 DEF AllKept, Kept
  <2>3. handler'.sends \notin handler'.left
    BY <1>0, <1>1, <1>3 DEF HandlerWired
  <2> QED
    BY <1>0, <1>1, <1>3, <2>1, <2>2, <2>3 DEF HandlerWired
<1>10. ASSUME NEW d \in DOMAIN connections, d # c PROVE Informed(d)'
  <2>1. \A h : (Due(h, d)' => Due(h, d)) /\ (InHand(h, d) => InHand(h, d)')
    BY <1>1, <1>2, <1>3, <1>10 DEF Due, InHand, Silencing
  <2> QED
    BY <1>0, <1>1, <1>6, <1>10, <2>1, SameInforms DEF InformedOK, WiredOK, Wired
<1>11. Informed(c)'
  <2>1. CASE ~found
    BY <1>4, <1>5, <1>6, <2>1 DEF Informed
  <2>2. CASE found
    <3> DEFINE y == connections'[c]
               p == x.by
    <3>1. y.by = p
      BY <1>7, <2>2 DEF Kept
    <3> SUFFICES ASSUME y.link # "closed", c \notin refused, ~HasShutdown(y.commands)
                 PROVE  /\ \A h \in Hook : Due(h, c)' => h \in y.enabled
                        /\ Mine(p) = c /\ Talking(p) =>
                             \A h \in Hook : InHand(h, c)' \/
                               (h \in y.enabled <=>
                                  Obeyed(y.down \o y.commands, producers[p].enabled, h))
      BY <1>1, <3>1, Zenon DEF Informed, Talking, Mine
    <3>2. /\ \A h \in Hook : Due(h, c) => h \in x.enabled
          /\ Mine(p) = c /\ Talking(p) =>
               \A h \in Hook : InHand(h, c) \/
                 (h \in x.enabled <=>
                    Obeyed(x.down \o x.commands, producers[p].enabled, h))
      BY <1>0, <1>4, <1>7, <2>2, Zenon DEF InformedOK, Informed
    <3>3. ASSUME NEW h \in Hook, Due(h, c)' PROVE h \in y.enabled
      <4>1. CASE doing = "enable" /\ h = g
        BY <1>7, <2>2, <4>1 DEF Marked
      <4>2. CASE ~(doing = "enable" /\ h = g)
        <5>1. h # g /\ doing # "detach"
          BY <1>3, <3>3, <4>2 DEF Due, Silencing, Doings
        <5>2. Due(h, c)
          BY <1>1, <1>3, <3>3, <5>1 DEF Due, Silencing
        <5> QED
          BY <1>7, <2>2, <3>2, <5>1, <5>2 DEF Marked
      <4> QED
        BY <4>1, <4>2
    <3>4. ASSUME NEW h \in Hook, ~InHand(h, c)', Mine(p) = c, Talking(p)
          PROVE  h \in y.enabled <=> Obeyed(y.down \o y.commands, producers[p].enabled, h)
      <4>1. h # g /\ doing # "detach"
        BY <1>3, <2>2, <3>4 DEF InHand
      <4>2. ~InHand(h, c)
        BY <1>1, <1>2, <1>4 DEF InHand
      <4>3. h \in y.enabled <=> h \in x.enabled
        BY <1>7, <2>2, <4>1 DEF Marked
      <4>4. h \in x.enabled <=> Obeyed(x.down \o x.commands, producers[p].enabled, h)
        BY <3>2, <3>4, <4>2
      <4>5. y.down = x.down /\ y.commands = x.commands
        BY <1>7, <2>2
      <4> QED
        BY <4>3, <4>4, <4>5
    <3> HIDE DEF y, p
    <3> QED
      BY <3>3, <3>4
  <2> QED
    BY <2>1, <2>2
<1> QED
  BY <1>0, <1>1, <1>6, <1>8, <1>9, <1>10, <1>11, WindowKeeps

(* The command in hand is queued: the library will do what the service     *)
(* does already.                                                           *)
LEMMA SendsAgree == AgreeInv /\ HostInv' /\ Sends => AgreeInv'
<1> SUFFICES ASSUME AgreeInv, HostInv', Sends PROVE AgreeInv'
  OBVIOUS
<1> PICK c : c = handler.sends
  OBVIOUS
<1> DEFINE doing == handler.doing
           g == handler.hook
           x == connections[c]
           y == Notified(x)
<1>0. /\ HostInv /\ WiredOK /\ IntroducedOK /\ InformedOK /\ HandlerWired
      /\ rows \subseteq Hook /\ ConnectionsOK /\ HandlerOK
  BY DEF AgreeInv, HostInv
<1>1. /\ UNCHANGED <<producers, events, sending, rows, wanted, routes>>
      /\ c # None
      /\ handler' = [handler EXCEPT !.sends = None]
      /\ connections' = [connections EXCEPT ![c] = y]
      /\ refused' = IF Full(x) THEN refused \cup {c} ELSE refused
  BY DEF Sends, windowVars
<1>2. None \notin DOMAIN connections
  BY <1>0, AppendShape, HostAssumption DEF ConnectionsOK
<1>3. /\ handler'.doing = doing /\ handler'.hook = g /\ handler'.left = handler.left
      /\ handler'.sends = None
      /\ doing \in Doings /\ doing # "nothing"
  BY <1>0, <1>1 DEF HandlerOK, Resting, Idle, Handler
<1>4. /\ c \in DOMAIN connections /\ Wired(x) /\ x.link # "hello" /\ c \notin handler.left
      /\ doing # "detach" => g \in x.candidates
      /\ doing = "enable" => <<g, c>> \in routes
  BY <1>0, <1>1, <1>3 DEF HandlerWired, Held, WiredOK, Wired
<1>5. /\ Notice \in Command /\ Notice.hook = g
      /\ Notice.kind = "enable" <=> doing = "enable"
      /\ Notice.kind = "shutdown" <=> doing = "detach"
  BY <1>0, <1>3, NoticeShape
<1>6. /\ Kept(x, y) /\ y.link = x.link
      /\ HasShutdown(x.commands) => HasShutdown(y.commands)
      /\ Registered(x) /\ ~Full(x) =>
           /\ y.enabled = x.enabled
           /\ y.down \o y.commands = Append(x.down \o x.commands, Notice)
           /\ Notice.kind = "shutdown" => HasShutdown(y.commands)
  BY <1>4, <1>5, NotifiedShape
<1> HIDE DEF y
<1>7. DOMAIN connections' = DOMAIN connections /\ connections'[c] = y
      /\ \A d \in DOMAIN connections : d # c => connections'[d] = connections[d]
  BY <1>1, <1>4
<1>8. AllKept /\ WiredOK'
  <2>1. ASSUME NEW d \in DOMAIN connections PROVE Kept(connections[d], connections'[d])
    BY <1>0, <1>6, <1>7, SteadyFields DEF WiredOK, Steady
  <2> QED
    BY <1>7, <2>1 DEF AllKept, WiredOK, Kept
<1>9. HandlerWired'
  <2>1. Held' \subseteq Held
    BY <1>3 DEF Held
  <2>2. \A d \in DOMAIN connections : /\ d \in DOMAIN connections'
                                      /\ connections[d].candidates \subseteq connections'[d].candidates
    BY <1>8 DEF AllKept, Kept
  <2>3. None \notin handler.left
    BY <1>0, <1>2 DEF HandlerWired, Held
  <2> QED
    BY <1>0, <1>1, <1>3, <2>1, <2>2, <2>3 DEF HandlerWired
<1>10. ASSUME NEW d \in DOMAIN connections, d # c PROVE Informed(d)'
  <2>1. \A h : (Due(h, d)' => Due(h, d)) /\ (InHand(h, d) => InHand(h, d)')
    BY <1>1, <1>2, <1>3, <1>10 DEF Due, InHand, Silencing
  <2>2. refused \subseteq refused'
    BY <1>1
  <2> QED
    BY <1>0, <1>1, <1>7, <1>10, <2>1, <2>2, SameInforms DEF InformedOK, WiredOK, Wired
<1>11. Informed(c)'
  <2> DEFINE p == x.by
             q == x.down \o x.commands
             E == producers[p].enabled
  <2>1. y.by = p
    BY <1>6 DEF Kept
  <2> SUFFICES ASSUME y.link # "closed", c \notin refused', ~HasShutdown(y.commands)
               PROVE  /\ \A h \in Hook : Due(h, c)' => h \in y.enabled
                      /\ Mine(p) = c /\ Talking(p) =>
                           \A h \in Hook : InHand(h, c)' \/
                             (h \in y.enabled <=> Obeyed(y.down \o y.commands, E, h))
    BY <1>1, <1>7, <2>1, Zenon DEF Informed, Talking, Mine
  <2>2. Registered(x) /\ ~Full(x) /\ c \notin refused
    BY <1>1, <1>4, <1>6 DEF Registered, Wired
  <2>3. doing # "detach" /\ ~HasShutdown(x.commands)
    BY <1>5, <1>6, <2>2
  <2>4. /\ \A h \in Hook : Due(h, c) => h \in x.enabled
        /\ Mine(p) = c /\ Talking(p) =>
             \A h \in Hook : InHand(h, c) \/ (h \in x.enabled <=> Obeyed(q, E, h))
    BY <1>0, <1>4, <1>6, <2>2, <2>3, Zenon DEF InformedOK, Informed
  <2>5. \A h : Due(h, c)' => Due(h, c)
    BY <1>1, <1>3 DEF Due, Silencing
  <2>6. g \in x.enabled <=> doing = "enable"
    <3>1. CASE doing = "enable"
      <4>1. Due(g, c)
        BY <1>4, <3>1 DEF Due, Silencing
      <4>2. g \in Hook
        BY <1>4, <2>3 DEF Wired
      <4> QED
        BY <2>4, <3>1, <4>1, <4>2
    <3>2. CASE doing # "enable"
      <4>1. Silencing(g)
        BY <1>3, <2>3, <3>2 DEF Silencing, Doings
      <4>2. ~Permitted(g, c)
        BY <1>4, <4>1 DEF Permitted
      <4> QED
        BY <1>0, <1>4, <3>2, <4>2 DEF ConnectionsOK
    <3> QED
      BY <3>1, <3>2
  <2>7. /\ y.enabled = x.enabled /\ y.down \o y.commands = Append(q, Notice)
        /\ q \in Seq(Command)
    BY <1>4, <1>5, <1>6, <2>2, QueuedShape
  <2>8. \A h : Obeyed(Append(q, Notice), E, h) <=>
                 IF Notice.hook = h THEN Notice.kind = "enable" ELSE Obeyed(q, E, h)
    BY <1>5, <2>7, ObeyedLast
  <2>9. ASSUME NEW h \in Hook, Mine(p) = c, Talking(p)
        PROVE  h \in x.enabled <=> Obeyed(Append(q, Notice), E, h)
    <3>1. CASE h = g
      BY <1>5, <2>6, <2>8, <3>1
    <3>2. CASE h # g
      <4>1. ~InHand(h, c)
        BY <2>3, <3>2 DEF InHand
      <4> QED
        BY <1>5, <2>4, <2>8, <2>9, <3>2, <4>1
    <3> QED
      BY <3>1, <3>2
  <2> HIDE DEF q, E, p
  <2> QED
    BY <2>4, <2>5, <2>7, <2>9
<1>12. rows' \subseteq Hook /\ \A r \in routes' : r \in routes
  BY <1>0, <1>1
<1> QED
  BY <1>1, <1>7, <1>8, <1>9, <1>10, <1>11, <1>12, WindowKeeps

(* The handler ends: what it enabled is enabled, what it silenced is not.  *)
LEMMA FinishesAgree == AgreeInv /\ HostInv' /\ Finishes => AgreeInv'
<1> SUFFICES ASSUME AgreeInv, HostInv', Finishes PROVE AgreeInv'
  OBVIOUS
<1> DEFINE doing == handler.doing
           g == handler.hook
<1>0. /\ HostInv /\ WiredOK /\ IntroducedOK /\ InformedOK /\ HandlerWired
      /\ rows \subseteq Hook /\ ConnectionsOK /\ HandlerOK
  BY DEF AgreeInv, HostInv
<1>1. /\ UNCHANGED <<producers, connections, events, sending, refused>>
      /\ ~Resting /\ handler.left = {} /\ handler.sends = None /\ handler' = Idle
      /\ wanted' = IF doing = "enable" THEN wanted \cup {g} ELSE wanted \ {g}
      /\ rows' \subseteq rows
      /\ routes' = IF doing = "detach" THEN {} ELSE routes
  BY DEF Finishes, ghostVars
<1>2. None \notin DOMAIN connections
  BY <1>0, AppendShape, HostAssumption DEF ConnectionsOK
<1>3. /\ handler'.doing = "nothing" /\ handler'.hook = None /\ handler'.left = {}
      /\ handler'.sends = None /\ doing \in Doings /\ doing # "nothing"
  BY <1>0, <1>1 DEF HandlerOK, Resting, Idle, Handler
<1>4. HandlerWired'
  <2>1. Held' = {}
    BY <1>3 DEF Held
  <2> QED
    BY <1>3, <2>1 DEF HandlerWired
<1>5. ASSUME NEW c \in DOMAIN connections PROVE Informed(c)'
  <2>1. ASSUME NEW h \in Hook, Due(h, c)' PROVE Due(h, c)
    <3>1. h \in wanted' /\ <<h, c>> \in routes'
      BY <1>3, <2>1 DEF Due
    <3>2. doing # "detach" /\ <<h, c>> \in routes
      BY <1>1, <3>1
    <3> QED
      BY <1>1, <1>3, <3>1, <3>2 DEF Due, Silencing, Doings
  <2>2. \A h : ~InHand(h, c)
    BY <1>1, <1>2 DEF InHand
  <2> QED
    BY <1>0, <1>1, <2>1, <2>2, SameInforms DEF InformedOK, WiredOK, Wired
<1> QED
  BY <1>0, <1>1, <1>4, <1>5, AllTheSame, WindowKeeps

(* A candidate that the window hears of is due if it is wanted, when the   *)
(* handler that enables it has come to its connection.                     *)
LEMMA PollsAgree == AgreeInv /\ HostInv' /\ Polls => AgreeInv'
<1> SUFFICES ASSUME AgreeInv, HostInv', Polls PROVE AgreeInv'
  OBVIOUS
<1>0. /\ HostInv /\ WiredOK /\ IntroducedOK /\ InformedOK /\ HandlerWired
      /\ rows \subseteq Hook /\ ConnectionsOK /\ HandlerOK /\ IsSeq(events)
  BY DEF AgreeInv, HostInv, EndsOK
<1>1. PICK e : e = Head(events)
  OBVIOUS
<1>2. PICK c, g : c = e.connection /\ g = e.hook
  OBVIOUS
<1>3. /\ UNCHANGED <<producers, connections, sending, wanted, refused>>
      /\ Resting /\ events # <<>> /\ events' = Tail(events)
      /\ \/ /\ e.kind = "candidate"
            /\ rows' = rows \cup {g} /\ routes' = routes \cup {<<g, c>>}
            /\ handler' = IF g \in wanted THEN Handler("enable", g, {c}) ELSE handler
         \/ rows' = rows /\ handler' = handler /\ routes' \subseteq routes
  <2>1. /\ UNCHANGED <<producers, connections, sending, wanted, refused>>
        /\ Resting /\ events # <<>> /\ events' = Tail(events)
    BY DEF Polls
  <2>2. \/ /\ e.kind = "candidate"
           /\ rows' = rows \cup {e.hook} /\ routes' = routes \cup {<<e.hook, e.connection>>}
           /\ handler' = IF e.hook \in wanted THEN Handler("enable", e.hook, {e.connection})
                         ELSE handler
        \/ rows' = rows /\ handler' = handler /\ routes' \subseteq routes
    BY <1>1 DEF Polls
  <2> QED
    BY <1>2, <2>1, <2>2
<1>4. e.kind = "candidate" =>
        /\ c \in DOMAIN connections /\ g \in connections[c].candidates /\ g \in Hook
  <2>1. 1 \in DOMAIN events /\ e = events[1]
    BY <1>0, <1>1, <1>3, TailShape
  <2>2. e.kind = "candidate" => Introduced(g, c)
    BY <1>0, <1>2, <2>1 DEF IntroducedOK
  <2> QED
    BY <1>0, <2>2 DEF Introduced, WiredOK, Wired
<1>5. None \notin DOMAIN connections
  BY <1>0, AppendShape, HostAssumption DEF ConnectionsOK
<1>6. /\ handler.doing = "nothing" /\ handler.hook = None /\ handler.left = {}
      /\ handler.sends = None
  BY <1>0, <1>3 DEF HandlerOK, Resting, Idle, Handler
<1>7. rows' \subseteq Hook /\ \A r \in routes' : r \in routes \/ Introduced(r[1], r[2])
  BY <1>0, <1>3, <1>4 DEF Introduced
<1>8. CASE /\ handler' = handler
           /\ \/ routes' \subseteq routes
              \/ g \notin wanted /\ routes' = routes \cup {<<g, c>>}
  <2>1. HandlerWired'
    <3>1. Held' = {}
      BY <1>6, <1>8 DEF Held
    <3> QED
      BY <1>6, <1>8, <3>1 DEF HandlerWired
  <2>2. ASSUME NEW d \in DOMAIN connections PROVE Informed(d)'
    <3>1. ASSUME NEW h \in Hook, Due(h, d)' PROVE Due(h, d)
      <4>1. h \in wanted /\ <<h, d>> \in routes'
        BY <1>3, <1>6, <1>8, <3>1 DEF Due
      <4>2. <<h, d>> \in routes
        BY <1>3, <1>8, <4>1
      <4> QED
        BY <1>6, <4>1, <4>2 DEF Due, Silencing
    <3>2. \A h : ~InHand(h, d)
      BY <1>5, <1>6 DEF InHand
    <3> QED
      BY <1>0, <1>3, <3>1, <3>2, SameInforms DEF InformedOK, WiredOK, Wired
  <2> QED
    BY <1>0, <1>3, <1>7, <2>1, <2>2, AllTheSame, WindowKeeps
<1>9. CASE /\ e.kind = "candidate" /\ g \in wanted /\ rows' = rows \cup {g}
           /\ routes' = routes \cup {<<g, c>>} /\ handler' = Handler("enable", g, {c})
  <2>1. /\ handler'.doing = "enable" /\ handler'.hook = g /\ handler'.left = {c}
        /\ handler'.sends = None
    BY <1>9 DEF Handler
  <2>2. HandlerWired'
    <3>1. Held' = {c}
      BY <2>1 DEF Held
    <3> QED
      BY <1>3, <1>4, <1>5, <1>9, <2>1, <3>1 DEF HandlerWired
  <2>3. ASSUME NEW d \in DOMAIN connections PROVE Informed(d)'
    <3>1. ASSUME NEW h \in Hook, Due(h, d)' PROVE Due(h, d)
      <4>1. /\ h \in wanted /\ <<h, d>> \in routes'
            /\ ~(g = h /\ d \in {c})
        BY <1>3, <1>9, <2>1, <3>1 DEF Due
      <4>2. <<h, d>> \in routes
        BY <1>9, <4>1
      <4> QED
        BY <1>6, <4>1, <4>2 DEF Due, Silencing
    <3>2. \A h : ~InHand(h, d)
      BY <1>5, <1>6 DEF InHand
    <3> QED
      BY <1>0, <1>3, <3>1, <3>2, SameInforms DEF InformedOK, WiredOK, Wired
  <2> QED
    BY <1>0, <1>3, <1>7, <2>2, <2>3, AllTheSame, WindowKeeps
<1> QED
  BY <1>3, <1>8, <1>9

(* What the window wants of a connection and what it says to it go         *)
(* together.                                                               *)
LEMMA WindowAgrees == AgreeInv /\ Window => AgreeInv'
<1> SUFFICES ASSUME AgreeInv, Window PROVE AgreeInv'
  OBVIOUS
<1>0. HostInv /\ WiredOK /\ LibrariesOK /\ IntroducedOK /\ InformedOK /\ rows \subseteq Hook
      /\ HandlerWired
  BY DEF AgreeInv
<1>1. HostInv'
  BY <1>0, HostInvNext DEF Next
<1>2. ASSUME NEW p \in Producer, Attach(p) PROVE AgreeInv'
  <2>1. /\ UNCHANGED <<connections, events, sending, handler, rows, wanted, routes, refused>>
        /\ producers[p].phase = "off"
        /\ producers' = [producers EXCEPT ![p].phase = "seek"]
    BY <1>2 DEF Attach, UserActs, windowVars
  <2>2. ASSUME NEW q \in Producer
        PROVE  /\ LibraryOK(q)'
               /\ producers'[q].phase \in {"hello", "serving"} => producers'[q] = producers[q]
    <3>1. LibraryOK(q)
      BY <1>0 DEF LibrariesOK
    <3>2. CASE q = p
      BY <1>0, <2>1, <3>1, <3>2 DEF LibrariesOK, LibraryOK, Talking, Serving, Mine
    <3>3. CASE q # p
      BY <1>0, <2>1, <3>1, <3>3 DEF LibrariesOK, LibraryOK, Talking, Serving, Mine
    <3> QED
      BY <3>2, <3>3
  <2>3. LibrariesOK'
    BY <1>0, <2>1, <2>2 DEF LibrariesOK
  <2>4. ASSUME NEW c \in DOMAIN connections PROVE Informed(c)'
    <3>1. \A h : (Due(h, c)' => Due(h, c)) /\ (InHand(h, c) => InHand(h, c)')
      BY <2>1 DEF Due, InHand, Silencing
    <3> QED
      BY <1>0, <2>1, <2>2, <3>1, SameInforms DEF InformedOK, WiredOK, Wired
  <2>5. WiredOK' /\ IntroducedOK'
    BY <1>0, <2>1 DEF WiredOK, IntroducedOK, Introduced
  <2>6. InformedOK'
    BY <2>1, <2>4 DEF InformedOK
  <2>7. HandlerWired'
    BY <1>0, <2>1 DEF HandlerWired, Held
  <2> QED
    BY <1>0, <1>1, <2>1, <2>3, <2>5, <2>6, <2>7 DEF AgreeInv
<1> QED
  BY <1>1, <1>2, UserAgrees, MarksAgree, SendsAgree, FinishesAgree, PollsAgree
     DEF Window, Handles

(* There is neither a connection nor an event at first.                    *)
LEMMA AgreeInvInit == Init => AgreeInv
<1> SUFFICES ASSUME Init PROVE AgreeInv
  OBVIOUS
<1>1. HostInv
  BY HostInvInit
<1>2. /\ connections = <<>> /\ events = <<>> /\ sending = None /\ routes = {}
      /\ rows \subseteq Hook /\ producers = [p \in Producer |-> Off]
      /\ handler.doing = "nothing" /\ handler.hook = None /\ handler.left = {}
      /\ handler.sends = None
  BY DEF Init, Idle, Handler
<1>3. WiredOK /\ InformedOK /\ IntroducedOK
  BY <1>2 DEF WiredOK, InformedOK, IntroducedOK
<1>4. LibrariesOK
  <2>1. ASSUME NEW p \in Producer PROVE LibraryOK(p)
    <3>1. producers[p] = Off
      BY <1>2
    <3>2. /\ Off.phase = "off" /\ Off.known = {} /\ Off.enabled = {}
          /\ DOMAIN Off = {"phase", "connection", "known", "enabled", "waiting"}
      BY Zenon DEF Off
    <3>3. IsFiniteSet({})
      BY FS_EmptySet
    <3>4. ~Talking(p) /\ ~Serving(p)
      BY <3>1, <3>2 DEF Talking, Serving
    <3> QED
      BY <3>1, <3>2, <3>3, <3>4 DEF LibraryOK
  <2> QED
    BY <1>2, <2>1 DEF LibrariesOK
<1>5. HandlerWired
  <2>1. Held = {}
    BY <1>2 DEF Held
  <2> QED
    BY <1>2, <2>1 DEF HandlerWired
<1> QED
  BY <1>1, <1>2, <1>3, <1>4, <1>5 DEF AgreeInv

(* Every step of a library, a task or the window keeps the agreement.      *)
LEMMA AgreeInvNext == AgreeInv /\ [Next]_vars => AgreeInv'
<1> SUFFICES ASSUME AgreeInv, [Next]_vars PROVE AgreeInv'
  OBVIOUS
<1>1. CASE UNCHANGED vars
  <2>1. HostInv'
    BY HostInvNext DEF AgreeInv
  <2>2. UNCHANGED <<producers, connections, events, sending, handler, rows, wanted, routes, refused>>
    BY <1>1 DEF vars, windowVars, ghostVars
  <2>3. LibrariesOK' /\ WiredOK'
    BY <2>2 DEF AgreeInv, LibrariesOK, WiredOK, LibraryOK, Talking, Serving, Mine
  <2>4. IntroducedOK'
    BY <2>2 DEF AgreeInv, IntroducedOK, Introduced
  <2>5. InformedOK'
    <3>1. \A h, c : (Due(h, c)' <=> Due(h, c)) /\ (InHand(h, c)' <=> InHand(h, c))
      BY <2>2 DEF Due, InHand, Silencing
    <3> QED
      BY <2>2, <3>1 DEF AgreeInv, InformedOK, Informed, Talking, Mine
  <2>6. HandlerWired'
    BY <2>2 DEF AgreeInv, HandlerWired, Held
  <2> QED
    BY <2>1, <2>2, <2>3, <2>4, <2>5, <2>6 DEF AgreeInv
<1>2. CASE Next
  BY <1>2, LibrariesAgree, TasksAgree, WindowAgrees DEF Next
<1> QED
  BY <1>1, <1>2

(* With no command on its way, a library has enabled what the service has; *)
(* with none refused, that is what the window wants.                       *)
LEMMA AgreeInvSuffices == AgreeInv => Agreement
<1> SUFFICES ASSUME AgreeInv, NEW c \in DOMAIN connections, NEW h \in Hook
    PROVE  LET x == connections[c] IN
           /\ h \in x.enabled => Permitted(h, c)
           /\ Settled(c) /\ handler.doing # "detach" /\ handler.hook # h =>
                /\ h \in producers[x.by].enabled <=> h \in x.enabled
                /\ h \in x.enabled <=> h \in wanted /\ <<h, c>> \in routes
  BY DEF Agreement
<1> DEFINE x == connections[c]
           p == x.by
<1>1. h \in x.enabled => Permitted(h, c)
  BY DEF AgreeInv, HostInv, ConnectionsOK
<1>2. Wired(x) /\ Informed(c) /\ LibraryOK(p) /\ HandlerWired
  BY DEF AgreeInv, WiredOK, InformedOK, LibrariesOK, Wired
<1>3. ASSUME Settled(c), handler.doing # "detach", handler.hook # h
      PROVE  /\ h \in producers[p].enabled <=> h \in x.enabled
             /\ h \in x.enabled <=> h \in wanted /\ <<h, c>> \in routes
  <2>1. /\ x.link = "open" /\ x.commands = <<>> /\ x.down = <<>> /\ c \notin refused
        /\ Mine(p) = c /\ Talking(p)
    BY <1>3 DEF Settled, Mine, Talking, Serving
  <2>2. ~HasShutdown(x.commands) /\ x.link # "closed"
    BY <2>1 DEF HasShutdown
  <2>3. ~InHand(h, c) /\ ~Silencing(h)
    BY <1>3 DEF InHand, Silencing
  <2>4. /\ Due(h, c) => h \in x.enabled
        /\ h \in x.enabled <=> Obeyed(x.down \o x.commands, producers[p].enabled, h)
    BY <1>2, <2>1, <2>2, <2>3 DEF Informed
  <2>5. x.down \o x.commands = <<>>
    BY <2>1
  <2>6. \A g : About(<<>>, g) = {}
    BY DEF About
  <2>7. \A E : Obeyed(<<>>, E, h) <=> h \in E
    BY <2>6 DEF Obeyed
  <2>8. Permitted(h, c) => h \in wanted /\ <<h, c>> \in routes
    BY <1>3 DEF Permitted
  <2>9. h \in wanted /\ <<h, c>> \in routes => Due(h, c)
    BY <1>3, <2>3 DEF Due
  <2> QED
    BY <1>1, <2>4, <2>5, <2>7, <2>8, <2>9
<1> QED
  BY <1>1, <1>3

(* What the service lets through is permitted, and a library that has read *)
(* all its commands sends exactly what the window wants, but for the hook  *)
(* that a handler is busy with.                                            *)
THEOREM AgreementHolds == Spec => []Agreement
<1>1. AgreeInv /\ [Next]_vars => AgreeInv'
  BY AgreeInvNext
<1> QED
  BY AgreeInvInit, <1>1, AgreeInvSuffices, PTL DEF Spec

-----------------------------------------------------------------------------
(* Types and bounds                                                        *)

Libraried(D) ==
  [phase : {"off", "seek", "hello", "serving", "leaving"}, connection : D \cup {None},
   known : SUBSET Hook, enabled : SUBSET Hook, waiting : SUBSET Hook]

ProducersFit == producers \in [Producer -> Libraried(DOMAIN connections)]

(* What Wired leaves open of a connection.                                 *)
Fits(x) ==
  /\ x.frame \in {"none", "half", "torn"} /\ x.eof \in BOOLEAN
  /\ Len(x.commands) <= CommandCapacity

ConnectionsFit == \A c \in DOMAIN connections : Fits(connections[c])

WindowFits ==
  /\ Len(events) <= EventCapacity
  /\ wanted \subseteq rows
  /\ routes \subseteq offered /\ offered \subseteq Hook \X DOMAIN connections
  /\ handler.hook \in Hook \cup {None}

FitInv == AgreeInv /\ ProducersFit /\ ConnectionsFit /\ WindowFits

(* A queue that is not full has room for one more.                         *)
LEMMA SendFits ==
  ASSUME NEW q, IsSeq(q), Len(q) <= EventCapacity, NEW e
  PROVE  /\ IsSeq(Send(q, e)) /\ Len(Send(q, e)) <= EventCapacity
         /\ Len(q) < EventCapacity =>
              IsSeq(Append(q, e)) /\ Len(Append(q, e)) <= EventCapacity
<1>1. PICK S : q \in Seq(S)
  BY DEF IsSeq
<1>2. q \in Seq(S \cup {e}) /\ e \in S \cup {e}
  BY <1>1
<1>3. Append(q, e) \in Seq(S \cup {e}) /\ Len(Append(q, e)) = Len(q) + 1 /\ Len(q) \in Nat
  BY <1>2
<1> QED
  BY <1>1, <1>3, HostAssumption DEF IsSeq, Send

(* So has one of commands, and one that loses its first has not grown.     *)
LEMMA CommandsFit ==
  ASSUME NEW x, Wired(x), Fits(x)
  PROVE  /\ ~Full(x) => \A m \in Command : Len(Append(x.commands, m)) <= CommandCapacity
         /\ x.commands # <<>> => Len(Tail(x.commands)) <= CommandCapacity
         /\ 0 <= CommandCapacity
<1>1. x.commands \in Seq(Command) /\ Len(x.commands) \in Nat
  BY DEF Wired
<1> QED
  BY <1>1, HostAssumption DEF Fits, Full

(* What the window does to a connection.                                   *)
LEMMA CommandedFits ==
  ASSUME NEW x, Wired(x), Fits(x), Notice \in Command
  PROVE  Fits([x EXCEPT !.enabled = Marked(x.enabled)]) /\ Fits(Notified(x))
<1>1. ASSUME NEW E PROVE Fits([x EXCEPT !.enabled = E])
  BY DEF Fits, Wired
<1>2. CASE Registered(x) /\ ~Full(x)
  <2> DEFINE y == Queued(x, Notice)
  <2>1. y.frame = x.frame /\ y.eof = x.eof /\ y.commands = Append(x.commands, Notice)
    BY DEF Wired, Queued
  <2>2. Len(Append(x.commands, Notice)) <= CommandCapacity
    BY <1>2, CommandsFit
  <2>3. Notified(x) = y
    BY <1>2 DEF Notified
  <2> HIDE DEF y
  <2> QED
    BY <1>1, <2>1, <2>2, <2>3 DEF Fits
<1>3. CASE ~(Registered(x) /\ ~Full(x))
  BY <1>1, <1>3 DEF Notified
<1> QED
  BY <1>1, <1>2, <1>3

(* The service closes a connection.                                        *)
LEMMA ClosedFits ==
  ASSUME NEW x, Wired(x), Fits(x)
  PROVE  Fits(Closed(x))
<1>1. Closed(x).frame = "none" /\ Closed(x).eof = x.eof /\ Closed(x).commands = <<>>
  BY DEF Wired, Closed
<1> QED
  BY <1>1, CommandsFit DEF Fits

(* Libraries change their own state and their side of their connection.    *)
LEMMA LibrariesFit == FitInv /\ AgreeInv' /\ Libraries => FitInv'
<1> SUFFICES ASSUME FitInv, AgreeInv', Libraries PROVE FitInv'
  OBVIOUS
<1>0. /\ ProducersFit /\ ConnectionsFit /\ WindowFits /\ WiredOK /\ LibrariesOK
      /\ IsSeq(connections)
  BY DEF FitInv, AgreeInv, HostInv, ConnectionsOK
<1>1. /\ UNCHANGED <<events, handler, wanted, rows, routes, offered>>
  BY DEF Libraries, Connects, Welcomed, GivesUp, Obeys, MissesBody, Loses, Leaves, Exits,
         Shows, Flushes, Library, windowVars
<1>2. PICK p \in Producer : \/ Connects(p) \/ Welcomed(p) \/ GivesUp(p)
                            \/ Obeys(p) \/ MissesBody(p) \/ Loses(p) \/ Leaves(p)
                            \/ Exits(p)
                            \/ \E h \in Hook : Shows(p, h) \/ Flushes(p, h)
  BY DEF Libraries
<1>3. DOMAIN connections \subseteq DOMAIN connections' /\ ConnectionsFit'
  <2>1. CASE connections' = connections
    BY <1>0, <2>1 DEF ConnectionsFit
  <2>2. ASSUME NEW k, NEW v, \/ connections' = [connections EXCEPT ![k].eof = TRUE]
                             \/ connections' = [connections EXCEPT ![k].up = v]
                             \/ connections' = [connections EXCEPT ![k].down = v]
        PROVE  DOMAIN connections \subseteq DOMAIN connections' /\ ConnectionsFit'
    <3>1. DOMAIN connections' = DOMAIN connections
      BY <2>2
    <3>2. ASSUME NEW c \in DOMAIN connections PROVE Fits(connections'[c])
      <4>1. Wired(connections[c]) /\ Fits(connections[c])
        BY <1>0 DEF WiredOK, ConnectionsFit
      <4>2. \/ connections'[c] = connections[c]
            \/ connections'[c] = [connections[c] EXCEPT !.eof = TRUE]
            \/ connections'[c] = [connections[c] EXCEPT !.up = v]
            \/ connections'[c] = [connections[c] EXCEPT !.down = v]
        BY <2>2
      <4> QED
        BY <4>1, <4>2 DEF Wired, Fits
    <3> QED
      BY <3>1, <3>2 DEF ConnectionsFit
  <2>3. CASE Connects(p)
    <3>1. PICK y : /\ connections' = Append(connections, y)
                   /\ y = [by |-> p, link |-> "hello", eof |-> FALSE, frame |-> "none",
                           candidates |-> {}, enabled |-> {}, commands |-> <<>>, down |-> <<>>,
                           up |-> IF p \in Wine THEN Candidates(producers[p].known) ELSE <<>>]
      BY <2>3 DEF Connects
    <3>2. Fits(y)
      <4>1. y.frame = "none" /\ y.eof = FALSE /\ y.commands = <<>>
        BY <3>1
      <4>2. FALSE \in BOOLEAN /\ Len(<<>>) <= CommandCapacity
        BY HostAssumption
      <4> QED
        BY <4>1, <4>2, Zenon DEF Fits
    <3>3. /\ DOMAIN connections' = DOMAIN connections \cup {Len(connections) + 1}
          /\ connections'[Len(connections) + 1] = y
          /\ \A c \in DOMAIN connections : connections'[c] = connections[c]
      BY <1>0, <3>1, AppendShape
    <3> QED
      BY <1>0, <3>2, <3>3 DEF ConnectionsFit
  <2>4. CASE \/ Welcomed(p) \/ GivesUp(p) \/ MissesBody(p) \/ Loses(p) \/ Leaves(p)
             \/ Exits(p)
    BY <2>1, <2>2, <2>4 DEF Welcomed, GivesUp, MissesBody, Loses, Leaves, Exits, Hangup
  <2>5. CASE Obeys(p)
    BY <2>2, <2>5 DEF Obeys
  <2>6. CASE \E h \in Hook : Shows(p, h) \/ Flushes(p, h)
    BY <2>2, <2>6 DEF Shows, Flushes
  <2> QED
    BY <1>2, <2>3, <2>4, <2>5, <2>6
<1>4. ASSUME NEW D, DOMAIN connections \subseteq D, NEW r \in Libraried(D),
             producers' = [producers EXCEPT ![p] = r]
      PROVE  producers' \in [Producer -> Libraried(D)]
  <2>1. producers \in [Producer -> Libraried(D)]
    BY <1>0, <1>4 DEF ProducersFit, Libraried
  <2> QED
    BY <1>4, <2>1
<1>5. ASSUME NEW D, DOMAIN connections \subseteq D, NEW r, NEW k \in D \cup {None}, NEW K \in SUBSET Hook, NEW E \in SUBSET Hook,
             NEW W \in SUBSET Hook, NEW f \in {"off", "seek", "hello", "serving", "leaving"},
             r = [phase |-> f, connection |-> k, known |-> K, enabled |-> E, waiting |-> W]
      PROVE  r \in Libraried(D)
  BY <1>5 DEF Libraried
<1>6. producers[p] \in Libraried(DOMAIN connections)
  BY <1>0 DEF ProducersFit
<1>7. ProducersFit'
  <2> DEFINE D == DOMAIN connections
  <2> PICK C : C = DOMAIN connections'
    OBVIOUS
  <2>0. D \subseteq C
    BY <1>3
  <2> HIDE DEF D
  <2>a. ASSUME NEW r \in Libraried(C), producers' = [producers EXCEPT ![p] = r]
        PROVE  ProducersFit'
    BY <1>4, <2>0, <2>a DEF ProducersFit, D
  <2>b. producers[p] \in Libraried(C)
    BY <1>6, <2>0 DEF Libraried, D
  <2>1. CASE Connects(p)
    <3>1. Len(connections) + 1 \in C
      <4>1. PICK y : connections' = Append(connections, y)
        BY <2>1 DEF Connects
      <4> QED
        BY <1>0, <4>1, AppendShape
    <3>2. PICK f \in {"serving", "hello"}, K \in {producers[p].known, {}} :
            producers' = [producers EXCEPT ![p].connection = Len(connections) + 1,
                                           ![p].phase = f, ![p].known = K]
      BY <2>1 DEF Connects
    <3> DEFINE r == [producers[p] EXCEPT !.connection = Len(connections) + 1,
                                         !.phase = f, !.known = K]
    <3>3. r \in Libraried(C)
      BY <2>b, <3>1, <3>2 DEF Libraried
    <3>4. producers' = [producers EXCEPT ![p] = r]
      BY <3>2, <1>0 DEF ProducersFit
    <3> HIDE DEF r
    <3> QED
      BY <2>a, <3>3, <3>4
  <2>2. CASE Welcomed(p)
    <3> DEFINE r == [producers[p] EXCEPT !.phase = "serving"]
    <3>1. r \in Libraried(C)
      BY <2>b DEF Libraried
    <3>2. producers' = [producers EXCEPT ![p] = r]
      BY <2>2 DEF Welcomed
    <3> HIDE DEF r
    <3> QED
      BY <2>a, <3>1, <3>2
  <2>3. ASSUME producers' = Seeking(p) PROVE ProducersFit'
    <3> DEFINE r == [producers[p] EXCEPT !.phase = "seek", !.enabled = {}, !.waiting = {}]
    <3>1. r \in Libraried(C)
      BY <2>b DEF Libraried
    <3>2. producers' = [producers EXCEPT ![p] = r]
      BY <2>3, <1>0 DEF Seeking, ProducersFit
    <3> HIDE DEF r
    <3> QED
      BY <2>a, <3>1, <3>2
  <2>4. CASE GivesUp(p) \/ MissesBody(p) \/ Loses(p)
    BY <2>3, <2>4 DEF GivesUp, MissesBody, Loses
  <2>5. CASE Leaves(p) \/ Exits(p)
    <3>1. Off \in Libraried(C)
      BY DEF Off, Libraried
    <3>2. producers' = [producers EXCEPT ![p] = Off]
      BY <2>5 DEF Leaves, Exits
    <3> QED
      BY <2>a, <3>1, <3>2
  <2>6. CASE Obeys(p)
    <3>1. PICK m : m = Head(connections[Mine(p)].down)
      OBVIOUS
    <3>2. m \in Command
      <4>1. Wired(connections[Mine(p)]) /\ connections[Mine(p)].down # <<>>
        <5>1. Mine(p) \in DOMAIN connections
          BY <1>0, <2>6 DEF Obeys, LibrariesOK, LibraryOK, Talking, Serving
        <5> QED
          BY <1>0, <2>6, <5>1 DEF Obeys, WiredOK
      <4> QED
        BY <3>1, <4>1 DEF Wired
    <3>3. \/ m.kind = "enable" /\ producers' = [producers EXCEPT ![p].enabled = @ \cup {m.hook}]
          \/ m.kind = "disable" /\ producers' = [producers EXCEPT ![p].enabled = @ \ {m.hook}]
          \/ producers' = [producers EXCEPT ![p].phase = "leaving", ![p].enabled = {}]
          \/ producers' = Seeking(p)
      BY <2>6, <3>1, Zenon DEF Obeys
    <3>4. m.kind = "enable" => m.hook \in Hook
      BY <3>2 DEF Command
    <3> DEFINE r == [producers[p] EXCEPT !.enabled = @ \cup {m.hook}]
               s == [producers[p] EXCEPT !.enabled = @ \ {m.hook}]
               t == [producers[p] EXCEPT !.phase = "leaving", !.enabled = {}]
    <3>5. (m.kind = "enable" => r \in Libraried(C)) /\ s \in Libraried(C) /\ t \in Libraried(C)
      BY <2>b, <3>4 DEF Libraried
    <3>6. \/ m.kind = "enable" /\ producers' = [producers EXCEPT ![p] = r]
          \/ producers' = [producers EXCEPT ![p] = s]
          \/ producers' = [producers EXCEPT ![p] = t]
          \/ producers' = Seeking(p)
      BY <3>3, <1>0 DEF ProducersFit
    <3> HIDE DEF r, s, t
    <3> QED
      BY <2>a, <2>3, <3>5, <3>6
  <2>7. ASSUME NEW h \in Hook, Shows(p, h) PROVE ProducersFit'
    <3> DEFINE K == producers[p].known \cup {h}
    <3>1. PICK W \in {producers[p].waiting \cup {h}, producers[p].waiting} :
            producers' = [producers EXCEPT ![p].known = @ \cup {h}, ![p].waiting = W]
      BY <2>7 DEF Shows
    <3> DEFINE r == [producers[p] EXCEPT !.known = K, !.waiting = W]
    <3>2. r \in Libraried(C)
      BY <2>b, <3>1 DEF Libraried
    <3>3. producers' = [producers EXCEPT ![p] = r]
      BY <3>1, <1>0 DEF ProducersFit
    <3> HIDE DEF r
    <3> QED
      BY <2>a, <3>2, <3>3
  <2>8. ASSUME NEW h \in Hook, Flushes(p, h) PROVE ProducersFit'
    <3> DEFINE r == [producers[p] EXCEPT !.waiting = @ \ {h}]
    <3>2. r \in Libraried(C)
      BY <2>b DEF Libraried
    <3>3. producers' = [producers EXCEPT ![p] = r]
      BY <2>8, <1>0 DEF ProducersFit, Flushes
    <3> HIDE DEF r
    <3> QED
      BY <2>a, <3>2, <3>3
  <2> QED
    BY <1>2, <2>1, <2>2, <2>4, <2>5, <2>6, <2>7, <2>8
<1>8. WindowFits'
  BY <1>0, <1>1, <1>3 DEF WindowFits
<1> QED
  BY <1>3, <1>7, <1>8 DEF FitInv

(* The service neither drops what does not fit nor sends too much.         *)
LEMMA TasksFit == FitInv /\ AgreeInv' /\ Tasks => FitInv'
<1> SUFFICES ASSUME FitInv, AgreeInv', Tasks PROVE FitInv'
  OBVIOUS
<1>0. /\ ProducersFit /\ ConnectionsFit /\ WindowFits /\ WiredOK /\ IsSeq(events)
      /\ Len(events) <= EventCapacity
  BY DEF FitInv, AgreeInv, HostInv, EndsOK, WindowFits
<1>1. UNCHANGED <<producers, handler, rows, wanted, routes, offered>>
  BY DEF Tasks, Delivers, Accepts, Rejects, ReceivesLength, Receives,
         ReceiveFails, Commands, Service, windowVars, ghostVars
<1>2. ASSUME Len(events') <= EventCapacity, DOMAIN connections' = DOMAIN connections,
             \A c \in DOMAIN connections : Fits(connections'[c])
      PROVE  FitInv'
  BY <1>0, <1>1, <1>2 DEF FitInv, ProducersFit, ConnectionsFit, WindowFits
<1>3. \A c \in DOMAIN connections : Wired(connections[c]) /\ Fits(connections[c])
  BY <1>0 DEF WiredOK, ConnectionsFit
<1>4. ASSUME Len(events') <= EventCapacity, NEW c \in DOMAIN connections, NEW y, Fits(y),
             connections' = [connections EXCEPT ![c] = y]
      PROVE  FitInv'
  BY <1>2, <1>3, <1>4
<1>5. ASSUME NEW e PROVE Len(Send(events, e)) <= EventCapacity /\ IsSeq(Send(events, e))
  BY <1>0, SendFits
<1>6. ASSUME NEW c \in DOMAIN connections, Ends(c) PROVE FitInv'
  <2>1. Len(events') <= EventCapacity
    BY <1>5, <1>6, SendFits DEF Ends
  <2> QED
    BY <1>3, <1>4, <1>6, <2>1, ClosedFits DEF Ends
<1>7. ASSUME NEW c \in DOMAIN connections, Accepts(c) PROVE FitInv'
  <2>1. PICK dropped :
          connections' = [d \in DOMAIN connections |->
            IF d = c THEN [connections[d] EXCEPT !.link = "open"]
            ELSE IF d \in dropped THEN Closed(connections[d]) ELSE connections[d]]
    BY <1>7 DEF Accepts
  <2>2. \A d \in DOMAIN connections : Fits([connections[d] EXCEPT !.link = "open"])
    BY <1>3 DEF Fits, Wired
  <2> QED
    BY <1>2, <1>3, <1>5, <1>7, <2>1, <2>2, ClosedFits DEF Accepts
<1>8. ASSUME NEW c \in DOMAIN connections, Rejects(c) PROVE FitInv'
  BY <1>3, <1>4, <1>5, <1>8, ClosedFits DEF Rejects
<1>9. ASSUME NEW c \in DOMAIN connections, ReceivesLength(c) PROVE FitInv'
  <2> DEFINE y == [connections[c] EXCEPT !.frame = "half"]
  <2>1. connections' = [connections EXCEPT ![c] = y] /\ events' = events
    BY <1>9 DEF ReceivesLength
  <2>2. Fits(y)
    BY <1>3 DEF Fits, Wired
  <2> QED
    BY <1>0, <1>4, <2>1, <2>2
<1>10. ASSUME NEW c \in DOMAIN connections, Receives(c) PROVE FitInv'
  <2> DEFINE x == connections[c]
             rest == [x EXCEPT !.up = Tail(@), !.frame = "none"]
             more == [rest EXCEPT !.candidates = @ \cup {Head(x.up).hook}]
  <2>1. Fits(rest) /\ Fits(more)
    BY <1>3 DEF Fits, Wired
  <2>2. \/ connections' = [connections EXCEPT ![c] = rest]
        \/ connections' = [connections EXCEPT ![c] = more]
    BY <1>10, Zenon DEF Receives
  <2>3. Len(events') <= EventCapacity
    BY <1>0, <1>10 DEF Receives
  <2> HIDE DEF rest, more
  <2> QED
    BY <1>4, <2>1, <2>2, <2>3
<1>11. ASSUME NEW c \in DOMAIN connections, Commands(c) PROVE FitInv'
  <2> DEFINE x == connections[c]
             f == IF x.frame = "half" THEN "torn" ELSE x.frame
             sent == [x EXCEPT !.commands = Tail(@), !.down = Append(@, Head(x.commands)),
                               !.frame = f]
  <2>1. /\ sent.commands = Tail(x.commands) /\ sent.frame = f /\ sent.eof = x.eof
        /\ Closed(sent).frame = "none" /\ Closed(sent).commands = <<>>
        /\ Closed(sent).eof = x.eof
    BY <1>3 DEF Wired, Closed
  <2>2. f \in {"none", "half", "torn"}
    BY <1>3 DEF Fits
  <2>3. x.commands # <<>>
    BY <1>11 DEF Commands
  <2>4. \/ connections' = [connections EXCEPT ![c] = sent] /\ events' = events
        \/ Ends(c)
        \/ /\ connections' = [connections EXCEPT ![c] = Closed(sent)]
           /\ events' = Send(events, Event("disconnected", c))
    BY <1>11, Zenon DEF Commands
  <2> HIDE DEF sent, f
  <2>5. Fits(sent) /\ Fits(Closed(sent))
    <3>1. Len(Tail(x.commands)) <= CommandCapacity /\ Len(<<>>) <= CommandCapacity
      BY <1>3, <2>3, CommandsFit
    <3> QED
      BY <1>3, <2>1, <2>2, <3>1 DEF Fits
  <2> QED
    BY <1>0, <1>4, <1>5, <1>6, <2>4, <2>5
<1>12. ASSUME NEW c \in DOMAIN connections, ReceiveFails(c) PROVE FitInv'
  BY <1>6, <1>12 DEF ReceiveFails
<1>13. ASSUME Delivers PROVE FitInv'
  BY <1>0, <1>2, <1>3, <1>13, SendFits DEF Delivers
<1> QED
  BY <1>7, <1>8, <1>9, <1>10, <1>11, <1>12, <1>13 DEF Tasks

(* The window commands what it has a route to.                             *)
LEMMA WindowFit == FitInv /\ AgreeInv' /\ Window => FitInv'
<1> SUFFICES ASSUME FitInv, AgreeInv', Window PROVE FitInv'
  OBVIOUS
<1>0. /\ ProducersFit /\ ConnectionsFit /\ WindowFits /\ WiredOK /\ IsSeq(events)
      /\ IntroducedOK /\ Len(events) <= EventCapacity /\ HandlerOK /\ HandlerWired
      /\ rows \subseteq Hook
  BY DEF FitInv, AgreeInv, HostInv, EndsOK, WindowFits
<1>1. \A c \in DOMAIN connections : Wired(connections[c]) /\ Fits(connections[c])
  BY <1>0 DEF WiredOK, ConnectionsFit
<1>2. handler'.hook \in Hook \cup {None} /\ handler.hook \in Hook \cup {None}
  BY <1>0 DEF FitInv, AgreeInv, HandlerWired, WindowFits
<1>3. ASSUME NEW h \in Hook, (\E on \in BOOLEAN : Configure(h, on)) \/ Forget(h)
      PROVE  FitInv'
  <2>1. /\ UNCHANGED <<producers, connections, events, offered, wanted, rows>>
        /\ routes' \subseteq routes
    BY <1>3 DEF Configure, Forget, UserActs
  <2> QED
    BY <1>0, <1>2, <2>1 DEF FitInv, ProducersFit, ConnectionsFit, WindowFits
<1>4. ASSUME Detach PROVE FitInv'
  <2>1. UNCHANGED <<producers, connections, events, offered, wanted, rows, routes>>
    BY <1>4 DEF Detach, UserActs
  <2> QED
    BY <1>0, <1>2, <2>1 DEF FitInv, ProducersFit, ConnectionsFit, WindowFits
<1>5. ASSUME NEW p \in Producer, Attach(p) PROVE FitInv'
  <2>1. /\ UNCHANGED <<connections, events, rows, wanted, routes, offered>>
        /\ producers' = [producers EXCEPT ![p].phase = "seek"]
    BY <1>5 DEF Attach, UserActs, windowVars
  <2>2. producers' \in [Producer -> Libraried(DOMAIN connections)]
    BY <1>0, <2>1 DEF ProducersFit, Libraried
  <2> QED
    BY <1>0, <1>2, <2>1, <2>2 DEF FitInv, ProducersFit, ConnectionsFit, WindowFits
<1>6. ASSUME Handles PROVE FitInv'
  <2>1. UNCHANGED <<producers, events, offered>> /\ handler.doing # "nothing"
    <3>1. UNCHANGED <<producers, events, offered>>
      BY <1>6 DEF Handles, Marks, Sends, Finishes, ghostVars
    <3>2. (\E c : c \in handler.left) \/ handler.sends # None \/ ~Resting
      BY <1>6 DEF Handles, Sends, Finishes
    <3> QED
      BY <1>0, <3>1, <3>2 DEF HandlerOK, Resting, Idle, Handler
  <2>2. DOMAIN connections' = DOMAIN connections
    BY <1>6 DEF Handles, Marks, Sends, Finishes
  <2>3. routes' \subseteq routes /\ wanted' \subseteq rows'
    <3>1. handler.doing = "enable" => handler.hook \in rows
      BY <1>0, <2>1 DEF HandlerWired
    <3> QED
      BY <1>0, <1>6, <3>1 DEF Handles, Marks, Sends, Finishes, windowVars, WindowFits
  <2>4. Notice \in Command
    BY <1>0, <2>1, NoticeShape DEF HandlerOK
  <2>5. ASSUME NEW c \in DOMAIN connections PROVE Fits(connections'[c])
    <3>1. \/ connections'[c] = connections[c]
          \/ connections'[c] = [connections[c] EXCEPT !.enabled = Marked(connections[c].enabled)]
          \/ connections'[c] = Notified(connections[c])
      BY <1>6 DEF Handles, Marks, Sends, Finishes
    <3> QED
      BY <1>1, <2>4, <3>1, CommandedFits
  <2> QED
    BY <1>0, <1>2, <2>1, <2>2, <2>3, <2>5 DEF FitInv, ProducersFit, ConnectionsFit, WindowFits
<1>7. ASSUME Polls PROVE FitInv'
  <2>1. PICK e : e = Head(events)
    OBVIOUS
  <2>2. /\ events # <<>> /\ events' = Tail(events)
        /\ UNCHANGED <<producers, connections, wanted>>
        /\ \/ /\ e.kind = "candidate"
              /\ rows' = rows \cup {e.hook}
              /\ routes' = routes \cup {<<e.hook, e.connection>>}
              /\ offered' = offered \cup {<<e.hook, e.connection>>}
           \/ /\ routes' \subseteq routes
              /\ UNCHANGED <<rows, offered>>
    BY <1>7, <2>1 DEF Polls
  <2>3. e.kind = "candidate" => e.hook \in Hook /\ e.connection \in DOMAIN connections
    <3>1. 1 \in DOMAIN events /\ e = events[1]
      BY <1>0, <2>1, <2>2, TailShape
    <3>2. e.kind = "candidate" => Introduced(e.hook, e.connection)
      BY <1>0, <3>1 DEF IntroducedOK
    <3> QED
      BY <1>0, <3>2 DEF Introduced, WiredOK, Wired
  <2>4. Len(events') <= EventCapacity
    <3>1. PICK S : events \in Seq(S)
      BY <1>0 DEF IsSeq
    <3> QED
      BY <1>0, <2>2, <3>1, HostAssumption
  <2>5. WindowFits'
    BY <1>0, <1>2, <2>2, <2>3, <2>4 DEF WindowFits
  <2> QED
    BY <1>0, <2>2, <2>5 DEF FitInv, ProducersFit, ConnectionsFit
<1> QED
  BY <1>3, <1>4, <1>5, <1>6, <1>7 DEF Window

(* No program runs at first.                                               *)
LEMMA FitInvInit == Init => FitInv
<1> SUFFICES ASSUME Init PROVE FitInv
  OBVIOUS
<1>1. Off \in Libraried(DOMAIN connections)
  BY DEF Off, Libraried
<1>2. ProducersFit
  BY <1>1 DEF Init, ProducersFit
<1>3. ConnectionsFit /\ WindowFits
  BY HostAssumption DEF Init, Idle, Handler, ConnectionsFit, WindowFits
<1> QED
  BY <1>2, <1>3, AgreeInvInit DEF FitInv

(* Every step keeps types and bounds.                                      *)
LEMMA FitInvNext == FitInv /\ [Next]_vars => FitInv'
<1> SUFFICES ASSUME FitInv, [Next]_vars PROVE FitInv'
  OBVIOUS
<1>1. AgreeInv'
  BY AgreeInvNext DEF FitInv
<1>2. CASE UNCHANGED vars
  BY <1>1, <1>2 DEF FitInv, ProducersFit, ConnectionsFit, WindowFits, vars, windowVars, ghostVars
<1>3. CASE Next
  BY <1>1, <1>3, LibrariesFit, TasksFit, WindowFit DEF Next
<1> QED
  BY <1>2, <1>3

(* What the library and the service agree on has its type.                 *)
LEMMA FitInvSuffices == FitInv => TypeOK
<1> SUFFICES ASSUME FitInv PROVE TypeOK
  OBVIOUS
<1>1. Command \subseteq Message({"enable", "disable", "shutdown"})
      /\ Report \subseteq Message({"candidate", "text"})
  BY DEF Command, Report, Message
<1>2. ASSUME NEW c \in DOMAIN connections
      PROVE  LET x == connections[c] IN
             /\ x.by \in Producer /\ x.link \in {"hello", "open", "closed"}
             /\ x.frame \in {"none", "half", "torn"} /\ x.eof \in BOOLEAN
             /\ x.candidates \subseteq Hook /\ x.enabled \subseteq x.candidates
             /\ x.commands \in Seq(Message({"enable", "disable", "shutdown"}))
             /\ x.down \in Seq(Message({"enable", "disable", "shutdown"}))
             /\ x.up \in Seq(Message({"candidate", "text"}))
             /\ Len(x.commands) <= CommandCapacity
  <2>1. Wired(connections[c]) /\ Fits(connections[c])
    BY DEF FitInv, AgreeInv, WiredOK, ConnectionsFit
  <2>2. ASSUME NEW S, NEW T, S \subseteq T, NEW q \in Seq(S) PROVE q \in Seq(T)
    BY <2>2
  <2> QED
    BY <1>1, <2>1, <2>2 DEF Wired, Fits
<1>3. producers \in [Producer -> Libraried(DOMAIN connections)] /\ WindowFits /\ rows \subseteq Hook
  BY DEF FitInv, ProducersFit, AgreeInv
<1>4. /\ handler \in
           [doing : {"nothing", "enable", "disable", "forget", "detach"},
            hook : Hook \cup {None}, left : SUBSET DOMAIN connections,
            sends : DOMAIN connections \cup {None}]
      /\ handler.doing \notin {"nothing", "detach"} => handler.hook \in rows
  <2>1. HandlerOK /\ HandlerWired
    BY DEF FitInv, AgreeInv, HostInv
  <2>2. handler.left \subseteq DOMAIN connections /\ handler.sends \in DOMAIN connections \cup {None}
    BY <2>1 DEF HandlerWired, Held
  <2> QED
    BY <1>3, <2>1, <2>2 DEF HandlerOK, HandlerWired, WindowFits, Doings
<1> QED
  BY <1>2, <1>3, <1>4 DEF TypeOK, Libraried, WindowFits

(* Libraries, connections, queues and settings keep their types, and no    *)
(* queue grows over its capacity.                                          *)
THEOREM HostTypes == Spec => []TypeOK
<1>1. FitInv /\ [Next]_vars => FitInv'
  BY FitInvNext
<1> QED
  BY FitInvInit, <1>1, FitInvSuffices, PTL DEF Spec

-----------------------------------------------------------------------------
(* The windows of a game, one after another: Launch                        *)

LaunchSpec == LaunchInit /\ [][LaunchNext]_launchVars

Position == Launching \cup {"run", "save", "close", "refused", "gone"}
Started == {"remove", "bind", "listen", "config", "write", "load", "close"}
Hears == {"config", "write", "load", "run", "save", "close"}
GameOf == [at : {"away", "dials", "served", "detached"}, with : Nat]

WindowsOK ==
  /\ window \in Seq(Position) /\ Len(window) <= MaxLaunches
  /\ listening \subseteq DOMAIN window /\ crossed \subseteq DOMAIN window
  /\ \A n \in listening : window[n] \in Hears

FilesOK ==
  /\ socket \in {0} \cup DOMAIN window /\ config \in {0} \cup DOMAIN window
  /\ settingsFile \in Setting \cup {Unreadable} /\ kept \in Setting \cup {Unreadable}
  /\ DOMAIN settings = {n \in DOMAIN window : Runs(n)}
  /\ \A n \in DOMAIN settings : settings[n] \in Setting
  /\ game \in GameOf /\ changes \in 0 .. MaxChanges

(* What an undisturbed window can meet: one that looks for its way, those  *)
(* that run undisturbed; one that has gone further, nobody; and one that   *)
(* runs, those that look for their way.                                    *)
Company(n) ==
  \A m \in DOMAIN window \ {n} : Exists(m) =>
    /\ window[n] = "check" => Runs(m) /\ m \notin crossed
    /\ window[n] \notin Started
    /\ Runs(n) => window[m] = "check"

(* What it finds on its way, and leaves there.                             *)
Way(n) ==
  /\ window[n] = "remove" => socket # 0
  /\ window[n] = "bind" => socket = 0
  /\ window[n] \in {"listen", "config", "write", "load", "run", "save"} => socket = n
  /\ window[n] \in {"config", "write", "load", "run", "save"} => n \in listening
  /\ window[n] = "write" => config = 0
  /\ window[n] \in {"load", "run", "save"} => config = n

Undisturbed == \A n \in DOMAIN window : n \notin crossed => Company(n) /\ Way(n)

(* While nobody saves, what was saved last is what would be loaded.        *)
SavedOK == (\A n \in DOMAIN window : window[n] # "save") => kept \in {Loaded, Unreadable}

LaunchInv == WindowsOK /\ FilesOK /\ Undisturbed /\ SavedOK

(* At first there is no window but one that is gone.                       *)
LEMMA LaunchInvInit == LaunchInit => LaunchInv
<1>1. SUFFICES ASSUME LaunchInit PROVE LaunchInv
  OBVIOUS
<1>2. /\ window = <<"gone">> /\ listening = {} /\ crossed = {} /\ settings = <<>>
      /\ socket \in {0, 1} /\ config \in {0, 1} /\ settingsFile \in Setting \cup {Unreadable}
      /\ game = Away /\ changes = 0
      /\ kept = IF settingsFile = Unreadable THEN Default ELSE settingsFile
  BY <1>1 DEF LaunchInit
<1>3. /\ window \in Seq(Position) /\ Len(window) = 1 /\ DOMAIN window = {1}
      /\ window[1] = "gone"
  BY <1>2 DEF Position
<1>4. \A n \in DOMAIN window : ~Runs(n) /\ window[n] = "gone"
  BY <1>3 DEF Runs, WindowAt
<1>5. WindowsOK
  BY <1>2, <1>3, LaunchAssumption DEF WindowsOK
<1>6. FilesOK
  <2>1. DOMAIN settings = {}
    BY <1>2
  <2> QED
    BY <1>2, <1>3, <1>4, <2>1, LaunchAssumption DEF FilesOK, GameOf, Away
<1>7. Undisturbed
  BY <1>3, <1>4 DEF Undisturbed, Company, Way, Started
<1>8. SavedOK
  BY <1>2 DEF SavedOK, Loaded
<1> QED
  BY <1>5, <1>6, <1>7, <1>8 DEF LaunchInv

(* A window that is on its way, beyond its check, has no undisturbed       *)
(* company.                                                                *)
LEMMA StartedAlone ==
  ASSUME LaunchInv, NEW n \in DOMAIN window, window[n] \in Started,
         NEW k \in DOMAIN window \ {n}, k \notin crossed
  PROVE  ~Exists(k) /\ window[k] \in {"refused", "gone"}
<1>1. Company(k)
  BY DEF LaunchInv, Undisturbed
<1>2. Exists(n) /\ window[n] # "check" /\ ~Runs(n)
  BY DEF Exists, Started, Runs, WindowAt
<1>3. window[k] # "check" /\ window[k] \notin Started /\ ~Runs(k)
  BY <1>1, <1>2 DEF Company
<1>4. window[k] \in Position
  BY ElementOfSeq, LenProperties DEF LaunchInv, WindowsOK
<1> QED
  BY <1>3, <1>4 DEF Position, Launching, Started, Runs, WindowAt, Exists

(* A window moves on its way.                                              *)
LEMMA WindowMoves ==
  ASSUME LaunchInv, NEW n \in DOMAIN window, NEW pc \in Position, WindowGoes(n, pc)
  PROVE  /\ window' \in Seq(Position) /\ Len(window') = Len(window)
         /\ DOMAIN window' = DOMAIN window /\ window'[n] = pc
         /\ \A m \in DOMAIN window \ {n} : window'[m] = window[m]
<1>1. window \in Seq(Position) /\ DOMAIN window = 1 .. Len(window)
  BY LenProperties DEF LaunchInv, WindowsOK
<1>2. window' = [window EXCEPT ![n] = pc]
  BY DEF WindowGoes
<1> QED
  BY <1>1, <1>2, ExceptSeq, LenProperties

(* The step of a window that has started its way keeps others as they are  *)
(* and leaves it alone.                                                    *)
LEMMA StartedMoves ==
  ASSUME LaunchInv, NEW n \in DOMAIN window, window[n] \in Started, NEW pc \in Position,
         WindowGoes(n, pc), pc # "check",
         crossed' = crossed \/ (pc = "gone" /\ crossed' = crossed \ {n}),
         n \notin crossed' => Way(n)'
  PROVE  Undisturbed'
<1>1. /\ DOMAIN window' = DOMAIN window /\ window'[n] = pc
      /\ \A m \in DOMAIN window \ {n} : window'[m] = window[m]
  BY WindowMoves
<1>2. SUFFICES ASSUME NEW k \in DOMAIN window, k \notin crossed'
               PROVE  Company(k)' /\ Way(k)'
  BY <1>1 DEF Undisturbed
<1>3. CASE k # n
  <2>1. window'[k] \in {"refused", "gone"}
    BY <1>1, <1>2, <1>3, StartedAlone
  <2> QED
    BY <2>1 DEF Company, Way, Started, Runs, WindowAt
<1>4. CASE k = n /\ pc # "gone"
  <2>1. Company(n)
    BY <1>2, <1>4 DEF LaunchInv, Undisturbed
  <2>2. \A m \in DOMAIN window \ {n} : ~Exists(m)
    BY <2>1 DEF Company
  <2>3. Company(n)'
    BY <1>1, <2>2 DEF Company, Exists
  <2> QED
    BY <1>2, <1>4, <2>3
<1>5. CASE k = n /\ pc = "gone"
  BY <1>1, <1>5 DEF Company, Way, Started, Runs, WindowAt
<1> QED
  BY <1>3, <1>4, <1>5

(* A window moves on its way and touches no settings.                      *)
LEMMA MovesFiles ==
  ASSUME LaunchInv, NEW n \in DOMAIN window, NEW pc \in Position, WindowGoes(n, pc),
         ~Runs(n), pc \notin {"run", "save"}, UNCHANGED <<settingsFile, settings, changes, kept>>,
         socket' \in {socket, 0, n}, config' \in {config, 0, n}, game' \in GameOf,
         window[n] # "save"
  PROVE  FilesOK' /\ SavedOK'
<1>1. /\ DOMAIN window' = DOMAIN window /\ window'[n] = pc
      /\ \A m \in DOMAIN window \ {n} : window'[m] = window[m]
  BY WindowMoves
<1>2. \A m \in DOMAIN window : Runs(m)' <=> Runs(m)
  BY <1>1 DEF Runs, WindowAt
<1>3. DOMAIN settings' = {m \in DOMAIN window' : Runs(m)'}
  BY <1>1, <1>2 DEF LaunchInv, FilesOK
<1>4. FilesOK'
  BY <1>1, <1>3 DEF LaunchInv, FilesOK
<1>5. SavedOK'
  <2>1. SUFFICES ASSUME \A m \in DOMAIN window : window'[m] # "save"
                 PROVE  kept \in {Loaded, Unreadable}
    BY <1>1 DEF SavedOK, Loaded
  <2>2. \A m \in DOMAIN window : window[m] # "save"
    BY <1>1, <2>1
  <2> QED
    BY <2>2 DEF LaunchInv, SavedOK
<1> QED
  BY <1>4, <1>5

(* A window is launched, and disturbs those that look for their way.       *)
LEMMA LaunchesWindowInv ==
  ASSUME LaunchInv, LaunchesWindow
  PROVE  LaunchInv'
<1>0. PICK new : new = Len(window) + 1
  OBVIOUS
<1> DEFINE others == Unsettled \cup {n \in crossed : Exists(n)}
<1>1. /\ new <= MaxLaunches /\ window' = Append(window, "check")
      /\ crossed' = IF others = {} THEN crossed ELSE crossed \cup Unsettled \cup {new}
      /\ UNCHANGED <<listening, socket, config, settingsFile, settings, game, changes, kept>>
  BY <1>0 DEF LaunchesWindow, files
<1>2. /\ WindowsOK /\ FilesOK /\ Undisturbed /\ SavedOK /\ window \in Seq(Position)
      /\ Len(window) \in Nat /\ DOMAIN window = 1 .. Len(window) /\ "check" \in Position
  BY LenProperties DEF LaunchInv, WindowsOK, Position, Launching
<1>3. /\ window' \in Seq(Position) /\ Len(window') = new /\ DOMAIN window' = 1 .. new
      /\ window'[new] = "check"
      /\ \A m \in DOMAIN window : window'[m] = window[m] /\ m # new
      /\ DOMAIN window' = DOMAIN window \cup {new} /\ new \notin DOMAIN window
  BY <1>0, <1>1, <1>2, AppendProperties, LenProperties
<1>4. Unsettled \subseteq DOMAIN window
  BY DEF Unsettled
<1> HIDE DEF others
<1>5. WindowsOK'
  <2>1. crossed' \subseteq DOMAIN window'
    BY <1>1, <1>2, <1>3, <1>4 DEF WindowsOK
  <2> QED
    BY <1>1, <1>2, <1>3, <2>1 DEF WindowsOK
<1>6. /\ \A m \in DOMAIN window : (Runs(m)' <=> Runs(m)) /\ (Exists(m)' <=> Exists(m))
      /\ ~Runs(new)'
  <2>1. \A m \in DOMAIN window : (Runs(m)' <=> Runs(m)) /\ (Exists(m)' <=> Exists(m))
    <3>1. TAKE m \in DOMAIN window
    <3>2. window'[m] = window[m] /\ m \in DOMAIN window'
      BY <1>3
    <3> QED
      BY <3>2 DEF Runs, WindowAt, Exists
  <2>2. ~Runs(new)'
    BY <1>3 DEF Runs, WindowAt
  <2> QED
    BY <2>1, <2>2
<1>7. FilesOK' /\ SavedOK'
  <2>1. DOMAIN settings' = {m \in DOMAIN window' : Runs(m)'}
    <3>1. DOMAIN settings = {m \in DOMAIN window : Runs(m)} /\ settings' = settings
      BY <1>1, <1>2 DEF FilesOK
    <3>2. \A m : m \in DOMAIN window' /\ Runs(m)' <=> m \in DOMAIN window /\ Runs(m)
      BY <1>3, <1>6
    <3> QED
      BY <3>1, <3>2
  <2>2. FilesOK'
    BY <1>1, <1>2, <1>3, <2>1 DEF FilesOK
  <2>3. SavedOK'
    BY <1>1, <1>2, <1>3 DEF SavedOK, Loaded
  <2> QED
    BY <2>2, <2>3
<1>8. ASSUME NEW k \in DOMAIN window', k \notin crossed'
      PROVE  Company(k)' /\ Way(k)'
  <2>1. CASE k = new
    <3>1. others = {}
      BY <1>1, <1>8, <2>1
    <3>2. \A m \in DOMAIN window : Exists(m) => Runs(m) /\ m \notin crossed
      <4>1. SUFFICES ASSUME NEW m \in DOMAIN window, Exists(m) PROVE Runs(m) /\ m \notin crossed
        OBVIOUS
      <4>2. m \notin Unsettled /\ m \notin crossed
        BY <3>1, <4>1 DEF others
      <4>3. window[m] \in Position
        BY <1>2, ElementOfSeq
      <4> QED
        BY <4>1, <4>2, <4>3 DEF Unsettled, Position, Exists, Runs, WindowAt
    <3>3. crossed' = crossed
      BY <1>1, <3>1
    <3>4. Company(k)'
      <4>1. SUFFICES ASSUME NEW m \in DOMAIN window, Exists(m)
                     PROVE  Runs(m)' /\ m \notin crossed'
        BY <1>3, <1>6, <2>1 DEF Company, Started
      <4> QED
        BY <1>6, <3>2, <3>3, <4>1
    <3>5. Way(k)'
      BY <1>3, <2>1 DEF Way
    <3> QED
      BY <3>4, <3>5
  <2>2. CASE k # new
    <3>1. k \in DOMAIN window /\ k \notin crossed
      BY <1>1, <1>3, <1>8, <2>2
    <3>2. Company(k) /\ Way(k)
      BY <1>2, <3>1 DEF Undisturbed
    <3>3. k \notin Unsettled
      BY <1>1, <1>8, <3>1 DEF others
    <3>4. window[k] # "check" /\ window[k] \notin Started
      BY <3>1, <3>3 DEF Unsettled, Started, Launching
    <3>5. Company(k)'
      <4>1. SUFFICES ASSUME NEW m \in DOMAIN window' \ {k}, Exists(m)'
                     PROVE  Runs(k)' => window'[m] = "check"
        BY <1>3, <3>1, <3>4 DEF Company
      <4>2. CASE m = new
        BY <1>3, <4>2
      <4>3. CASE m # new
        BY <1>3, <1>6, <3>1, <3>2, <4>1, <4>3 DEF Company
      <4> QED
        BY <4>2, <4>3
    <3>6. Way(k)'
      BY <1>1, <1>3, <3>1, <3>2 DEF Way
    <3> QED
      BY <3>5, <3>6
  <2> QED
    BY <2>1, <2>2
<1> QED
  BY <1>5, <1>7, <1>8 DEF LaunchInv, Undisturbed

(* A window checks the socket: it is refused for one that listens, and an  *)
(* undisturbed one goes on only if nobody else is there.                   *)
LEMMA ChecksSocketInv ==
  ASSUME LaunchInv, NEW n \in DOMAIN window, ChecksSocket(n)
  PROVE  LaunchInv'
<1>1. /\ window[n] = "check" /\ WindowGoes(n, AfterCheck)
      /\ UNCHANGED <<listening, socket, config, settingsFile, settings, game, changes, crossed, kept>>
  BY DEF ChecksSocket, files, WindowAt
<1>2. AfterCheck = IF socket = 0 THEN "bind" ELSE IF socket \in listening THEN "refused" ELSE "remove"
  BY DEF AfterCheck, Answers
<1>3. AfterCheck \in Position /\ AfterCheck \in {"bind", "refused", "remove"}
  BY <1>2 DEF Position, Launching
<1> DEFINE pc == AfterCheck
<1> HIDE DEF pc
<1>4. /\ window' \in Seq(Position) /\ Len(window') = Len(window)
      /\ DOMAIN window' = DOMAIN window /\ window'[n] = pc
      /\ \A m \in DOMAIN window \ {n} : window'[m] = window[m]
  BY <1>1, <1>3, WindowMoves DEF pc
<1>5. n \notin listening
  BY <1>1 DEF LaunchInv, WindowsOK, Hears
<1>6. WindowsOK'
  BY <1>1, <1>4, <1>5 DEF LaunchInv, WindowsOK
<1>7. FilesOK' /\ SavedOK'
  <2>1. ~Runs(n) /\ AfterCheck \notin {"run", "save"} /\ game' \in GameOf
    BY <1>1, <1>3 DEF Runs, WindowAt, LaunchInv, FilesOK
  <2> QED
    BY <1>1, <1>3, <2>1, MovesFiles
<1>8. ASSUME NEW k \in DOMAIN window, k \notin crossed
      PROVE  Company(k)' /\ Way(k)'
  <2>1. Company(k) /\ Way(k)
    BY <1>8 DEF LaunchInv, Undisturbed
  <2>2. Exists(n) /\ ~Runs(n)
    BY <1>1 DEF Exists, Runs, WindowAt
  <2>3. CASE k = n
    <3>1. \A m \in DOMAIN window \ {n} : Exists(m) =>
            pc = "refused" /\ window[m] \in {"run", "save"}
      <4>1. SUFFICES ASSUME NEW m \in DOMAIN window \ {n}, Exists(m)
                     PROVE  pc = "refused" /\ window[m] \in {"run", "save"}
        OBVIOUS
      <4>2. Runs(m) /\ m \notin crossed
        BY <1>1, <2>1, <2>3, <4>1 DEF Company
      <4>3. Way(m) /\ window[m] \in {"run", "save"}
        BY <4>1, <4>2 DEF LaunchInv, Undisturbed, Runs, WindowAt
      <4>4. socket = m /\ m \in listening
        BY <4>3 DEF Way
      <4>5. socket # 0
        BY <4>4, LenProperties DEF LaunchInv, WindowsOK
      <4> QED
        BY <1>2, <4>3, <4>4, <4>5 DEF pc
    <3>2. Company(k)'
      <4>1. SUFFICES ASSUME NEW m \in DOMAIN window \ {n}, Exists(m)'
                     PROVE  window'[n] = "refused"
        BY <1>4, <2>3 DEF Company, Started, Runs, WindowAt
      <4>2. Exists(m)
        BY <1>4, <4>1 DEF Exists
      <4> QED
        BY <1>4, <3>1, <4>1, <4>2
    <3>3. Way(k)'
      BY <1>1, <1>2, <1>3, <1>4, <2>3 DEF Way, pc
    <3> QED
      BY <3>2, <3>3
  <2>4. CASE k # n /\ ~Runs(k)
    <3>1. window[k] # "check" /\ window[k] \notin Started
      BY <2>1, <2>2, <2>4 DEF Company
    <3>2. window[k] \in {"refused", "gone"}
      <4>1. window[k] \in Position
        BY ElementOfSeq, LenProperties DEF LaunchInv, WindowsOK
      <4> QED
        BY <2>4, <3>1, <4>1 DEF Position, Launching, Started, Runs, WindowAt
    <3> QED
      BY <1>4, <2>4, <3>2 DEF Company, Way, Started, Runs, WindowAt
  <2>5. CASE k # n /\ Runs(k)
    <3>1. socket = k /\ k \in listening /\ window[k] \in {"run", "save"}
      BY <2>1, <2>5 DEF Way, Runs, WindowAt
    <3>2. pc = "refused"
      <4>1. socket # 0
        BY <3>1, LenProperties DEF LaunchInv, WindowsOK
      <4> QED
        BY <1>2, <3>1, <4>1 DEF pc
    <3>3. Company(k)'
      <4>1. SUFFICES ASSUME NEW m \in DOMAIN window \ {k}, Exists(m)' PROVE window'[m] = "check"
        BY <1>4, <2>5, <3>1 DEF Company, Started
      <4>2. m # n
        BY <1>4, <3>2, <4>1 DEF Exists
      <4>3. Exists(m)
        BY <1>4, <4>1, <4>2 DEF Exists
      <4> QED
        BY <1>4, <2>1, <2>5, <4>2, <4>3 DEF Company
    <3>4. Way(k)'
      BY <1>1, <1>4, <2>1, <2>5 DEF Way
    <3> QED
      BY <3>3, <3>4
  <2> QED
    BY <2>3, <2>4, <2>5
<1> QED
  BY <1>1, <1>4, <1>6, <1>7, <1>8 DEF LaunchInv, Undisturbed

(* The step of a window on its way, which loads no settings yet.           *)
LEMMA StartedStep ==
  ASSUME LaunchInv, NEW n \in DOMAIN window, window[n] \in Started,
         NEW pc \in Position \ {"check", "run", "save"}, WindowGoes(n, pc),
         crossed' = crossed \/ (pc = "gone" /\ crossed' = crossed \ {n}),
         listening' \subseteq listening \cup {n}, n \in listening' => pc \in Hears,
         socket' \in {socket, 0, n}, config' \in {config, 0, n}, game' \in GameOf,
         UNCHANGED <<settingsFile, settings, changes, kept>>,
         n \notin crossed' => Way(n)'
  PROVE  LaunchInv'
<1>1. Undisturbed'
  BY StartedMoves
<1>2. FilesOK' /\ SavedOK'
  <2>1. ~Runs(n) /\ window[n] # "save"
    BY DEF Runs, WindowAt, Started
  <2> QED
    BY <2>1, MovesFiles
<1>3. WindowsOK'
  <2>1. /\ window' \in Seq(Position) /\ Len(window') = Len(window)
        /\ DOMAIN window' = DOMAIN window /\ window'[n] = pc
        /\ \A m \in DOMAIN window \ {n} : window'[m] = window[m]
    BY WindowMoves
  <2>2. ASSUME NEW m \in listening' PROVE m \in DOMAIN window /\ window'[m] \in Hears
    BY <2>1, <2>2 DEF LaunchInv, WindowsOK
  <2>3. crossed' \subseteq DOMAIN window
    BY DEF LaunchInv, WindowsOK
  <2> QED
    BY <2>1, <2>2, <2>3 DEF LaunchInv, WindowsOK
<1> QED
  BY <1>1, <1>2, <1>3 DEF LaunchInv

(* The game after a window has gone.                                       *)
LEMMA LostGame == ASSUME LaunchInv, NEW n PROVE Lost(n) \subseteq GameOf
<1>1. game \in GameOf
  BY DEF LaunchInv, FilesOK
<1> QED
  BY <1>1 DEF Lost, Away, GameOf

(* From the check to the configuration, and the end.                       *)
LEMMA StartedStepsInv ==
  ASSUME LaunchInv, NEW n \in DOMAIN window,
         \/ RemovesSocket(n) \/ BindsSocket(n) \/ ListensForHooks(n)
         \/ TruncatesConfig(n) \/ WritesConfig(n) \/ ConfigFails(n) \/ UnlinksSocket(n)
  PROVE  LaunchInv'
<1>1. game \in GameOf /\ (n \notin crossed => Way(n)) /\ (n \in listening => window[n] \in Hears)
  BY DEF LaunchInv, FilesOK, Undisturbed, WindowsOK
<1>2. ASSUME NEW pc \in Position \ {"check", "run", "save"}, WindowGoes(n, pc)
      PROVE  /\ n \in DOMAIN window' /\ window'[n] = pc
  BY <1>2, WindowMoves
<1>3. CASE RemovesSocket(n)
  <2> DEFINE pc == IF socket = 0 THEN "refused" ELSE "bind"
  <2>1. /\ window[n] = "remove" /\ WindowGoes(n, pc) /\ socket' = 0
        /\ UNCHANGED <<listening, config, settingsFile, settings, game, changes, crossed, kept>>
    BY <1>3 DEF RemovesSocket, WindowAt
  <2>2. pc \in Position \ {"check", "run", "save"} /\ pc \in {"refused", "bind"}
    BY DEF Position, Launching
  <2> HIDE DEF pc
  <2>3. window'[n] \in {"refused", "bind"}
    BY <1>2, <2>1, <2>2
  <2>4. Way(n)'
    BY <2>1, <2>3 DEF Way
  <2>5. n \notin listening /\ window[n] \in Started
    BY <1>1, <2>1 DEF Hears, Started
  <2> QED
    BY <1>1, <2>1, <2>2, <2>4, <2>5, StartedStep
<1>4. CASE BindsSocket(n)
  <2> DEFINE pc == IF socket = 0 THEN "listen" ELSE "refused"
  <2>1. /\ window[n] = "bind" /\ WindowGoes(n, pc) /\ socket' = IF socket = 0 THEN n ELSE socket
        /\ UNCHANGED <<listening, config, settingsFile, settings, game, changes, crossed, kept>>
    BY <1>4 DEF BindsSocket, WindowAt
  <2>2. pc \in Position \ {"check", "run", "save"} /\ pc \in {"refused", "listen"}
    BY DEF Position, Launching
  <2>3. window'[n] = pc
    BY <1>2, <2>1, <2>2
  <2>4. Way(n)'
    BY <2>1, <2>3 DEF Way
  <2>5. n \notin listening /\ window[n] \in Started
    BY <1>1, <2>1 DEF Hears, Started
  <2>6. socket' \in {socket, 0, n}
    BY <2>1
  <2> HIDE DEF pc
  <2> QED
    BY <1>1, <2>1, <2>2, <2>4, <2>5, <2>6, StartedStep
<1>5. CASE ListensForHooks(n)
  <2>1. /\ window[n] = "listen" /\ WindowGoes(n, "config") /\ listening' = listening \cup {n}
        /\ UNCHANGED <<socket, config, settingsFile, settings, game, changes, crossed, kept>>
    BY <1>5 DEF ListensForHooks, WindowAt, files
  <2>2. "config" \in Position \ {"check", "run", "save"} /\ "config" \in Hears
    BY DEF Position, Launching, Hears
  <2>3. window'[n] = "config"
    BY <1>2, <2>1, <2>2
  <2>4. n \notin crossed' => Way(n)'
    BY <1>1, <2>1, <2>3 DEF Way
  <2>5. window[n] \in Started
    BY <2>1 DEF Started
  <2> QED
    BY <1>1, <2>1, <2>2, <2>4, <2>5, StartedStep
<1>6. CASE TruncatesConfig(n)
  <2>1. /\ window[n] = "config" /\ WindowGoes(n, "write") /\ config' = 0
        /\ UNCHANGED <<listening, socket, settingsFile, settings, game, changes, crossed, kept>>
    BY <1>6 DEF TruncatesConfig, WindowAt
  <2>2. "write" \in Position \ {"check", "run", "save"} /\ "write" \in Hears
    BY DEF Position, Launching, Hears
  <2>3. window'[n] = "write"
    BY <1>2, <2>1, <2>2
  <2>4. n \notin crossed' => Way(n)'
    BY <1>1, <2>1, <2>3 DEF Way
  <2>5. window[n] \in Started
    BY <2>1 DEF Started
  <2> QED
    BY <1>1, <2>1, <2>2, <2>4, <2>5, StartedStep
<1>7. CASE WritesConfig(n)
  <2>1. /\ window[n] = "write" /\ WindowGoes(n, "load") /\ config' \in {n, 0}
        /\ config = 0 => config' = n
        /\ UNCHANGED <<listening, socket, settingsFile, settings, game, changes, crossed, kept>>
    BY <1>7 DEF WritesConfig, WindowAt
  <2>2. "load" \in Position \ {"check", "run", "save"} /\ "load" \in Hears
    BY DEF Position, Launching, Hears
  <2>3. window'[n] = "load"
    BY <1>2, <2>1, <2>2
  <2>4. n \notin crossed' => Way(n)'
    BY <1>1, <2>1, <2>3 DEF Way
  <2>5. window[n] \in Started
    BY <2>1 DEF Started
  <2> QED
    BY <1>1, <2>1, <2>2, <2>4, <2>5, StartedStep
<1>8. CASE ConfigFails(n)
  <2>1. /\ window[n] \in {"config", "write", "load"} /\ WindowGoes(n, "close")
        /\ UNCHANGED <<listening, socket, config, settingsFile, settings, game, changes, crossed, kept>>
    BY <1>8 DEF ConfigFails, WindowAt, files
  <2>2. "close" \in Position \ {"check", "run", "save"} /\ "close" \in Hears
    BY DEF Position, Hears
  <2>3. window'[n] = "close"
    BY <1>2, <2>1, <2>2
  <2>4. Way(n)'
    BY <2>1, <2>3 DEF Way
  <2>5. window[n] \in Started
    BY <2>1 DEF Started
  <2> QED
    BY <1>1, <2>1, <2>2, <2>4, <2>5, StartedStep
<1>9. CASE UnlinksSocket(n)
  <2>1. /\ window[n] = "close" /\ WindowGoes(n, "gone") /\ socket' = 0
        /\ listening' = listening \ {n} /\ game' \in Lost(n) /\ crossed' = crossed \ {n}
        /\ UNCHANGED <<config, settingsFile, settings, changes, kept>>
    BY <1>9 DEF UnlinksSocket, WindowAt
  <2>2. "gone" \in Position \ {"check", "run", "save"}
    BY DEF Position
  <2>3. window'[n] = "gone"
    BY <1>2, <2>1, <2>2
  <2>4. Way(n)'
    BY <2>1, <2>3 DEF Way
  <2>5. window[n] \in Started /\ game' \in GameOf
    BY <2>1, LostGame DEF Started
  <2> QED
    BY <1>1, <2>1, <2>2, <2>4, <2>5, StartedStep
<1> QED
  BY <1>3, <1>4, <1>5, <1>6, <1>7, <1>8, <1>9

(* Nothing of the windows changes.                                         *)
LEMMA WindowsStayInv ==
  ASSUME LaunchInv, NEW n, StopsListening(n) \/ FindsConfig \/ Dials
  PROVE  LaunchInv'
<1>1. /\ UNCHANGED <<window, socket, config, settingsFile, settings, changes, crossed, kept>>
      /\ listening' = listening \/ (listening' = listening \ {n} /\ WindowAt(n, "close"))
  BY DEF StopsListening, FindsConfig, Dials, files
<1>2. game' \in GameOf
  <2>1. game \in GameOf /\ config \in Nat
    BY LenProperties DEF LaunchInv, FilesOK, WindowsOK
  <2>2. CASE StopsListening(n)
    BY <2>2, LostGame DEF StopsListening
  <2>3. CASE FindsConfig
    BY <2>1, <2>3 DEF FindsConfig, ReadsAgain, GameOf
  <2>4. CASE Dials
    BY <2>1, <2>4 DEF Dials, GameOf
  <2> QED
    BY <2>2, <2>3, <2>4
<1>3. \A m : (Runs(m)' <=> Runs(m)) /\ (Exists(m)' <=> Exists(m))
  BY <1>1 DEF Runs, WindowAt, Exists
<1>4. WindowsOK' /\ SavedOK'
  BY <1>1 DEF LaunchInv, WindowsOK, SavedOK, Loaded
<1>5. FilesOK'
  BY <1>1, <1>2, <1>3 DEF LaunchInv, FilesOK
<1>6. ASSUME NEW k \in DOMAIN window, k \notin crossed PROVE Company(k)' /\ Way(k)'
  <2>1. Company(k) /\ Way(k)
    BY <1>6 DEF LaunchInv, Undisturbed
  <2>2. Company(k)'
    BY <1>1, <1>3, <2>1 DEF Company
  <2>3. Way(k)'
    BY <1>1, <2>1 DEF Way, WindowAt
  <2> QED
    BY <2>2, <2>3
<1> QED
  BY <1>1, <1>4, <1>5, <1>6 DEF LaunchInv, Undisturbed

(* What would be loaded are settings.                                      *)
LEMMA LoadedSettings == LaunchInv => Loaded \in Setting
BY LaunchAssumption DEF LaunchInv, FilesOK, Loaded

(* A window that begins to run has its way behind it.                      *)
LEMMA LoadsSettingsInv ==
  ASSUME LaunchInv, NEW n \in DOMAIN window, LoadsSettings(n)
  PROVE  LaunchInv'
<1>1. /\ window[n] = "load" /\ WindowGoes(n, "run")
      /\ settings' = [m \in DOMAIN settings \cup {n} |-> IF m = n THEN Loaded ELSE settings[m]]
      /\ UNCHANGED <<listening, socket, config, settingsFile, game, changes, crossed, kept>>
  BY DEF LoadsSettings, WindowAt, files
<1>2. "run" \in Position /\ "run" \in Hears /\ window[n] \in Started
  BY <1>1 DEF Position, Hears, Started
<1>3. /\ window' \in Seq(Position) /\ Len(window') = Len(window)
      /\ DOMAIN window' = DOMAIN window /\ window'[n] = "run"
      /\ \A m \in DOMAIN window \ {n} : window'[m] = window[m]
  BY <1>1, <1>2, WindowMoves
<1>4. WindowsOK'
  BY <1>1, <1>2, <1>3 DEF LaunchInv, WindowsOK
<1>5. FilesOK'
  <2>1. \A m \in DOMAIN window : Runs(m)' <=> (Runs(m) \/ m = n)
    BY <1>1, <1>3 DEF Runs, WindowAt
  <2>2. DOMAIN settings' = {m \in DOMAIN window' : Runs(m)'}
    BY <1>1, <1>3, <2>1 DEF LaunchInv, FilesOK
  <2>3. \A m \in DOMAIN settings' : settings'[m] \in Setting
    BY <1>1, LoadedSettings DEF LaunchInv, FilesOK
  <2> QED
    BY <1>1, <1>3, <2>2, <2>3 DEF LaunchInv, FilesOK
<1>6. SavedOK'
  <2>1. SUFFICES ASSUME \A m \in DOMAIN window : window'[m] # "save"
                 PROVE  kept \in {Loaded, Unreadable}
    BY <1>1, <1>3 DEF SavedOK, Loaded
  <2>2. \A m \in DOMAIN window : window[m] # "save"
    BY <1>1, <1>3, <2>1
  <2> QED
    BY <2>2 DEF LaunchInv, SavedOK
<1>7. Undisturbed'
  <2>1. n \notin crossed => Way(n)'
    BY <1>1, <1>3 DEF LaunchInv, Undisturbed, Way
  <2> QED
    BY <1>1, <1>2, <2>1, StartedMoves
<1> QED
  BY <1>4, <1>5, <1>6, <1>7 DEF LaunchInv

(* A window that runs or saves goes on to do so.                           *)
LEMMA SavesUndisturbed ==
  ASSUME LaunchInv, NEW n \in DOMAIN window, Runs(n), NEW pc \in {"run", "save"},
         WindowGoes(n, pc) \/ window' = window,
         UNCHANGED <<listening, socket, config, game, crossed>>
  PROVE  /\ WindowsOK' /\ Undisturbed' /\ DOMAIN window' = DOMAIN window
         /\ \A m \in DOMAIN window : Runs(m)' <=> Runs(m)
<1>1. pc \in Position /\ pc \in Hears /\ window[n] \in {"run", "save"}
  BY DEF Position, Hears, Runs, WindowAt
<1>2. /\ window' \in Seq(Position) /\ Len(window') = Len(window)
      /\ DOMAIN window' = DOMAIN window /\ window'[n] \in {"run", "save"}
      /\ \A m \in DOMAIN window \ {n} : window'[m] = window[m]
  <2>1. CASE WindowGoes(n, pc)
    BY <1>1, <2>1, WindowMoves
  <2>2. CASE window' = window
    BY <1>1, <2>2 DEF LaunchInv, WindowsOK
  <2> QED
    BY <2>1, <2>2
<1>3. WindowsOK'
  BY <1>1, <1>2 DEF LaunchInv, WindowsOK, Hears
<1>4. ASSUME NEW m \in DOMAIN window
      PROVE  /\ (Runs(m)' <=> Runs(m)) /\ (Exists(m)' <=> Exists(m))
             /\ window'[m] = window[m] \/ (Runs(m) /\ window'[m] \in {"run", "save"})
  <2>1. CASE m = n
    BY <1>1, <1>2, <2>1 DEF Runs, WindowAt, Exists
  <2>2. CASE m # n
    BY <1>2, <2>2 DEF Runs, WindowAt, Exists
  <2> QED
    BY <2>1, <2>2
<1>5. ASSUME NEW k \in DOMAIN window, k \notin crossed PROVE Company(k)' /\ Way(k)'
  <2>1. Company(k) /\ Way(k)
    BY <1>5 DEF LaunchInv, Undisturbed
  <2>2. /\ window'[k] = "check" => window[k] = "check"
        /\ window'[k] \in Started => window[k] \in Started
    BY <1>4 DEF Started
  <2>3. Company(k)'
    <3>1. SUFFICES ASSUME NEW m \in DOMAIN window \ {k}, Exists(m)
                   PROVE  /\ window'[k] = "check" => Runs(m)' /\ m \notin crossed'
                          /\ window'[k] \notin Started
                          /\ Runs(k)' => window'[m] = "check"
      BY <1>2, <1>4 DEF Company
    <3>2. /\ window[k] = "check" => Runs(m) /\ m \notin crossed
          /\ window[k] \notin Started
          /\ Runs(k) => window[m] = "check"
      BY <2>1, <3>1 DEF Company
    <3>3. window[m] = "check" => ~Runs(m)
      BY DEF Runs, WindowAt
    <3> QED
      BY <1>4, <2>2, <3>2, <3>3
  <2>4. Way(k)'
    BY <1>2, <1>4, <2>1 DEF Way, Runs, WindowAt
  <2> QED
    BY <2>3, <2>4
<1> QED
  BY <1>2, <1>3, <1>4, <1>5 DEF Undisturbed

(* Settings are changed, written, or not written.                          *)
LEMMA SavesInv ==
  ASSUME LaunchInv, NEW n \in DOMAIN window,
         ChangesSettings(n) \/ WritesSettings(n) \/ SaveFails(n)
  PROVE  LaunchInv'
<1>1. Runs(n) /\ n \in DOMAIN settings /\ settings[n] \in Setting
  <2>1. Runs(n)
    BY DEF ChangesSettings, WritesSettings, SaveFails, Runs
  <2> QED
    BY <2>1 DEF LaunchInv, FilesOK
<1>2. FilesOK /\ SavedOK
  BY DEF LaunchInv
<1>3. CASE ChangesSettings(n)
  <2>1. PICK v \in Setting : settings' = [settings EXCEPT ![n] = v]
    BY <1>3 DEF ChangesSettings
  <2>2. /\ window[n] = "run" /\ changes < MaxChanges /\ changes' = changes + 1
        /\ \/ settingsFile' = Unreadable /\ WindowGoes(n, "save")
           \/ UNCHANGED <<settingsFile, window>>
        /\ UNCHANGED <<listening, socket, config, game, crossed, kept>>
    BY <1>3 DEF ChangesSettings, WindowAt
  <2>3. /\ WindowsOK' /\ Undisturbed' /\ DOMAIN window' = DOMAIN window
        /\ \A m \in DOMAIN window : Runs(m)' <=> Runs(m)
    BY <1>1, <2>2, SavesUndisturbed
  <2>4. FilesOK'
    <3>1. DOMAIN settings' = {m \in DOMAIN window' : Runs(m)'}
      BY <1>2, <2>1, <2>3 DEF FilesOK
    <3>2. \A m \in DOMAIN settings' : settings'[m] \in Setting
      BY <1>2, <2>1 DEF FilesOK
    <3>3. changes' \in 0 .. MaxChanges
      BY <1>2, <2>2, LaunchAssumption DEF FilesOK
    <3> QED
      BY <1>2, <2>2, <2>3, <3>1, <3>2, <3>3 DEF FilesOK
  <2>5. SavedOK'
    <3>1. CASE WindowGoes(n, "save")
      <4>1. window'[n] = "save" /\ n \in DOMAIN window'
        <5>1. "save" \in Position
          BY DEF Position
        <5> QED
          BY <3>1, <5>1, WindowMoves
      <4> QED
        BY <4>1 DEF SavedOK
    <3>2. CASE UNCHANGED <<settingsFile, window>>
      BY <1>2, <2>2, <3>2 DEF SavedOK, Loaded
    <3> QED
      BY <2>2, <3>1, <3>2
  <2> QED
    BY <2>3, <2>4, <2>5 DEF LaunchInv
<1>4. CASE WritesSettings(n) \/ SaveFails(n)
  <2>1. /\ window[n] = "save" /\ WindowGoes(n, "run")
        /\ UNCHANGED <<listening, socket, config, settings, game, changes, crossed>>
        /\ \/ settingsFile = Unreadable /\ settingsFile' = settings[n] /\ kept' = settings[n]
           \/ settingsFile' \in {settingsFile, settings[n], Unreadable} /\ kept' = Unreadable
    BY <1>4 DEF WritesSettings, SaveFails, WindowAt, Written, files
  <2>2. /\ WindowsOK' /\ Undisturbed' /\ DOMAIN window' = DOMAIN window
        /\ \A m \in DOMAIN window : Runs(m)' <=> Runs(m)
    BY <1>1, <2>1, SavesUndisturbed
  <2>3. FilesOK'
    <3>1. DOMAIN settings' = {m \in DOMAIN window' : Runs(m)'}
      BY <1>2, <2>1, <2>2 DEF FilesOK
    <3> QED
      BY <1>1, <1>2, <2>1, <2>2, <3>1 DEF FilesOK
  <2>4. SavedOK'
    <3>1. settings[n] # Unreadable
      BY <1>1, LaunchAssumption
    <3> QED
      BY <2>1, <3>1 DEF SavedOK, Loaded
  <2> QED
    BY <2>2, <2>3, <2>4 DEF LaunchInv
<1> QED
  BY <1>3, <1>4

(* Settings of a window that no longer runs are forgotten.                 *)
LEMMA WithoutSettings ==
  ASSUME LaunchInv, NEW n \in DOMAIN window, NEW pc \in Position \ {"run", "save"},
         WindowGoes(n, pc), settings' = Without(settings, n) 
  PROVE  /\ DOMAIN settings' = {m \in DOMAIN window' : Runs(m)'}
         /\ \A m \in DOMAIN settings' : settings'[m] \in Setting
<1>1. /\ DOMAIN window' = DOMAIN window /\ window'[n] = pc
      /\ \A m \in DOMAIN window \ {n} : window'[m] = window[m]
  BY WindowMoves
<1>2. \A m \in DOMAIN window : Runs(m)' <=> (Runs(m) /\ m # n)
  BY <1>1 DEF Runs, WindowAt
<1>3. /\ DOMAIN settings = {m \in DOMAIN window : Runs(m)}
      /\ \A m \in DOMAIN settings : settings[m] \in Setting
  BY DEF LaunchInv, FilesOK
<1>4. /\ DOMAIN settings' = DOMAIN settings \ {n}
      /\ \A m \in DOMAIN settings' : settings'[m] = settings[m]
  BY DEF Without
<1> QED
  BY <1>1, <1>2, <1>3, <1>4

(* A window that is closed disturbs those that look for their way.         *)
LEMMA ClosesWindowInv ==
  ASSUME LaunchInv, NEW n \in DOMAIN window, ClosesWindow(n)
  PROVE  LaunchInv'
<1>1. /\ window[n] = "run" /\ WindowGoes(n, "close") /\ settings' = Without(settings, n)
      /\ crossed' = IF Unsettled = {} THEN crossed ELSE crossed \cup Unsettled \cup {n}
      /\ UNCHANGED <<listening, socket, config, settingsFile, game, changes, kept>>
  BY DEF ClosesWindow, WindowAt, files
<1>2. "close" \in Position /\ "close" \in Hears
  BY DEF Position, Hears
<1>3. /\ window' \in Seq(Position) /\ Len(window') = Len(window)
      /\ DOMAIN window' = DOMAIN window /\ window'[n] = "close"
      /\ \A m \in DOMAIN window \ {n} : window'[m] = window[m]
  BY <1>1, <1>2, WindowMoves
<1>4. WindowsOK'
  <2>1. crossed' \subseteq DOMAIN window
    BY <1>1 DEF LaunchInv, WindowsOK, Unsettled
  <2> QED
    BY <1>1, <1>2, <1>3, <2>1 DEF LaunchInv, WindowsOK
<1>5. FilesOK'
  <2>1. /\ DOMAIN settings' = {m \in DOMAIN window' : Runs(m)'}
        /\ \A m \in DOMAIN settings' : settings'[m] \in Setting
    BY <1>1, <1>2, WithoutSettings
  <2> QED
    BY <1>1, <1>3, <2>1 DEF LaunchInv, FilesOK
<1>6. SavedOK'
  <2>1. SUFFICES ASSUME \A m \in DOMAIN window : window'[m] # "save"
                 PROVE  kept \in {Loaded, Unreadable}
    BY <1>1, <1>3 DEF SavedOK, Loaded
  <2>2. \A m \in DOMAIN window : window[m] # "save"
    BY <1>1, <1>3, <2>1
  <2> QED
    BY <2>2 DEF LaunchInv, SavedOK
<1>7. ASSUME NEW k \in DOMAIN window, k \notin crossed' PROVE Company(k)' /\ Way(k)'
  <2>1. k \notin crossed /\ k \notin Unsettled /\ Company(k) /\ (k = n => Unsettled = {})
    BY <1>1, <1>7 DEF LaunchInv, Undisturbed
  <2>2. CASE k = n
    <3>1. ASSUME NEW m \in DOMAIN window \ {n} PROVE ~Exists(m)
      <4>1. Exists(m) => window[m] = "check"
        BY <1>1, <2>1, <2>2, <3>1 DEF Company, Runs, WindowAt
      <4>2. window[m] # "check"
        BY <2>1, <2>2 DEF Unsettled, Launching
      <4> QED
        BY <4>1, <4>2
    <3>2. Company(k)'
      BY <1>3, <2>2, <3>1 DEF Company, Exists
    <3>3. Way(k)'
      BY <1>3, <2>2 DEF Way
    <3> QED
      BY <3>2, <3>3
  <2>3. CASE k # n
    <3>1. Exists(n) /\ window[n] # "check"
      BY <1>1 DEF Exists
    <3>2. ~Runs(k) /\ window[k] \notin Launching \cup {"close"}
      BY <2>1, <2>3, <3>1 DEF Company, Unsettled
    <3>3. window'[k] \in {"refused", "gone"}
      <4>1. window[k] \in Position
        BY ElementOfSeq, LenProperties DEF LaunchInv, WindowsOK
      <4> QED
        BY <1>3, <2>3, <3>2, <4>1 DEF Position, Runs, WindowAt
    <3> QED
      BY <3>3 DEF Company, Way, Started, Runs, WindowAt
  <2> QED
    BY <2>2, <2>3
<1> QED
  BY <1>3, <1>4, <1>5, <1>6, <1>7 DEF LaunchInv, Undisturbed

(* A window that dies disturbs nobody.                                     *)
LEMMA WindowDiesInv ==
  ASSUME LaunchInv, NEW n \in DOMAIN window, WindowDies(n)
  PROVE  LaunchInv'
<1>1. /\ WindowGoes(n, "gone") /\ settings' = Without(settings, n)
      /\ listening' = listening \ {n} /\ crossed' = crossed \ {n}
      /\ game' \in {Away, game}
      /\ kept' = IF window[n] = "save" THEN Unreadable ELSE kept
      /\ UNCHANGED <<socket, config, settingsFile, changes>>
  BY DEF WindowDies, WindowAt, files
<1>2. "gone" \in Position
  BY DEF Position
<1>3. /\ window' \in Seq(Position) /\ Len(window') = Len(window)
      /\ DOMAIN window' = DOMAIN window /\ window'[n] = "gone"
      /\ \A m \in DOMAIN window \ {n} : window'[m] = window[m]
  BY <1>1, <1>2, WindowMoves
<1>4. WindowsOK'
  <2>1. crossed' \subseteq DOMAIN window
    BY <1>1 DEF LaunchInv, WindowsOK
  <2> QED
    BY <1>1, <1>3, <2>1 DEF LaunchInv, WindowsOK
<1>5. FilesOK'
  <2>1. /\ DOMAIN settings' = {m \in DOMAIN window' : Runs(m)'}
        /\ \A m \in DOMAIN settings' : settings'[m] \in Setting
    BY <1>1, <1>2, WithoutSettings
  <2>2. game' \in GameOf
    BY <1>1 DEF LaunchInv, FilesOK, GameOf, Away
  <2> QED
    BY <1>1, <1>3, <2>1, <2>2 DEF LaunchInv, FilesOK
<1>6. SavedOK'
  <2>1. CASE window[n] = "save"
    BY <1>1, <2>1 DEF SavedOK
  <2>2. CASE window[n] # "save"
    <3>1. SUFFICES ASSUME \A m \in DOMAIN window : window'[m] # "save"
                   PROVE  kept \in {Loaded, Unreadable}
      BY <1>1, <1>3, <2>2 DEF SavedOK, Loaded
    <3>2. \A m \in DOMAIN window : window[m] # "save"
      BY <1>3, <2>2, <3>1
    <3> QED
      BY <3>2 DEF LaunchInv, SavedOK
  <2> QED
    BY <2>1, <2>2
<1>7. ASSUME NEW k \in DOMAIN window, k \notin crossed' PROVE Company(k)' /\ Way(k)'
  <2>1. CASE k = n
    BY <1>3, <2>1 DEF Company, Way, Started, Runs, WindowAt
  <2>2. CASE k # n
    <3>1. Company(k) /\ Way(k)
      BY <1>1, <1>7, <2>2 DEF LaunchInv, Undisturbed
    <3>2. window'[k] = window[k] /\ (Runs(k)' <=> Runs(k))
      BY <1>3, <2>2 DEF Runs, WindowAt
    <3>3. Company(k)'
      <4>1. SUFFICES ASSUME NEW m \in DOMAIN window \ {k}, Exists(m)'
                     PROVE  /\ window'[k] = "check" => Runs(m)' /\ m \notin crossed'
                            /\ window'[k] \notin Started
                            /\ Runs(k)' => window'[m] = "check"
        BY <1>3 DEF Company
      <4>2. m # n
        BY <1>3, <4>1 DEF Exists
      <4>3. window'[m] = window[m] /\ (Runs(m)' <=> Runs(m)) /\ Exists(m)
        BY <1>3, <4>1, <4>2 DEF Runs, WindowAt, Exists
      <4> QED
        BY <1>1, <3>1, <3>2, <4>3 DEF Company
    <3>4. Way(k)'
      BY <1>1, <2>2, <3>1, <3>2 DEF Way
    <3> QED
      BY <3>3, <3>4
  <2> QED
    BY <2>1, <2>2
<1> QED
  BY <1>3, <1>4, <1>5, <1>6, <1>7 DEF LaunchInv, Undisturbed

(* Every step keeps the invariant.                                         *)
LEMMA LaunchInvNext == LaunchInv /\ [LaunchNext]_launchVars => LaunchInv'
<1>1. SUFFICES ASSUME LaunchInv, [LaunchNext]_launchVars PROVE LaunchInv'
  OBVIOUS
<1>2. CASE UNCHANGED launchVars
  BY <1>1, <1>2
     DEF launchVars, LaunchInv, WindowsOK, FilesOK, Undisturbed, SavedOK, Company, Way, Runs,
         WindowAt, Exists, Loaded
<1>3. CASE LaunchNext
  BY <1>1, <1>3, LaunchesWindowInv, ChecksSocketInv, StartedStepsInv, WindowsStayInv,
     LoadsSettingsInv, SavesInv, ClosesWindowInv, WindowDiesInv DEF LaunchNext, LaunchFails
<1> QED
  BY <1>1, <1>2, <1>3

(* So it always holds.                                                     *)
LEMMA LaunchInvAlways == LaunchSpec => []LaunchInv
BY LaunchInvInit, LaunchInvNext, PTL DEF LaunchSpec

(* The types of the windows, their files and the game.                     *)
THEOREM LaunchTypes == LaunchSpec => []LaunchTypeOK
<1>1. LaunchInv => LaunchTypeOK
  BY DEF LaunchInv, WindowsOK, FilesOK, LaunchTypeOK, Position, GameOf
<1> QED
  BY <1>1, LaunchInvAlways, PTL

(* Games find a window that runs.                                          *)
THEOREM RunsReachableCorrect == LaunchSpec => []RunsReachable
<1>1. LaunchInv => RunsReachable
  BY DEF LaunchInv, Undisturbed, Way, RunsReachable, Runs, WindowAt
<1> QED
  BY <1>1, LaunchInvAlways, PTL

(* What dead windows have left locks nobody out.                           *)
THEOREM NotLockedOutCorrect == LaunchSpec => NotLockedOut
<1>1. ASSUME LaunchInv, LaunchNext, NEW n \in DOMAIN window,
             window[n] # "refused", window'[n] = "refused", n \notin crossed
      PROVE  \E other \in DOMAIN window \ {n} : Exists(other)
  <2>1. Way(n)
    BY <1>1 DEF LaunchInv, Undisturbed
  <2>2. window \in Seq(Position) /\ DOMAIN window = 1 .. Len(window)
    BY <1>1, LenProperties DEF LaunchInv, WindowsOK
  <2>3. ASSUME NEW m \in DOMAIN window, NEW pc, window' = [window EXCEPT ![m] = pc], pc # "refused"
        PROVE  FALSE
    BY <1>1, <2>3
  <2>4. ~LaunchesWindow
    <3>1. LaunchesWindow => window' = Append(window, "check")
      BY DEF LaunchesWindow
    <3>2. "check" \in Position
      BY DEF Position, Launching
    <3> QED
      BY <1>1, <2>2, <3>1, <3>2, AppendProperties
  <2>5. window' # window
    BY <1>1
  <2>6. PICK m \in DOMAIN window : ChecksSocket(m) \/ RemovesSocket(m) \/ BindsSocket(m)
    <3>1. /\ \A m \in DOMAIN window : ~StopsListening(m)
          /\ ~FindsConfig /\ ~Dials
      BY <2>5 DEF StopsListening, FindsConfig, Dials
    <3>2. ASSUME NEW m \in DOMAIN window
          PROVE  /\ ~ListensForHooks(m) /\ ~TruncatesConfig(m)
                 /\ ~WritesConfig(m) /\ ~ConfigFails(m) /\ ~LoadsSettings(m)
                 /\ ~ChangesSettings(m) /\ ~WritesSettings(m) /\ ~SaveFails(m)
                 /\ ~ClosesWindow(m) /\ ~UnlinksSocket(m) /\ ~LaunchFails(m)
                 /\ ~WindowDies(m)
      BY <2>3, <2>5
         DEF WindowGoes, ListensForHooks, LaunchFails, TruncatesConfig, WritesConfig, ConfigFails,
             LoadsSettings, ChangesSettings, WritesSettings, SaveFails, ClosesWindow,
             UnlinksSocket, WindowDies
    <3> QED
      BY <1>1, <2>4, <3>1, <3>2 DEF LaunchNext
  <2>7. m = n
    BY <1>1, <2>6 DEF ChecksSocket, RemovesSocket, BindsSocket, WindowGoes
  <2>8. ChecksSocket(n) /\ socket \in listening
    <3>1. ~RemovesSocket(n)
      BY <1>1, <2>1, <2>2 DEF RemovesSocket, WindowAt, WindowGoes, Way
    <3>2. ~BindsSocket(n)
      BY <1>1, <2>1, <2>2 DEF BindsSocket, WindowAt, WindowGoes, Way
    <3>3. ChecksSocket(n)
      BY <2>6, <2>7, <3>1, <3>2
    <3>4. AfterCheck = "refused"
      BY <1>1, <3>3 DEF ChecksSocket, WindowGoes
    <3> QED
      BY <3>3, <3>4 DEF AfterCheck, Answers
  <2>9. /\ socket \in DOMAIN window /\ window[socket] \in Hears /\ window[n] = "check"
    BY <1>1, <2>8 DEF ChecksSocket, WindowAt, LaunchInv, WindowsOK
  <2> QED
    BY <2>9 DEF Hears, Exists
<1>2. LaunchInv /\ [LaunchNext]_launchVars =>
        [\A n \in DOMAIN window :
           window[n] # "refused" /\ window'[n] = "refused" /\ n \notin crossed =>
             \E other \in DOMAIN window \ {n} : Exists(other)]_launchVars
  BY <1>1
<1> QED
  BY <1>2, LaunchInvInit, LaunchInvNext, PTL DEF LaunchSpec, NotLockedOut

(* A window begins with what was saved last.                               *)
THEOREM SettingsKeptCorrect == LaunchSpec => SettingsKept
<1>1. ASSUME LaunchInv, LaunchNext, NEW n \in DOMAIN window,
             window[n] = "load", window'[n] = "run", n \notin crossed
      PROVE  kept \in {settings'[n], Unreadable}
  <2>1. window \in Seq(Position) /\ DOMAIN window = 1 .. Len(window)
    BY <1>1, LenProperties DEF LaunchInv, WindowsOK
  <2>2. LoadsSettings(n)
    <3>1. ~LaunchesWindow
      <4>1. LaunchesWindow => window' = Append(window, "check")
        BY DEF LaunchesWindow
      <4>2. "check" \in Position
        BY DEF Position, Launching
      <4> QED
        BY <1>1, <2>1, <4>1, <4>2, AppendProperties
    <3>2. ASSUME NEW m \in DOMAIN window, NEW pc, window' = [window EXCEPT ![m] = pc]
          PROVE  m = n /\ pc = "run"
      BY <1>1, <3>2
    <3>3. window' # window
      BY <1>1
    <3>4. /\ \A m \in DOMAIN window : ~StopsListening(m)
          /\ ~FindsConfig /\ ~Dials
      BY <3>3 DEF StopsListening, FindsConfig, Dials
    <3>5. ASSUME NEW m \in DOMAIN window
          PROVE  /\ ~ChecksSocket(m) /\ ~RemovesSocket(m) /\ ~BindsSocket(m)
                 /\ ~ListensForHooks(m) /\ ~TruncatesConfig(m)
                 /\ ~WritesConfig(m) /\ ~ConfigFails(m)
                 /\ ~ChangesSettings(m) /\ ~WritesSettings(m) /\ ~SaveFails(m)
                 /\ ~ClosesWindow(m) /\ ~UnlinksSocket(m) /\ ~LaunchFails(m)
                 /\ ~WindowDies(m)
      BY <1>1, <3>2, <3>3
         DEF WindowGoes, WindowAt, ChecksSocket, RemovesSocket, BindsSocket, ListensForHooks,
             LaunchFails, TruncatesConfig, WritesConfig, ConfigFails, ChangesSettings,
             WritesSettings, SaveFails, ClosesWindow, UnlinksSocket, WindowDies
    <3>6. PICK m \in DOMAIN window : LoadsSettings(m)
      BY <1>1, <3>1, <3>4, <3>5 DEF LaunchNext
    <3> QED
      BY <3>2, <3>6 DEF LoadsSettings, WindowGoes
  <2>3. settings'[n] = Loaded
    BY <2>2 DEF LoadsSettings
  <2>4. \A m \in DOMAIN window : window[m] # "save"
    <3>1. Company(n)
      BY <1>1 DEF LaunchInv, Undisturbed
    <3>2. \A m \in DOMAIN window \ {n} : ~Exists(m)
      BY <1>1, <3>1 DEF Company, Started
    <3> QED
      BY <1>1, <3>2 DEF Exists
  <2> QED
    BY <1>1, <2>3, <2>4 DEF LaunchInv, SavedOK
<1>2. LaunchInv /\ [LaunchNext]_launchVars =>
        [\A n \in DOMAIN window :
           window[n] = "load" /\ window'[n] = "run" /\ n \notin crossed =>
             kept \in {settings'[n], Unreadable}]_launchVars
  BY <1>1
<1> QED
  BY <1>2, LaunchInvInit, LaunchInvNext, PTL DEF LaunchSpec, SettingsKept

-----------------------------------------------------------------------------
(* The two together                                                        *)

(* A behaviour that follows one of the two stutters for the other.         *)
LEMMA FollowsBoth == PartSpec => Spec /\ LaunchSpec
<1>1. PartInit => Init /\ LaunchInit
  BY DEF PartInit
<1>2. [PartNext]_partVars => [Next]_vars /\ [LaunchNext]_launchVars
  BY DEF PartNext, partVars
<1> QED
  BY <1>1, <1>2, PTL DEF PartSpec, Spec, LaunchSpec

(* Both keep their types, whichever a behaviour follows.                   *)
THEOREM PartTypes == PartSpec => []PartTypeOK
<1>1. TypeOK /\ LaunchTypeOK => PartTypeOK
  BY DEF PartTypeOK
<1> QED
  BY <1>1, FollowsBoth, HostTypes, LaunchTypes, PTL
=============================================================================
