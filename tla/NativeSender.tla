---------------------------- MODULE NativeSender ----------------------------
(***************************************************************************)
(* The sender loop of the preloaded library: it takes observations from a  *)
(* bounded queue, announces their call sites, and holds every text of an   *)
(* enabled one back for a moment, so that a text which several libraries   *)
(* draw, or which is drawn in every frame, is sent once and for the best   *)
(* of them.  HookHost has the service it talks to.                         *)
(*                                                                         *)
(* Time is counted in ticks since a text was held and since one was sent,  *)
(* up to Window; texts held for longer count as equally old.               *)
(***************************************************************************)
EXTENDS Naturals, Sequences, FiniteSets

CONSTANTS
  Callsite,       \* where texts are drawn, each with an adapter
  Rank,           \* the priority of the adapter of each
  Text,
  QueueSize,      \* OBSERVATION_QUEUE
  MaxCandidates,  \* the limit of that name
  MaxPending,     \* MAX_PENDING_EVENTS
  Window          \* DEDUP_WINDOW in ticks

ASSUME NativeSenderAssumption ==
  /\ Rank \in [Callsite -> Nat]
  /\ {QueueSize, MaxPending, Window} \subseteq Nat \ {0} /\ MaxCandidates \in Nat

VARIABLES
  observed,   \* the queue: pairs of a call site and a text
  at,         \* "away" without a connection, else where in the loop
  announced,  \* the call sites announced on this connection
  wanted,     \* those that are enabled
  held,       \* per text, <<>> or the call site it is held for
  age,        \* per text, ticks since it was held
  due,        \* the texts found ready in this turn of the loop
  drawn,      \* history: call sites that offered a text since it was sent
  quiet       \* history: per text, ticks since it was sent

senderVars == <<observed, at, announced, wanted, held, age, due, drawn, quiet>>

Held == {x \in Text : held[x] # <<>>}

SenderTypeOK ==
  /\ observed \in Seq(Callsite \X Text) /\ Len(observed) <= QueueSize
  /\ at \in {"away", "read", "take", "flush", "send"}
  /\ wanted \subseteq announced /\ announced \subseteq Callsite
  /\ Cardinality(announced) <= MaxCandidates
  /\ held \in [Text -> {<<>>} \cup Seq(Callsite)] /\ Cardinality(Held) <= MaxPending
  /\ age \in [Text -> 0 .. Window]
  /\ due \subseteq Held
  /\ drawn \in [Text -> SUBSET Callsite]
  /\ quiet \in [Text -> 0 .. Window]

NothingHeld ==
  /\ held' = [x \in Text |-> <<>>] /\ age' = [x \in Text |-> 0]
  /\ drawn' = [x \in Text |-> {}] /\ due' = {}

SenderInit ==
  /\ observed = <<>> /\ at = "away" /\ announced = {} /\ wanted = {}
  /\ held = [x \in Text |-> <<>>] /\ age = [x \in Text |-> 0]
  /\ drawn = [x \in Text |-> {}] /\ due = {}
  /\ quiet = [x \in Text |-> Window]

(* The game draws a text; a full queue takes nothing.                      *)
Draws(s, x) ==
  /\ Len(observed) < QueueSize
  /\ observed' = Append(observed, <<s, x>>)
  /\ UNCHANGED <<at, announced, wanted, held, age, due, drawn, quiet>>

(* A tick of the clock.                                                    *)
Older(t) == IF t < Window THEN t + 1 ELSE t
Ticks ==
  /\ age' = [x \in Text |-> IF x \in Held THEN Older(age[x]) ELSE 0]
  /\ quiet' = [x \in Text |-> Older(quiet[x])]
  /\ UNCHANGED <<observed, at, announced, wanted, held, due, drawn>>

(* A connection, up to its welcome; it starts with empty tables.           *)
GetsThrough ==
  /\ at = "away"
  /\ at' = "read" /\ announced' = {} /\ wanted' = {}
  /\ NothingHeld
  /\ UNCHANGED <<observed, quiet>>

(* The connection is lost, or a Shutdown is taken for its loss.            *)
Drops ==
  /\ at # "away"
  /\ at' = "away" /\ announced' = {} /\ wanted' = {}
  /\ NothingHeld
  /\ UNCHANGED <<observed, quiet>>

(* Messages are read ...                                                   *)
Reads ==
  /\ at = "read"
  /\ \E s \in announced : wanted' \in {wanted \cup {s}, wanted \ {s}}
  /\ UNCHANGED <<observed, at, announced, held, age, due, drawn, quiet>>

(* ... until none arrives in time.                                         *)
ReadsTimeout ==
  /\ at = "read"
  /\ at' = "take"
  /\ UNCHANGED <<observed, announced, wanted, held, age, due, drawn, quiet>>

(* Mutant: a text that is drawn again replaces the one that waits.         *)
Replaces_OnTie(s, x) == held[x] = <<>> \/ Rank[s] >= Rank[held[x][1]]

(* Mutant: what is held first stays.                                       *)
Replaces_Never(s, x) == held[x] = <<>>

(* Whether a text takes the place of what is held: it must come from a     *)
(* better adapter, so that drawing it again does not delay it.             *)
Replaces(s, x) == held[x] = <<>> \/ Rank[s] > Rank[held[x][1]]

(* Whom a new text displaces when no more can be held: the oldest, in the  *)
(* order of a hash map when several are equally old.                       *)
Displaced(x) ==
  IF held[x] # <<>> \/ Cardinality(Held) < MaxPending THEN {{}}
  ELSE {{y} : y \in {z \in Held : \A other \in Held : age[z] >= age[other]}}

Holds(s, x) ==
  \E gone \in Displaced(x) :
    /\ held' = [y \in Text |-> IF y = x THEN <<s>> ELSE IF y \in gone THEN <<>> ELSE held[y]]
    /\ age' = [y \in Text |-> IF y \in gone \cup {x} THEN 0 ELSE age[y]]
    /\ drawn' = [y \in Text |-> IF y = x THEN drawn[y] \cup {s}
                                ELSE IF y \in gone THEN {} ELSE drawn[y]]

(* An observation is taken.  Its call site is announced when it is new; a  *)
(* call site beyond the limit ends this turn of the loop at once.          *)
Takes ==
  /\ at = "take" /\ observed # <<>>
  /\ observed' = Tail(observed)
  /\ LET s == Head(observed)[1]
         x == Head(observed)[2]
     IN  IF s \notin announced /\ Cardinality(announced) >= MaxCandidates
         THEN at' = "read" /\ UNCHANGED <<announced, held, age, drawn>>
         ELSE /\ at' = "flush"
              /\ announced' = announced \cup {s}
              /\ IF s \in wanted /\ Replaces(s, x) THEN Holds(s, x)
                 ELSE /\ drawn' = [drawn EXCEPT ![x] = IF s \in wanted THEN @ \cup {s} ELSE @]
                      /\ UNCHANGED <<held, age>>
  /\ UNCHANGED <<wanted, due, quiet>>

TakesNothing ==
  /\ at = "take" /\ observed = <<>>
  /\ at' = "flush"
  /\ UNCHANGED <<observed, announced, wanted, held, age, due, drawn, quiet>>

(* What has been held for long enough is found at one time ...             *)
Flushes ==
  /\ at = "flush"
  /\ due' = {x \in Held : age[x] >= Window}
  /\ at' = "send"
  /\ UNCHANGED <<observed, announced, wanted, held, age, drawn, quiet>>

(* Mutant: a text that is sent is still held.                              *)
Released_No(x) == held

Released(x) == [held EXCEPT ![x] = <<>>]

(* ... and sent in the order of a hash map.                                *)
Sends ==
  /\ at = "send"
  /\ \E x \in due :
       /\ due' = due \ {x}
       /\ held' = Released(x)
       /\ age' = [age EXCEPT ![x] = IF Released(x)[x] = <<>> THEN 0 ELSE @]
       /\ drawn' = [drawn EXCEPT ![x] = {}]
       /\ quiet' = [quiet EXCEPT ![x] = 0]
  /\ UNCHANGED <<observed, at, announced, wanted>>

SentAll ==
  /\ at = "send" /\ due = {}
  /\ at' = "read"
  /\ UNCHANGED <<observed, announced, wanted, held, age, due, drawn, quiet>>

Loop == ReadsTimeout \/ Takes \/ TakesNothing \/ Flushes \/ Sends \/ SentAll

SenderNext ==
  \/ \E s \in Callsite, x \in Text : Draws(s, x)
  \/ Ticks \/ GetsThrough \/ Drops \/ Reads \/ Loop

-----------------------------------------------------------------------------
(* Properties                                                              *)

(* However often and by however many libraries a text is drawn, and        *)
(* whatever connections are lost in between, it is not sent twice within   *)
(* the window.                                                             *)
SentApart == \A x \in due : quiet[x] = Window

(* A text waits for the best of the enabled call sites that drew it since  *)
(* it was last sent or displaced, in whatever order they did.              *)
BestHeld == \A x \in Held : \A s \in drawn[x] : Rank[held[x][1]] >= Rank[s]

(* A text that is held leaves, however often it is drawn meanwhile.  Only  *)
(* a full table of call sites can keep it: each observation of yet another *)
(* one ends the turn of the loop before anything is sent.                  *)
HeldLeaves ==
  \A x \in Text :
    x \in Held ~> (x \notin Held \/ Cardinality(announced) = MaxCandidates)
=============================================================================
