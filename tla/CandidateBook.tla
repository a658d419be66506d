--------------------------- MODULE CandidateBook ---------------------------
(***************************************************************************)
(* The book of the injected library: the places that draw text, up to a    *)
(* limit, with an identifier that is new on every connection.  HookHost    *)
(* follows what is announced and enabled through the service; here are the *)
(* identifiers, and what happens at the limit.                             *)
(***************************************************************************)
EXTENDS Naturals, FiniteSets

CONSTANTS
  Place,        \* stable keys
  BookLimit,    \* MAX_CANDIDATES
  MaxIds        \* bound: identifiers made in a run

ASSUME BookAssumption == BookLimit \in Nat \ {0} /\ MaxIds \in Nat

VARIABLES
  candidates,   \* per known place, the identifier and whether it was advertised
  enabled,      \* identifiers the host enabled
  linked,       \* a connection is served
  broken,       \* a write to it has failed, which the next read will find
  sentIds,      \* identifiers the host was told of on this connection
  ids           \* identifiers made so far

bookVars == <<candidates, enabled, linked, broken, sentIds, ids>>

Known == DOMAIN candidates
IdsOfBook == {candidates[p].id : p \in Known}

BookTypeOK ==
  /\ Known \subseteq Place /\ Cardinality(Known) <= BookLimit
  /\ \A p \in Known : candidates[p] \in [id : 1 .. ids, advertised : BOOLEAN]
  /\ enabled \subseteq 1 .. ids /\ sentIds \subseteq 1 .. ids
  /\ ids <= MaxIds /\ broken \in BOOLEAN

BookInit ==
  /\ candidates = <<>> /\ enabled = {} /\ linked = FALSE /\ broken = FALSE
  /\ sentIds = {} /\ ids = 0

(* Mutant: what was advertised before stays so under its new identifier.   *)
Renewed_StaysAdvertised(place, id) ==
  [id |-> id, advertised |-> candidates[place].advertised]

Renewed(place, id) == [id |-> id, advertised |-> FALSE]

(* reset_connection after the hello, then advertisements.  All are taken   *)
(* for advertised; if the write of one fails the rest is not sent, and the *)
(* connection is served until a read fails too.                            *)
Reconnects ==
  /\ ~linked /\ ids + Cardinality(Known) <= MaxIds
  /\ LET number == CHOOSE f \in [Known -> ids + 1 .. ids + Cardinality(Known)] :
                     \A p, q \in Known : f[p] = f[q] => p = q
         fresh == [p \in Known |-> Renewed(p, number[p])]
         unannounced == {fresh[p].id : p \in {q \in Known : ~fresh[q].advertised}}
     IN  /\ candidates' = [p \in Known |-> [fresh[p] EXCEPT !.advertised = TRUE]]
         /\ \E sent \in SUBSET unannounced :
              sentIds' = sent /\ broken' = (sent # unannounced)
  /\ ids' = ids + Cardinality(Known)
  /\ linked' = TRUE /\ enabled' = {}

(* An error, the end of the stream or a Shutdown: disable_all.             *)
Unlinks ==
  /\ linked
  /\ linked' = FALSE /\ broken' = FALSE /\ enabled' = {} /\ sentIds' = {}
  /\ UNCHANGED <<candidates, ids>>

(* set_enabled, with an identifier the host has learned.                   *)
SetsEnabled(id) ==
  /\ linked /\ id \in sentIds
  /\ enabled' \in {enabled \cup {id}, enabled \ {id}}
  /\ UNCHANGED <<candidates, linked, broken, sentIds, ids>>

HasRoom == Cardinality(Known) < BookLimit

(* observe of a new place, if the book has room for it.                    *)
AddsPlace(place) ==
  /\ linked /\ place \notin Known /\ ids < MaxIds
  /\ HasRoom
  /\ ids' = ids + 1
  /\ candidates' = [p \in Known \cup {place} |->
                      IF p = place THEN [id |-> ids + 1, advertised |-> TRUE]
                      ELSE candidates[p]]

(* It is advertised at once.                                               *)
ObservesNew(place) ==
  /\ AddsPlace(place) /\ ~broken
  /\ sentIds' = sentIds \cup {ids + 1}
  /\ UNCHANGED <<enabled, linked, broken>>

(* The write fails: the place stays in the book, the connection ends.      *)
ObservationFails(place) ==
  /\ AddsPlace(place)
  /\ linked' = FALSE /\ broken' = FALSE /\ enabled' = {} /\ sentIds' = {}

BookNext ==
  \/ Reconnects \/ Unlinks
  \/ \E id \in 1 .. MaxIds : SetsEnabled(id)
  \/ \E place \in Place : ObservesNew(place) \/ ObservationFails(place)

-----------------------------------------------------------------------------
(* Properties                                                              *)

(* On every connection that is not broken the host is told of every place  *)
(* the book knows, under the identifier it can be enabled with, and never  *)
(* of another; and what it has enabled stays in the book, however many     *)
(* other places appear.  What an earlier connection failed to advertise is *)
(* made up for.                                                            *)
KnownAnnounced ==
  /\ linked /\ ~broken => sentIds = IdsOfBook
  /\ sentIds \cup enabled \subseteq IdsOfBook
=============================================================================
