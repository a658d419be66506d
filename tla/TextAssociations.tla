-------------------------- MODULE TextAssociations --------------------------
(***************************************************************************)
(* Some text is drawn in two calls: one gives it to Uniscribe or           *)
(* DirectWrite, which returns an object, and one draws the object.  The    *)
(* detours of the first remember the text under the address of the object, *)
(* those of the second look it up.  Addresses are used again, and the      *)
(* tables are only touched when their lock is free.                        *)
(*                                                                         *)
(* An object is known by its number; its text is its own.                  *)
(***************************************************************************)
EXTENDS Naturals, FiniteSets, FiniteSetsExt

CONSTANTS
  Drawing,      \* threads of the game that draw
  Address,      \* where objects can be
  TableLimit,   \* MAX_ASSOCIATIONS, MAX_LAYOUTS
  MaxObjects    \* bound: objects made in a run

ASSUME AssociationsAssumption ==
  /\ Address \subseteq Nat \ {0}
  /\ TableLimit \in Nat \ {0} /\ MaxObjects \in Nat

(* An analysis of ScriptStringAnalyse, a glyph buffer of ScriptShape or an *)
(* IDWriteTextLayout.                                                      *)
Kind == {"analysis", "glyphs", "layout"}
Library(kind) == IF kind = "layout" THEN "directwrite" ELSE "uniscribe"
Table == {Library(kind) : kind \in Kind}

VARIABLES
  objects,      \* the objects made so far: their kind, address and whether they have text
  live,         \* those in use
  texts,        \* ASSOCIATIONS and LAYOUT_TEXT: from addresses to the object whose text it is
  doing,        \* per thread, the call whose detour it is in
  emitted,      \* history: the object that was last observed and the one whose text that was
  missed        \* history: objects whose association or removal found the lock taken

assocVars == <<objects, live, texts, doing, emitted, missed>>

Resting == [call |-> "none", object |-> 0]
Does(t, call, n) == doing' = [doing EXCEPT ![t] = [call |-> call, object |-> n]]
Rests(t) == doing' = [doing EXCEPT ![t] = Resting]
Busy(n) == \E t \in Drawing : doing[t].object = n
Of(t) == objects[doing[t].object]
TableOf(t) == Library(Of(t).kind)

AssocTypeOK ==
  /\ DOMAIN objects = 1 .. Cardinality(DOMAIN objects)
  /\ \A n \in DOMAIN objects :
       objects[n] \in [kind : Kind, address : Address, text : BOOLEAN]
  /\ live \subseteq DOMAIN objects
  /\ \A t \in Table :
       /\ DOMAIN texts[t] \subseteq Address /\ Cardinality(DOMAIN texts[t]) <= TableLimit
       /\ \A a \in DOMAIN texts[t] : texts[t][a] \in DOMAIN objects
  /\ \A t \in Drawing : doing[t].object \in DOMAIN objects \cup {0}
  /\ \A i \in 1 .. 2 : emitted[i] \in DOMAIN objects \cup {0}
  /\ missed \subseteq DOMAIN objects

AssocInit ==
  /\ objects = <<>> /\ live = {}
  /\ texts = [t \in Table |-> <<>>]
  /\ doing = [t \in Drawing |-> Resting]
  /\ emitted = <<0, 0>> /\ missed = {}

(* Whether try_lock can fail: another thread is in a detour of the table.  *)
Contended(t) ==
  \E other \in Drawing \ {t} : doing[other].call # "none" /\ TableOf(other) = TableOf(t)

-----------------------------------------------------------------------------
(* The game makes an object: the original function has returned it, at an  *)
(* address that is free; ScriptShape may fill a glyph buffer again.        *)
Makes(t, kind, a, text) ==
  LET n == Cardinality(DOMAIN objects) + 1
      here == {o \in live : objects[o].address = a}
  IN
  /\ doing[t] = Resting /\ n <= MaxObjects
  /\ \A o \in here : objects[o].kind = "glyphs" /\ kind = "glyphs" /\ ~Busy(o)
  /\ objects' = [o \in 1 .. n |-> IF o < n THEN objects[o]
                                  ELSE [kind |-> kind, address |-> a, text |-> text]]
  /\ live' = (live \ here) \cup {n}
  /\ IF text THEN Does(t, "associate", n) ELSE UNCHANGED doing
  /\ UNCHANGED <<texts, emitted, missed>>

(* associate: at the limit, the smallest address makes room.               *)
Associated(table, a, n) ==
  LET full == Cardinality(DOMAIN table) >= TableLimit /\ a \notin DOMAIN table
      kept == IF full THEN DOMAIN table \ {Min(DOMAIN table)} ELSE DOMAIN table
  IN  [b \in kept \cup {a} |-> IF b = a THEN n ELSE table[b]]

Associates(t) ==
  /\ doing[t].call = "associate"
  /\ texts' = [texts EXCEPT ![TableOf(t)] = Associated(@, Of(t).address, doing[t].object)]
  /\ Rests(t)
  /\ UNCHANGED <<objects, live, emitted, missed>>

(* The game draws an object.                                               *)
DrawsObject(t, n) ==
  /\ doing[t] = Resting /\ n \in live /\ ~Busy(n)
  /\ Does(t, "emit", n)
  /\ UNCHANGED <<objects, live, texts, emitted, missed>>

(* emit_association, draw_layout: the text of the address, if there is one *)
Emits(t) ==
  LET a == Of(t).address
      table == texts[TableOf(t)]
  IN
  /\ doing[t].call = "emit"
  /\ emitted' = IF a \in DOMAIN table THEN <<doing[t].object, table[a]>> ELSE emitted
  /\ Rests(t)
  /\ UNCHANGED <<objects, live, texts, missed>>

(* ScriptStringFree, or any way in which the memory of the others is freed *)
(* or used for something else: only the former has a detour.               *)
FreesObject(t, n) ==
  /\ doing[t] = Resting /\ n \in live /\ ~Busy(n)
  /\ live' = live \ {n}
  /\ IF objects[n].kind = "analysis" THEN Does(t, "remove", n) ELSE UNCHANGED doing
  /\ UNCHANGED <<objects, texts, emitted, missed>>

(* Mutant: the address is read after the original has cleared it.          *)
RemovedAddresses_Cleared(t) == {}

RemovedAddresses(t) == {Of(t).address}

Removes(t) ==
  /\ doing[t].call = "remove"
  /\ texts' = [texts EXCEPT ![TableOf(t)] =
                 [a \in DOMAIN @ \ RemovedAddresses(t) |-> @[a]]]
  /\ Rests(t)
  /\ UNCHANGED <<objects, live, emitted, missed>>

(* try_lock fails, and the detour goes on without the table.               *)
Misses(t) ==
  /\ doing[t].call # "none" /\ Contended(t)
  /\ missed' = IF doing[t].call = "emit" THEN missed ELSE missed \cup {doing[t].object}
  /\ Rests(t)
  /\ UNCHANGED <<objects, live, texts, emitted>>

AssocNext ==
  \E t \in Drawing :
    \/ \E kind \in Kind, a \in Address, text \in BOOLEAN : Makes(t, kind, a, text)
    \/ \E n \in live : DrawsObject(t, n) \/ FreesObject(t, n)
    \/ Associates(t) \/ Emits(t) \/ Removes(t) \/ Misses(t)

-----------------------------------------------------------------------------
(* Properties                                                              *)

(* Whatever is reused, evicted or freed meanwhile, an object that has a    *)
(* text is observed with it or not at all; and a freed analysis leaves no  *)
(* text with which another object that has none could be observed.  Either *)
(* may fail when the lock was taken, the latter also for a moment, before  *)
(* the detour of the release goes on.  (Layouts and glyph buffers do leave *)
(* their texts.)                                                           *)
ObservedOwnText ==
  /\ emitted[1] # 0 /\ objects[emitted[1]].text /\ emitted[1] \notin missed =>
       emitted[2] = emitted[1]
  /\ \A a \in DOMAIN texts["uniscribe"] :
       LET n == texts["uniscribe"][a]
       IN  objects[n].kind = "analysis" => n \in live \/ n \in missed \/ Busy(n)
=============================================================================
