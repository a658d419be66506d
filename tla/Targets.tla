------------------------------ MODULE Targets ------------------------------
(***************************************************************************)
(* The drop-downs of the control window for native applications and Wine   *)
(* targets: lists that are read on other threads and replace each other    *)
(* while choices are made from them; the accessibility listener, which     *)
(* forwards the text of the application the window selected; and the       *)
(* attachment to a Wine target, which finds the process once more by its   *)
(* executable.  A program is a number (bus name, process id) and what runs *)
(* under it; process ids are used again.  The two lists share nothing: a   *)
(* behaviour follows one.                                                  *)
(***************************************************************************)
EXTENDS Naturals, Sequences, FiniteSets, SequencesExt

CONSTANTS
  Program,     \* <<number, executable>> pairs that may run, for both lists
  Nothing,
  MaxAnswers,  \* bound: lists under way
  MaxPicks,    \* bound: choices whose message is queued
  MaxTexts     \* bound: texts queued by the listener

ASSUME TargetsAssumption ==
  /\ Program \subseteq Nat \X STRING /\ Nothing \notin Program
  /\ {MaxAnswers, MaxPicks, MaxTexts} \subseteq Nat

NumberOf(program) == program[1]
ExecutableOf(program) == program[2]

VARIABLES
  menu,        \* the list followed: "native" or "wine"
  alive,       \* the programs that run
  answers,     \* the outcomes of listing that wait: lists, or <<Nothing>> for a failure
  listed,      \* native_applications or wine_targets
  choice,      \* the index of the one that is selected, or 0
  messages,    \* the selections that wait, in order
  forwarded,   \* selected_application of the listener, or Nothing
  passing,     \* the text it lets pass and has not sent yet: its application, or Nothing
  heard,       \* the texts it sent and the window has not taken: their applications
  attaching,   \* the attachment under way
  picked       \* history: what the user picked by the last selection that was handled,
               \* or Nothing if a list came in between

targetVars == <<menu, alive, answers, listed, choice, messages, forwarded, passing, heard,
                attaching, picked>>

Idle == [step |-> "idle", target |-> Nothing, found |-> Nothing, for |-> Nothing]
Chosen == IF choice = 0 THEN Nothing ELSE listed[choice]

TargetsTypeOK ==
  /\ alive \subseteq Program
  /\ Len(answers) <= MaxAnswers /\ choice \in 0 .. Len(listed)
  /\ Len(messages) <= MaxPicks /\ Len(heard) <= MaxTexts
  /\ {picked, forwarded, passing} \subseteq Program \cup {Nothing}
  /\ attaching.step \in {"idle", "find", "open"}

TargetsInit ==
  /\ menu \in {"native", "wine"} /\ alive = {}
  /\ answers = <<>> /\ listed = <<>> /\ choice = 0
  /\ messages = <<>> /\ forwarded = Nothing /\ passing = Nothing /\ heard = <<>>
  /\ attaching = Idle /\ picked = Nothing

Menu == <<menu, listed, choice, picked>>
Listener == <<forwarded, passing, heard>>

(* A bus name is not given to another application, as a process id is.     *)
Owns(program) ==
  menu = "native" =>
    program = CHOOSE p \in Program : NumberOf(p) = NumberOf(program)

ProgramStarts(program) ==
  /\ Owns(program)
  /\ \A other \in alive : NumberOf(other) # NumberOf(program)
  /\ alive' = alive \cup {program}
  /\ UNCHANGED <<Menu, answers, messages, Listener, attaching>>

ProgramEnds(program) ==
  /\ program \in alive
  /\ alive' = alive \ {program}
  /\ UNCHANGED <<Menu, answers, messages, Listener, attaching>>

-----------------------------------------------------------------------------
(* The lists                                                               *)

(* Each program once, in an order of their own: the code's is by name,     *)
(* here it is that of the numbers.                                         *)
SortedLists(programs) ==
  {list \in [1 .. Cardinality(programs) -> programs] :
     \A i, j \in DOMAIN list : i < j => NumberOf(list[i]) < NumberOf(list[j])}

(* RefreshNativeApplications, RefreshWineTargets: the list is read on      *)
(* another thread, and reading it may fail.                                *)
ListsPrograms ==
  /\ Len(answers) < MaxAnswers
  /\ \E answer \in SortedLists(alive) \cup {<<Nothing>>} : answers' = Append(answers, answer)
  /\ UNCHANGED <<Menu, alive, messages, Listener, attaching>>

(* Mutant: the index is kept, not what it stood for.                       *)
Relocated_SameIndex(list) == IF choice \in DOMAIN list THEN choice ELSE 0

(* The index in a new list of what is selected in the old one.             *)
Relocated(list) ==
  IF \E i \in DOMAIN list : list[i] = Chosen
  THEN CHOOSE i \in DOMAIN list : list[i] = Chosen
  ELSE 0

(* Mutant: the listener is not told that the application is gone.          *)
ForwardedFor_Same(index) == forwarded

ForwardedFor(index) == IF menu = "native" /\ index = 0 THEN Nothing ELSE forwarded

(* The answers come in the order in which the threads end.  What is picked *)
(* from the old list is not vouched for.                                   *)
ReceivesList(n) ==
  LET list == IF answers[n] = <<Nothing>> THEN <<>> ELSE answers[n] IN
  /\ answers' = RemoveAt(answers, n)
  /\ listed' = list
  /\ choice' = Relocated(list)
  /\ forwarded' = ForwardedFor(Relocated(list))
  /\ messages' = [i \in DOMAIN messages |-> [messages[i] EXCEPT !.entry = Nothing]]
  /\ UNCHANGED <<menu, picked, alive, passing, heard, attaching>>

(* The user picks an entry of the list that is shown; position 0 is the    *)
(* placeholder.                                                            *)
Picks(position) ==
  /\ Len(messages) < MaxPicks
  /\ messages' = Append(messages,
       [position |-> position, entry |-> IF position = 0 THEN Nothing ELSE listed[position]])
  /\ UNCHANGED <<Menu, alive, answers, Listener, attaching>>

IndexOf(position) == IF position \in DOMAIN listed THEN position ELSE 0

(* NativeApplicationSelected, WineTargetSelected                           *)
Selects ==
  LET pick == Head(messages)
      index == IndexOf(pick.position)
  IN
  /\ messages # <<>>
  /\ messages' = Tail(messages)
  /\ choice' = index
  /\ forwarded' = IF menu = "native" /\ index # 0 THEN listed[index] ELSE Nothing
  /\ picked' = pick.entry
  /\ UNCHANGED <<menu, alive, answers, listed, passing, heard, attaching>>

-----------------------------------------------------------------------------
(* The accessibility listener reads the selection, lets the lock go and    *)
(* then sends the text: the window may select something else in between.   *)
(* It takes what is queued, whichever application is selected by then.     *)

LetsPass(program) == menu = "native" /\ program = forwarded

TextChanges(program) ==
  /\ program \in alive /\ passing = Nothing /\ LetsPass(program)
  /\ passing' = program
  /\ UNCHANGED <<Menu, alive, answers, messages, forwarded, heard, attaching>>

SendsText ==
  /\ passing # Nothing /\ Len(heard) < MaxTexts
  /\ heard' = Append(heard, passing) /\ passing' = Nothing
  /\ UNCHANGED <<Menu, alive, answers, messages, forwarded, attaching>>

HearsText ==
  /\ heard # <<>>
  /\ heard' = Tail(heard)
  /\ UNCHANGED <<Menu, alive, answers, messages, forwarded, passing, attaching>>

-----------------------------------------------------------------------------
(* AttachWineTarget                                                        *)

Attaches ==
  /\ menu = "wine" /\ attaching = Idle /\ choice # 0
  /\ attaching' = [step |-> "find", target |-> Chosen, found |-> Nothing, for |-> picked]
  /\ UNCHANGED <<Menu, alive, answers, messages, Listener>>

(* attach_wine_target: an artifact is missing, or the injector cannot be   *)
(* started or ends with an error of its own.                               *)
FailsToAttach ==
  /\ attaching # Idle
  /\ attaching' = Idle
  /\ UNCHANGED <<Menu, alive, answers, messages, Listener>>

Matching(target) == {p \in alive : ExecutableOf(p) = ExecutableOf(target)}

(* find_process_id: the one process that runs the executable; with none or *)
(* several the injector ends.                                              *)
FindsProcess ==
  LET found == Matching(attaching.target) IN
  /\ attaching.step = "find"
  /\ attaching' = IF Cardinality(found) # 1 THEN Idle
                  ELSE [attaching EXCEPT !.step = "open", !.found = CHOOSE p \in found : TRUE]
  /\ UNCHANGED <<Menu, alive, answers, messages, Listener>>

(* inject: whatever has that number by now is opened and injected.         *)
Injects ==
  /\ attaching.step = "open"
  /\ attaching' = Idle
  /\ UNCHANGED <<Menu, alive, answers, messages, Listener>>

TargetsNext ==
  \/ \E program \in Program :
       ProgramStarts(program) \/ ProgramEnds(program) \/ TextChanges(program)
  \/ ListsPrograms
  \/ \E n \in DOMAIN answers : ReceivesList(n)
  \/ \E position \in 0 .. Len(listed) : Picks(position)
  \/ Selects \/ SendsText \/ HearsText \/ Attaches \/ FailsToAttach \/ FindsProcess \/ Injects

-----------------------------------------------------------------------------
(* Properties                                                              *)

(* When the listener reads the selection, it lets a text pass only if the  *)
(* window shows its application as the selected one, and that is the one   *)
(* the user picked, unless the list had changed under the choice.  Lists   *)
(* that come late, fail or no longer have the application do not leave the *)
(* listener behind.  (The text in its hand may still be sent after another *)
(* application is selected.)                                               *)
HearsChosen ==
  [][passing' # passing /\ passing' # Nothing =>
       passing' = Chosen /\ picked \in {passing', Nothing}]_targetVars

(* The process that is found for injection runs what the user picked,      *)
(* although lists and processes come and go meanwhile, unless the list had *)
(* changed under the choice.  (Its number may pass to another process      *)
(* before it is opened.)                                                   *)
FindsPicked ==
  attaching.step = "open" /\ attaching.for # Nothing =>
    ExecutableOf(attaching.found) = ExecutableOf(attaching.for)
=============================================================================
