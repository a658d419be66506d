--------------------------- MODULE MCTurnPipeline ---------------------------
(* TurnPipeline on small instances.  Branch 1 is main, 0 is a name a user  *)
(* gives, 2 and 3 are resume branches.                                     *)
EXTENDS TurnPipeline, TLC

Shown1(id, x) == [id |-> id, sig |-> <<1, x>> :> 1]
Struct(id) == [id |-> id, sig |-> Structural]
Lost(id) == [id |-> id, sig |-> Unreadable]

Only(main) == [b \in Branch |-> IF b = Main THEN main ELSE <<>>]
Forked(main, fork) ==
  [b \in Branch |-> CASE b = Main -> main [] b = 2 -> fork [] OTHER -> <<>>]
Of(h) == [g \in Game |-> IF g = Default THEN Only(<<Root>>) ELSE h]

(* No history of any game yet.                                             *)
Fresh == {Of(Only(<<>>))}
(* A game that showed x, y, x with a scratchpad edit, and once x, x.       *)
Played ==
  {Of(Forked(<<Root, Shown1(1, "x"), Struct(2), Shown1(3, "y"), Shown1(4, "x")>>,
             <<Root, Shown1(1, "x"), Struct(2), Shown1(5, "x")>>))}
(* The same with two hooks in the place of two texts, and with a turn in   *)
(* which both were new; or one turn of the history has lost its payload,   *)
(* between two that are found in a row all the same.                       *)
New(id, hooks) == [id |-> id, sig |-> [p \in hooks \X {"x"} |-> 1]]
PlayedByTwo ==
  {Of(Forked(<<Root, New(1, {1}), Struct(2), New(3, {2}), New(4, {1, 2})>>,
             <<Root, New(1, {1}), Struct(2), New(5, {1})>>)),
   Of(Only(<<Root, New(1, {1}), Lost(2), New(3, {2}), New(4, {1})>>))}

On1 == [enabled |-> TRUE, post |-> FALSE]
EnabledHooks == {On1}
KnownHooks == {None, On1, [enabled |-> FALSE, post |-> FALSE]}

OneGame == [s \in Source |-> CHOOSE g \in Game : g # Default]
EveryHook == [s \in Source |-> Hook]
TwoHooks == [s \in Source |-> IF s = 1 THEN Hook ELSE {1}]
TwoGames == [s \in Source |-> IF s = 1 THEN 1 ELSE 2]
============================================================================
