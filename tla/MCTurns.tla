------------------------------ MODULE MCTurns ------------------------------
(* Turns on small instances: the engine of a window translates; meanwhile  *)
(* its user edits the scratchpad, branches and merges.                     *)
EXTENDS Turns

Divided == [c \in Client |-> IF c = "engine" THEN {"turn"} ELSE {"edit", "branch", "merge"}]

(* Main has had a turn that changed all but perhaps the scratchpad, and a  *)
(* side branch one that noted something in its scratchpad.                 *)
Side == CHOOSE b \in Branch : b # Main
Noted == CHOOSE context \in Context :
           context[Scratchpad] # Empty /\ \A s \in Slot \ {Scratchpad} : context[s] = Empty
FirstTurn(context) ==
  [Commit(<<1>>, context) EXCEPT !.by = "turn", !.basis = 1,
                                 !.edit = EditOf(EmptyContext, context)]
Diverged ==
  {[commits |-> NewSession.commits \o <<FirstTurn(context), FirstTurn(Noted)>>,
    head    |-> (Main :> 2) @@ (Side :> 3)] :
     context \in {k \in Context : \A s \in Slot \ {Scratchpad} : k[s] # Empty}}
=============================================================================
