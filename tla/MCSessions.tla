----------------------------- MODULE MCSessions -----------------------------
(* Sessions on small instances: model values for commits and clients.      *)
EXTENDS Sessions, TLC

Symmetry == Permutations(CommitId) \cup Permutations(Client)
============================================================================
