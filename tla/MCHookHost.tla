----------------------------- MODULE MCHookHost -----------------------------
(* HookHost on small instances.                                            *)
EXTENDS HookHost, TLC

HookSymmetry == Permutations(Hook)
============================================================================
