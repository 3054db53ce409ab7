---------------------------- MODULE MCKeyWindow -----------------------------
(* Constants of the model-checking runs of KeyWindow.                      *)
EXTENDS KeyWindow, TLC

Symmetry == Permutations(Callers)
=============================================================================
