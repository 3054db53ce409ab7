----------------------------- MODULE MCKeyAdmin -----------------------------
(* Constants of the model-checking runs of KeyAdmin.                       *)
EXTENDS KeyAdmin, TLC

Symmetry == Permutations(Workers) \cup Permutations(Admins)
=============================================================================
