--------------------------- MODULE MCKeySelection ---------------------------
(* Constants of the model-checking runs of KeySelection.                   *)
EXTENDS KeySelection, TLC
=============================================================================
