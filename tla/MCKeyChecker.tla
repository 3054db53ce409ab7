---------------------------- MODULE MCKeyChecker -----------------------------
(* Constants of the model-checking runs of KeyChecker.                     *)
EXTENDS KeyChecker
=============================================================================
