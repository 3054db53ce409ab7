------------------------------ MODULE MCGateway ------------------------------
(* Constants of the model-checking runs of Gateway.                        *)
EXTENDS Gateway, TLC

Symmetry == Permutations(Requests) \cup Permutations(Keys)

MCLadder == <<1>>
=============================================================================
