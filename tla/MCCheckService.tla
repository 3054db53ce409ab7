--------------------------- MODULE MCCheckService ----------------------------
(* Constants of the model-checking runs of CheckService.                   *)
EXTENDS CheckService
=============================================================================
