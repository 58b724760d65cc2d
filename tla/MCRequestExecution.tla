------------------------ MODULE MCRequestExecution --------------------------
(* Small instances of request execution for TLC. *)
EXTENDS RequestExecution

\* One credential with the model itself, one with a pool of two upstream models.
OneAndPool == (1 :> <<"m">>) @@ (2 :> <<"u", "v">>)
Patience == (1 :> 1) @@ (2 :> 0)
=============================================================================
