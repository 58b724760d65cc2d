----------------------------- MODULE MCWsRelay ------------------------------
(* Small instances of the websocket relay for TLC. *)
EXTENDS WsRelay, TLC

Some == ("r" :> 2) @@ ("s" :> 1)
=============================================================================
