----------------------- MODULE MCWebSocketConnection -----------------------
(***************************************************************************)
(* Numbers of messages for WebSocketConnection.  Two messages are needed   *)
(* to skip one; only the client lingers, where a signal can throw it out   *)
(* of close, so that the server is the one to send them.                   *)
(***************************************************************************)
EXTENDS WebSocketConnection

One == [e \in Endpoint |-> 1]

TwoFromServer == [e \in Endpoint |-> IF e = "server" THEN 2 ELSE 1]
=============================================================================
