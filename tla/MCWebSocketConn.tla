--------------------------- MODULE MCWebSocketConn ---------------------------
(* One connection, as the server and as the client see it. *)
EXTENDS WebSocketConn
==============================================================================
