-------------------------- MODULE MCTcpCoAcceptConn --------------------------
(* Two coroutines share a connection; a read callback may bring more than   *)
(* a small CoReceive takes and less than a large one.                       *)
EXTENDS TcpCoAcceptConn

MCRecvSizes == {1, 3}
==============================================================================
