----------------------------- MODULE MCTcpCoConn -----------------------------
(* Two jobs in turn; a read may bring more than a small CoReceive takes,     *)
(* fill the read buffer, or neither; a CoSend may be empty.                  *)
EXTENDS TcpCoConn

MCRecvSizes == {1, 2}
MCSendLens == {0, 5}
==============================================================================
