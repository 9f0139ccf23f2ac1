---------------------------- MODULE MCEchoServer ----------------------------
(* Three clients: one that Run still holds, one whose EchoRecv is its only   *)
(* holder, and one in the listen queue.                                      *)
EXTENDS EchoServer
==============================================================================
