--------------------------- MODULE MCHttpExchange ---------------------------
(* Two connections in turn.  Responses without content, with content of two *)
(* records of which the last is as short as a record's overhead or longer,  *)
(* and in two Writes, of which the last is empty, too short for the         *)
(* overhead of the records before it, or long enough; requests as long as   *)
(* plaintext_data_ and longer.                                              *)
EXTENDS HttpExchange

HandlersValue == {<<0>>, <<5>>, <<7>>, <<1, 0>>, <<2, 1>>, <<1, 3>>}
==============================================================================
