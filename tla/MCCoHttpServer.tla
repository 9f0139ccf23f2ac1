--------------------------- MODULE MCCoHttpServer ---------------------------
EXTENDS CoHttpServer

Req(m, k, n, v, c) ==
    [method |-> m, known |-> k, content_length |-> n, valid |-> v, calls |-> c]

(* The first client sends a GET whose handler writes twice, or a POST with  *)
(* content whose handler writes and sends a status; the second a GET that  *)
(* is written to once, one that HandleRequest gives up on (no handler, or a *)
(* header that does not parse), or a POST without content, which never      *)
(* becomes complete.                                                        *)
MCRequests == <<{Req("GET", TRUE, 0, TRUE, <<"more", "last">>),
                 Req("POST", TRUE, 1, TRUE, <<"more", "status">>)},
                {Req("GET", TRUE, 0, TRUE, <<"last">>), Req("GET", FALSE, 0, TRUE, <<>>),
                 Req("GET", TRUE, 0, FALSE, <<>>), Req("POST", TRUE, 0, TRUE, <<"last">>)}>>

(* One GET whose handler writes once. *)
OneGet == <<{Req("GET", TRUE, 0, TRUE, <<"last">>)}>>
==============================================================================
