---------------------------- MODULE CoHttpServer ----------------------------
(***************************************************************************)
(* net/http/co_http: CoHttpServer (accept loop, session table, timer),      *)
(* CoHttpSession (HandleRequest) and CoHttpResponse (Write, WriteStatus).   *)
(*                                                                         *)
(* The module is about lifetimes.  http_sessions_ holds the only lasting    *)
(* shared_ptr to a session, the session holds the response and, with it,    *)
(* the connection; the coroutines HandleRequest and Write hold nothing      *)
(* (the handler's own frame is gone when Write first suspends).  A handler  *)
(* cannot wait for a Write, for CoTask has no awaiter: it makes its calls   *)
(* on the response one after another, and they go on when it has returned.  *)
(* Each action is a libuv callback with all that runs inside it.  A request *)
(* is what decides its handling: its method, whether a handler is           *)
(* registered and what that handler calls ("more" and "last" for Write with *)
(* and without continue_flag, "status_more" and "status" for WriteStatus),  *)
(* its Content-Length and whether its header parses; it arrives in pieces.  *)
(* Time is counted in timer periods (200 ms; a session lives 25 of them).   *)
(*                                                                         *)
(* Operators named Op_Slip are mutated forms of Op, each a plausible slip   *)
(* in the lines Op models, used only to see that a property notices it.     *)
(***************************************************************************)
EXTENDS Integers, Sequences

CONSTANTS
    Conns,         \* connections, numbered in the order they are accepted
    Endpoints,     \* the remote "ip:port" strings
    Requests,      \* connection -> the requests its client may send
    HeaderLen,     \* pieces in a request header
    AliveTicks,    \* timer periods without activity after which a session dies
    None

Calls == {"more", "last", "status_more", "status"}

Request == [method : {"GET", "POST"}, known : BOOLEAN, content_length : Nat,
            valid : BOOLEAN, calls : Seq(Calls)]

ASSUME HttpAssumption ==
    /\ Conns \subseteq Nat /\ None \notin Conns /\ None \notin Endpoints
    /\ HeaderLen \in Nat \ {0} /\ AliveTicks \in Nat \ {0}
    /\ \A k \in Conns : Requests[k] \subseteq Request

VARIABLES
    run,             \* CoHttpServer::Run: "accepting", "stopped"
    http_sessions_,  \* endpoint -> the session (named by its connection)
    endpoint,        \* connection -> its remote endpoint
    conn,            \* the TcpCoAcceptConn and its handle
    request,         \* what the client sends on the connection
    received,        \* how many pieces of it have been read
    handling,        \* HandleRequest: "receiving", "done", "abandoned"
    writing,         \* parts of the response queued in libuv: [part, call]
    sent,            \* parts of the response that were written, in order
    idle,            \* timer periods since alive_ms_
    is_close_,       \* the session's is_close_
    peer,            \* the client's side: "open", "ended", "reset"
    dangling         \* a callback used a destroyed connection

vars == <<run, http_sessions_, endpoint, conn, request, received, handling,
          writing, sent, idle, is_close_, peer, dangling>>

responseVars == <<writing, sent>>
sessionVars == <<request, received, handling, responseVars, idle, is_close_>>

(* Pieces of the whole request, and whether the header / all of it is here. *)
Total(r) == HeaderLen + r.content_length
HeaderReady(k, n) == n >= HeaderLen
BodyReady_Short(k, n) ==
    request[k].content_length > 0 /\ n - HeaderLen + 1 >= request[k].content_length
BodyReady(k, n) ==
    /\ request[k].content_length > 0
    /\ n - HeaderLen >= request[k].content_length

Init ==
    /\ run = "accepting"
    /\ http_sessions_ = [e \in Endpoints |-> None]
    /\ endpoint = [k \in Conns |-> None]
    /\ conn = [k \in Conns |-> "none"]
    /\ request = [k \in Conns |-> None]
    /\ received = [k \in Conns |-> 0]
    /\ handling = [k \in Conns |-> "none"]
    /\ writing = [k \in Conns |-> <<>>] /\ sent = [k \in Conns |-> <<>>]
    /\ idle = [k \in Conns |-> 0]
    /\ is_close_ = [k \in Conns |-> FALSE]
    /\ peer = [k \in Conns |-> "none"]
    /\ dangling = FALSE

(* Erasing sessions destroys them, their responses and connections: uv_read_stop *)
(* and uv_close.  A HandleRequest that waits in CoReceive is never resumed.  *)
Destroyed_LeavesOpen(S, f) == f
Destroyed(S, f) == [k \in Conns |-> IF k \in S THEN "closing" ELSE f[k]]
Abandoned(S, f) ==
    [k \in Conns |-> IF k \in S /\ f[k] = "receiving" THEN "abandoned" ELSE f[k]]

(* The sessions in the table. *)
Sessions == {http_sessions_[e] : e \in Endpoints} \ {None}
------------------------------------------------------------------------------
(* A client may use an endpoint again once its earlier connection was reset *)
(* or is gone on the server (OnCoConnUVClose).                              *)
EndpointFree(e) ==
    \A k \in Conns : endpoint[k] = e => peer[k] = "reset"

(* http_sessions_[endpoint] = session replaces a session that is there. *)
Insert_KeepsOld(e, k) == IF http_sessions_[e] = None THEN k ELSE http_sessions_[e]
Insert(e, k) == k

(* Run accepts a connection: a session for its endpoint, replacing (and     *)
(* destroying) one that is still there, and HandleRequest up to CoReceive.  *)
(* If the client has reset already, getpeername fails unnoticed and the     *)
(* endpoint is what an uninitialized sockaddr shows: any.                   *)
Accept(k, e, r) ==
    /\ run = "accepting" /\ conn[k] = "none"
    /\ \A j \in Conns : j < k => conn[j] # "none"
    /\ \/ EndpointFree(e) /\ peer' = [peer EXCEPT ![k] = "open"]
       \/ peer' = [peer EXCEPT ![k] = "reset"]
    /\ endpoint' = [endpoint EXCEPT ![k] = e]
    /\ request' = [request EXCEPT ![k] = r]
    /\ http_sessions_' = [http_sessions_ EXCEPT ![e] = Insert(e, k)]
    /\ LET old == {http_sessions_[e]} \ {None}
       IN  /\ conn' = [Destroyed(old, conn) EXCEPT ![k] = "open"]
           /\ handling' = [Abandoned(old, handling) EXCEPT ![k] = "receiving"]
    /\ UNCHANGED <<run, received, responseVars, idle, is_close_, dangling>>

(* An accept error ends Run; the timer and the sessions go on. *)
AcceptError ==
    /\ run = "accepting"
    /\ run' = "stopped"
    /\ UNCHANGED <<http_sessions_, endpoint, conn, sessionVars, peer, dangling>>
------------------------------------------------------------------------------
(* A Write starts with the header unless written_header_ is set, which is   *)
(* not before the header of an earlier Write has been sent.                 *)
written_header_(k) == \E j \in DOMAIN sent[k] : sent[k][j].part = "header"
FirstPart_Inverted(k, c) == CASE c \in {"status", "status_more"} -> "status"
                              [] OTHER -> IF written_header_(k) THEN "header" ELSE "body"
FirstPart(k, c) == CASE c \in {"status", "status_more"} -> "status"
                     [] OTHER -> IF written_header_(k) THEN "body" ELSE "header"

(* The handler's calls, in order: each gives its first part to uv_write,    *)
(* which takes it, or fails and the call returns.  n calls, the taken[j],   *)
(* are taken.                                                               *)
Handler(k) ==
    LET calls == request[k].calls
    IN  /\ \E n \in 0..Len(calls) : \E taken \in [1..n -> DOMAIN calls] :
              /\ \A i, j \in 1..n : i < j => taken[i] < taken[j]
              /\ writing' = [writing EXCEPT ![k] =
                    [j \in 1..n |-> [part |-> FirstPart(k, calls[taken[j]]),
                                     call |-> taken[j]]]]
        /\ UNCHANGED sent

(* HandleRequest after the received pieces are n: read on, give up (bad     *)
(* header, no handler), or run the handler.                                 *)
HandleRequest(k, n) ==
    LET r    == request[k]
        full == r.method = "GET" \/ BodyReady(k, n)
    IN  IF ~HeaderReady(k, n) \/ (r.valid /\ ~full)
        THEN UNCHANGED <<handling, responseVars>>
        ELSE /\ handling' = [handling EXCEPT ![k] = "done"]
             /\ IF r.valid /\ r.known THEN Handler(k) ELSE UNCHANGED responseVars

(* Some pieces of the request arrive; HandleRequest is resumed with them.   *)
(* (After HandleRequest has returned, nobody receives and they are dropped.) *)
OnReceiveData(k) ==
    /\ conn[k] = "open" /\ handling[k] = "receiving"
    /\ received[k] < Total(request[k])
    /\ \E n \in (received[k] + 1)..Total(request[k]) :
          /\ received' = [received EXCEPT ![k] = n]
          /\ HandleRequest(k, n)
    /\ idle' = [idle EXCEPT ![k] = 0]
    /\ UNCHANGED <<run, http_sessions_, endpoint, conn, request, is_close_, peer, dangling>>

(* So may bytes that bring the request no nearer to its end: a header       *)
(* without end, or what follows the header of a POST without content.       *)
(* HandleRequest takes them for a sign of life and reads on.                *)
OnReceiveMore(k) ==
    /\ conn[k] = "open" /\ handling[k] = "receiving" /\ peer[k] = "open"
    /\ HeaderReady(k, received[k]) => request[k].content_length = 0
    /\ idle' = [idle EXCEPT ![k] = 0]
    /\ UNCHANGED <<run, http_sessions_, endpoint, conn, request, received, handling,
                   responseVars, is_close_, peer, dangling>>

(* The client closes its side, or resets the connection. *)
ClientEnds(k) ==
    /\ peer[k] = "open"
    /\ \E how \in {"ended", "reset"} : peer' = [peer EXCEPT ![k] = how]
    /\ UNCHANGED <<run, http_sessions_, endpoint, conn, sessionVars, dangling>>

(* libuv reports it and HandleRequest returns; the session stays in the     *)
(* table until the timer finds it idle.  (Once HandleRequest has returned    *)
(* nobody hears of the end, and nobody would ask again.)                    *)
OnReceiveEnd(k) ==
    /\ conn[k] = "open" /\ peer[k] \in {"ended", "reset"}
    /\ handling[k] = "receiving"
    /\ handling' = [handling EXCEPT ![k] = "done"]
    /\ UNCHANGED <<run, http_sessions_, endpoint, conn, request, received,
                   responseVars, idle, is_close_, peer, dangling>>
------------------------------------------------------------------------------
OnResponseAlive(k) == idle' = [idle EXCEPT ![k] = 0]

(* libuv has written the oldest part of the response. *)
Written(k, part) ==
    /\ conn[k] = "open" /\ writing[k] # <<>> /\ Head(writing[k]).part = part
    /\ sent' = [sent EXCEPT ![k] = Append(@, Head(writing[k]))]

(* The header is sent and the body goes out, behind what is queued; uv_write *)
(* takes it or fails.                                                        *)
OnHeaderWritten(k) ==
    /\ Written(k, "header")
    /\ OnResponseAlive(k)
    /\ \E body \in {<<>>, <<[Head(writing[k]) EXCEPT !.part = "body"]>>} :
          writing' = [writing EXCEPT ![k] = Tail(@) \o body]
    /\ UNCHANGED <<run, http_sessions_, endpoint, conn, request, received, handling,
                   is_close_, peer, dangling>>

(* OnClose(endpoint): erase what the table holds for that endpoint. *)
OnClose(e) ==
    LET gone == {http_sessions_[e]} \ {None}
    IN  /\ http_sessions_' = [http_sessions_ EXCEPT ![e] = None]
        /\ conn' = Destroyed(gone, conn)
        /\ handling' = Abandoned(gone, handling)

(* OnResponseClose: GetRemoteEndpoint asks the socket; if the client has    *)
(* reset it the endpoint is again an uninitialized one: OnClose finds       *)
(* nothing, and is_close_ is left for the timer, or it finds whatever       *)
(* session has that endpoint.                                               *)
OnResponseClose(k) ==
    /\ is_close_' = [is_close_ EXCEPT ![k] = TRUE]
    /\ \/ peer[k] # "reset" /\ OnClose(endpoint[k])
       \/ peer[k] = "reset" /\ \E e \in Endpoints : OnClose(e)
       \/ peer[k] = "reset" /\ UNCHANGED <<http_sessions_, conn, handling>>

(* The call's last part is sent: without continue_flag it closes the        *)
(* response, and the session with it, whatever other calls still wait.      *)
CallEnds(k) ==
    /\ writing' = [writing EXCEPT ![k] = Tail(@)]
    /\ IF request[k].calls[Head(writing[k]).call] \in {"more", "status_more"}
       THEN UNCHANGED <<is_close_, http_sessions_, conn, handling>>
       ELSE OnResponseClose(k)
    /\ UNCHANGED <<run, endpoint, request, received, peer, dangling>>

OnBodyWritten(k) == Written(k, "body") /\ OnResponseAlive(k) /\ CallEnds(k)
OnStatusWritten(k) == Written(k, "status") /\ UNCHANGED idle /\ CallEnds(k)

(* A write fails: its call returns, nothing else happens. *)
OnWriteError(k) ==
    /\ conn[k] = "open" /\ writing[k] # <<>>
    /\ writing' = [writing EXCEPT ![k] = Tail(@)]
    /\ UNCHANGED <<run, http_sessions_, endpoint, conn, request, received, handling,
                   sent, idle, is_close_, peer, dangling>>

(* A timer period passes and OnTimer erases every session that is not       *)
(* IsAlive(): idle too long, or closed.                                     *)
IsAlive_IgnoresAge(k, age) == ~is_close_[k]
IsAlive(k, age) == age < AliveTicks /\ ~is_close_[k]

OnTimer ==
    LET age  == [k \in Conns |-> IF k \in Sessions THEN idle[k] + 1 ELSE idle[k]]
        dead == {k \in Sessions : ~IsAlive(k, age[k])}
    IN  /\ Sessions # {}
        /\ idle' = age
        /\ http_sessions_' = [e \in Endpoints |-> IF http_sessions_[e] \in dead
                                                  THEN None ELSE http_sessions_[e]]
        /\ conn' = Destroyed(dead, conn)
        /\ handling' = Abandoned(dead, handling)
        /\ UNCHANGED <<run, endpoint, request, received, responseVars, is_close_,
                       peer, dangling>>

(* libuv finishes a close.  A write still queued is called back first, with *)
(* UV_ECANCELED, through handle->data: the destroyed connection.  Nothing   *)
(* of the session and of its socket is left.                                *)
OnCoConnUVClose(k) ==
    /\ conn[k] = "closing"
    /\ conn' = [conn EXCEPT ![k] = "freed"]
    /\ dangling' = (dangling \/ writing[k] # <<>>)
    /\ request' = [request EXCEPT ![k] = None]
    /\ received' = [received EXCEPT ![k] = 0]
    /\ handling' = [handling EXCEPT ![k] = "none"]
    /\ writing' = [writing EXCEPT ![k] = <<>>]
    /\ sent' = [sent EXCEPT ![k] = <<>>]
    /\ idle' = [idle EXCEPT ![k] = 0]
    /\ is_close_' = [is_close_ EXCEPT ![k] = FALSE]
    /\ endpoint' = [endpoint EXCEPT ![k] = None]
    /\ peer' = [peer EXCEPT ![k] = "none"]
    /\ UNCHANGED <<run, http_sessions_>>

Next ==
    \/ AcceptError
    \/ OnTimer
    \/ \E k \in Conns :
          \/ \E e \in Endpoints, r \in Requests[k] : Accept(k, e, r)
          \/ OnReceiveData(k) \/ OnReceiveMore(k) \/ OnReceiveEnd(k) \/ ClientEnds(k)
          \/ OnHeaderWritten(k) \/ OnBodyWritten(k) \/ OnStatusWritten(k)
          \/ OnWriteError(k) \/ OnCoConnUVClose(k)

Spec == Init /\ [][Next]_vars

(* The timer repeats, and uv_run completes closes. Clients and writes may   *)
(* stall for ever.                                                          *)
FairSpec == Spec /\ WF_vars(OnTimer) /\ WF_vars(\E k \in Conns : OnCoConnUVClose(k))
------------------------------------------------------------------------------
Part == [part : {"header", "body", "status"}, call : Nat \ {0}]

(* Types: no session is idle for longer than the timer allows. *)
TypeOK ==
    /\ run \in {"accepting", "stopped"}
    /\ http_sessions_ \in [Endpoints -> Conns \cup {None}]
    /\ endpoint \in [Conns -> Endpoints \cup {None}]
    /\ conn \in [Conns -> {"none", "open", "closing", "freed"}]
    /\ request \in [Conns -> Request \cup {None}]
    /\ received \in [Conns -> Nat]
    /\ handling \in [Conns -> {"none", "receiving", "done", "abandoned"}]
    /\ writing \in [Conns -> Seq(Part)] /\ sent \in [Conns -> Seq(Part)]
    /\ idle \in [Conns -> 0..AliveTicks] /\ is_close_ \in [Conns -> BOOLEAN]
    /\ peer \in [Conns -> {"none", "open", "ended", "reset"}]
    /\ dangling \in BOOLEAN

(* The table is exact: a connection is open if and only if its session is   *)
(* the one http_sessions_ holds for its endpoint.  Endpoints that are used  *)
(* again or read wrongly may close the wrong session, but no connection     *)
(* outlives its session or is forgotten by the table.                       *)
TableMatchesConnections ==
    \A k \in Conns : conn[k] = "open" <=>
        (endpoint[k] \in Endpoints /\ http_sessions_[endpoint[k]] = k)

(* A response is written only for a request that has arrived completely,    *)
(* that parses and has a handler, and not for a POST without content.       *)
OnlyCompleteRequestsAnswered ==
    \A k \in Conns : writing[k] \o sent[k] # <<>> =>
        /\ request[k].valid /\ request[k].known
        /\ request[k].method = "GET" => received[k] >= HeaderLen
        /\ request[k].method = "POST" =>
              request[k].content_length > 0 /\ received[k] = Total(request[k])

(* A client gets what the handler wrote in the order of its calls, each     *)
(* body behind a header of its own call, although several Writes are on     *)
(* their way at once (and send a header each, written_header_ being set     *)
(* only when the first has been sent) and any of them may fail.             *)
ResponseAsCalled ==
    \A k \in Conns : \A j \in DOMAIN sent[k] : sent[k][j].part = "body" =>
        LET i == sent[k][j].call
            before == {sent[k][l] : l \in 1..(j - 1)}
        IN  /\ [part |-> "header", call |-> i] \in before
            /\ \A p \in before : p.part = "body" => p.call < i

(* No session stays for ever, its socket is closed and freed (OnTimer       *)
(* erases it when neither side has shown life for long), whatever becomes   *)
(* of its requests, writes and endpoint - but for one whose client never    *)
(* stops sending and never completes a request: HandleRequest refreshes     *)
(* alive_ms_ with every read, and bounds neither a header nor what follows  *)
(* a POST without content.                                                  *)
EverySessionEnds ==
    \A k \in Conns :
        <>[][~OnReceiveMore(k)]_vars => (conn[k] = "open" ~> conn[k] = "freed")

(* "HTTP session for endpoint %s is no longer alive, closing it."           *)
(* (co_http_server.cpp:39): closing a session leaves nothing behind that    *)
(* still runs on it - no write callback reaches a destroyed connection.     *)
NoDanglingCallback == ~dangling
==============================================================================
