---------------------------- MODULE HttpExchange ----------------------------
(***************************************************************************)
(* The callback HTTP stack, both sides of it: HttpClient over TcpClient and *)
(* SslClient, and HttpServer with HttpSession and HttpResponse over         *)
(* TcpServer, TcpSession and SslServer, with and without TLS.               *)
(*                                                                         *)
(* Connections are made one after another from the same remote endpoint.    *)
(* HttpClient sends one request on each; another client may go on.          *)
(* A client that is gone may still have a session at the server when the    *)
(* next one connects.                                                       *)
(* Each action is a libuv callback with all that runs inside it, or a call  *)
(* of the application.  A read returns any part of what has arrived.  The   *)
(* socket takes writes whole and in order; libuv calls a write back before  *)
(* it polls for another read, and calls those that are left when the handle *)
(* is closed.  Requests and responses are cells: a first line that names    *)
(* the method, the end of the header with the Content-Length (NoLength      *)
(* without one), the content.  "BAD" is a request that does not parse or    *)
(* has no handler.  SessionAliver, which HttpSession extends, is not in the *)
(* repository.                                                              *)
(*                                                                         *)
(* ub names the first use of a destroyed object.  No promise is left after  *)
(* it, and no step is followed.                                             *)
(*                                                                         *)
(* Operators named Op_Slip are mutated forms of Op, each a plausible slip   *)
(* in the lines Op models, used only to see that a property notices it.     *)
(***************************************************************************)
EXTENDS SslPeers

CONSTANTS
    MaxConns,      \* bound: connections
    Methods,       \* of the requests, e.g. "GET", "POST", "OPTIONS", "BAD"
    PostLens,      \* content lengths of a POST
    Handlers,      \* what an application writes: the lengths, one per Write
    None

NoLength == -1

(* HttpResponse; None stands for the null pointer. *)
Response == [is_close : BOOLEAN, written_header : BOOLEAN, continue_flag : BOOLEAN,
             remain : Int]

ASSUME ExchangeAssumption ==
    /\ MaxConns \in Nat /\ PostLens \subseteq Nat
    /\ Methods \subseteq {"GET", "POST", "OPTIONS", "BAD"}
    /\ \A h \in Handlers : h \in Seq(Nat) /\ h # <<>>
    /\ None \notin Response

(* Bound: the header of a message and a whole request fit in one TLS record. *)
ASSUME RequestAssumption == RecordCap >= 2 /\ \A n \in PostLens : n + 2 <= RecordCap

VARIABLES
    tls,             \* ssl_enable_ of both sides
    conns,           \* connections so far
    c2s, c2s_end,    \* cells on their way to the server, and the end
    s2c, s2c_end,    \* cells on their way to the client, and the end
    \* TcpClient, SslClient, HttpClient
    client,          \* "idle", "connecting", "accepted", "open", "gone"
    request,         \* the cells of the request
    ssl_client_, read_start_,
    client_writes,   \* uv_writes of the client: [cells, done]
    resp_ptr_,       \* HttpClientResponse
    told,            \* what OnHttpRead has told the application
    unheard,         \* its write failed, or its connect with TLS: nobody is told
    again,           \* another request follows on the connection
    \* TcpSession, SslServer, HttpSession, HttpServer
    tcp,             \* the TcpSession: "none", "open", "closed"
    ssl_,
    server_writes,   \* uv_writes of the session: [cells, done]
    http,            \* the HttpSession: "none", "open", "closed"
    recv_,           \* header_data_ and content_data_
    response_ptr_,   \* None or the HttpResponse
    kept,            \* one that another has replaced and the application still has:
                     \* "no", "new", "begun" (its header is written)
    session_ptr_map_,\* the connection whose session the table holds (0: none)
    handler, made,   \* what the application writes, and how many Writes it has made
    written, pieces, \* content the application has written, and the lengths in which
                     \* it went to uv_write
    split,           \* a read of the server ended inside a handshake flight
    failed,          \* Handshake has failed
    ub

clientVars == <<client, request, ssl_client_, read_start_, client_writes,
                resp_ptr_, told, unheard, again>>
wireVars == <<c2s, c2s_end, s2c, s2c_end>>
serverVars == <<tcp, ssl_, server_writes, http, recv_, response_ptr_, kept,
                session_ptr_map_, handler, made, written, pieces, split, failed>>
vars == <<tls, conns, clientVars, wireVars, serverVars, ub>>

NewResp == [data |-> <<>>, header_ready |-> FALSE, content_length |-> 0]
(* Writes handed to libuv, and: it has called back those the socket took. *)
Queued(ws) == [i \in DOMAIN ws |-> [cells |-> ws[i], done |-> FALSE]]
CalledBack(ws) == \A i \in DOMAIN ws : ~ws[i].done

Init ==
    /\ tls \in BOOLEAN /\ conns = 0
    /\ c2s = <<>> /\ c2s_end = FALSE /\ s2c = <<>> /\ s2c_end = FALSE
    /\ client = "idle" /\ request = <<>> /\ ssl_client_ = NewClient
    /\ read_start_ = FALSE /\ client_writes = <<>> /\ resp_ptr_ = NewResp
    /\ told = <<>> /\ unheard = FALSE /\ again = FALSE
    /\ tcp = "none" /\ ssl_ = NewServer /\ server_writes = <<>> /\ http = "none"
    /\ recv_ = <<>> /\ response_ptr_ = None /\ kept = "no" /\ session_ptr_map_ = 0
    /\ handler = <<>> /\ made = 0 /\ written = <<>> /\ pieces = <<>>
    /\ split = FALSE /\ failed = FALSE /\ ub = None

Up == ub = None
------------------------------------------------------------------------------
(* HttpClient::Get and Post with a new HttpClient. *)
Content(k, n) == [i \in 1..n |-> Cell(k, i)]
Requests ==
    {<<Cell(m, 0), Cell("end", 0)>> : m \in Methods \ {"POST"}}
    \union {<<Cell("POST", 0), Cell("end", n)>> \o Content("b", n) :
                n \in IF "POST" \in Methods THEN PostLens ELSE {}}

Method == request[1].k

Connect ==
    /\ Up /\ client \in {"idle", "gone"} /\ conns < MaxConns
    /\ conns' = conns + 1
    /\ \E r \in Requests : request' = r
    /\ client' = "connecting" /\ ssl_client_' = NewClient /\ read_start_' = FALSE
    /\ client_writes' = <<>> /\ resp_ptr_' = NewResp /\ told' = <<>> /\ unheard' = FALSE
    /\ again' = FALSE
    /\ UNCHANGED <<tls, wireVars, serverVars, ub>>

(* TcpClient::OnConnect with an error: without TLS the application hears of *)
(* it; with TLS it goes on with ClientHello, whose write fails, and OnWrite *)
(* then does nothing.                                                       *)
ConnectFails ==
    /\ Up /\ client = "connecting"
    /\ told' = IF tls THEN told ELSE <<[code |-> -1, data |-> <<>>, ready |-> FALSE]>>
    /\ unheard' = tls
    /\ client' = "gone"
    /\ UNCHANGED <<tls, conns, request, ssl_client_, read_start_, client_writes,
                   resp_ptr_, again, wireVars, serverVars, ub>>

(* HttpServer::OnAccept.  insert does not replace a session of the same     *)
(* endpoint: the new one is destroyed on return, and its Close erases, by   *)
(* the endpoint, the old one.                                               *)
OnAccept ==
    /\ Up /\ client = "connecting"
    /\ client' = "accepted"
    /\ c2s' = <<>> /\ c2s_end' = FALSE /\ s2c' = <<>>
    /\ ssl_' = NewServer /\ server_writes' = <<>> /\ recv_' = <<>>
    /\ response_ptr_' = None /\ kept' = "no" /\ handler' = <<>> /\ made' = 0
    /\ written' = <<>> /\ pieces' = <<>> /\ split' = FALSE /\ failed' = FALSE
    /\ IF session_ptr_map_ = 0
       THEN /\ session_ptr_map_' = conns
            /\ http' = "open" /\ tcp' = "open" /\ s2c_end' = FALSE /\ UNCHANGED ub
       ELSE /\ session_ptr_map_' = 0
            /\ http' = "closed" /\ tcp' = "closed" /\ s2c_end' = TRUE
            /\ ub' = IF server_writes # <<>> THEN "late_write" ELSE ub
    /\ UNCHANGED <<tls, conns, request, ssl_client_, read_start_, client_writes,
                   resp_ptr_, told, unheard, again>>

(* AsyncWrite and Send: with TLS one uv_write for each record, and without  *)
(* one for all.                                                             *)
Wire_AlwaysTls(data) == Record(data)
Wire(data) == IF tls THEN Record(data) ELSE data
Cut(data) == IF tls THEN Fragments(data) ELSE <<data>>

(* TcpClient::OnConnect: ClientHello, or HttpClient::OnConnect. *)
ClientOnConnect ==
    /\ Up /\ client = "accepted"
    /\ client' = "open"
    /\ IF tls
       THEN /\ ssl_client_' = ClientHello(ssl_client_).c
            /\ client_writes' = Queued(ClientHello(ssl_client_).out)
       ELSE client_writes' = Queued(<<Wire(request)>>) /\ UNCHANGED ssl_client_
    /\ UNCHANGED <<tls, conns, request, read_start_, resp_ptr_, told, unheard, again,
                   wireVars, serverVars, ub>>

(* TcpClient::OnWrite: reading starts with the first write called back.  A  *)
(* failed write of the request is not reported to anyone.                   *)
ClientTakes ==
    /\ Up /\ client = "open" /\ client_writes # <<>> /\ ~Head(client_writes).done
    /\ c2s' = c2s \o Head(client_writes).cells
    /\ client_writes' = [client_writes EXCEPT ![1].done = TRUE]
    /\ UNCHANGED <<tls, conns, client, request, ssl_client_, read_start_, resp_ptr_,
                   told, unheard, again, c2s_end, s2c, s2c_end, serverVars, ub>>

ClientOnWrite ==
    /\ Up /\ client = "open" /\ client_writes # <<>>
    /\ \/ Head(client_writes).done /\ read_start_' = TRUE /\ UNCHANGED unheard
       \/ /\ ~Head(client_writes).done /\ s2c_end
          /\ read_start_' = (read_start_ \/ (tls /\ ssl_client_.state # "READY"))
          /\ unheard' = ~read_start_'
    /\ client_writes' = Tail(client_writes)
    /\ UNCHANGED <<tls, conns, client, request, ssl_client_, resp_ptr_, told, again,
                   wireVars, serverVars, ub>>

(* Where the header ends (0: not yet): HttpSession::AnalyzeHeader, and the  *)
(* same search in HttpClient::OnRead.                                       *)
HeaderEnd(data) == SelectInSeq(data, LAMBDA c : c.k = "end")

(* HttpClient::OnRead for one piece of the response. *)
HttpClientOnRead(c, data) ==
    LET all  == c.resp.data \o data
        e    == HeaderEnd(all)
        resp == CASE c.resp.header_ready -> [c.resp EXCEPT !.data = all]
                  [] ~c.resp.header_ready /\ e = 0 -> [c.resp EXCEPT !.data = all]
                  [] OTHER -> [data |-> SubSeq(all, e + 1, Len(all)), header_ready |-> TRUE,
                               content_length |-> IF all[e].v = NoLength THEN 0 ELSE all[e].v]
        tell(ready) == [resp |-> resp,
                        told |-> Append(c.told, [code |-> 0, data |-> resp.data, ready |-> ready])]
    IN  CASE ~resp.header_ready      -> [resp |-> resp, told |-> c.told]
          [] resp.header_ready /\ resp.content_length = 0 -> tell(FALSE)
          [] resp.header_ready /\ resp.content_length > 0 ->
                IF Len(resp.data) >= resp.content_length THEN tell(TRUE)
                                                         ELSE [resp |-> resp, told |-> c.told]

(* SslClient::HandleSslDataRecv: SSL_read, and OnRead with what it returned, *)
(* until no whole record is left (what the SSL_read before BIO_write finds, *)
(* the first round finds too).  Each round takes a cell at least; after[i]  *)
(* holds the one state after i rounds.                                      *)
DataRecv(s) ==
    LET r == SSL_read(s.bio)
    IN  IF r.plain = <<>> THEN s
        ELSE [bio |-> r.bio, app |-> HttpClientOnRead(s.app, r.plain)]
HandleSslDataRecv(bio, app) ==
    LET after[i \in 0..Len(bio)] ==
            IF i = 0 THEN {[bio |-> bio, app |-> app]} ELSE {DataRecv(s) : s \in after[i - 1]}
    IN  after[Len(bio)]

(* TcpClient::OnRead; App is HttpClient with what it has told. *)
App == [resp |-> resp_ptr_, told |-> told]
AppBecomes(app) == resp_ptr_' = app.resp /\ told' = app.told
ClientTlsRead(data) ==
    CASE ssl_client_.state = "HELLO_DONE" ->
            /\ ssl_client_' = RecvServerHello(ssl_client_, data).c
            /\ client_writes' = client_writes \o Queued(RecvServerHello(ssl_client_, data).out)
            /\ UNCHANGED <<resp_ptr_, told>>
      [] ssl_client_.state = "KEY_EXCHANGE" ->
            /\ ssl_client_' = HandleSessionTicket(ssl_client_, data)
            /\ client_writes' = IF ssl_client_'.state = "READY"
                                THEN client_writes \o Queued(<<Wire(request)>>) ELSE client_writes
            /\ UNCHANGED <<resp_ptr_, told>>
      [] ssl_client_.state = "READY" ->
            /\ \E s \in HandleSslDataRecv(ssl_client_.bio \o data, App) :
                  ssl_client_' = [ssl_client_ EXCEPT !.bio = s.bio] /\ AppBecomes(s.app)
            /\ UNCHANGED client_writes
ClientOnRead ==
    /\ Up /\ client = "open" /\ read_start_ /\ s2c # <<>> /\ CalledBack(client_writes) /\ ~again
    /\ \E n \in 1..Len(s2c) :
          /\ s2c' = SubSeq(s2c, n + 1, Len(s2c))
          /\ IF tls THEN ClientTlsRead(SubSeq(s2c, 1, n))
                    ELSE /\ AppBecomes(HttpClientOnRead(App, SubSeq(s2c, 1, n)))
                         /\ UNCHANGED <<ssl_client_, client_writes>>
    /\ UNCHANGED <<tls, conns, client, request, read_start_, unheard, again, c2s, c2s_end,
                   s2c_end, serverVars, ub>>

(* The end of the stream: OnHttpRead with an error, once. *)
ClientOnEnd ==
    /\ Up /\ client = "open" /\ read_start_ /\ s2c = <<>> /\ s2c_end /\ CalledBack(client_writes) /\ ~again
    /\ ~\E i \in DOMAIN told : told[i].code = -1
    /\ told' = Append(told, [code |-> -1, data |-> resp_ptr_.data, ready |-> FALSE])
    /\ UNCHANGED <<tls, conns, client, request, ssl_client_, read_start_, client_writes,
                   resp_ptr_, unheard, again, wireVars, serverVars, ub>>

(* A client that is not an HttpClient goes on with the first line of        *)
(* another request on the same connection (bound: once, on the last one);   *)
(* what it reads is not followed.                                           *)
OtherSends ==
    /\ Up /\ client = "open" /\ client_writes = <<>> /\ ~again /\ conns = MaxConns
    /\ tls => ssl_client_.state = "READY"
    /\ again' = TRUE /\ client_writes' = Queued(<<Wire(<<Head(request)>>)>>)
    /\ resp_ptr_' = NewResp /\ told' = <<>> /\ unheard' = FALSE
    /\ s2c' = <<>>
    /\ UNCHANGED <<tls, conns, client, request, ssl_client_, read_start_, c2s, c2s_end, s2c_end,
                   serverVars, ub>>

(* The client's process ends, or the application deletes HttpClient: writes *)
(* that are left are then called back through the destroyed TcpClient, and  *)
(* a connect that is under way through the freed uv_connect_t.              *)
ClientGoes ==
    /\ Up /\ client \in {"connecting", "accepted", "open"}
    /\ client' = "gone" /\ c2s_end' = TRUE /\ client_writes' = <<>>
    /\ \/ UNCHANGED ub
       \/ client = "connecting" /\ ub' = "client_late_connect"
       \/ client_writes # <<>> /\ ub' = "client_late_write"
    /\ UNCHANGED <<tls, conns, request, ssl_client_, read_start_, resp_ptr_, told,
                   unheard, again, c2s, s2c, s2c_end, serverVars>>
------------------------------------------------------------------------------
(* HttpResponse::Write: the header with the first call, then the content.   *)
NewResponse == [is_close |-> FALSE, written_header |-> FALSE, continue_flag |-> FALSE,
                remain |-> 0]
Added(r, n) == n + (IF r.written_header THEN 0 ELSE 2)
Piece(n) == [i \in 1..n |-> Cell("x", Len(written) + i)]
Body(n) == IF n > 0 THEN Cut(Piece(n)) ELSE <<>>
Parts(r, n, continue) ==
    (IF r.written_header THEN <<>>
     ELSE <<<<Cell("HTTP", 0), Cell("end", IF continue THEN NoLength ELSE n)>>>>)
    \o Body(n)
Requested(parts) == Queued([i \in DOMAIN parts |-> Wire(parts[i])])
AfterWrite_ForgetsContinue(r, n, continue) ==
    IF r.is_close THEN r
    ELSE [is_close |-> FALSE, written_header |-> TRUE, continue_flag |-> FALSE,
          remain |-> r.remain + Added(r, n)]
AfterWrite(r, n, continue) ==
    IF r.is_close THEN [r EXCEPT !.continue_flag = continue]
    ELSE [is_close |-> FALSE, written_header |-> TRUE, continue_flag |-> continue,
          remain |-> r.remain + Added(r, n)]
Write(r, n, continue) ==
    /\ response_ptr_' = AfterWrite(r, n, continue)
    /\ IF r.is_close
       THEN UNCHANGED <<server_writes, written, pieces>>
       ELSE /\ server_writes' = server_writes \o Requested(Parts(r, n, continue))
            /\ written' = written \o Piece(n)
            /\ pieces' = pieces \o [i \in DOMAIN Body(n) |-> Len(Body(n)[i])]

(* TcpSession::Close: libuv drops what the socket has not taken. *)
TcpClose == tcp' = "closed" /\ s2c_end' = TRUE /\ server_writes' = <<>>

(* HttpSession::Close: the response forgets the session, and the table lets *)
(* it go, which destroys it and its TcpSession.  The handle still points    *)
(* there when libuv calls back the writes that are left.                    *)
SetClose_Not(r) == r
SetClose(r) == IF r = None THEN None ELSE [r EXCEPT !.is_close = TRUE]
OnClose_Keeps(t) == t
OnClose(t) == 0
SessionClose(r, what) ==
    /\ http' = "closed" /\ TcpClose
    /\ response_ptr_' = SetClose(r)
    /\ session_ptr_map_' = OnClose(session_ptr_map_)
    /\ ub' = what
LateWrite(left) == IF left # <<>> THEN "late_write" ELSE None

(* HttpSession::OnRead and HandleRequest for the piece data.  The handler   *)
(* makes its first Write in the call, or later; or it closes the response   *)
(* in the call, which destroys the session HandleRequest then goes on with. *)
(* A GET gets a new response each time; the one before may be kept by the   *)
(* application, and no session will tell it that it is closed.              *)
Handle(r) ==
    \/ \E h \in Handlers :
          /\ handler' = h
          /\ \/ made' = 1 /\ Write(r, h[1], Len(h) > 1)
             \/ made' = 0 /\ response_ptr_' = r /\ UNCHANGED <<server_writes, written, pieces>>
          /\ UNCHANGED <<http, tcp, s2c_end, session_ptr_map_, ub>>
    \/ /\ handler' = <<>> /\ made' = 0
       /\ SessionClose(r, "closed_in_handler")
       /\ UNCHANGED <<written, pieces>>
HttpOnRead(data) ==
    LET all    == recv_ \o data
        e      == HeaderEnd(all)
        method == all[1].k
        r      == IF response_ptr_ = None THEN NewResponse ELSE response_ptr_
        wait   == e = 0 \/ (method = "POST" /\ Len(all) - e < all[e].v)
    IN  IF ~wait /\ method = "BAD"
        THEN /\ SessionClose(response_ptr_, IF tls THEN "read_after_close" ELSE LateWrite(server_writes))
             /\ UNCHANGED <<recv_, kept, handler, made, written, pieces>>
        ELSE /\ recv_' = IF ~wait /\ method = "OPTIONS" THEN <<>> ELSE all
             /\ kept' = IF ~wait /\ method = "GET" /\ response_ptr_ # None
                        THEN IF response_ptr_.written_header THEN "begun" ELSE "new"
                        ELSE kept
             /\ CASE wait -> /\ UNCHANGED <<response_ptr_, server_writes, handler, made, written, pieces>>
                             /\ UNCHANGED <<http, tcp, s2c_end, session_ptr_map_, ub>>
                  [] ~wait /\ method = "OPTIONS" ->
                             /\ Write(r, 0, FALSE)
                             /\ UNCHANGED <<handler, made, http, tcp, s2c_end, session_ptr_map_, ub>>
                  [] ~wait /\ method = "GET"     -> Handle(NewResponse)
                  [] OTHER                       -> Handle(r)

(* TcpSession::OnRead.  When Handshake fails TcpSession closes itself and   *)
(* tells nobody.  Behind TLS it calls AsyncRead after its callback, which   *)
(* may have destroyed it.                                                   *)
HandshakeFails ==
    /\ failed' = TRUE /\ TcpClose
    /\ UNCHANGED <<http, recv_, response_ptr_, kept, session_ptr_map_, handler, made,
                   written, pieces, ub>>
ServerTlsRead(data) ==
    LET h == Handshake(ssl_, data)
        r == ServerDataRecv(h.s, data)
    IN  \/ MayRefuse(ssl_) /\ HandshakeFails /\ UNCHANGED <<ssl_, split>>
        \/ /\ split' = (split \/ (h.out = <<>> /\ ~ssl_.finished) \/ h.out = <<<<>>>>)
           /\ IF h.ret # 0
              THEN ssl_' = h.s /\ HandshakeFails
              ELSE /\ ssl_' = r.s /\ UNCHANGED failed
                   /\ IF r.plain = <<>>
                      THEN /\ server_writes' = server_writes \o Queued(h.out)
                           /\ UNCHANGED <<tcp, s2c_end, http, recv_, response_ptr_, kept,
                                          session_ptr_map_, handler, made, written, pieces, ub>>
                      ELSE HttpOnRead(r.plain)
ServerOnRead ==
    /\ Up /\ tcp = "open" /\ c2s # <<>> /\ CalledBack(server_writes)
    /\ \E n \in 1..Len(c2s) :
          /\ c2s' = SubSeq(c2s, n + 1, Len(c2s))
          /\ IF tls THEN ServerTlsRead(SubSeq(c2s, 1, n))
                    ELSE HttpOnRead(SubSeq(c2s, 1, n)) /\ UNCHANGED <<ssl_, split, failed>>
    /\ UNCHANGED <<tls, conns, clientVars, c2s_end, s2c>>

(* The end of the stream, or a reset. *)
ServerOnEnd ==
    /\ Up /\ tcp = "open" /\ c2s_end /\ CalledBack(server_writes)
    /\ SessionClose(response_ptr_, LateWrite(server_writes))
    /\ UNCHANGED <<tls, conns, clientVars, c2s, c2s_end, s2c, ssl_, recv_, kept, handler, made,
                   written, pieces, split, failed>>

ServerTakes ==
    /\ Up /\ tcp = "open"
    /\ \E i \in DOMAIN server_writes :
          /\ ~server_writes[i].done /\ \A j \in 1..i - 1 : server_writes[j].done
          /\ server_writes' = [server_writes EXCEPT ![i].done = TRUE]
          /\ s2c' = IF again THEN s2c ELSE s2c \o server_writes[i].cells
    /\ UNCHANGED <<tls, conns, clientVars, c2s, c2s_end, s2c_end, tcp, ssl_, http, recv_,
                   response_ptr_, kept, session_ptr_map_, handler, made, written, pieces,
                   split, failed, ub>>

(* TcpSession::OnWrite and HttpSession::OnWrite: remain_bytes_ goes down by *)
(* what was written (with TLS, by more than Write has added), and the       *)
(* session closes itself when nothing remains.  After a failed write it     *)
(* goes on with the object that its Close has destroyed.                    *)
ServerOnWrite ==
    /\ Up /\ tcp = "open" /\ server_writes # <<>>
    /\ LET w      == Head(server_writes)
           left   == Tail(server_writes)
           heard  == ~tls \/ ssl_.state = "DATA_RECV"
           remain == response_ptr_.remain - Len(w.cells)
       IN  /\ w.done \/ c2s_end
           /\ \/ /\ heard /\ ~w.done
                 /\ SessionClose(response_ptr_, "failed_write")
              \/ /\ heard /\ w.done /\ response_ptr_ # None
                 /\ ~response_ptr_.continue_flag /\ remain <= 0
                 /\ SessionClose(response_ptr_, LateWrite(left))
              \/ /\ heard /\ w.done /\ response_ptr_ # None
                 /\ response_ptr_.continue_flag \/ remain > 0
                 /\ server_writes' = left
                 /\ response_ptr_' = [response_ptr_ EXCEPT !.remain = remain]
                 /\ UNCHANGED <<http, tcp, s2c_end, session_ptr_map_, ub>>
              \/ /\ ~heard \/ (w.done /\ response_ptr_ = None)
                 /\ server_writes' = left
                 /\ UNCHANGED <<response_ptr_, http, tcp, s2c_end, session_ptr_map_, ub>>
    /\ UNCHANGED <<tls, conns, clientVars, c2s, c2s_end, s2c, ssl_, recv_, kept, handler, made,
                   written, pieces, split, failed>>

(* The application writes (more of) its response. *)
AppWrites ==
    /\ Up /\ response_ptr_ # None /\ made < Len(handler)
    /\ made' = made + 1
    /\ Write(response_ptr_, handler[made + 1], made + 1 < Len(handler))
    /\ ub' = IF ~response_ptr_.is_close /\ http = "closed" THEN "stale_response" ELSE ub
    /\ UNCHANGED <<tls, conns, clientVars, wireVars, tcp, ssl_, http, recv_, kept,
                   session_ptr_map_, handler, split, failed>>

(* The application writes to a response that it has kept (once, a piece of  *)
(* one cell): it knows of no Close of the session.                          *)
AppUsesKept ==
    /\ Up /\ kept # "no" /\ kept' = "no"
    /\ server_writes' =
          IF tcp = "open"
          THEN server_writes \o Requested(Parts([NewResponse EXCEPT !.written_header = (kept = "begun")], 1, FALSE))
          ELSE server_writes
    /\ ub' = IF http = "closed" THEN "stale_response" ELSE ub
    /\ UNCHANGED <<tls, conns, clientVars, wireVars, tcp, ssl_, http, recv_, response_ptr_,
                   session_ptr_map_, handler, made, written, pieces, split, failed>>

(* HttpResponse::Close outside the handler: the application has done, or    *)
(* gives up the rest.                                                       *)
AppCloses ==
    /\ Up /\ response_ptr_ # None /\ ~response_ptr_.is_close /\ handler # <<>>
    /\ handler' = <<>> /\ made' = 0
    /\ SessionClose(response_ptr_, IF server_writes = <<>> THEN None ELSE "late_write_of_closed")
    /\ UNCHANGED <<tls, conns, clientVars, c2s, c2s_end, s2c, ssl_, recv_, kept, written, pieces,
                   split, failed>>

Next ==
    \/ Connect \/ ConnectFails \/ OnAccept \/ ClientOnConnect \/ ClientTakes \/ ClientOnWrite
    \/ ClientOnRead \/ ClientOnEnd \/ OtherSends \/ ClientGoes
    \/ ServerOnRead \/ ServerOnEnd \/ ServerTakes \/ ServerOnWrite
    \/ AppWrites \/ AppUsesKept \/ AppCloses

Spec == Init /\ [][Next]_vars

(* libuv delivers what has arrived, accepts, and calls back what the socket *)
(* has taken; the application answers in the end.  Nobody is obliged to     *)
(* connect, and a client may go away at any time.                           *)
FairSpec ==
    /\ Spec
    /\ WF_vars(ClientOnConnect) /\ WF_vars(ClientTakes) /\ WF_vars(ClientOnWrite)
    /\ WF_vars(ClientOnRead) /\ WF_vars(ClientOnEnd)
    /\ WF_vars(ServerOnRead) /\ WF_vars(ServerOnEnd) /\ WF_vars(ServerTakes)
    /\ WF_vars(ServerOnWrite) /\ WF_vars(AppWrites)
------------------------------------------------------------------------------
HttpCells == {"GET", "POST", "OPTIONS", "BAD", "end", "b", "HTTP", "x"}
TlsCells == {"CH", "SH", "CKE", "FIN", "tag"}
OnWire == Range(c2s) \union Range(s2c)

(* Types; without TLS the wire carries HTTP and nothing else. *)
TypeOK ==
    /\ conns \in 0..MaxConns /\ session_ptr_map_ \in 0..conns
    /\ client \in {"idle", "connecting", "accepted", "open", "gone"}
    /\ ssl_client_.state \in {"ZERO", "HELLO_DONE", "KEY_EXCHANGE", "READY"}
    /\ ssl_.state \in {"INIT", "HELLO_DONE", "KEY_EXCHANGE_DONE", "DATA_RECV"}
    /\ tcp \in {"none", "open", "closed"} /\ http \in {"none", "open", "closed"}
    /\ made \in 0..Len(handler)
    /\ \A c \in OnWire : c.k \in IF tls THEN HttpCells \union TlsCells ELSE HttpCells

(* The last piece of the content is so short that the overhead of the       *)
(* records before it makes remain_bytes_ run out before it is written.      *)
Shortened == tls /\ pieces # <<>> /\ Last(pieces) <= Len(pieces)

(* HttpClient, which sends one request, tells its application what the      *)
(* handler wrote, over every split of the reads and of the Writes into      *)
(* records: what it has so far is always the beginning of it, a response it *)
(* calls complete is complete, and HttpSession does not close the           *)
(* connection before the client has all of it (unless it is Shortened, or   *)
(* closed by the application).                                              *)
ToldWhatWasWritten ==
    ~again =>
    /\ \A i \in DOMAIN told :
          told[i].code = 0 => /\ IsPrefix(told[i].data, written)
                              /\ told[i].ready => told[i].data = written
    /\ (client = "open" /\ response_ptr_ # None /\ ~Shortened
            /\ (handler # <<>> \/ Method = "OPTIONS")) =>
          \A i \in DOMAIN told :
              told[i].code = -1 => /\ told[i].data = written /\ made = Len(handler)
                                   /\ i > 1

(* The table holds a session exactly while it is open, and its connection   *)
(* is open too, but for one: TcpSession closes itself when the TLS          *)
(* handshake fails and tells nobody, and that session stays in the table.   *)
TableExact ==
    /\ session_ptr_map_ # 0 <=> http = "open"
    /\ http = "open" => tcp = "open" \/ (tls /\ failed)

(* Sessions, responses and write requests outlive their use by callbacks    *)
(* and by the application, for clients that stay until they are answered    *)
(* and send one request: a destroyed object is used only when a client goes *)
(* early or sends another request, when a TLS response is Shortened, for a  *)
(* bad request over TLS, or when the application closes a response inside   *)
(* its handler or while it is still being written.  A response kept by the  *)
(* application reaches a closed session only if another request on the      *)
(* connection has replaced it.                                              *)
SafeCallbacks ==
    [][ub' # ub => /\ ub' = "stale_response" => kept # "no"
                   /\ \/ c2s_end'
                      \/ c2s_end
                      \/ again
                      \/ ub' \in {"stale_response", "late_write_of_closed", "closed_in_handler"}
                      \/ ub' = "late_write" /\ Shortened
                      \/ ub' = "read_after_close" /\ tls /\ Method = "BAD"]_vars

(* A client that stays is answered and its session ends: HandleRequest,     *)
(* Write and OnWrite, and with TLS both handshakes, go through for every    *)
(* split of the reads but two: a flight of the TLS handshake that SslServer *)
(* does not get in one read, and a request longer than plaintext_data_.  A  *)
(* handler that ends a response in several Writes with an empty one queues  *)
(* nothing by it, and then no callback may be left to close the session.  A *)
(* client whose session or handshake is refused is told too, unless the     *)
(* write of its request failed: HttpClient::OnWrite does nothing then.      *)
Answered ==
    (client = "open" /\ (tls => Len(request) <= PlainCap))
    ~> \/ (told # <<>> \/ unheard) /\ (http = "closed" \/ failed)
       \/ Len(handler) > 1 /\ Last(handler) = 0
       \/ client = "gone" \/ split \/ again \/ ub # None
==============================================================================
