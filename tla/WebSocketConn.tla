---------------------------- MODULE WebSocketConn ----------------------------
(***************************************************************************)
(* One WebSocket connection at one of its ends: WebSocketSession with       *)
(* WebSocketServer over TcpSession, or WebSocketClient with HttpClient over *)
(* TcpClient.  role says which; the other end is any peer that keeps to the *)
(* framing rules: it sends its half of the HTTP upgrade, messages whole or  *)
(* in fragments, with control frames between them (a client after it has    *)
(* its answer, a server right behind its own), and may fall silent, end the *)
(* connection, or vanish.                                                   *)
(*                                                                         *)
(* Each action is a libuv callback with all that runs inside it, or a call  *)
(* of the application.  Time is the two ages that the timers look at, in    *)
(* units of the ping interval, and stands still at their limits.            *)
(*                                                                         *)
(* ub names the frame whose write throws because the handle is closed or    *)
(* takes no writes (out of a libuv callback, unless the application wrote), *)
(* or the use of a destroyed session; nothing is modelled after it.         *)
(*                                                                         *)
(* Operators named Op_Slip are mutated forms of Op, each a plausible slip   *)
(* in the lines Op models, used only to see that a property notices it.     *)
(***************************************************************************)
EXTENDS WebSocketFrames

CONSTANTS
    MaxFrames,     \* bound: frames of the peer
    PeerOps,       \* types of its frames, but for continuations
    MaxWrites,     \* bound: uv_writes told apart
    PongLimit,     \* the pong timeout, in ping intervals
    None

PingEvery == 0
Unset == -1        \* last_recv_pong_ms_ before the client's first OnTimer
ValidCode == 0     \* a close frame's payload that begins with a valid code
Reason == -1       \* the text of SendClose

ASSUME ConnAssumption ==
    /\ MaxFrames \in Nat /\ MaxWrites \in Nat \ {0} /\ PongLimit \in Nat
    /\ None \notin {"PING", "PONG", "TEXT", "CLOSE", "late_write", "freed_timer", "destroyed"}

VARIABLES
    role,            \* "server" or "client"
    \* the peer and the wire from it
    peer,            \* "here", "ended" (its end is on the wire) or "vanished"
    peer_upgrade,    \* it has sent its half of the upgrade
    sent,            \* its frames after the upgrade: [op, fin, v]
    in,              \* cells on their way
    \* the connection at this end
    tcp,             \* "connecting", "open", "broken" (after a read error), "closed"
    reading, writes, \* uv_read_start was called; uv_writes outstanding
    upgrade,         \* "reading", "ok" or "refused"
    http_recv_buffer_,
    base,            \* frame_, recv_buffer_vec_ and last_op_code_
    is_connected_, close_,
    ping_age, pong_age,  \* since last_send_ping_ms_ and last_recv_pong_ms_
    told,            \* calls of the application's callbacks
    out,             \* frames sent in answer: [op, item]
    held,            \* WebSocketServer::sessions_ holds the session
    skipped, garbled,\* frames dropped with the upgrade; the last only in part
    ub

peerVars == <<peer, peer_upgrade, sent>>
vars == <<role, peerVars, in, tcp, reading, writes, upgrade, http_recv_buffer_, base,
          is_connected_, close_, ping_age, pong_age, told, out, held, skipped, garbled, ub>>

Up == ub = None
AtMost(limit, n) == IF n > limit THEN limit ELSE n
Told(what, op, item) == [what |-> what, op |-> op, item |-> item]
OnConnection == Told("connection", "none", <<>>)
OnClose(code) == Told("close", IF code = 0 THEN "none" ELSE "error", <<>>)

(* OnAccept with WebSocketSession::Init, or AsyncConnect. *)
Init ==
    /\ role \in {"server", "client"}
    /\ peer = "here" /\ peer_upgrade = FALSE /\ sent = <<>> /\ in = <<>>
    /\ tcp = IF role = "server" THEN "open" ELSE "connecting"
    /\ reading = (role = "server") /\ writes = 0
    /\ upgrade = "reading" /\ http_recv_buffer_ = <<>> /\ base = NewBase
    /\ is_connected_ = (role = "server") /\ close_ = FALSE
    /\ ping_age = PingEvery + 1
    /\ pong_age = IF role = "server" THEN 0 ELSE Unset
    /\ told = <<>> /\ out = <<>> /\ held = (role = "server")
    /\ skipped = 0 /\ garbled = FALSE /\ ub = None
------------------------------------------------------------------------------
(* The peer.  Its half of the upgrade is accepted or not; WebSocketSession, *)
(* as a peer, may have sent a PING in front of it (its OnTimer does not     *)
(* wait for the request).                                                   *)
HttpHead(ok) == <<[k |-> "start", ok |-> ok], [k |-> "end", ok |-> ok]>>
PeerUpgrades ==
    /\ Up /\ peer = "here" /\ tcp = "open" /\ ~peer_upgrade
    /\ peer_upgrade' = TRUE
    /\ \E ok \in BOOLEAN, early \in BOOLEAN :
          /\ early => role = "client"
          /\ in' = (IF early THEN FrameCells("PING", TRUE, <<0>>, TRUE) ELSE <<>>) \o HttpHead(ok)
    /\ UNCHANGED <<role, peer, sent, tcp, reading, writes, upgrade, http_recv_buffer_,
                   base, is_connected_, close_, ping_age, pong_age, told, out, held, skipped,
                   garbled, ub>>

Fragmented ==
    \E i \in DOMAIN sent :
        ~sent[i].fin /\ \A j \in i + 1..Len(sent) : sent[j].op \notin DataOps \union {"CONT"}
PeerFrames ==
    {[op |-> o, fin |-> b, v |-> <<Len(sent) + 1>>] :
        o \in IF Fragmented THEN {"CONT"} ELSE PeerOps \intersect DataOps, b \in BOOLEAN}
    \union {f \in {[op |-> "PING", fin |-> TRUE, v |-> <<Len(sent) + 1>>],
                   [op |-> "PONG", fin |-> TRUE, v |-> <<>>],
                   [op |-> "CLOSE", fin |-> TRUE, v |-> <<ValidCode>>],
                   [op |-> "CLOSE", fin |-> TRUE, v |-> <<>>]} : f.op \in PeerOps}
PeerSends ==
    /\ Up /\ peer = "here" /\ peer_upgrade /\ tcp = "open" /\ Len(sent) < MaxFrames
    /\ role = "server" => upgrade # "reading"
    /\ \E f \in PeerFrames :
          sent' = Append(sent, f) /\ in' = in \o FrameCells(f.op, f.fin, f.v, role = "server")
    /\ UNCHANGED <<role, peer, peer_upgrade, tcp, reading, writes, upgrade,
                   http_recv_buffer_, base, is_connected_, close_, ping_age, pong_age, told,
                   out, held, skipped, garbled, ub>>

PeerGoes ==
    /\ Up /\ peer = "here" /\ tcp # "connecting"
    /\ peer' \in {"ended", "vanished"}
    /\ UNCHANGED <<role, peer_upgrade, sent, in, tcp, reading, writes, upgrade,
                   http_recv_buffer_, base, is_connected_, close_, ping_age, pong_age, told,
                   out, held, skipped, garbled, ub>>
------------------------------------------------------------------------------
(* HttpClient::OnConnect: the request is sent, or the application told. *)
Connected ==
    /\ Up /\ tcp = "connecting"
    /\ \/ tcp' = "open" /\ writes' = 1 /\ UNCHANGED told
       \/ tcp' = "closed" /\ told' = <<OnClose(-1)>> /\ UNCHANGED writes
    /\ UNCHANGED <<role, peerVars, in, reading, upgrade, http_recv_buffer_, base, is_connected_,
                   close_, ping_age, pong_age, out, held, skipped, garbled, ub>>

(* The parts of the state that the calls of one read change. *)
This == [tcp |-> tcp, writes |-> writes, is_connected_ |-> is_connected_, close_ |-> close_,
         pong_age |-> pong_age, told |-> told, out |-> out, ub |-> ub]
Becomes(e) ==
    /\ tcp' = e.tcp /\ writes' = e.writes /\ is_connected_' = e.is_connected_
    /\ close_' = e.close_ /\ pong_age' = e.pong_age /\ told' = e.told
    /\ out' = e.out /\ ub' = e.ub

(* SendWsFrame: the session writes header, key and payload one by one, the  *)
(* client all at once.  uv_write refuses a closed handle, and one that had  *)
(* a read error; TcpClient::Close leaves the handle open.                   *)
Writable(e) == e.tcp # "broken" /\ (role = "server" => e.tcp # "closed")
SendWsFrame(e, op, item) ==
    IF ~Writable(e) THEN [e EXCEPT !.ub = op]
    ELSE [e EXCEPT !.writes = AtMost(MaxWrites, @ + (IF role = "server" THEN 3 ELSE 1)),
                   !.out = IF op = "PING" THEN @ ELSE Append(@, [op |-> op, item |-> item])]

(* HandleWsClose: the reply has the payload back if it begins with a valid  *)
(* code, SendClose's text otherwise.  The client tells its application.     *)
CloseReply(item) ==
    IF item # <<>> /\ item[1] = Payload(ValidCode, 0) THEN item ELSE <<Payload(Reason, 0)>>
Closed_Not(e) == FALSE
Closed(e) == e.close_
HandleWsClose(e, item) ==
    IF Closed(e) THEN e
    ELSE LET s == SendWsFrame(e, "CLOSE", CloseReply(item))
         IN  IF role = "server" THEN [s EXCEPT !.close_ = TRUE, !.tcp = "closed"]
             ELSE [s EXCEPT !.close_ = TRUE, !.tcp = "closed", !.is_connected_ = FALSE,
                            !.told = Append(@, OnClose(0))]

(* HandleWsPing, PONG, HandleWsClose and HandleWsData, which needs a        *)
(* callback: the session has one when its request was accepted.             *)
PongReceived(age) == 0
Apply(e, c) ==
    CASE e.ub # None    -> e
      [] e.ub = None /\ c.do = "send"  -> SendWsFrame(e, c.op, c.item)
      [] e.ub = None /\ c.do = "pong"  -> [e EXCEPT !.pong_age = PongReceived(@)]
      [] e.ub = None /\ c.do = "close" -> HandleWsClose(e, c.item)
      [] e.ub = None /\ c.do = "data"  ->
            IF upgrade = "ok" THEN [e EXCEPT !.told = Append(@, Told("data", c.op, c.item))] ELSE e

(* The calls of one read, one after the other. *)
Applied(start, calls) ==
    LET e[i \in 0..Len(calls)] == IF i = 0 THEN start ELSE Apply(e[i - 1], calls[i]) IN e

(* What a cell that is no header may be taken for. *)
Junk == {Header("BIN", TRUE, FALSE, 0), Header("PING", TRUE, FALSE, 1),
         Header("CLOSE", TRUE, FALSE, 0), Header("BIN", FALSE, FALSE, MaxFrames * 3)}
NoJunk == Header("BIN", TRUE, FALSE, 0)
ReadFrames(data) ==
    /\ \E junk \in IF garbled THEN Junk ELSE {NoJunk} :
       \E h \in {HandleFrame(base, data, junk)} :
          /\ base' = h.base
          /\ \E e \in {Applied(This, h.calls)[Len(h.calls)]} : Becomes(e)
    /\ UNCHANGED <<upgrade, http_recv_buffer_, skipped, garbled>>

(* What follows the upgrade in the same read is dropped, the beginning of a *)
(* frame with the rest.                                                     *)
Drop(rest) ==
    /\ skipped' = Cardinality({i \in DOMAIN rest : rest[i].k = "H"})
    /\ garbled' = (HandleFrame(NewBase, rest, NoJunk).base.frame.buffer # <<>>)
    /\ http_recv_buffer_' = <<>>
Heads(all) == SelectInSeq(all, LAMBDA c : c.k = "end")

(* WebSocketSession::OnRead with OnHandleHttpRequest: the handler is called *)
(* and the 101 sent, or the exception caught.                               *)
ReadRequest(data) ==
    LET all == http_recv_buffer_ \o data
        e   == Heads(all)
    IN  /\ IF e = 0
           THEN http_recv_buffer_' = all /\ UNCHANGED <<upgrade, writes, is_connected_, skipped, garbled>>
           ELSE /\ Drop(SubSeq(all, e + 1, Len(all)))
                /\ IF all[e].ok
                   THEN upgrade' = "ok" /\ writes' = AtMost(MaxWrites, writes + 1) /\ UNCHANGED is_connected_
                   ELSE upgrade' = "refused" /\ is_connected_' = FALSE /\ UNCHANGED writes
        /\ UNCHANGED <<base, tcp, close_, pong_age, told, out, ub>>

(* HttpClient::OnRead and HandleHttpRespone.  Cells in front of the         *)
(* response become part of its first line and may spoil it; a refused       *)
(* response is looked at, and refused, again with every later read.         *)
Refuse == /\ told' = Append(told, OnClose(-1))
          /\ is_connected_' = FALSE /\ upgrade' = "refused"
          /\ UNCHANGED <<http_recv_buffer_, skipped, garbled>>
ReadResponse(data) ==
    LET all == http_recv_buffer_ \o data
        e   == Heads(all)
    IN  /\ \/ upgrade = "refused" /\ Refuse
           \/ /\ upgrade = "reading" /\ e = 0
              /\ http_recv_buffer_' = all
              /\ UNCHANGED <<upgrade, told, is_connected_, skipped, garbled>>
           \/ upgrade = "reading" /\ e # 0 /\ (~all[e].ok \/ e > 2) /\ Refuse
           \/ /\ upgrade = "reading" /\ e # 0 /\ all[e].ok
              /\ Drop(SubSeq(all, e + 1, Len(all)))
              /\ told' = Append(told, OnConnection)
              /\ is_connected_' = TRUE /\ upgrade' = "ok"
        /\ UNCHANGED <<base, tcp, writes, close_, pong_age, out, ub>>

OnRead ==
    /\ Up /\ tcp = "open" /\ reading /\ in # <<>>
    /\ \E n \in 1..Len(in) :
          /\ in' = SubSeq(in, n + 1, Len(in))
          /\ \/ role = "server" /\ upgrade = "reading" /\ ReadRequest(SubSeq(in, 1, n))
             \/ role = "client" /\ upgrade # "ok" /\ ReadResponse(SubSeq(in, 1, n))
             \/ /\ upgrade = "ok" \/ (role = "server" /\ upgrade = "refused")
                /\ ReadFrames(SubSeq(in, 1, n))
    /\ UNCHANGED <<role, peerVars, reading, ping_age, held>>

(* The end of the stream, or a read error (a reset, or the kernel's own     *)
(* timeout), after which libuv takes no more writes.  Either way the handle *)
(* stays open.                                                              *)
OnReadEnd ==
    /\ Up /\ tcp = "open" /\ reading /\ in = <<>>
    /\ \/ peer = "ended" /\ UNCHANGED tcp
       \/ peer # "here" /\ tcp' = "broken"
    /\ reading' = FALSE /\ is_connected_' = FALSE
    /\ told' = IF role = "client" THEN Append(told, OnClose(-1)) ELSE told
    /\ UNCHANGED <<role, peerVars, in, writes, upgrade, http_recv_buffer_, base, close_,
                   ping_age, pong_age, out, held, skipped, garbled, ub>>

(* TcpSession::OnWrite and WebSocketSession::OnWrite; HttpClient::OnWrite,  *)
(* which starts the reading.  A write may fail when the peer is gone, and   *)
(* those left when a TcpSession is closed do.                               *)
OnWrite ==
    /\ Up /\ writes > 0
    /\ writes' = writes - 1
    /\ \/ /\ reading' = (reading \/ (role = "client" /\ upgrade = "reading" /\ tcp = "open"))
          /\ UNCHANGED is_connected_
       \/ /\ peer # "here" /\ UNCHANGED reading
          /\ is_connected_' = (is_connected_ /\ (role = "client" \/ tcp = "closed"))
    /\ UNCHANGED <<role, peerVars, in, tcp, upgrade, http_recv_buffer_, base, close_, ping_age,
                   pong_age, told, out, held, skipped, garbled, ub>>
------------------------------------------------------------------------------
Tick ==
    /\ Up
    /\ ping_age' = AtMost(PingEvery + 1, ping_age + 1)
    /\ pong_age' = IF pong_age = Unset THEN Unset ELSE AtMost(PongLimit + 1, pong_age + 1)
    /\ <<ping_age', pong_age'>> # <<ping_age, pong_age>>
    /\ UNCHANGED <<role, peerVars, in, tcp, reading, writes, upgrade, http_recv_buffer_, base,
                   is_connected_, close_, told, out, held, skipped, garbled, ub>>

(* OnTimer of the session: a PING, before the upgrade and after Close too.  *)
(* OnTimer of the client: the PING, and the pong timeout.                   *)
PingDue == ping_age > PingEvery
Pinged == IF PingDue THEN SendWsFrame(This, "PING", <<>>) ELSE This
ClientTimer(e) ==
    CASE pong_age = Unset     -> [e EXCEPT !.pong_age = 0]
      [] pong_age > PongLimit -> [e EXCEPT !.is_connected_ = FALSE, !.tcp = "closed",
                                           !.told = Append(@, OnClose(-1))]
      [] pong_age \in 0..PongLimit -> e
OnTimer ==
    /\ Up /\ is_connected_ /\ (role = "server" => held)
    /\ ping_age' = IF PingDue THEN 0 ELSE ping_age
    /\ Becomes(IF role = "client" THEN ClientTimer(Pinged) ELSE Pinged)
    /\ UNCHANGED <<role, peerVars, in, reading, upgrade, http_recv_buffer_, base, held, skipped,
                   garbled>>

(* sessions_ lets the session go, which destroys it and closes its handle:  *)
(* WebSocketServer::OnTimer, or OnAccept from an endpoint that is in use    *)
(* again.  Writes that are left are called back through the destroyed       *)
(* TcpSession.  The session's timer is freed without uv_close, so it stays  *)
(* in the loop's list of handles, next to the handle of the connection:     *)
(* when that one is taken out, the list's links are written in the freed    *)
(* timer.  Only a handle that is closed already has left it alone (until    *)
(* the loop's next handle comes or goes beside it).                         *)
Destroyed ==
    /\ held' = FALSE /\ tcp' = "closed" /\ is_connected_' = FALSE /\ writes' = 0
    /\ ub' = CASE writes > 0 -> "late_write"
               [] writes = 0 /\ tcp # "closed" -> "freed_timer"
               [] writes = 0 /\ tcp = "closed" -> ub
    /\ UNCHANGED <<role, peerVars, in, reading, upgrade, http_recv_buffer_, base, close_,
                   ping_age, pong_age, told, out, skipped, garbled>>
PongTimedOut_IfConnected == is_connected_ /\ pong_age > PongLimit
PongTimedOut == pong_age > PongLimit
ServerOnTimer == Up /\ held /\ PongTimedOut /\ Destroyed
OnAcceptAgain == Up /\ held /\ peer # "here" /\ Destroyed

(* The application writes: with the session its handler was given, of whose *)
(* end no callback tells it, or with its client, after OnClose too.         *)
AppWrites ==
    /\ Up /\ upgrade = "ok" /\ writes < MaxWrites
    /\ IF role = "client" \/ held
       THEN Becomes([SendWsFrame(This, "TEXT", <<>>) EXCEPT !.out = out])
       ELSE /\ ub' = "destroyed"
            /\ UNCHANGED <<tcp, writes, is_connected_, close_, pong_age, told, out>>
    /\ UNCHANGED <<role, peerVars, in, reading, upgrade, http_recv_buffer_, base, ping_age, held,
                   skipped, garbled>>

Next ==
    \/ PeerUpgrades \/ PeerSends \/ PeerGoes
    \/ Connected \/ OnRead \/ OnReadEnd \/ OnWrite
    \/ Tick \/ OnTimer \/ ServerOnTimer \/ OnAcceptAgain \/ AppWrites

Spec == Init /\ [][Next]_vars

(* Time passes, the timers run, and libuv delivers what has arrived and     *)
(* calls back what is written.  The peer and the application owe nothing.   *)
FairSpec ==
    /\ Spec
    /\ WF_vars(Connected) /\ WF_vars(OnRead) /\ WF_vars(peer = "ended" /\ OnReadEnd)
    /\ WF_vars(OnWrite)
    /\ WF_vars(Tick) /\ WF_vars(OnTimer) /\ WF_vars(ServerOnTimer)
------------------------------------------------------------------------------
(* Types; what HandleFrame leaves in the parser is less than a frame. *)
TypeOK ==
    /\ peer \in {"here", "ended", "vanished"} /\ tcp \in {"connecting", "open", "broken", "closed"}
    /\ upgrade \in {"reading", "ok", "refused"} /\ writes \in 0..MaxWrites
    /\ is_connected_ \in BOOLEAN /\ close_ \in BOOLEAN /\ reading \in BOOLEAN
    /\ ping_age \in 0..PingEvery + 1 /\ pong_age \in Unset..PongLimit + 1
    /\ base.last_op \in DataOps /\ ~PayloadIsReady(base.frame)
    /\ skipped \in 0..Len(sent)
    /\ ub \in {None, "PING", "PONG", "TEXT", "CLOSE", "late_write", "freed_timer", "destroyed"}

(* Of frames fs: the type of the frame that ends the wait of the i-th (the  *)
(* next with fin, control frames included), the type of the message it      *)
(* belongs to, and its payload.                                             *)
Fate(fs, i) ==
    LET ends == {j \in i..Len(fs) : fs[j].fin}
    IN  IF ends = {} THEN "waits" ELSE fs[Min(ends)].op
OpOf(fs, i) ==
    LET starts == {j \in 1..i : fs[j].op \in DataOps}
    IN  IF starts = {} THEN "TEXT" ELSE fs[Max(starts)].op
Item(f) == [j \in DOMAIN f.v |-> Payload(f.v[j], 0)]

(* Picks(s, I)[n]: the members among the first n of s whose index is in I,  *)
(* in order; Picked(s, I): all of them.                                     *)
Picks(s, I) ==
    LET p[n \in 0..Len(s)] == IF n = 0 THEN <<>>
                              ELSE IF n \in I THEN Append(p[n - 1], s[n]) ELSE p[n - 1]
    IN  p
Picked(s, I) == Picks(s, I)[Len(s)]

(* What frames are to be handed over as, and answered with. *)
With(fs, fates) == {i \in DOMAIN fs : Fate(fs, i) \in fates}
AsData(fs) == [i \in DOMAIN fs |-> Told("data", OpOf(fs, i), Item(fs[i]))]
AsPongs(fs) == [i \in DOMAIN fs |-> [op |-> "PONG", item |-> Item(fs[i])]]
DataDue(fs) == Picked(AsData(fs), With(fs, DataOps \union {"CONT"}))
PongsDue(fs) == Picked(AsPongs(fs), With(fs, {"PING"}))

(* The frames that were not dropped with the upgrade. *)
Frames == SubSeq(sent, skipped + 1, Len(sent))

(* For every split of the reads the application is given the fragments of   *)
(* every message unmasked, once, in order and with the message's type, and  *)
(* every PING is answered with its own payload; when all has been read      *)
(* nothing is missing.  The exceptions are the code's: frames behind the    *)
(* upgrade in its read are dropped, and if the last of them only in part,   *)
(* nothing is sure any more; a control frame takes the fragments that wait  *)
(* with it, and a PING answers each of them with a PONG.                    *)
DeliveredInOrder ==
    ~garbled =>
        LET data  == Picked(told, {i \in DOMAIN told : told[i].what = "data"})
            pongs == Picked(out, {i \in DOMAIN out : out[i].op = "PONG"})
        IN  /\ IsPrefix(data, DataDue(Frames)) /\ IsPrefix(pongs, PongsDue(Frames))
            /\ (Up /\ tcp = "open" /\ upgrade = "ok" /\ in = <<>> /\ base.frame.buffer = <<>>)
                  => data = DataDue(Frames) /\ pongs = PongsDue(Frames)

(* How a connection ends.  The client tells its application of the end once *)
(* (again and again only when it refused the upgrade), of the connection at *)
(* most once and before it; its own frames are never refused, and a write   *)
(* of its application only after it was told.  The session answers one      *)
(* CLOSE, however many arrive, and never in vain.  After that its own       *)
(* timer, a PING behind the CLOSE or the application may write to the       *)
(* closed TcpSession, since is_connected_ stays set and nobody is told; a   *)
(* read error stops the timer, but not the application, whose next write    *)
(* throws.  Without either no write throws, and without a CLOSE a session   *)
(* does not outlive its destruction unnoticed: only one that was closed     *)
(* before can be destroyed without touching freed memory, and be used       *)
(* afterwards.                                                              *)
EndsCleanly ==
    LET closes == {i \in DOMAIN told : told[i].what = "close"}
    IN  /\ role = "client" /\ ub # None => ub = "TEXT" /\ closes # {}
        /\ upgrade # "refused" => Cardinality(closes) <= 1
        /\ \A i \in DOMAIN told : told[i].what = "connection" => i = 1
        /\ \A i \in closes, j \in DOMAIN told : told[j].what = "data" /\ j > i => close_
        /\ Cardinality({i \in DOMAIN out : out[i].op = "CLOSE"}) <= 1
        /\ ub \in {"PING", "PONG", "destroyed"} => close_
        /\ ub = "TEXT" => close_ \/ (tcp = "broken" /\ ~is_connected_)
        /\ ub # "CLOSE"

(* A peer that is gone is noticed, with or without an end on the wire: the  *)
(* server lets the session go, the client's application hears OnClose.  (A  *)
(* client whose upgrade is never answered is not covered: its OnTimer does  *)
(* nothing before the upgrade.)                                             *)
PeerLossNoticed ==
    (/\ peer # "here"
     /\ role = "client" => upgrade = "ok" \/ (peer = "ended" /\ reading))
    ~> \/ IF role = "server" THEN ~held ELSE \E i \in DOMAIN told : told[i].what = "close"
       \/ ub # None
==============================================================================
