# A TLA+ model of co_stream

co_stream is a C++20 coroutine network library on libuv. This directory holds
TLA+ modules for its core, TLC runs that check them on small instances, and
TLAPS proofs that hold for every value of the constants. Paths below are
relative to `src/src/`.

## 1. The system

Everything runs on one libuv loop in one thread. There are no data races; what
is hard is the order of callbacks, what a suspended coroutine still relies on
when it is resumed, and who keeps which object alive while libuv still has a
request that points to it. A callback runs to completion; a
`handle_.resume()` in it runs the coroutine up to its next `co_await`, nested in
the callback.

| Part | State | Operations | Interacts with |
|---|---|---|---|
| `utils/data_buffer.hpp` DataBuffer | heap block, `buffer_size_`, `start_`, `end_`, `data_len_` | `AppendData`, `ConsumeData` (also negative), `Reset`, copy | used by every connection |
| `net/tcp/co_tcp/co_tcp_server` TcpCoAcceptConn and its awaiters | `recv_buffer_`, `recv_size_`, `read_awaiters_`, `write_awaiters_`, the uv handle | `CoReceive`, `CoSend`, `OnReceive`, `OnWrite`, destructor | libuv stream; held by `shared_ptr` |
| CoTcpServer, echo server | `awaiters_`, `Run`'s `accept_conn`, one `EchoRecv` frame per client | `CoAccept`, `OnConnection`, `AcceptConnection` | libuv listener, TcpCoAcceptConn |
| `net/tcp/co_tcp/co_tcp_client` TcpCoConn, echo client | `send_buffer_`, `recv_buffer_`, three awaiter callbacks, `read_started_`, `is_job_running_` | `CoConnect`, `CoSend`, `CoReceive`, `OnRead`, `OnWrite`, `OnTimer` | libuv stream, TimerInterface |
| `net/http/co_http` CoHttpServer, CoHttpSession, CoHttpResponse | `http_sessions_`, `alive_ms_`, `is_close_`, request assembly, `written_header_` | `Run`, `HandleRequest`, `Write`, `OnTimer`, `OnClose` | CoTcpServer, TcpCoAcceptConn, timer |
| `net/tcp` TcpServer, TcpSession, TcpClient | `close_`, `read_start_`, write requests | `AsyncConnect`, `AsyncRead`, `AsyncWrite`/`Send`, `Close`, destructors | libuv, raw callback pointers |
| `net/tcp` SslServer, SslClient | TLS state, `bio_in_`, `bio_out_`, `plaintext_data_` | `Handshake`, `HandleSslDataRecv`, `SslWrite` | between the socket and the TCP classes' callbacks |
| `net/http` HttpServer, HttpSession, HttpResponse, HttpClient | session map, header/content buffers, `remain_bytes_`, `continue_flag_` | `OnAccept`, `OnRead`, `OnWrite`, `HandleRequest`, `Write`, `Close` | callback TCP; the application may keep a response |
| `net/http/websocket` frame, session base, session, server, client | frame parser, `recv_buffer_vec_`, `last_op_code_`, ping/pong times, `is_connected_`, `close_` | `Parse`, `HandleFrame`, `OnHandleHttpRequest`, `HandleHttpRespone`, `OnTimer`, `HandleWsClose` | callback TCP, HttpClient, timer |
| `net/rtmp/co_rtmp` C1S1Handle, C2S2Handle, CoRtmpSession | handshake `phase_`, `recv_data_`, `recv_buffer_`, `hs_` | `Run`, `HandleRequest`, `ParseC1`, `MakeS1`, `MakeC0C1`, ... | TcpCoAcceptConn |
| `utils` (logger, time, uuid, base64, crc, byte streams, media types) | none or counters | conversions | everywhere |

What makes each part correct:

- DataBuffer: it is a byte queue, and never writes outside its block.
- TcpCoAcceptConn: bytes arrive once and in order; every awaiter gets the
  answer of its own call; a callback never meets a destroyed connection.
- CoTcpServer: no client is ignored while somebody accepts; a socket is open
  exactly while it is held.
- TcpCoConn: no byte is lost; libuv's pointer into `send_buffer_` stays good;
  a job always ends, so that the next can start.
- CoHttpServer: the session table and the open connections agree; only complete
  requests are answered, in the order of the handler's calls; no session stays
  for ever unless its client keeps it alive.
- Callback HTTP, with and without TLS: the client is told what the handler
  wrote, whatever the splits of the reads; the table holds exactly the open
  sessions; callbacks and the application find the objects they use alive; a client
  that stays is answered.
- WebSocket: fragments are delivered once, in order and with their message's
  type; PINGs are answered; a connection ends once and cleanly; a peer that is
  gone is noticed.
- RTMP: the answer fits the client's schema and offsets; C0C1 is answered once,
  and the handshake of a client that waits goes through.

The hazards of the code, each at its line and with the properties that would
catch it going wrong, are listed in `PROJECT.json`.

## 2. Modules

| Module | Models | Actions |
|---|---|---|
| `ByteQueue` | abstract specification: a FIFO of bytes | `Push`, `Pop`, `GiveBack`, `Clear` |
| `DataBuffer` | the buffer, byte by byte; refines `ByteQueue` | one per operation; `AppendData` has the code's three cases |
| `TcpCoAcceptConn` | one accepted connection shared by any coroutines | `CoReceive`, `CoSend`, `Return` of a coroutine; libuv's `OnReceiveData`, `OnReceiveEnd`, `OnWrite`, `OnCoConnUVClose`; `OwnerRelease`; the peer |
| `EchoServer` | the echo server program: listener, `Run`, `EchoRecv`s | one per libuv callback, with all that runs inside it |
| `TcpCoConn` | the client connection, and the timer that starts jobs | job steps, libuv callbacks, timer, peer |
| `CoHttpServer` | accept loop, session table, timer, `HandleRequest`, handlers' `Write`s and `WriteStatus`es | one per libuv callback |
| `SslPeers` | SslServer and SslClient as operators on their states | |
| `HttpExchange` | HttpClient over TcpClient, and HttpServer over TcpServer and TcpSession, composed; with TLS through `SslPeers` | one per libuv callback of either side, the application's late `Write` and `Close`, and another client's second request |
| `WebSocketFrames` | WebSocketFrame and WebSocketSessionBase::HandleFrame as operators | |
| `WebSocketConn` | one end of a WebSocket connection: WebSocketSession with its server, or WebSocketClient over HttpClient; the other end is any peer that keeps the framing rules | reads, write callbacks, both timers, the application, the peer |
| `RtmpHandshake` | C0C1, S0S1S2 and C2 as operators on cells: both schemas, offsets, digests, keys | |
| `CoRtmpSession` | Run and the HandleRequests it starts without waiting, and a client | libuv callbacks, the client |
| `DataBuffer_proofs`, `TcpCoAcceptConn_proofs`, `EchoServer_proofs`, `TcpCoConn_proofs`, `CoHttpServer_proofs`, `CoRtmpSession_proofs`, `HttpExchange_proofs`, `WebSocketConn_proofs` | the theorems of section 4, each about the module it extends (`CoRtmpSession_proofs` about `RtmpHandshake` too) | |
| `MC*` | values of the constants for TLC | |

Names follow the code. Operators named `Op_Slip` are mutated forms of `Op`
(a dropped guard, a missing reset, a swapped order) that show, for each
property, that it notices such a slip; no specification uses them.

The modules are layers over the same code: `TcpCoAcceptConn` uses the byte queue
that `DataBuffer` is shown to implement, and `EchoServer` and `CoHttpServer`
keep of a connection only what their own questions need (where its coroutine
waits, whether it is open). `HttpExchange` composes the two sides of a
connection, `CoRtmpSession` a session and its client.

How the code's features appear:

- *Coroutines.* In `TcpCoAcceptConn` and `TcpCoConn` a coroutine is `"running"`
  from its resumption to its next `co_await`; no libuv callback is enabled
  meanwhile. Which call it makes next is free. `CoVoidTask` never suspends at
  its start or end, so a call of a coroutine runs to its first `co_await`.
- *`shared_ptr`.* A frame holds its copies until it returns. The destructor is
  part of the step in which the last holder goes.
- *libuv* is external: read callbacks with 1 to ReadMax bytes, the end of the
  stream reported once and behind the last byte, writes completed in order with
  either status, writes still queued at `uv_close` called back with
  `UV_ECANCELED`, `nread = 0` when it reads on after a full read, and a listener
  that stops polling when nobody takes its socket.
- *Undefined behaviour.* A `memcpy` between overlapping areas leaves one of the
  results of a bytewise or a blockwise copy (`overlap`). A write outside the heap
  block (`overrun`), a call through a null callback and a cast of an
  uninitialized `handle->data` (`crashed`), and a callback on a destroyed object
  (`dangling`) are recorded. A `getpeername` that fails leaves an uninitialized
  address: any endpoint, or none of the table. In `HttpExchange` and
  `WebSocketConn` `ub` names the first use of a destroyed object or the exception
  that leaves a libuv callback; no step is followed after it.
- *Bytes.* The callback stacks and RTMP move cells: a cell is a part of a
  message that the code tells apart (a first line, the end of a header with its
  Content-Length, a byte of content, half of a TLS flight, a record's overhead, a
  frame's header, a masked byte, an offset, a digest). Reads cut the stream
  between any two cells. A digest is the term of what it was computed from, so
  that two digests agree only if all their inputs do.
- *Time* in `WebSocketConn` is two saturating ages, since the last ping and the
  last pong, compared with their limits; a `CoHttpServer` session counts timer
  periods.

## 3. Runs

| Run | Checks | States |
|---|---|---|
| `data_buffer` | `TypeOK`, `OverrunOnlyWhenTiny`, `ImplementsByteQueue` | 147,967 |
| `accept_conn` | `ReceiverFindsBufferEmpty`, `InOrderExactlyOnce`, `SendAnswerTruthful`, `NoDanglingCallback`, `SendAnswered`, `ReceiveAnswered`, `HandleFreed` | 102,045 |
| `echo_server` | `OpenExactlyWhileHeld`, `NothingIgnoredWhileRunAccepts`, `QueuedIsAccepted`, `EndReleases` | 134,573 |
| `http_server` | `TableMatchesConnections`, `OnlyCompleteRequestsAnswered`, `ResponseAsCalled`, `EverySessionEnds` | 456,826 |
| `client_conn` | `NothingLost`, `ReceiverIsReachable`, `SendBufferStable`, `CrashOnlyOutOfTurn`, `JobEndsWithPeer` | 16,620 |
| `https` | `ToldWhatWasWritten`, `TableExact`, `SafeCallbacks`, `Answered` | 295,701 |
| `websocket` | `DeliveredInOrder`, `EndsCleanly`, `PeerLossNoticed` | 727,997 |
| `rtmp` | `AnswerFitsClient`, `AnsweredOnce`, `PatientClientConnects` | 57,343 |
| `buffer_copy` | `CopyIsDeep`: violated | |
| `http_close` | `NoDanglingCallback` of `CoHttpServer`: violated | |
| `client_send_error` | `SendAnswered` of `TcpCoConn`: violated | |
| `client_partial_recv` | `BufferedDataIsReported`: violated | |

Every passing run checks its module's `TypeOK` too. The last four are places where the code does something else than its own
comment, log line or error branch says:

- `DataBuffer`'s "deep copy" copies from offset 0 instead of `start_`
  (`data_buffer.hpp:41`, `:55`).
- `CoHttpServer::OnTimer` "closes" a session whose response is still being
  written; the cancelled write then reaches the destroyed connection. (In the trace
  the client has reset the connection; one that does not read has the same effect.)
- `TcpCoConn::OnWrite` resumes nobody when a write fails, so the error branch of
  `CoTcpSendPromise::OnAwaiterSend` for a failed write is never reached.
- `CoTcpRecvPromise::OnAwaiterRecv` resumes the coroutine before it sets the
  result when only part of the buffer was taken.

Some properties of passing runs name circumstances in which the code does not keep
what it promises otherwise. They are what the model has; a property says nothing of
what the last section lists as not modelled.

- `EverySessionEnds`: not for a client that goes on sending for ever without
  completing a request. Every read refreshes `alive_ms_` (`co_http_session.cpp:35`),
  and neither the length of a header nor what follows a POST without content is
  bounded (`OnReceiveMore`).
- `TableExact`: a TLS handshake that fails closes the `TcpSession` and tells nobody
  (`tcp_session.hpp:239`), so its session stays in the table: when the ClientHello
  comes in two reads, when OpenSSL refuses what came or the client refuses the
  certificate, and when `SslInit` cannot read its key or certificate.
- `ToldWhatWasWritten`: with one request on the connection, and, for the end, if the
  response is not shortened. `SslWrite` sends every record by itself, and the
  overhead of each, one cell, is taken off `remain_bytes_` too (`http_session.cpp:70`).
  A response is shortened if it goes over TLS and its last record with content is no
  longer than the number of its records with content; `remain_bytes_` may then run
  out before that record is written.
- `SafeCallbacks`: a write callback or a read meets a destroyed object only if a
  client goes early or sends a second request, if a TLS response is shortened, for a
  bad request over TLS, or if the application closes a response inside its handler
  (`HandleRequest` goes on with the destroyed session, `http_session.cpp:148`) or while
  it is still being written. A response the application keeps is told when its
  session closes, unless a second GET has replaced it (`http_session.cpp:142`).
- `Answered`: not for a flight of the handshake that SslServer gets in parts, nor
  for a request longer than `plaintext_data_` (one `SSL_read` per read), nor for a
  handler of several `Write`s of which the last is empty: it queues nothing, so no
  write callback may be left to close the session.
- `DeliveredInOrder`: frames in the same read as the client's 101 response are
  dropped (`websocket_client.cpp:213`), and a control frame takes the waiting
  fragments of a message with it (`ws_session_base.cpp:54`).
- `EndsCleanly`: after a CLOSE, a session may still write to its closed
  `TcpSession` (`is_connected_` stays set), which throws. After a read error libuv
  refuses every write (`stream.c:1095` and `:1302` of the vendored libuv); the session
  stops its pings but tells nobody, so the application's next write throws. The
  client's application is told before that. A session that the server lets go while
  its connection is open has already touched freed memory: a write still queued is
  called back, or the links of its timer, freed without `uv_close`, are written when
  the connection's handle leaves the loop's list (`freed_timer`). Only a session that a
  CLOSE had closed goes without that.
- `AnsweredOnce`, `PatientClientConnects`: for clients whose C0C1 comes in one
  read and that send C2 after all of S0S1S2. Others are not promised anything:
  `Run` appends all of `recv_data_` whatever it received
  (`co_rtmp_session.cpp:36`), and does not wait for `HandleRequest` (`:38`).
- `ResponseAsCalled`: the bodies of several `Write`s keep their order, but each
  sends a header of its own, since `written_header_` is set only when the first
  is sent and `CoTask` cannot be awaited.

### Bounds, and why they are enough

- `data_buffer`: all lengths of the code are scaled down and keep their order
  (header 2, extra 3, growth steps 9, 11, 13, 16). The initial sizes lie below
  the header, at the point where in-place appending just works, and above it, and
  7 bytes in total reach every case of `AppendData`, compaction with and without
  overlapping areas and growth from a consumed buffer included.
- `accept_conn`: two coroutines, so that senders queue and one may return while
  the other waits; 3 bytes, reads of up to 2, receive sizes 1 and 3: a read may
  bring more and less than a `CoReceive` takes.
- `echo_server`: three clients, one whose connection `Run` still holds, one
  held only by its `EchoRecv`, and one in the listen queue; two accept errors.
- `http_server`: two connections and two endpoints (reuse of an endpoint, and a
  wrong endpoint that hits the other session); a header of two pieces, a body of
  one; a lifetime of two timer periods instead of 25; the first connection's
  handlers make two calls, the second's one; on the second also a request without a
  handler, a header that does not parse and a POST without content. `http_close` has one connection and
  one `Write`, which suffice.
- `client_conn`: two jobs in turn, two sends (one may be empty), five bytes, a
  read buffer of three (full and partial reads), receive sizes 1 and 2.
- `https`: two connections in turn from one endpoint, so that the second may meet
  the first one's session; GET, OPTIONS, a bad request and POSTs of content 0 to
  2, so that a request fits `plaintext_data_` (3 cells) or does not; records of 4
  cells, in which every request and header fits (`RequestAssumption`); handlers that
  write once (nothing, less than a record, one that the overhead of two records
  shortens and one that it does not) or twice, among them one whose last `Write` is
  empty, one that is shortened and one that is not. Another client's second request
  comes once, on the last connection: more of them repeat the same replacement of
  `response_ptr_`. Of its connection only the server's side is followed.
- `websocket`: three frames of BIN, PING, PONG and CLOSE with and without `fin`
  (two fragments and a control frame between them), one write of the
  application at a time, a pong limit that the next tick exceeds.
- `rtmp`: blocks of 6 cells with keys of 3 instead of 764 and 128 bytes; offset
  sums 0 and 3, so that key and digest lie at the start and inside their blocks;
  three reads, of everything or of a part, enough for C0C1 in two and C2.

`CHECK_DEADLOCK FALSE` is set because every system here may come to rest: the
peers may stop for ever, coroutines and jobs return, and bounds end the input.

### Fairness

Weak fairness of libuv's callbacks: `uv_run` polls every open handle in each
iteration and calls back what is ready. A running coroutine reaches its next
`co_await` or its end. A completed write is assumed for every queued write in
`TcpCoAcceptConn`, `EchoServer` and `TcpCoConn` (with either status: a socket
whose peer neither reads nor ends keeps a sender waiting, which these liveness
properties exclude), and not in `CoHttpServer`, where only the timer and the
completion of `uv_close` are fair: `EverySessionEnds` must hold for clients that
stall; it excludes only those that send for ever. In `HttpExchange` and `CoRtmpSession` the socket takes what is written and
libuv calls the write back before it polls for another read. In `WebSocketConn`
reads, the end of the stream (not a read error, which nothing obliges to happen),
write callbacks, the clock and both timers are fair. The application is
never obliged to act, and nothing obliges a peer to connect, send or end.

## 4. Proofs

`DataBuffer_proofs`: for all sizes, growth tables and inputs with
`EXTRA_LEN >= PRE_RESERVE_HEADER_SIZE` and a `size_t` large enough for the bytes
appended (the named assumptions of `DataBuffer`),

- `TypeCorrect`, `NoOverrun`: invariance of `TypeOK` and `OverrunOnlyWhenTiny`.
  The inductive invariant adds `Capacity`: the block holds at least the header;
  a buffer created with at least the header's size keeps `buffer_size_` there, so
  that `buffer_size_ - PRE_RESERVE_HEADER_SIZE` never wraps; one created smaller
  never grows (the wrapped difference lets every append pass), and its `end_` is
  at most the header plus the bytes appended. Without it the comparisons in
  `AppendData` say nothing about the block.
- `ByteQueueRefined`: every step without an overlap or overrun is a step of
  `ByteQueue` on the visible bytes. Lemmas give what `Write` and `Memcpy` leave
  in a block; each case of `AppendData` then concatenates.

`TcpCoAcceptConn_proofs`: for any set of coroutines, sizes and bounds,
`TypeCorrect`, `ReceiverNeverWaitsOnData`, `StreamDelivered`,
`SendsAnsweredTruthfully` and `NoUseAfterDestroy`. The inductive invariant is
the conjunction of four parts: receiving (at most one receiver, queued exactly
while its coroutine is in `CoReceive`, and then with an empty buffer), sending
(the two write queues in step, each waiting sender once in them, and every
written request one that was made), life (the handle is closing only when
nobody holds the connection) and stream (what was delivered, buffered and lost
is what libuv read). Life and sending together give `NoUseAfterDestroy`: a
pending request has a waiting coroutine, a waiting coroutine holds the
connection. There is one lemma per action and part that the action can disturb.

`SendsAnsweredTruthfully` includes `WriteQueuesInStep`: the i-th waiting sender
is the one that made libuv's i-th outstanding request.

`EchoServer_proofs`: for any set of clients, `TypeCorrect`,
`HeldExactlyWhileOpen` and `AcceptingServerAwaits`. The inductive invariant is
`TypeOK`, both properties, and `QueuedOnce`: a client is in the listen queue at
most once and only before it has a connection, without which an accept could
give a second connection to a client that has one.

`TcpCoConn_proofs`: for any read buffer, sizes and bounds, `TypeCorrect`,
`ClientLosesNothing`, `WaitingReceiverReachable`, `SendBufferKept` and
`CrashNeedsMixedOrder`. The inductive invariant adds three parts: jobs
(`is_job_running_` exactly while there is a job), sending (libuv holds at most
the request of the `CoSend` the job waits in, and that request is what
`send_buffer_` holds) and receiving (a promise is registered exactly while the
job waits in `CoReceive`, and then `recv_buffer_` is empty). The last is why
`OnRead` may hand its bytes to the receiver without passing over older ones.

`CoHttpServer_proofs`: for any connections, endpoints, requests, handlers and
lifetime, `TypeCorrect`, `TableIsExact`, `AnswersCompleteRequests` and
`ResponseInCallOrder`. The inductive invariant adds what a connection in each
state may have written and how long it may have been idle; that a session is in
the table under its own endpoint only, so that erasing or replacing an entry
cannot take another session along; and, for the order of the response, the
relation between the queued and the sent parts (`QueueInOrder`, `SentInOrder`):
a queued body has its header among the parts sent, and belongs to an earlier call
than every header still queued.

`CoRtmpSession_proofs`, its first part, about the operators of `RtmpHandshake`:
for blocks and keys of any length with `BlockLen > KeyLen + 1` and `BlockLen > 2`
(764 and 128 in the code), any offsets and random bytes,

- `C1Recognised`: `ParseC1` recognises the schema of every C1 that a client makes
  with either schema, and finds in it the key and the digest the client put there;
  no C1 of SCHEMA0 passes the test for SCHEMA1, which the code makes first.
- `AnswerFits`: at the places the client's schema and offsets name, S1 has the key
  computed from the client's key and the server's digest over what the client
  sent, and S2 is made from C1's digest.

Both rest on lemmas about the layout: wherever the offset puts the key or digest,
the parts before and after it fill the block, so that a block
is cut where it was put together.

Its second part, about the session: for any layout as above and a receive buffer that holds
C0C1 and more, `TypeCorrect`, `ClientGetsItsAnswer` and
`PatientClientAnsweredOnce`. The inductive invariant says that C1 is one the
client made, that before the first read nothing but C0C1 exists, which parts of
the answer are still with libuv while the client has the others, and, for a
client that waits with C2, that there is never a second answer: until it has both
parts, nothing is on its way to the session.

`HttpExchange_proofs`: for any connections, requests and handlers, with and
without TLS, for reads cut anywhere and any capacity of `plaintext_data_` and of a TLS
record (`ExchangeAssumption`: the methods are among the four of the model, and a
handler makes at least one `Write`; `RequestAssumption`: a header, and a whole request,
fits in one record),

- `TypeCorrect`, `TableIsExact`: invariance of `TypeOK` and `TableExact`, from an
  invariant in four parts: the wire between the two sockets, the TLS states, the
  application's kept response, and the session with its table entry.
- `CallbacksAreSafe`: `SafeCallbacks`, that is, a use of a destroyed object only in
  the circumstances the property names. Two further parts are needed. `GoneInv`
  says what is left of a connection whose client or session is gone. `LiveInv`
  follows a connection whose client is there and sends one request through the
  phases of its exchange (four in plain text, eleven with TLS: the flights of the
  handshake, the request, the answer, the end), with what is on the wire and in both
  TLS states in each. While the answer is written, `Accounted` says that
  `remain_bytes_`, together with the overhead of the records already called back,
  is the sum of the plaintext sizes of the queued writes; so it reaches 0 before the
  last write callback only for a response that TLS shortens, and otherwise the
  session is closed by the last one, after which no callback is left to meet it.

`ToldWhatWasWritten` is model-checked only.

`WebSocketConn_proofs`: at either end, for any number and types of frames of the
peer, any split of the stream into reads and any pong limit (`ConnAssumption`: the
bounds are naturals, a write can be told from none, and `None` is none of the
names `ub` takes),

- `TypeCorrect`: `TypeOK`, with what it says of the code: after every read the
  parser holds less than a frame, and the frames dropped with the upgrade are at
  most those sent.
- `EndsAreClean`: `EndsCleanly`.
- `InOrderDelivery`: `DeliveredInOrder`.

`HandleFrame`'s loop and the calls of a read are recursive functions. That they
exist, and what they keep, is shown by induction over the set of rounds for which
it holds (`UpTo`, from the least element of a set of naturals); a round without a
complete frame is the last that changes anything, every other takes a cell
(`RoundTakes`, `LoopEnds`). The inductive invariant adds why an end is told once:
after it the client's timer is off, and its reading has stopped and no outstanding
write will start it (`ClientInv`); why a write that is refused follows a CLOSE or a
read error: while the session is held nothing else closes its socket (`ServerInv`), and an end
that breaks it has stopped the pings and was told at the client; that during
a read the socket is closed and an end told by a CLOSE only (`Reads`); and that
the wire has no more frame headers behind an HTTP head than the peer has sent
frames (`HeadInv`).

`DeliveredInOrder` compares all that was told and answered with all that was sent,
and needs the place of every frame in between (`FlowInv`). A sequence of cells
*carries* the frames behind the c-th if there are places at which one ends and the
next begins (`Carries`); before the upgrade all frames are carried behind the first
end of an HTTP head (`StartInv`), and afterwards, for some c, the parser's buffer
followed by the wire carries the frames behind the c-th, `recv_buffer_vec_` holds the
unmasked payloads of the last of the first c, which wait for a `fin`, and
`last_op_code_` is the type of their message (`ParserAt`); what was told and answered
is what is due of the frames before those (`Delivered`). The argument then follows
the code: a round of the loop that finds a whole frame finds the next one the peer
sent (`NextFrame`), and the calls it makes settle the frames that waited for it
(`CallsCover`, `RoundHandles`); the calls of the whole read settle all from the first
that waited before it to the last it completed (`HandleFrameParses`), and applied one
by one they deliver these, or one of them throws and what has been told is a
beginning (`CallsDeliver`). What is dropped with the upgrade is, if it ends with a
frame, as many frames as it has headers (`DropLeaves`), so the parser starts where
the next begins. A frame sent later cannot change what is due of settled ones
(`DueStays`); with everything read, only frames that wait for a `fin` are left, of
which nothing is due (`AllDelivered`). That a message begins only behind the end of
the last (`FramesOK`) is what makes the type of a settled message the one its first
fragment had.

Only model-checked are the liveness properties: the prover has no ENABLED and no
fairness reasoning.

## 5. What is not modelled, and the plan

Not modelled:

- Vendored and generated code: `utils/json.hpp`, and the libuv and OpenSSL headers
  under `win_3rdparty/`. They are most of the repository's lines (the JSON header
  alone a third of them); the modules cover the program's own code.
- `utils`: base64, crc, byte streams, string splitting, uuid, logger, media
  records. Pure conversions or counters; no behaviour above depends on more than
  that they are functions.
- `RtmpServer`: it stores sessions but never calls their `Run` and never starts
  its timer (`co_rtmp_server.cpp:56`), so there is no behaviour to check; of the
  RTMP client only what it sends (`MakeC0C1`, `MakeC2`), not `ParseS0S1S2`.
- In the modelled parts: the tags of DataBuffer, names and addresses, header
  formatting, URI splitting, logging; a `uv_accept` that fails after status 0;
  `TcpServer::Close`; the timer of an object that lives as long as its program; an
  application that keeps a
  `CoHttpResponse` after its handler returned; TLS below a WebSocket; what an
  `HttpClient` reads behind a second request; the
  Content-Length of a refused upgrade response; memory that is leaked and never
  used again (`tcp_client.hpp:239`); lengths of 2 GiB and more in `DataBuffer`, whose
  fields are `int`; the return value of `uv_read_start` in `TcpCoConn`, which cannot
  fail on the open handle of the one call that is made; how `CoConnect` resolves its
  address (it starts or fails).
- The build makes only the echo programs, the coroutine HTTP server and the RTMP
  server. The callback TCP, TLS, HTTP and WebSocket classes are in no target, and
  `session_aliver.hpp`, which HttpSession extends, is missing; it is external to
  `HttpExchange`.

Next, in this order:

1. An abstract specification of a reliable stream that both coroutine connections
   implement.
2. Byte helpers (`ByteStream`, base64) against reference definitions.
