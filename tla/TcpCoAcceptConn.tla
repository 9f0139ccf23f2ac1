--------------------------- MODULE TcpCoAcceptConn ---------------------------
(***************************************************************************)
(* net/tcp/co_tcp/co_tcp_server: one accepted connection and the awaiters  *)
(* CoTcpSessionRecvPromise and CoTcpSessionSendPromise that its users wait  *)
(* on.                                                                     *)
(*                                                                         *)
(* Operators named Op_Slip are mutated forms of Op, each a plausible slip   *)
(* in the lines Op models, used only to see that a property notices it.     *)
(*                                                                         *)
(* Everything runs on one libuv loop.  A callback runs to completion, and   *)
(* handle_.resume() inside it runs the coroutine up to its next co_await:   *)
(* while a coroutine is "running" no callback fires, and its next step is    *)
(* CoReceive, CoSend or Return.  The users are arbitrary coroutines that    *)
(* hold a shared_ptr to the connection and await these calls in any order,  *)
(* with at most one CoReceive outstanding (recv_data_ and recv_size_ are     *)
(* single slots).  recv_buffer_ is the byte queue that DataBuffer           *)
(* implements.  The peer and libuv's stream (read callbacks, FIFO write     *)
(* requests, end of stream reported once) are external.                     *)
(***************************************************************************)
EXTENDS Integers, Sequences, FiniteSets

CONSTANTS
    Coros,        \* the coroutines that use the connection
    ReadMax,      \* size of uv_recv_data_: bytes per read callback
    RecvSizes,    \* the recv_size arguments of CoReceive
    MaxSent,      \* bound: bytes the peer sends
    MaxSends      \* bound: CoSend calls of one coroutine

ASSUME ConnAssumption ==
    /\ ReadMax \in Nat \ {0}
    /\ RecvSizes \subseteq Nat \ {0}
    /\ MaxSent \in Nat /\ MaxSends \in Nat

VARIABLES
    pc,              \* where each coroutine is
    result,          \* the answer of its last co_await ("pending" until then)
    sends,           \* how many CoSends each coroutine has made
    owner,           \* the acceptor still holds its shared_ptr
    alive,           \* the TcpCoAcceptConn exists
    uv_handle,       \* its uv_tcp_t: "open", "closing", "closed" (freed)
    recv_buffer_, recv_size_,
    read_awaiters_, write_awaiters_,
    uv_writes,       \* libuv's queue of write requests, oldest first
    written,         \* the requests whose bytes reached the socket
    sent, taken,     \* bytes sent by the peer, bytes read by libuv
    ending,          \* how the peer's side is: "open", "eof", "error"
    ended,           \* libuv has reported the end (and stopped reading)
    delivered,       \* the bytes handed to coroutines, in order
    lost,            \* the bytes OnReceive threw away
    dangling         \* a callback used the destroyed connection

connVars == <<owner, alive, uv_handle>>
recvVars == <<recv_buffer_, recv_size_, read_awaiters_, delivered, lost>>
sendVars == <<sends, write_awaiters_, uv_writes, written>>
peerVars == <<sent, taken, ending, ended>>
vars == <<pc, result, connVars, recvVars, sendVars, peerVars, dangling>>

Waiting == {"receiving", "sending"}

(* Back in uv_run: no coroutine is executing. *)
LoopIdle == \A c \in Coros : pc[c] # "running"

(* Who holds a shared_ptr to the connection: a coroutine frame keeps its    *)
(* copy until the coroutine returns.                                        *)
Holders == {c \in Coros : pc[c] = "running" \/ pc[c] \in Waiting}
------------------------------------------------------------------------------
(* The constructor: reading starts at once, nobody waits yet. *)
Init ==
    /\ pc = [c \in Coros |-> "new"]
    /\ result = [c \in Coros |-> "pending"]
    /\ sends = [c \in Coros |-> 0]
    /\ owner = TRUE /\ alive = TRUE /\ uv_handle = "open"
    /\ recv_buffer_ = <<>> /\ recv_size_ = 0
    /\ read_awaiters_ = <<>> /\ write_awaiters_ = <<>>
    /\ uv_writes = <<>> /\ written = {}
    /\ sent = 0 /\ taken = 0 /\ ending = "open" /\ ended = FALSE
    /\ delivered = <<>> /\ lost = {}
    /\ dangling = FALSE

(* The acceptor passes the connection to a new coroutine, which runs up to  *)
(* its first co_await (initial_suspend never suspends).                     *)
Start(c) ==
    /\ LoopIdle /\ owner /\ pc[c] = "new"
    /\ pc' = [pc EXCEPT ![c] = "running"]
    /\ UNCHANGED <<result, connVars, recvVars, sendVars, peerVars, dangling>>

(* The peer sends a byte, finishes its stream or breaks the connection. *)
PeerSend ==
    /\ ending = "open" /\ sent < MaxSent
    /\ sent' = sent + 1
    /\ UNCHANGED <<pc, result, connVars, recvVars, sendVars, taken, ending, ended, dangling>>

PeerEnd ==
    /\ ending = "open"
    /\ ending' \in {"eof", "error"}
    /\ UNCHANGED <<pc, result, connVars, recvVars, sendVars, sent, taken, ended, dangling>>
------------------------------------------------------------------------------
(* handle_.resume() with the awaiter's result set. *)
Resume(c, answer) ==
    /\ result' = [result EXCEPT ![c] = answer]
    /\ pc' = [pc EXCEPT ![c] = "running"]

(* recv_buffer_.ConsumeData(n) on contents b. *)
Consumed_All(b, n) == <<>>
Consumed(b, n) == SubSeq(b, n + 1, Len(b))

(* CoTcpSessionRecvPromise::HandleReceive with nread > 0, the buffer being  *)
(* b: at most recv_size_ bytes go to the coroutine, which continues.        *)
HandleReceive(c, nread, b, size) ==
    LET n == IF nread > size THEN size ELSE nread
    IN  /\ delivered' = delivered \o SubSeq(b, 1, n)
        /\ recv_buffer_' = Consumed(b, n)
        /\ Resume(c, "recv_ok")

(* ... and with nread < 0. *)
HandleReceiveError_Unheard(c) == UNCHANGED <<pc, result>>
HandleReceiveError(c) == Resume(c, "recv_error")

Chunk(n) == [i \in 1..n |-> taken + i]

CanRead == LoopIdle /\ alive /\ ~ended

(* OnUvRead / OnReceive with nread > 0 bytes.  Without a waiting receiver   *)
(* the bytes are logged and dropped.  nread = 0 (EAGAIN) changes nothing.   *)
OnReceiveData ==
    /\ CanRead /\ taken < sent
    /\ \E n \in 1..ReadMax :
          /\ n <= sent - taken
          /\ taken' = taken + n
          /\ IF read_awaiters_ = <<>>
             THEN /\ lost' = lost \cup {taken + i : i \in 1..n}
                  /\ UNCHANGED <<pc, result, recv_buffer_, read_awaiters_, delivered>>
             ELSE /\ HandleReceive(Head(read_awaiters_), n, recv_buffer_ \o Chunk(n), recv_size_)
                  /\ read_awaiters_' = Tail(read_awaiters_)
                  /\ UNCHANGED lost
    /\ UNCHANGED <<connVars, sendVars, recv_size_, sent, ending, ended, dangling>>

(* OnUvRead / OnReceive with nread < 0: end of file once every byte was     *)
(* read, or an error.  libuv reports it once.  Without a waiting receiver   *)
(* it is logged and forgotten.                                              *)
OnReceiveEnd ==
    /\ CanRead
    /\ ending = "error" \/ (ending = "eof" /\ taken = sent)
    /\ ended' = TRUE
    /\ IF read_awaiters_ = <<>>
       THEN UNCHANGED <<pc, result, read_awaiters_>>
       ELSE /\ HandleReceiveError(Head(read_awaiters_))
            /\ read_awaiters_' = Tail(read_awaiters_)
    /\ UNCHANGED <<connVars, sendVars, recv_buffer_, recv_size_, delivered, lost,
                   sent, taken, ending, dangling>>

(* co_await CoReceive(data, size): await_suspend answers from recv_buffer_  *)
(* if it holds data, and queues the awaiter otherwise.                      *)
AnswersAtOnce_Never == FALSE
AnswersAtOnce == recv_buffer_ # <<>>

CoReceive(c, size) ==
    /\ pc[c] = "running" /\ \A d \in Coros : pc[d] # "receiving"
    /\ recv_size_' = size
    /\ IF AnswersAtOnce
       THEN /\ HandleReceive(c, Len(recv_buffer_), recv_buffer_, size)
            /\ UNCHANGED read_awaiters_
       ELSE /\ read_awaiters_' = Append(read_awaiters_, c)
            /\ pc' = [pc EXCEPT ![c] = "receiving"]
            /\ result' = [result EXCEPT ![c] = "pending"]
            /\ UNCHANGED <<recv_buffer_, delivered>>
    /\ UNCHANGED <<connVars, sendVars, peerVars, lost, dangling>>
------------------------------------------------------------------------------
(* SendData: a private copy of the bytes becomes a libuv write request. *)
Request_OffByOne(c) == <<c, sends[c]>>
Request(c) == <<c, sends[c] + 1>>

(* uv_write accepts the request and AddSendAwaiter queues the awaiter ...   *)
SendStarts(c) ==
    /\ uv_writes' = Append(uv_writes, Request(c))
    /\ write_awaiters_' = Append(write_awaiters_, c)
    /\ pc' = [pc EXCEPT ![c] = "sending"]
    /\ result' = [result EXCEPT ![c] = "pending"]

(* ... or it fails and the coroutine continues with SEND_ERROR.             *)
SendFails(c) ==
    /\ Resume(c, "send_error")
    /\ UNCHANGED <<uv_writes, write_awaiters_>>

(* co_await CoSend(data). *)
CoSend(c) ==
    /\ pc[c] = "running" /\ sends[c] < MaxSends
    /\ sends' = [sends EXCEPT ![c] = @ + 1]
    /\ SendStarts(c) \/ SendFails(c)
    /\ UNCHANGED <<connVars, recvVars, peerVars, written, dangling>>

(* CoTcpSessionSendPromise::HandleSend: SEND_OK for status 0, else          *)
(* SEND_ERROR; the coroutine continues in both cases.                       *)
HandleSend_AlwaysOk(c, status) == Resume(c, "send_ok")
HandleSend_OnlyOk(c, status) ==
    IF status = "send_ok" THEN Resume(c, status) ELSE UNCHANGED <<pc, result>>
HandleSend(c, status) == Resume(c, status)

(* OnUvWrite / OnWrite: libuv completes its oldest request and *)
(* the oldest waiting sender continues with the outcome.  (OnWrite's "No    *)
(* write awaiters" branch only frees the request.)                          *)
OnWrite ==
    /\ LoopIdle /\ alive /\ uv_writes # <<>>
    /\ uv_writes' = Tail(uv_writes)
    /\ \E status \in {"send_ok", "send_error"} :
          /\ written' = IF status = "send_ok" THEN written \cup {Head(uv_writes)} ELSE written
          /\ IF write_awaiters_ = <<>>
             THEN UNCHANGED <<pc, result, write_awaiters_>>
             ELSE /\ HandleSend(Head(write_awaiters_), status)
                  /\ write_awaiters_' = Tail(write_awaiters_)
    /\ UNCHANGED <<connVars, recvVars, peerVars, sends, dangling>>
------------------------------------------------------------------------------
DestroyIf_LeavesOpen(last) == alive' = (alive /\ ~last) /\ UNCHANGED uv_handle

(* The destructor runs when the last shared_ptr goes: uv_read_stop, uv_close. *)
DestroyIf(last) ==
    /\ alive' = (alive /\ ~last)
    /\ uv_handle' = IF last THEN "closing" ELSE uv_handle

(* A coroutine that returns drops its shared_ptr. *)
LastHolder_Any(c) == ~owner
LastHolder(c) == ~owner /\ Holders = {c}

Return(c) ==
    /\ pc[c] = "running"
    /\ pc' = [pc EXCEPT ![c] = "done"]
    /\ DestroyIf(LastHolder(c))
    /\ UNCHANGED <<result, owner, recvVars, sendVars, peerVars, dangling>>

(* The acceptor drops its shared_ptr (it accepted the next connection). *)
OwnerRelease ==
    /\ LoopIdle /\ owner
    /\ owner' = FALSE
    /\ DestroyIf(Holders = {})
    /\ UNCHANGED <<pc, result, recvVars, sendVars, peerVars, dangling>>

(* libuv finishes the close: it calls OnUvWrite with UV_ECANCELED for each  *)
(* request still queued - handle->data still points to the connection that  *)
(* was destroyed - and then OnCoConnUVClose, which frees the handle.        *)
OnCoConnUVClose ==
    /\ LoopIdle /\ uv_handle = "closing"
    /\ uv_handle' = "closed"
    /\ dangling' = (dangling \/ uv_writes # <<>>)
    /\ uv_writes' = <<>>
    /\ UNCHANGED <<pc, result, owner, alive, recvVars, sends, write_awaiters_, written, peerVars>>

CoroStep(c) ==
    \/ \E size \in RecvSizes : CoReceive(c, size)
    \/ CoSend(c)
    \/ Return(c)

Next ==
    \/ \E c \in Coros : Start(c) \/ CoroStep(c)
    \/ PeerSend \/ PeerEnd
    \/ OnReceiveData \/ OnReceiveEnd
    \/ OnWrite
    \/ OwnerRelease \/ OnCoConnUVClose

Spec == Init /\ [][Next]_vars

(* uv_run polls every open handle in every iteration and calls its ready    *)
(* callbacks; a running coroutine reaches its next co_await or returns.     *)
Fairness ==
    /\ WF_vars(OnReceiveData) /\ WF_vars(OnReceiveEnd) /\ WF_vars(OnWrite)
    /\ WF_vars(OnCoConnUVClose)
    /\ WF_vars(\E c \in Coros : CoroStep(c))

FairSpec == Spec /\ Fairness
------------------------------------------------------------------------------
(* Types: awaiter queues name coroutines, requests carry the number of the *)
(* CoSend that made them, and libuv reads no more than was sent.            *)
TypeOK ==
    /\ pc \in [Coros -> {"new", "running", "receiving", "sending", "done"}]
    /\ result \in [Coros -> {"pending", "recv_ok", "recv_error", "send_ok", "send_error"}]
    /\ sends \in [Coros -> 0..MaxSends]
    /\ owner \in BOOLEAN /\ alive \in BOOLEAN
    /\ uv_handle \in {"open", "closing", "closed"}
    /\ recv_buffer_ \in Seq(Nat) /\ recv_size_ \in Nat
    /\ read_awaiters_ \in Seq(Coros) /\ write_awaiters_ \in Seq(Coros)
    /\ uv_writes \in Seq(Coros \X (1..MaxSends))
    /\ written \subseteq Coros \X (1..MaxSends)
    /\ sent \in 0..MaxSent /\ taken \in 0..sent
    /\ ending \in {"open", "eof", "error"} /\ ended \in BOOLEAN
    /\ delivered \in Seq(Nat) /\ lost \subseteq Nat
    /\ dangling \in BOOLEAN

(* A receiver is queued only while recv_buffer_ is empty, and it is the one *)
(* coroutine suspended in CoReceive.  HandleReceive relies on it: the nread *)
(* bytes it takes from the front of recv_buffer_ are then the bytes that    *)
(* OnReceive has just appended, and DataBuffer never has to compact.        *)
ReceiverFindsBufferEmpty ==
    /\ read_awaiters_ # <<>> => recv_buffer_ = <<>>
    /\ \A c \in Coros : pc[c] = "receiving" <=> read_awaiters_ = <<c>>

(* What coroutines received, followed by what waits in recv_buffer_, is in  *)
(* the order the peer sent it, without repetition, and consists of exactly  *)
(* the bytes libuv read that OnReceive did not drop for want of a receiver. *)
InOrderExactlyOnce ==
    LET seen == delivered \o recv_buffer_
    IN  /\ \A i, j \in DOMAIN seen : i < j => seen[i] < seen[j]
        /\ {seen[i] : i \in DOMAIN seen} = (1..taken) \ lost

(* The two queues that OnWrite pops together stay in step: the i-th waiting *)
(* sender is the one that made libuv's i-th outstanding request.            *)
WriteQueuesInStep ==
    /\ Len(write_awaiters_) = Len(uv_writes)
    /\ \A i \in DOMAIN uv_writes :
          uv_writes[i] = <<write_awaiters_[i], sends[write_awaiters_[i]]>>

(* CoSend's answer is the truth about the sender's own bytes: SEND_OK only  *)
(* if they reached the socket, SEND_ERROR only if they did not.             *)
SendAnswerTruthful ==
    \A c \in Coros :
        /\ result[c] = "send_ok" => <<c, sends[c]>> \in written
        /\ result[c] = "send_error" => <<c, sends[c]>> \notin written

(* With users that hold a shared_ptr while they wait, the connection is not *)
(* destroyed under a pending write: no UV_ECANCELED callback of uv_close    *)
(* reaches the destroyed TcpCoAcceptConn through handle->data.              *)
NoDanglingCallback == ~dangling

(* Every CoSend is answered (OnWrite resumes the sender on failure too). *)
SendAnswered ==
    \A c \in Coros : pc[c] = "sending" ~> pc[c] # "sending"

(* A receiver that waits when the peer ends its stream is answered, by data *)
(* or by RECV_ERROR.  (A CoReceive made after the end was reported is not:  *)
(* libuv reports it once, and OnReceive keeps no record of it.)             *)
ReceiveAnswered ==
    \A c \in Coros :
        (pc[c] = "receiving" /\ ending # "open" /\ ~ended) ~> pc[c] # "receiving"

(* When the last holder is gone the socket is closed and its handle freed. *)
HandleFreed == (~owner /\ Holders = {}) ~> uv_handle = "closed"
==============================================================================
