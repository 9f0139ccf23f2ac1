------------------------------ MODULE TcpCoConn ------------------------------
(***************************************************************************)
(* net/tcp/co_tcp/co_tcp_client: the client connection TcpCoConn, its three *)
(* awaiters (CoTcpConnectPromise, CoTcpSendPromise, CoTcpRecvPromise), and  *)
(* the timer of EchoClient that starts a new job, with a connection of its  *)
(* own, whenever none is running.                                           *)
(*                                                                         *)
(* A job connects, then awaits CoSend and CoReceive in any order, and must   *)
(* return once an answer is an error; EchoClient::DoJob is one such job.    *)
(* While pc = "running" the job executes inside a libuv callback.  A null   *)
(* recv_awaiter_callback_ that OnRead calls through ends the process.  The  *)
(* peer and libuv are external; libuv's read loop reads again at once when  *)
(* a read filled the buffer, and reports nread = 0 if there is nothing.     *)
(*                                                                         *)
(* Operators named Op_Slip are mutated forms of Op, each a plausible slip   *)
(* in the lines Op models, used only to see that a property notices it.     *)
(***************************************************************************)
EXTENDS Integers, Sequences

CONSTANTS
    ReadMax,      \* size of uv_read_buffer_
    RecvSizes,    \* the recv_size arguments of CoReceive
    SendLens,     \* the data_size arguments of CoSend
    MaxSent,      \* bound: bytes the peer sends on one connection
    MaxSends,     \* bound: CoSend calls on one connection
    MaxJobs       \* bound: jobs started

ASSUME ClientAssumption ==
    /\ ReadMax \in Nat \ {0} /\ RecvSizes \subseteq Nat \ {0} /\ SendLens \subseteq Nat
    /\ MaxSent \in Nat /\ MaxSends \in Nat /\ MaxJobs \in Nat

VARIABLES
    jobs, is_job_running_,
    pc,                      \* the job: "none", "connecting", "running", ...
    result,                  \* the result_ of the promise it last awaited
    send_buffer_,            \* which CoSend's bytes it holds, and how many
    uv_writes,               \* libuv's write requests: all point to send_buffer_
    sends,
    recv_buffer_, recv_size_, read_started_,
    recv_awaiter_callback_,  \* is not nullptr
    got,                     \* the bytes copied to the job's recv_data
    unwinding,               \* below the job, an OnAwaiterRecv has yet to set its result_
    rereading,               \* libuv's read loop goes on after a full read
    sent, taken, ending, ended,
    closing,                 \* handles that uv_close has not finished
    stuck,                   \* OnWrite left the sender waiting
    dangling, crashed

jobVars == <<jobs, is_job_running_>>
sendVars == <<send_buffer_, uv_writes, sends, stuck>>
recvVars == <<recv_buffer_, recv_size_, read_started_, recv_awaiter_callback_, got>>
peerVars == <<sent, taken, ending, ended>>
endVars == <<closing, dangling, crashed>>
vars == <<jobVars, pc, result, sendVars, recvVars, unwinding, rereading, peerVars, endVars>>

Errors == {"connect_failed", "send_error", "recv_error"}
Waiting == {"connecting", "sending", "receiving"}

(* libuv may call back; only the read loop may while it is reading on. *)
LoopIdle == pc # "running" /\ ~crashed
Polls == LoopIdle /\ ~rereading

Nothing == [call |-> 0, len |-> 0]

(* A TcpCoConn as its constructor leaves it. *)
NewConn ==
    /\ send_buffer_' = Nothing /\ uv_writes' = <<>> /\ sends' = 0
    /\ recv_buffer_' = <<>> /\ recv_size_' = 0 /\ read_started_' = FALSE
    /\ recv_awaiter_callback_' = FALSE /\ got' = <<>>
    /\ sent' = 0 /\ taken' = 0 /\ ending' = "open" /\ ended' = FALSE

Init ==
    /\ jobs = 0 /\ is_job_running_ = FALSE /\ pc = "none" /\ result = "pending"
    /\ send_buffer_ = Nothing /\ uv_writes = <<>> /\ sends = 0
    /\ recv_buffer_ = <<>> /\ recv_size_ = 0 /\ read_started_ = FALSE
    /\ recv_awaiter_callback_ = FALSE /\ got = <<>>
    /\ unwinding = FALSE /\ rereading = FALSE
    /\ sent = 0 /\ taken = 0 /\ ending = "open" /\ ended = FALSE
    /\ closing = 0 /\ stuck = FALSE /\ dangling = FALSE /\ crashed = FALSE

(* StartConnect starts, or fails (no address, no socket) and the job goes   *)
(* on at once.                                                              *)
StartConnect ==
    \/ pc' = "connecting" /\ result' = "pending"
    \/ pc' = "running" /\ result' = "connect_failed"

(* OnTimer starts a job if none is running: DoJob makes a connection and    *)
(* awaits CoConnect.                                                        *)
OnTimer ==
    /\ Polls /\ ~is_job_running_ /\ jobs < MaxJobs
    /\ jobs' = jobs + 1 /\ is_job_running_' = TRUE
    /\ NewConn
    /\ StartConnect
    /\ UNCHANGED <<stuck, unwinding, rereading, endVars>>

(* CoTcpConnectPromise::OnAwaiterConnect: the job goes on either way. *)
OnAwaiterConnect(status) == pc' = "running" /\ result' = status

(* OnUVClientConnected / OnConnect. *)
OnConnect ==
    /\ Polls /\ pc = "connecting"
    /\ \E status \in {"connected", "connect_failed"} : OnAwaiterConnect(status)
    /\ UNCHANGED <<jobVars, sendVars, recvVars, unwinding, rereading, peerVars, endVars>>

(* The peer of an established connection sends a byte, or ends it. *)
Established == pc \notin {"none", "connecting"} /\ result # "connect_failed" /\ ~crashed

PeerSend ==
    /\ Established /\ ending = "open" /\ sent < MaxSent
    /\ sent' = sent + 1
    /\ UNCHANGED <<jobVars, pc, result, sendVars, recvVars, unwinding, rereading,
                   taken, ending, ended, endVars>>

PeerEnd ==
    /\ Established /\ ending = "open"
    /\ ending' \in {"eof", "error"}
    /\ UNCHANGED <<jobVars, pc, result, sendVars, recvVars, unwinding, rereading,
                   sent, taken, ended, endVars>>
------------------------------------------------------------------------------
(* StartSend hands send_buffer_ itself to uv_write, which takes it ...      *)
StartSend ==
    /\ uv_writes' = Append(uv_writes, send_buffer_')
    /\ pc' = "sending" /\ result' = "pending" /\ unwinding' = FALSE

(* ... or fails, and the job goes on with SEND_ERROR.                       *)
SendFails_Queued ==
    /\ result' = "send_error" /\ uv_writes' = Append(uv_writes, send_buffer_')
    /\ UNCHANGED <<pc, unwinding>>
SendFails == result' = "send_error" /\ UNCHANGED <<pc, uv_writes, unwinding>>

(* co_await CoSend: the caller's bytes are copied into send_buffer_. *)
CoSend(len) ==
    /\ pc = "running" /\ result \notin Errors /\ sends < MaxSends /\ ~crashed
    /\ sends' = sends + 1
    /\ send_buffer_' = [call |-> sends + 1, len |-> len]
    /\ StartSend \/ SendFails
    /\ UNCHANGED <<jobVars, recvVars, stuck, rereading, peerVars, endVars>>

(* CoTcpSendPromise::OnAwaiterSend: SEND_ERROR for an empty send. *)
OnAwaiterSend(len) ==
    /\ pc' = "running"
    /\ result' = IF len > 0 THEN "send_ok" ELSE "send_error"

(* OnUvWrite / OnWrite: with status 0 the sender is called; any other       *)
(* status is only logged.                                                   *)
OnWrite ==
    /\ Polls /\ uv_writes # <<>>
    /\ uv_writes' = Tail(uv_writes)
    /\ \/ OnAwaiterSend(Head(uv_writes).len) /\ UNCHANGED stuck
       \/ stuck' = TRUE /\ UNCHANGED <<pc, result>>
    /\ UNCHANGED <<jobVars, send_buffer_, sends, recvVars, unwinding, rereading,
                   peerVars, endVars>>
------------------------------------------------------------------------------
(* recv_buffer_.ConsumeData(n) on contents b. *)
Consumed_All(b, n) == <<>>
Consumed(b, n) == SubSeq(b, n + 1, Len(b))

(* CoTcpRecvPromise::OnAwaiterRecv with recv_len = n > 0, the buffer being  *)
(* b and result_ still r: the job gets at most size bytes and goes on.  If  *)
(* there were more it is resumed before result_ is set, so what it sees is  *)
(* r; result_ is set when it next suspends.                                 *)
OnAwaiterRecv(n, b, size, r) ==
    /\ IF n > size
       THEN /\ got' = got \o SubSeq(b, 1, size)
            /\ recv_buffer_' = Consumed(b, size)
            /\ result' = r /\ unwinding' = TRUE
       ELSE /\ got' = got \o SubSeq(b, 1, n)
            /\ recv_buffer_' = Consumed(b, n)
            /\ result' = "recv_ok" /\ UNCHANGED unwinding
    /\ pc' = "running"
    /\ recv_awaiter_callback_' = FALSE      \* ~CoTcpRecvPromise

(* await_suspend's test, and what the constructor of the promise sets. *)
AnswersAtOnce_Never == FALSE
AnswersAtOnce == recv_buffer_ # <<>>

SetRecvAwaiterCallback_Not == UNCHANGED recv_awaiter_callback_
SetRecvAwaiterCallback == recv_awaiter_callback_' = TRUE

(* StartReceive, which keeps reading once it has begun: the job waits.  An  *)
(* OnAwaiterRecv that is still unwinding below writes RECV_OK to where its  *)
(* promise was; the new promise may be there.                               *)
StartReceive ==
    /\ read_started_' = TRUE
    /\ pc' = "receiving" /\ unwinding' = FALSE
    /\ result' \in {"pending"} \cup (IF unwinding THEN {"recv_ok"} ELSE {})

(* co_await CoReceive: answered from recv_buffer_ if that holds data, else  *)
(* StartReceive and wait.                                                   *)
CoReceive(size) ==
    /\ pc = "running" /\ result \notin Errors /\ ~crashed
    /\ recv_size_' = size
    /\ IF AnswersAtOnce
       THEN /\ OnAwaiterRecv(Len(recv_buffer_), recv_buffer_, size, "pending")
            /\ UNCHANGED read_started_
       ELSE /\ StartReceive /\ SetRecvAwaiterCallback
            /\ UNCHANGED <<recv_buffer_, got>>
    /\ UNCHANGED <<jobVars, sendVars, rereading, peerVars, endVars>>

(* StartSend stores the connection in handle->data; nothing does before.    *)
HandleKnowsConn == sends > 0

Reading == LoopIdle /\ pc # "none" /\ read_started_ /\ ~ended
CanRead == Reading /\ HandleKnowsConn

(* A read callback before the first CoSend casts the uninitialized          *)
(* handle->data: it ends the process, or (null) does nothing at all.        *)
OnReadUninitialized ==
    /\ Reading /\ ~HandleKnowsConn
    /\ taken < sent \/ ending # "open"
    /\ crashed' = TRUE
    /\ UNCHANGED <<jobVars, pc, result, sendVars, recvVars, unwinding, rereading,
                   peerVars, closing, dangling>>

(* OnRead with nread > 0: append, then call the waiting promise. *)
OnReadData ==
    /\ CanRead
    /\ \E n \in 1..ReadMax :
          /\ n <= sent - taken
          /\ taken' = taken + n
          /\ rereading' = (n = ReadMax)
          /\ LET b == recv_buffer_ \o [i \in 1..n |-> taken + i]
             IN  IF recv_awaiter_callback_
                 THEN OnAwaiterRecv(n, b, recv_size_, result) /\ UNCHANGED crashed
                 ELSE /\ recv_buffer_' = b /\ crashed' = TRUE
                      /\ UNCHANGED <<pc, result, recv_awaiter_callback_, got, unwinding>>
    /\ UNCHANGED <<jobVars, sendVars, recv_size_, read_started_, sent, ending, ended,
                   closing, dangling>>

(* OnAwaiterRecv with recv_len <= 0. *)
OnAwaiterRecvError_Unheard == UNCHANGED <<pc, result>>
OnAwaiterRecvError == pc' = "running" /\ result' = "recv_error"

(* OnRead with nread <= 0. *)
OnReadFails ==
    /\ IF recv_awaiter_callback_
       THEN OnAwaiterRecvError /\ UNCHANGED crashed
       ELSE crashed' = TRUE /\ UNCHANGED <<pc, result>>
    /\ recv_awaiter_callback_' = FALSE
    /\ rereading' = FALSE
    /\ UNCHANGED <<jobVars, sendVars, recv_buffer_, recv_size_, read_started_, got,
                   unwinding, sent, taken, ending, closing, dangling>>

(* The end of the stream, reported once, behind the last byte; an error; or *)
(* nothing there when libuv reads on after a full read.                     *)
OnReadEnd ==
    /\ CanRead /\ (ending = "error" \/ (ending = "eof" /\ taken = sent))
    /\ ended' = TRUE
    /\ OnReadFails

OnReadNothing ==
    /\ CanRead /\ rereading /\ taken = sent /\ ending = "open"
    /\ UNCHANGED ended
    /\ OnReadFails
------------------------------------------------------------------------------
(* DoJob resets is_job_running_ and returns. *)
JobEnds_GoesOn == is_job_running_' = FALSE /\ UNCHANGED pc
JobEnds == pc' = "none" /\ is_job_running_' = FALSE

(* The job's shared_ptr was the only one, so ~TcpCoConn runs: uv_read_stop, *)
(* uv_close.                                                                *)
Return ==
    /\ pc = "running" /\ ~crashed
    /\ JobEnds
    /\ dangling' = (dangling \/ uv_writes # <<>>)
    /\ closing' = closing + 1
    /\ unwinding' = FALSE /\ rereading' = FALSE
    /\ UNCHANGED <<jobs, result, sendVars, recvVars, peerVars, crashed>>

(* uv_close is done: OnCoConnUVClose frees the handle. *)
OnCoConnUVClose ==
    /\ Polls /\ closing > 0
    /\ closing' = closing - 1
    /\ UNCHANGED <<jobVars, pc, result, sendVars, recvVars, unwinding, rereading,
                   peerVars, dangling, crashed>>

JobStep ==
    \/ \E len \in SendLens : CoSend(len)
    \/ \E size \in RecvSizes : CoReceive(size)
    \/ Return

Next ==
    \/ OnTimer \/ OnConnect
    \/ PeerSend \/ PeerEnd
    \/ JobStep
    \/ OnWrite
    \/ OnReadData \/ OnReadEnd \/ OnReadNothing \/ OnReadUninitialized
    \/ OnCoConnUVClose

Spec == Init /\ [][Next]_vars

(* uv_run serves every ready handle and expired timer; a running coroutine  *)
(* reaches its next co_await or its end.  The peer owes nothing.            *)
Fairness ==
    /\ WF_vars(OnTimer) /\ WF_vars(OnConnect) /\ WF_vars(JobStep) /\ WF_vars(OnWrite)
    /\ WF_vars(OnReadData) /\ WF_vars(OnReadEnd) /\ WF_vars(OnReadNothing)
    /\ WF_vars(OnCoConnUVClose)

FairSpec == Spec /\ Fairness
------------------------------------------------------------------------------
SendCall == [call : 0..MaxSends, len : SendLens \cup {0}]

(* Types: no job leaves more closing handles behind than jobs were started. *)
TypeOK ==
    /\ jobs \in 0..MaxJobs /\ is_job_running_ \in BOOLEAN
    /\ pc \in {"none", "running"} \cup Waiting
    /\ result \in {"pending", "connected", "send_ok", "recv_ok"} \cup Errors
    /\ send_buffer_ \in SendCall /\ uv_writes \in Seq(SendCall) /\ sends \in 0..MaxSends
    /\ recv_buffer_ \in Seq(Nat) /\ recv_size_ \in Nat /\ read_started_ \in BOOLEAN
    /\ recv_awaiter_callback_ \in BOOLEAN /\ got \in Seq(Nat)
    /\ unwinding \in BOOLEAN /\ rereading \in BOOLEAN
    /\ sent \in 0..MaxSent /\ taken \in 0..sent
    /\ ending \in {"open", "eof", "error"} /\ ended \in BOOLEAN
    /\ closing \in 0..MaxJobs /\ stuck \in BOOLEAN
    /\ dangling \in BOOLEAN /\ crashed \in BOOLEAN

(* Every byte libuv read is, in order and once, in the job's memory or in   *)
(* recv_buffer_: the client connection drops nothing, however CoReceive     *)
(* sizes and reads fall, and whatever the answers say.                      *)
NothingLost == got \o recv_buffer_ = [i \in 1..taken |-> i]

(* A job that waits in CoReceive has left nothing in recv_buffer_, libuv is *)
(* reading for it, and its promise is the one OnRead will call: data that   *)
(* is there is never waited for.                                            *)
ReceiverIsReachable ==
    pc = "receiving" <=> /\ recv_awaiter_callback_
                         /\ read_started_ /\ recv_buffer_ = <<>>

(* libuv still reads from send_buffer_ (StartSend passes it uncopied): it   *)
(* holds the bytes of that very CoSend until the request completes, and no  *)
(* request outlives the connection.                                         *)
SendBufferStable ==
    /\ \A i \in DOMAIN uv_writes : uv_writes[i] = send_buffer_
    /\ ~dangling

(* OnRead's unguarded recv_awaiter_callback_ (co_tcp_conn.cpp:186, :191) is *)
(* null only when the job waits in CoSend after an earlier CoReceive, and   *)
(* handle->data is unset only for a job that receives before it has sent:   *)
(* a job that sends everything first and then only receives meets neither.  *)
CrashOnlyOutOfTurn ==
    crashed => \/ pc = "sending" /\ read_started_ /\ (taken > 0 \/ ended)
               \/ pc = "receiving" /\ sends = 0

(* Once the peer has ended the connection the job ends too, so that the     *)
(* timer can start the next one - unless a failed write left it waiting, it *)
(* receives with handle->data unset, or the process is gone.                *)
JobEndsWithPeer ==
    (is_job_running_ /\ ending # "open") ~>
        (~is_job_running_ \/ stuck \/ crashed \/ (pc = "receiving" /\ sends = 0))

(* A CoSend is answered: CoTcpSendPromise::OnAwaiterSend has a branch for   *)
(* the failure, "uv_write error:%d" with SEND_ERROR                         *)
(* (co_tcp_conn_send.cpp:39-43), and resumes the job in it.                 *)
SendAnswered == (pc = "sending" /\ ~crashed) ~> (pc # "sending" \/ crashed)

(* "if buffer has data, we can return immediately"                          *)
(* (co_tcp_conn_recv.cpp:22): a CoReceive that is given bytes from the      *)
(* buffer answers RECV_OK, not RECV_PENDING with length 0.                  *)
BufferedDataIsReported ==
    [][recv_buffer_ # <<>> /\ Len(got') > Len(got) => result' = "recv_ok"]_vars
==============================================================================
