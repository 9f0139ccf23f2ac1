-------------------------- MODULE TcpCoConn_proofs --------------------------
(***************************************************************************)
(* Proofs about TcpCoConn for any buffer sizes, CoSend and CoReceive        *)
(* arguments and any number of jobs.                                        *)
(***************************************************************************)
EXTENDS TcpCoConn, SequenceTheorems, TLAPS

(* A job's flag follows the job, and each job leaves one closing handle.    *)
JobInv ==
    /\ is_job_running_ <=> pc # "none"
    /\ closing + (IF pc = "none" THEN 0 ELSE 1) <= jobs

(* libuv holds at most the request of the CoSend the job waits in. *)
SendInv ==
    /\ uv_writes = <<>> \/ (pc = "sending" /\ uv_writes = <<send_buffer_>>)
    /\ pc = "sending" => sends > 0
    /\ ~dangling

(* A promise is registered exactly while the job waits in CoReceive, which  *)
(* it does only with recv_buffer_ empty; reading starts after the connect,  *)
(* and libuv reads on only after a read that brought bytes.                 *)
RecvInv ==
    /\ recv_awaiter_callback_ <=> pc = "receiving"
    /\ pc = "receiving" => read_started_ /\ recv_buffer_ = <<>>
    /\ pc = "connecting" => ~read_started_
    /\ rereading => taken > 0

(* The inductive invariant: OnRead keeps the bytes in order only because a  *)
(* waiting receiver has left recv_buffer_ empty, and who waits for what     *)
(* decides which callbacks can find nobody.                                 *)
IInv == TypeOK /\ JobInv /\ SendInv /\ RecvInv /\ NothingLost /\ CrashOnlyOutOfTurn

Pcs == {"none", "running"} \cup Waiting
Results == {"pending", "connected", "send_ok", "recv_ok"} \cup Errors
------------------------------------------------------------------------------
(* The bytes counted up to t and the n bytes of the next read callback are  *)
(* the bytes counted up to t + n.                                           *)
LEMMA CountOn ==
    ASSUME NEW t \in Nat, NEW n \in Nat
    PROVE  /\ [i \in 1..n |-> t + i] \in Seq(Nat) /\ Len([i \in 1..n |-> t + i]) = n
           /\ [i \in 1..t |-> i] \in Seq(Nat)
           /\ [i \in 1..t |-> i] \o [i \in 1..n |-> t + i] = [i \in 1..(t + n) |-> i]
  <1> DEFINE f == [i \in 1..t |-> i]
             g == [i \in 1..n |-> t + i]
             h == [i \in 1..(t + n) |-> i]
  <1>1. f \in [1..t -> Nat] /\ g \in [1..n -> Nat] /\ h \in [1..(t + n) -> Nat]
      OBVIOUS
  <1>2. f \in Seq(Nat) /\ g \in Seq(Nat) /\ h \in Seq(Nat) /\ Len(f) = t /\ Len(g) = n /\ Len(h) = t + n
      BY <1>1
  <1>3. /\ f \o g \in Seq(Nat) /\ Len(f \o g) = t + n
        /\ \A i \in 1..(t + n) : (f \o g)[i] = IF i <= t THEN f[i] ELSE g[i - t]
      BY <1>2, ConcatProperties
  <1>4. ASSUME NEW i \in 1..(t + n) PROVE (f \o g)[i] = i
    <2>1. CASE i <= t
        BY <1>3, <2>1
    <2>2. CASE ~(i <= t)
      <3>1. i - t \in 1..n /\ t + (i - t) = i
          BY <2>2
      <3>2. g[i - t] = t + (i - t)
          BY <3>1
      <3> QED BY <1>3, <2>2, <3>1, <3>2
    <2> QED BY <2>1, <2>2
  <1>5. f \o g = h
    <2>1. \A i \in 1..(t + n) : (f \o g)[i] = h[i]
        BY <1>4
    <2> HIDE DEF f, g, h
    <2> QED BY <1>2, <1>3, <2>1, SeqEqual
  <1> QED BY <1>2, <1>5

(* Concatenation of byte sequences is associative. *)
LEMMA Associative ==
    ASSUME NEW s \in Seq(Nat), NEW t \in Seq(Nat), NEW u \in Seq(Nat)
    PROVE  (s \o t) \o u = s \o (t \o u)
  BY ConcatAssociative, SMTT(30)

(* What OnAwaiterRecv does to the buffer: the bytes it copies out and the   *)
(* bytes it leaves are, together and in order, the bytes that were there.   *)
LEMMA TakeAndLeave ==
    ASSUME NEW b \in Seq(Nat), NEW n \in Nat, n <= Len(b)
    PROVE  /\ SubSeq(b, 1, n) \in Seq(Nat) /\ Consumed(b, n) \in Seq(Nat)
           /\ SubSeq(b, 1, n) \o Consumed(b, n) = b
  <1>1. Len(b) \in Nat /\ \A i \in 1..Len(b) : b[i] \in Nat
      BY LenProperties
  <1>2. SubSeq(b, 1, n) \in Seq(Nat)
      BY <1>1, SubSeqProperties
  <1>3. Consumed(b, n) \in Seq(Nat)
      BY <1>1, SubSeqProperties DEF Consumed
  <1>4. SubSeq(b, 1, n) \o SubSeq(b, n + 1, Len(b)) = SubSeq(b, 1, Len(b))
    <2>1. 1 \in 1..(Len(b) + 1) /\ n \in (1 - 1)..Len(b) /\ Len(b) \in n..Len(b)
        BY <1>1
    <2> QED BY <2>1, ConcatAdjacentSubSeq, Zenon
  <1> QED BY <1>2, <1>3, <1>4, SubSeqFull DEF Consumed

(* OnAwaiterRecv moves bytes from the buffer's front to the job, in order,  *)
(* and lets it run, with the promise gone.                                  *)
LEMMA OnAwaiterRecvEffect ==
    ASSUME TypeOK, NEW n \in Nat, NEW b \in Seq(Nat), n = Len(b), NEW size \in Nat,
           NEW r \in Results, OnAwaiterRecv(n, b, size, r)
    PROVE  /\ got' \in Seq(Nat) /\ recv_buffer_' \in Seq(Nat)
           /\ got' \o recv_buffer_' = got \o b
           /\ pc' = "running" /\ recv_awaiter_callback_' = FALSE
           /\ result' \in Results /\ unwinding' \in BOOLEAN
  <1> DEFINE m == IF n > size THEN size ELSE n
  <1>1. m \in Nat /\ m <= Len(b)
      OBVIOUS
  <1>2. got' = got \o SubSeq(b, 1, m) /\ recv_buffer_' = Consumed(b, m)
      BY DEF OnAwaiterRecv
  <1>3. pc' = "running" /\ recv_awaiter_callback_' = FALSE
      BY DEF OnAwaiterRecv
  <1>4. result' \in Results /\ unwinding' \in BOOLEAN
    <2>1. CASE n > size
        BY <2>1 DEF OnAwaiterRecv
    <2>2. CASE ~(n > size)
        BY <2>2 DEF OnAwaiterRecv, TypeOK, Results
    <2> QED BY <2>1, <2>2
  <1> HIDE DEF m
  <1>5. /\ SubSeq(b, 1, m) \in Seq(Nat) /\ Consumed(b, m) \in Seq(Nat)
        /\ SubSeq(b, 1, m) \o Consumed(b, m) = b
      BY <1>1, TakeAndLeave
  <1>6. got \in Seq(Nat)
      BY DEF TypeOK
  <1>7. got' \in Seq(Nat)
      BY <1>2, <1>5, <1>6, ConcatProperties
  <1>8. got' \o recv_buffer_' = got \o (SubSeq(b, 1, m) \o Consumed(b, m))
      BY <1>2, <1>5, <1>6, Associative
  <1> QED BY <1>2, <1>3, <1>4, <1>5, <1>7, <1>8

(* A step that does not touch what NothingLost speaks of keeps it. *)
LEMMA BytesUntouched ==
    ASSUME NothingLost, UNCHANGED <<got, recv_buffer_, taken>>
    PROVE  NothingLost'
  BY DEF NothingLost
------------------------------------------------------------------------------
(* What the client program starts with satisfies the invariant. *)
LEMMA InitInv == Init => IInv
  <1> SUFFICES ASSUME Init PROVE IInv
      OBVIOUS
  <1>1. \A S : <<>> \in Seq(S)
      BY EmptySeq
  <1>2. /\ is_job_running_ \in BOOLEAN /\ read_started_ \in BOOLEAN
        /\ recv_awaiter_callback_ \in BOOLEAN /\ unwinding \in BOOLEAN /\ rereading \in BOOLEAN
        /\ ended \in BOOLEAN /\ stuck \in BOOLEAN /\ dangling \in BOOLEAN /\ crashed \in BOOLEAN
      BY DEF Init
  <1>3. send_buffer_ \in SendCall
      BY ClientAssumption DEF Init, SendCall, Nothing
  <1>4. /\ jobs \in 0..MaxJobs /\ sends \in 0..MaxSends /\ recv_size_ \in Nat
        /\ sent \in 0..MaxSent /\ taken \in 0..sent /\ closing \in 0..MaxJobs
      BY ClientAssumption DEF Init
  <1>5. TypeOK
      BY <1>1, <1>2, <1>3, <1>4 DEF Init, TypeOK
  <1>6. JobInv /\ SendInv /\ RecvInv /\ CrashOnlyOutOfTurn
      BY DEF Init, JobInv, SendInv, RecvInv, CrashOnlyOutOfTurn
  <1>7. NothingLost
    <2>1. <<>> \o <<>> = <<>> /\ <<>> = [i \in 1..0 |-> i]
        OBVIOUS
    <2> QED BY <2>1 DEF Init, NothingLost
  <1> QED BY <1>5, <1>6, <1>7 DEF IInv

(* The timer starts a job with a new connection. *)
LEMMA OnTimerInv ==
    ASSUME IInv, OnTimer
    PROVE  IInv'
  <1>1. TypeOK /\ JobInv /\ SendInv /\ RecvInv
      BY DEF IInv
  <1>2. ~crashed /\ ~rereading /\ ~is_job_running_ /\ jobs < MaxJobs
      BY DEF OnTimer, Polls, LoopIdle
  <1>3. /\ jobs' = jobs + 1 /\ is_job_running_' = TRUE
        /\ stuck' = stuck /\ unwinding' = unwinding /\ rereading' = rereading
        /\ closing' = closing /\ dangling' = dangling /\ crashed' = crashed
      BY DEF OnTimer, endVars
  <1>4. /\ send_buffer_' = Nothing /\ uv_writes' = <<>> /\ sends' = 0
        /\ recv_buffer_' = <<>> /\ recv_size_' = 0 /\ read_started_' = FALSE
        /\ recv_awaiter_callback_' = FALSE /\ got' = <<>>
        /\ sent' = 0 /\ taken' = 0 /\ ending' = "open" /\ ended' = FALSE
      BY DEF OnTimer, NewConn
  <1>5. pc' \in {"connecting", "running"} /\ result' \in {"pending", "connect_failed"}
      BY DEF OnTimer, StartConnect
  <1>6. TypeOK'
    <2>1. send_buffer_' \in SendCall
        BY <1>4, ClientAssumption DEF SendCall, Nothing
    <2>2. \A S : <<>> \in Seq(S)
        BY EmptySeq
    <2>3. /\ jobs' \in 0..MaxJobs /\ sends' \in 0..MaxSends /\ recv_size_' \in Nat
          /\ sent' \in 0..MaxSent /\ taken' \in 0..sent' /\ closing' \in 0..MaxJobs
        BY <1>1, <1>2, <1>3, <1>4, ClientAssumption DEF TypeOK
    <2>4. /\ is_job_running_' \in BOOLEAN /\ read_started_' \in BOOLEAN
          /\ recv_awaiter_callback_' \in BOOLEAN /\ unwinding' \in BOOLEAN /\ rereading' \in BOOLEAN
          /\ ended' \in BOOLEAN /\ stuck' \in BOOLEAN /\ dangling' \in BOOLEAN /\ crashed' \in BOOLEAN
        BY <1>1, <1>3, <1>4 DEF TypeOK
    <2> QED BY <1>4, <1>5, <2>1, <2>2, <2>3, <2>4 DEF TypeOK, Waiting, Errors
  <1>7. JobInv'
      BY <1>1, <1>2, <1>3, <1>5 DEF JobInv, TypeOK
  <1>8. SendInv' /\ RecvInv' /\ CrashOnlyOutOfTurn'
      BY <1>1, <1>2, <1>3, <1>4, <1>5 DEF SendInv, RecvInv, CrashOnlyOutOfTurn
  <1>9. NothingLost'
    <2>1. <<>> \o <<>> = <<>> /\ <<>> = [i \in 1..0 |-> i]
        OBVIOUS
    <2> QED BY <1>4, <2>1 DEF NothingLost
  <1> QED BY <1>6, <1>7, <1>8, <1>9 DEF IInv

(* The connect callback lets the job go on. *)
LEMMA OnConnectInv ==
    ASSUME IInv, OnConnect
    PROVE  IInv'
  <1>1. TypeOK /\ JobInv /\ SendInv /\ RecvInv /\ NothingLost
      BY DEF IInv
  <1>2. /\ pc = "connecting" /\ ~crashed /\ pc' = "running"
        /\ result' \in {"connected", "connect_failed"}
      BY DEF OnConnect, OnAwaiterConnect, Polls, LoopIdle
  <1>3. UNCHANGED <<jobVars, sendVars, recvVars, unwinding, rereading, peerVars, endVars>>
      BY DEF OnConnect
  <1>4. TypeOK'
      BY <1>1, <1>2, <1>3 DEF TypeOK, Errors, jobVars, sendVars, recvVars, peerVars, endVars
  <1>5. JobInv'
      BY <1>1, <1>2, <1>3 DEF JobInv, jobVars, endVars
  <1>6. SendInv' /\ RecvInv' /\ CrashOnlyOutOfTurn'
      BY <1>1, <1>2, <1>3 DEF SendInv, RecvInv, CrashOnlyOutOfTurn,
                              sendVars, recvVars, peerVars, endVars
  <1>7. NothingLost'
      BY <1>1, <1>3, BytesUntouched DEF recvVars, peerVars
  <1> QED BY <1>4, <1>5, <1>6, <1>7 DEF IInv

(* The peer's own steps. *)
LEMMA PeerInv ==
    ASSUME IInv, PeerSend \/ PeerEnd
    PROVE  IInv'
  <1>1. TypeOK /\ JobInv /\ SendInv /\ RecvInv /\ NothingLost /\ CrashOnlyOutOfTurn
      BY DEF IInv
  <1>2. UNCHANGED <<jobVars, pc, result, sendVars, recvVars, unwinding, rereading,
                    taken, ended, endVars>>
      BY DEF PeerSend, PeerEnd
  <1>3. sent' \in 0..MaxSent /\ taken' \in 0..sent' /\ ending' \in {"open", "eof", "error"}
    <2>1. /\ sent \in 0..MaxSent /\ taken \in 0..sent /\ MaxSent \in Nat
          /\ ending \in {"open", "eof", "error"}
        BY <1>1, ClientAssumption DEF TypeOK
    <2>2. CASE PeerSend
        BY <1>2, <2>1, <2>2 DEF PeerSend
    <2>3. CASE PeerEnd
        BY <1>2, <2>1, <2>3 DEF PeerEnd
    <2> QED BY <2>2, <2>3
  <1>4. TypeOK'
      BY <1>1, <1>2, <1>3 DEF TypeOK, jobVars, sendVars, recvVars, endVars
  <1>5. JobInv'
      BY <1>1, <1>2 DEF JobInv, jobVars, endVars
  <1>6. SendInv' /\ RecvInv' /\ CrashOnlyOutOfTurn'
      BY <1>1, <1>2 DEF SendInv, RecvInv, CrashOnlyOutOfTurn, sendVars, recvVars, endVars
  <1>7. NothingLost'
      BY <1>1, <1>2, BytesUntouched DEF recvVars
  <1> QED BY <1>4, <1>5, <1>6, <1>7 DEF IInv
------------------------------------------------------------------------------
(* CoSend hands libuv the only request there is, or none. *)
LEMMA CoSendInv ==
    ASSUME IInv, NEW len \in SendLens, CoSend(len)
    PROVE  IInv'
  <1>1. TypeOK /\ JobInv /\ SendInv /\ RecvInv /\ NothingLost
      BY DEF IInv
  <1>2. /\ pc = "running" /\ ~crashed /\ sends < MaxSends
        /\ sends' = sends + 1 /\ send_buffer_' = [call |-> sends + 1, len |-> len]
      BY DEF CoSend
  <1>3. UNCHANGED <<jobVars, recvVars, stuck, rereading, peerVars, endVars>>
      BY DEF CoSend
  <1>4. uv_writes = <<>>
      BY <1>1, <1>2 DEF SendInv
  <1>5. /\ uv_writes' = <<>> \/ (pc' = "sending" /\ uv_writes' = <<send_buffer_'>>)
        /\ pc' \in {"running", "sending"} /\ result' \in Results /\ unwinding' \in BOOLEAN
    <2>1. CASE StartSend
      <3>1. Append(<<>>, send_buffer_') = <<send_buffer_'>>
          OBVIOUS
      <3>2. uv_writes' = <<send_buffer_'>>
          BY <1>4, <2>1, <3>1 DEF StartSend
      <3> QED BY <2>1, <3>2 DEF StartSend, Results
    <2>2. CASE SendFails
        BY <1>1, <1>2, <1>4, <2>2 DEF SendFails, Results, Errors, TypeOK
    <2> QED BY <2>1, <2>2 DEF CoSend
  <1>6. TypeOK'
    <2>1. sends' \in 0..MaxSends /\ sends' > 0
        BY <1>1, <1>2, ClientAssumption DEF TypeOK
    <2>2. send_buffer_' \in SendCall
        BY <1>2, <2>1 DEF SendCall
    <2>3. uv_writes' \in Seq(SendCall)
      <3>1. <<>> \in Seq(SendCall) /\ <<send_buffer_'>> \in Seq(SendCall)
          BY <2>2
      <3> QED BY <1>5, <3>1
    <2> QED BY <1>1, <1>3, <1>5, <2>1, <2>2, <2>3
            DEF TypeOK, Results, Waiting, jobVars, recvVars, peerVars, endVars
  <1>7. JobInv'
      BY <1>1, <1>2, <1>3, <1>5 DEF JobInv, jobVars, endVars
  <1>8. SendInv'
      BY <1>1, <1>2, <1>3, <1>5 DEF SendInv, TypeOK, endVars
  <1>9. RecvInv' /\ CrashOnlyOutOfTurn'
      BY <1>1, <1>2, <1>3, <1>5 DEF RecvInv, CrashOnlyOutOfTurn, recvVars, peerVars, endVars
  <1>10. NothingLost'
      BY <1>1, <1>3, BytesUntouched DEF recvVars, peerVars
  <1> QED BY <1>6, <1>7, <1>8, <1>9, <1>10 DEF IInv

(* A write callback takes the only request and answers the job, or not. *)
LEMMA OnWriteInv ==
    ASSUME IInv, OnWrite
    PROVE  IInv'
  <1>1. TypeOK /\ JobInv /\ SendInv /\ RecvInv /\ NothingLost
      BY DEF IInv
  <1>2. ~crashed /\ uv_writes # <<>> /\ uv_writes' = Tail(uv_writes)
      BY DEF OnWrite, Polls, LoopIdle
  <1>3. UNCHANGED <<jobVars, send_buffer_, sends, recvVars, unwinding, rereading,
                    peerVars, endVars>>
      BY DEF OnWrite
  <1>4. pc = "sending" /\ uv_writes = <<send_buffer_>>
      BY <1>1, <1>2 DEF SendInv
  <1>5. uv_writes' = <<>>
    <2>1. uv_writes \in Seq(SendCall) /\ Len(uv_writes) = 1
        BY <1>1, <1>4 DEF TypeOK
    <2>2. Tail(uv_writes) \in Seq(SendCall) /\ Len(Tail(uv_writes)) = 0
        BY <1>2, <2>1, HeadTailProperties
    <2> QED BY <1>2, <2>2, EmptySeq
  <1>6. pc' \in {"sending", "running"} /\ result' \in Results /\ stuck' \in BOOLEAN
    <2>1. CASE OnAwaiterSend(Head(uv_writes).len) /\ UNCHANGED stuck
        BY <1>1, <2>1 DEF OnAwaiterSend, Results, Errors, TypeOK
    <2>2. CASE stuck' = TRUE /\ UNCHANGED <<pc, result>>
        BY <1>1, <1>4, <2>2 DEF TypeOK, Results
    <2> QED BY <2>1, <2>2 DEF OnWrite
  <1>7. TypeOK'
    <2>1. uv_writes' \in Seq(SendCall)
        BY <1>5, EmptySeq
    <2> QED BY <1>1, <1>3, <1>6, <2>1
            DEF TypeOK, Results, Waiting, jobVars, recvVars, peerVars, endVars
  <1>8. JobInv'
      BY <1>1, <1>3, <1>4, <1>6 DEF JobInv, jobVars, endVars
  <1>9. SendInv' /\ RecvInv' /\ CrashOnlyOutOfTurn'
      BY <1>1, <1>2, <1>3, <1>4, <1>5, <1>6
      DEF SendInv, RecvInv, CrashOnlyOutOfTurn, recvVars, peerVars, endVars
  <1>10. NothingLost'
      BY <1>1, <1>3, BytesUntouched DEF recvVars, peerVars
  <1> QED BY <1>7, <1>8, <1>9, <1>10 DEF IInv
------------------------------------------------------------------------------
(* CoReceive answers from recv_buffer_, or waits with nothing left in it. *)
LEMMA CoReceiveInv ==
    ASSUME IInv, NEW size \in RecvSizes, CoReceive(size)
    PROVE  IInv'
  <1>1. TypeOK /\ JobInv /\ SendInv /\ RecvInv /\ NothingLost
      BY DEF IInv
  <1>2. pc = "running" /\ ~crashed /\ recv_size_' = size /\ size \in Nat
      BY ClientAssumption DEF CoReceive
  <1>3. UNCHANGED <<jobVars, sendVars, rereading, peerVars, endVars>>
      BY DEF CoReceive
  <1>4. /\ got' \in Seq(Nat) /\ recv_buffer_' \in Seq(Nat) /\ read_started_' \in BOOLEAN
        /\ recv_awaiter_callback_' \in BOOLEAN
        /\ got' \o recv_buffer_' = got \o recv_buffer_
        /\ result' \in Results /\ unwinding' \in BOOLEAN
        /\ pc' \in {"running", "receiving"}
        /\ recv_awaiter_callback_' <=> pc' = "receiving"
        /\ pc' = "receiving" => read_started_' /\ recv_buffer_' = <<>>
    <2>1. CASE AnswersAtOnce
      <3>1. /\ OnAwaiterRecv(Len(recv_buffer_), recv_buffer_, size, "pending")
            /\ UNCHANGED read_started_
          BY <2>1 DEF CoReceive
      <3>2. recv_buffer_ \in Seq(Nat) /\ Len(recv_buffer_) \in Nat /\ "pending" \in Results
          BY <1>1, LenProperties DEF TypeOK, Results
      <3>3. /\ got' \in Seq(Nat) /\ recv_buffer_' \in Seq(Nat)
            /\ got' \o recv_buffer_' = got \o recv_buffer_
            /\ pc' = "running" /\ recv_awaiter_callback_' = FALSE
            /\ result' \in Results /\ unwinding' \in BOOLEAN
          BY <1>1, <1>2, <3>1, <3>2, OnAwaiterRecvEffect
      <3>4. read_started_' \in BOOLEAN
          BY <1>1, <3>1 DEF TypeOK
      <3> QED BY <3>3, <3>4
    <2>2. CASE ~AnswersAtOnce
      <3>1. StartReceive /\ SetRecvAwaiterCallback /\ UNCHANGED <<recv_buffer_, got>>
          BY <2>2 DEF CoReceive
      <3>2. recv_buffer_ = <<>>
          BY <2>2 DEF AnswersAtOnce
      <3>3. /\ read_started_' = TRUE /\ pc' = "receiving" /\ unwinding' = FALSE
            /\ recv_awaiter_callback_' = TRUE
          BY <3>1 DEF StartReceive, SetRecvAwaiterCallback
      <3>4. result' \in Results
          BY <3>1 DEF StartReceive, Results
      <3>5. got \in Seq(Nat) /\ recv_buffer_ \in Seq(Nat)
          BY <1>1 DEF TypeOK
      <3> QED BY <3>1, <3>2, <3>3, <3>4, <3>5
    <2> QED BY <2>1, <2>2
  <1>5. TypeOK'
      BY <1>1, <1>2, <1>3, <1>4
      DEF TypeOK, Results, Waiting, jobVars, sendVars, peerVars, endVars
  <1>6. JobInv'
      BY <1>1, <1>2, <1>3, <1>4 DEF JobInv, jobVars, endVars
  <1>7. SendInv'
      BY <1>1, <1>2, <1>3, <1>4 DEF SendInv, sendVars, endVars
  <1>8. RecvInv'
      BY <1>1, <1>3, <1>4 DEF RecvInv, peerVars
  <1>9. CrashOnlyOutOfTurn'
      BY <1>2, <1>3 DEF CrashOnlyOutOfTurn, endVars
  <1>10. NothingLost'
      BY <1>1, <1>3, <1>4 DEF NothingLost, peerVars
  <1> QED BY <1>5, <1>6, <1>7, <1>8, <1>9, <1>10 DEF IInv

(* Where a job can be when libuv reads for it. *)
LEMMA ReadingJob ==
    ASSUME IInv, Reading
    PROVE  /\ pc = "receiving" \/ (pc = "sending" /\ sends > 0)
           /\ read_started_ /\ ~crashed /\ pc # "none"
  BY DEF IInv, TypeOK, SendInv, RecvInv, Reading, LoopIdle, Waiting

(* Bytes go to the waiting promise, in order; if there is none the process  *)
(* ends with them in recv_buffer_.                                          *)
LEMMA OnReadDataInv ==
    ASSUME IInv, OnReadData
    PROVE  IInv'
  <1>1. TypeOK /\ JobInv /\ SendInv /\ RecvInv /\ NothingLost
      BY DEF IInv
  <1>2. /\ pc = "receiving" \/ (pc = "sending" /\ sends > 0)
        /\ read_started_ /\ ~crashed /\ pc # "none"
      BY ReadingJob DEF OnReadData, CanRead
  <1>3. UNCHANGED <<jobVars, sendVars, recv_size_, read_started_, sent, ending, ended,
                    closing, dangling>>
      BY DEF OnReadData
  <1>4. PICK n \in 1..ReadMax :
          /\ n <= sent - taken
          /\ taken' = taken + n
          /\ rereading' = (n = ReadMax)
          /\ LET b == recv_buffer_ \o [i \in 1..n |-> taken + i]
             IN  IF recv_awaiter_callback_
                 THEN OnAwaiterRecv(n, b, recv_size_, result) /\ UNCHANGED crashed
                 ELSE /\ recv_buffer_' = b /\ crashed' = TRUE
                      /\ UNCHANGED <<pc, result, recv_awaiter_callback_, got, unwinding>>
      BY DEF OnReadData
  <1> DEFINE chunk == [i \in 1..n |-> taken + i]
             b == recv_buffer_ \o chunk
  <1>5. /\ n \in Nat /\ n > 0 /\ taken \in Nat /\ sent \in 0..MaxSent
        /\ taken' \in 0..sent /\ taken' > 0 /\ recv_size_ \in Nat
        /\ rereading' \in BOOLEAN
      BY <1>1, <1>4, ClientAssumption DEF TypeOK
  <1>6. /\ chunk \in Seq(Nat) /\ Len(chunk) = n
        /\ [i \in 1..taken |-> i] \in Seq(Nat)
        /\ [i \in 1..taken |-> i] \o chunk = [i \in 1..(taken + n) |-> i]
      BY <1>5, CountOn
  <1>7. recv_buffer_ \in Seq(Nat) /\ got \in Seq(Nat) /\ result \in Results
      BY <1>1 DEF TypeOK, Results
  <1>8. /\ recv_awaiter_callback_ => OnAwaiterRecv(n, b, recv_size_, result) /\ UNCHANGED crashed
        /\ ~recv_awaiter_callback_ =>
              /\ recv_buffer_' = b /\ crashed' = TRUE
              /\ UNCHANGED <<pc, result, recv_awaiter_callback_, got, unwinding>>
      BY <1>4
  <1> HIDE DEF chunk
  <1>9. b \in Seq(Nat)
      BY <1>6, <1>7, ConcatProperties
  <1>10. got \o b = [i \in 1..taken' |-> i]
    <2>1. chunk \in Seq(Nat) /\ recv_buffer_ \in Seq(Nat) /\ got \in Seq(Nat)
        BY <1>6, <1>7
    <2>2. (got \o recv_buffer_) \o chunk = got \o b
        BY <2>1, Associative
    <2> QED BY <1>1, <1>4, <1>6, <2>2 DEF NothingLost
  <1>11. CASE recv_awaiter_callback_
    <2>1. pc = "receiving" /\ recv_buffer_ = <<>>
        BY <1>1, <1>11 DEF RecvInv
    <2>2. Len(b) = n
        BY <1>6, <1>7, <2>1, ConcatProperties
    <2> HIDE DEF b
    <2>3. /\ got' \in Seq(Nat) /\ recv_buffer_' \in Seq(Nat)
          /\ got' \o recv_buffer_' = got \o b
          /\ pc' = "running" /\ recv_awaiter_callback_' = FALSE
          /\ result' \in Results /\ unwinding' \in BOOLEAN
        BY <1>1, <1>5, <1>7, <1>8, <1>9, <1>11, <2>2, OnAwaiterRecvEffect
    <2>4. crashed' = crashed
        BY <1>8, <1>11
    <2>5. TypeOK'
        BY <1>1, <1>3, <1>5, <2>3, <2>4 DEF TypeOK, Results, jobVars, sendVars
    <2>6. JobInv'
        BY <1>1, <1>3, <2>1, <2>3 DEF JobInv, jobVars
    <2>7. SendInv'
        BY <1>1, <1>3, <2>1, <2>3 DEF SendInv, sendVars
    <2>8. RecvInv' /\ CrashOnlyOutOfTurn'
        BY <1>2, <1>5, <2>3, <2>4 DEF RecvInv, CrashOnlyOutOfTurn
    <2>9. NothingLost'
        BY <1>10, <2>3 DEF NothingLost
    <2> QED BY <2>5, <2>6, <2>7, <2>8, <2>9 DEF IInv
  <1>12. CASE ~recv_awaiter_callback_
    <2>1. pc = "sending"
        BY <1>1, <1>2, <1>12 DEF RecvInv
    <2>2. /\ recv_buffer_' = b /\ crashed' = TRUE
          /\ pc' = pc /\ result' = result /\ got' = got /\ unwinding' = unwinding
          /\ recv_awaiter_callback_' = recv_awaiter_callback_
        BY <1>8, <1>12
    <2> HIDE DEF b
    <2>3. TypeOK'
        BY <1>1, <1>3, <1>5, <1>9, <2>2 DEF TypeOK, jobVars, sendVars
    <2>4. JobInv'
        BY <1>1, <1>3, <2>2 DEF JobInv, jobVars
    <2>5. SendInv'
        BY <1>1, <1>3, <2>2 DEF SendInv, sendVars
    <2>6. RecvInv'
        BY <1>1, <1>5, <1>12, <2>1, <2>2 DEF RecvInv
    <2>7. CrashOnlyOutOfTurn'
        BY <1>2, <1>3, <1>5, <2>1, <2>2 DEF CrashOnlyOutOfTurn
    <2>8. NothingLost'
        BY <1>10, <2>2 DEF NothingLost
    <2> QED BY <2>3, <2>4, <2>5, <2>6, <2>7, <2>8 DEF IInv
  <1> QED BY <1>11, <1>12

(* A read callback without bytes: an answer for the waiting promise, or the *)
(* end of the process, which needs a job in CoSend that has received.       *)
LEMMA OnReadFailsInv ==
    ASSUME IInv, CanRead, OnReadFails, ended' \in BOOLEAN, taken > 0 \/ ended'
    PROVE  IInv'
  <1>1. TypeOK /\ JobInv /\ SendInv /\ RecvInv /\ NothingLost
      BY DEF IInv
  <1>2. /\ pc = "receiving" \/ (pc = "sending" /\ sends > 0)
        /\ read_started_ /\ ~crashed /\ pc # "none"
      BY ReadingJob DEF CanRead
  <1>3. /\ recv_awaiter_callback_' = FALSE /\ rereading' = FALSE
        /\ UNCHANGED <<jobVars, sendVars, recv_buffer_, recv_size_, read_started_, got,
                       unwinding, sent, taken, ending, closing, dangling>>
      BY DEF OnReadFails
  <1>4. \/ /\ pc = "receiving" /\ pc' = "running" /\ result' = "recv_error"
           /\ crashed' = crashed
        \/ /\ pc = "sending" /\ pc' = pc /\ result' = result /\ crashed' = TRUE
      BY <1>1, <1>2 DEF OnReadFails, OnAwaiterRecvError, RecvInv
  <1>5. TypeOK'
      BY <1>1, <1>3, <1>4 DEF TypeOK, Errors, jobVars, sendVars
  <1>6. JobInv'
      BY <1>1, <1>3, <1>4 DEF JobInv, jobVars
  <1>7. SendInv'
      BY <1>1, <1>3, <1>4 DEF SendInv, sendVars
  <1>8. RecvInv' /\ CrashOnlyOutOfTurn'
      BY <1>2, <1>3, <1>4 DEF RecvInv, CrashOnlyOutOfTurn
  <1>9. NothingLost'
      BY <1>1, <1>3, BytesUntouched
  <1> QED BY <1>5, <1>6, <1>7, <1>8, <1>9 DEF IInv

(* A read callback that finds handle->data unset. *)
LEMMA OnReadUninitializedInv ==
    ASSUME IInv, OnReadUninitialized
    PROVE  IInv'
  <1>1. TypeOK /\ JobInv /\ SendInv /\ RecvInv /\ NothingLost
      BY DEF IInv
  <1>2. Reading /\ ~HandleKnowsConn /\ crashed' = TRUE
      BY DEF OnReadUninitialized
  <1>3. pc = "receiving" /\ sends = 0
      BY <1>1, <1>2, ReadingJob DEF HandleKnowsConn, TypeOK
  <1>4. UNCHANGED <<jobVars, pc, result, sendVars, recvVars, unwinding, rereading,
                    peerVars, closing, dangling>>
      BY DEF OnReadUninitialized
  <1>5. TypeOK'
      BY <1>1, <1>2, <1>4 DEF TypeOK, jobVars, sendVars, recvVars, peerVars
  <1>6. JobInv'
      BY <1>1, <1>4 DEF JobInv, jobVars
  <1>7. SendInv' /\ RecvInv' /\ CrashOnlyOutOfTurn'
      BY <1>1, <1>3, <1>4 DEF SendInv, RecvInv, CrashOnlyOutOfTurn, sendVars, recvVars, peerVars
  <1>8. NothingLost'
      BY <1>1, <1>4, BytesUntouched DEF recvVars, peerVars
  <1> QED BY <1>5, <1>6, <1>7, <1>8 DEF IInv
------------------------------------------------------------------------------
(* The job returns and its connection is destroyed with no request open. *)
LEMMA ReturnInv ==
    ASSUME IInv, Return
    PROVE  IInv'
  <1>1. TypeOK /\ JobInv /\ SendInv /\ RecvInv /\ NothingLost
      BY DEF IInv
  <1>2. /\ pc = "running" /\ ~crashed /\ pc' = "none" /\ is_job_running_' = FALSE
        /\ dangling' = (dangling \/ uv_writes # <<>>) /\ closing' = closing + 1
        /\ unwinding' = FALSE /\ rereading' = FALSE
      BY DEF Return, JobEnds
  <1>3. UNCHANGED <<jobs, result, sendVars, recvVars, peerVars, crashed>>
      BY DEF Return
  <1>4. dangling' = FALSE
      BY <1>1, <1>2 DEF SendInv
  <1>5. closing' \in 0..MaxJobs /\ closing' <= jobs
      BY <1>1, <1>2, ClientAssumption DEF JobInv, TypeOK
  <1>6. TypeOK'
      BY <1>1, <1>2, <1>3, <1>4, <1>5 DEF TypeOK, sendVars, recvVars, peerVars
  <1>7. JobInv'
      BY <1>1, <1>2, <1>3, <1>5 DEF JobInv, TypeOK
  <1>8. SendInv' /\ RecvInv' /\ CrashOnlyOutOfTurn'
      BY <1>1, <1>2, <1>3, <1>4 DEF SendInv, RecvInv, CrashOnlyOutOfTurn, sendVars, recvVars
  <1>9. NothingLost'
      BY <1>1, <1>3, BytesUntouched DEF recvVars, peerVars
  <1> QED BY <1>6, <1>7, <1>8, <1>9 DEF IInv

(* uv_close of an earlier connection finishes. *)
LEMMA OnCoConnUVCloseInv ==
    ASSUME IInv, OnCoConnUVClose
    PROVE  IInv'
  <1>1. TypeOK /\ JobInv /\ SendInv /\ RecvInv /\ NothingLost /\ CrashOnlyOutOfTurn
      BY DEF IInv
  <1>2. closing > 0 /\ closing' = closing - 1
      BY DEF OnCoConnUVClose
  <1>3. UNCHANGED <<jobVars, pc, result, sendVars, recvVars, unwinding, rereading,
                    peerVars, dangling, crashed>>
      BY DEF OnCoConnUVClose
  <1>4. closing' \in 0..MaxJobs /\ closing' <= closing
      BY <1>1, <1>2, ClientAssumption DEF TypeOK
  <1>5. TypeOK'
      BY <1>1, <1>3, <1>4 DEF TypeOK, jobVars, sendVars, recvVars, peerVars
  <1>6. JobInv'
      BY <1>1, <1>2, <1>3 DEF JobInv, TypeOK, jobVars
  <1>7. SendInv' /\ RecvInv' /\ CrashOnlyOutOfTurn'
      BY <1>1, <1>3 DEF SendInv, RecvInv, CrashOnlyOutOfTurn, sendVars, recvVars, peerVars
  <1>8. NothingLost'
      BY <1>1, <1>3, BytesUntouched DEF recvVars, peerVars
  <1> QED BY <1>5, <1>6, <1>7, <1>8 DEF IInv

(* Every step of the job, the timer, the peer and libuv keeps it. *)
LEMMA StepInv == IInv /\ [Next]_vars => IInv'
  <1> SUFFICES ASSUME IInv, [Next]_vars PROVE IInv'
      OBVIOUS
  <1>1. CASE OnTimer \/ OnConnect \/ PeerSend \/ PeerEnd
      BY <1>1, OnTimerInv, OnConnectInv, PeerInv
  <1>2. CASE JobStep
      BY <1>2, CoSendInv, CoReceiveInv, ReturnInv DEF JobStep
  <1>3. CASE OnWrite \/ OnReadData \/ OnReadUninitialized \/ OnCoConnUVClose
      BY <1>3, OnWriteInv, OnReadDataInv, OnReadUninitializedInv, OnCoConnUVCloseInv
  <1>4. CASE OnReadEnd
    <2>1. CanRead /\ OnReadFails /\ ended' = TRUE
        BY <1>4 DEF OnReadEnd
    <2> QED BY <2>1, OnReadFailsInv
  <1>5. CASE OnReadNothing
    <2>1. CanRead /\ OnReadFails /\ ended' = ended /\ rereading
        BY <1>5 DEF OnReadNothing
    <2>2. taken > 0 /\ ended \in BOOLEAN
        BY <2>1 DEF IInv, RecvInv, TypeOK
    <2> QED BY <2>1, <2>2, OnReadFailsInv
  <1>6. CASE UNCHANGED vars
      BY <1>6 DEF vars, jobVars, sendVars, recvVars, peerVars, endVars, IInv, TypeOK, JobInv,
                  SendInv, RecvInv, NothingLost, CrashOnlyOutOfTurn
  <1> QED BY <1>1, <1>2, <1>3, <1>4, <1>5, <1>6 DEF Next

(* The inductive invariant holds of the client program. *)
LEMMA Invariant == Spec => []IInv
  <1> QED BY InitInv, StepInv, PTL DEF Spec

(* Every variable keeps its type; closing handles never outnumber the jobs. *)
THEOREM TypeCorrect == Spec => []TypeOK
  <1>1. IInv => TypeOK
      BY DEF IInv
  <1> QED BY <1>1, Invariant, PTL

(* For any buffer and argument sizes: every byte OnRead was given is, in    *)
(* order and once, in the job's memory or in recv_buffer_.                  *)
THEOREM ClientLosesNothing == Spec => []NothingLost
  <1>1. IInv => NothingLost
      BY DEF IInv
  <1> QED BY <1>1, Invariant, PTL

(* A job waits in CoReceive exactly when its promise is registered, libuv   *)
(* reads for it and recv_buffer_ is empty.                                  *)
THEOREM WaitingReceiverReachable == Spec => []ReceiverIsReachable
  <1>1. IInv => ReceiverIsReachable
      BY DEF IInv, RecvInv, ReceiverIsReachable
  <1> QED BY <1>1, Invariant, PTL

(* While libuv holds a request its bytes are the ones in send_buffer_, and  *)
(* ~TcpCoConn never runs with a request open.                               *)
THEOREM SendBufferKept == Spec => []SendBufferStable
  <1>1. IInv => SendBufferStable
    <2> SUFFICES ASSUME IInv PROVE SendBufferStable
        OBVIOUS
    <2>1. uv_writes = <<>> \/ uv_writes = <<send_buffer_>>
        BY DEF IInv, SendInv
    <2>2. \A i \in DOMAIN uv_writes : uv_writes[i] = send_buffer_
        BY <2>1
    <2> QED BY <2>2 DEF IInv, SendInv, SendBufferStable
  <1> QED BY <1>1, Invariant, PTL

(* OnRead meets a null recv_awaiter_callback_ or an unset handle->data only *)
(* in a job that sends after it has received or receives before it sends.   *)
THEOREM CrashNeedsMixedOrder == Spec => []CrashOnlyOutOfTurn
  <1>1. IInv => CrashOnlyOutOfTurn
      BY DEF IInv
  <1> QED BY <1>1, Invariant, PTL
==============================================================================
