----------------------- MODULE TcpCoAcceptConn_proofs -----------------------
(***************************************************************************)
(* Proofs about TcpCoAcceptConn for any set of coroutines and any sizes.    *)
(***************************************************************************)
EXTENDS TcpCoAcceptConn, SequenceTheorems, TLAPS

(* CoReceive has at most one caller at a time, so read_awaiters_ holds at   *)
(* most one awaiter.                                                        *)
OneReceiver == Len(read_awaiters_) <= 1

ReceiveInv == OneReceiver /\ ReceiverFindsBufferEmpty

(* write_awaiters_ lists coroutines suspended in CoSend, each once. *)
SendersWait ==
    /\ \A i \in DOMAIN write_awaiters_ : pc[write_awaiters_[i]] = "sending"
    /\ \A i, j \in DOMAIN write_awaiters_ :
          write_awaiters_[i] = write_awaiters_[j] => i = j

(* Only requests that were made are on the socket, and a sender that waits  *)
(* is not among them.                                                       *)
WrittenWasSent ==
    /\ \A c \in Coros, k \in 1..MaxSends : <<c, k>> \in written => k <= sends[c]
    /\ \A c \in Coros : pc[c] = "sending" =>
          result[c] = "pending" /\ <<c, sends[c]>> \notin written

SendInv == SendersWait /\ WriteQueuesInStep /\ WrittenWasSent /\ SendAnswerTruthful

(* The destructor runs only when nobody holds the connection, and uv_close  *)
(* is called only there.                                                    *)
ClosedOnlyUnheld ==
    /\ ~alive => ~owner /\ Holders = {}
    /\ uv_handle # "open" => ~alive

LifeInv == ClosedOnlyUnheld /\ NoDanglingCallback

(* Only bytes that were read can have been dropped. *)
StreamInv == lost \subseteq 1..taken /\ InOrderExactlyOnce

(* The inductive invariant: OnWrite disturbs the receive side and OnReceive *)
(* the send side unless each knows whom the other resumes, and uv_close     *)
(* empties libuv's queue unless nobody waits, so the parts go together.     *)
IInv == TypeOK /\ ReceiveInv /\ SendInv /\ LifeInv /\ StreamInv
------------------------------------------------------------------------------
(* Concatenation of byte sequences is associative. *)
LEMMA Associative ==
    ASSUME NEW s \in Seq(Nat), NEW t \in Seq(Nat), NEW u \in Seq(Nat)
    PROVE  (s \o t) \o u = s \o (t \o u)
  BY ConcatAssociative, SMTT(30)

(* What HandleReceive (co_tcp_session_recv.cpp:46-57) does to the buffer:   *)
(* the bytes it takes and the bytes it leaves are, together and in order,   *)
(* the bytes that were there.                                               *)
LEMMA TakeAndLeave ==
    ASSUME NEW b \in Seq(Nat), NEW n \in Nat, n <= Len(b)
    PROVE  /\ SubSeq(b, 1, n) \in Seq(Nat) /\ Consumed(b, n) \in Seq(Nat)
           /\ SubSeq(b, 1, n) \o Consumed(b, n) = b
  <1>1. Len(b) \in Nat /\ \A i \in 1..Len(b) : b[i] \in Nat
      BY LenProperties
  <1>2. SubSeq(b, 1, n) \in Seq(Nat)
      BY <1>1, SubSeqProperties
  <1>3. Consumed(b, n) \in Seq(Nat)
      BY <1>1, SubSeqProperties DEF Consumed
  <1>4. SubSeq(b, 1, n) \o SubSeq(b, n + 1, Len(b)) = SubSeq(b, 1, Len(b))
    <2>1. 1 \in 1..(Len(b) + 1) /\ n \in (1 - 1)..Len(b) /\ Len(b) \in n..Len(b)
        BY <1>1
    <2> QED BY <2>1, ConcatAdjacentSubSeq, Zenon
  <1> QED
      BY <1>2, <1>3, <1>4, SubSeqFull DEF Consumed

(* The bytes of one read callback. *)
LEMMA ChunkType ==
    ASSUME NEW n \in Nat, taken \in Nat
    PROVE  /\ Chunk(n) \in Seq(Nat) /\ Len(Chunk(n)) = n
           /\ \A i \in 1..n : Chunk(n)[i] = taken + i
  <1>1. Chunk(n) \in [1..n -> Nat]
      BY DEF Chunk
  <1> QED
      BY <1>1 DEF Chunk

(* HandleReceive with nread bytes at hand moves them from the buffer's      *)
(* front to the coroutine, and resumes it.                                  *)
LEMMA HandleReceiveEffect ==
    ASSUME TypeOK, NEW c \in Coros, NEW b \in Seq(Nat),
           NEW nread \in Nat, nread <= Len(b), NEW size \in Nat,
           HandleReceive(c, nread, b, size)
    PROVE  /\ delivered' \in Seq(Nat) /\ recv_buffer_' \in Seq(Nat)
           /\ delivered' \o recv_buffer_' = delivered \o b
  <1> DEFINE n == IF nread > size THEN size ELSE nread
  <1>1. n \in Nat /\ n <= Len(b)
      BY LenProperties
  <1>2. delivered' = delivered \o SubSeq(b, 1, n) /\ recv_buffer_' = Consumed(b, n)
      BY DEF HandleReceive
  <1> HIDE DEF n
  <1>3. /\ SubSeq(b, 1, n) \in Seq(Nat) /\ Consumed(b, n) \in Seq(Nat)
        /\ SubSeq(b, 1, n) \o Consumed(b, n) = b
      BY <1>1, TakeAndLeave
  <1>4. delivered \in Seq(Nat)
      BY DEF TypeOK
  <1>5. delivered' \in Seq(Nat)
      BY <1>2, <1>3, <1>4, ConcatProperties
  <1>6. delivered' \o recv_buffer_' = delivered \o (SubSeq(b, 1, n) \o Consumed(b, n))
      BY <1>2, <1>3, <1>4, Associative
  <1> QED
      BY <1>2, <1>3, <1>5, <1>6
------------------------------------------------------------------------------
(* The answers a coroutine can be resumed with, and where it then is. *)
LEMMA ResumeType ==
    ASSUME TypeOK, NEW c \in Coros,
           NEW answer \in {"recv_ok", "recv_error", "send_ok", "send_error"},
           Resume(c, answer)
    PROVE  /\ pc' \in [Coros -> {"new", "running", "receiving", "sending", "done"}]
           /\ result' \in [Coros -> {"pending", "recv_ok", "recv_error", "send_ok", "send_error"}]
  BY DEF TypeOK, Resume

(* The types hold when the constructor is done. *)
LEMMA InitType == Init => TypeOK
  <1> SUFFICES ASSUME Init PROVE TypeOK
      OBVIOUS
  <1>1. \A S : <<>> \in Seq(S)
      BY EmptySeq
  <1>2. owner \in BOOLEAN /\ alive \in BOOLEAN /\ ended \in BOOLEAN /\ dangling \in BOOLEAN
      BY DEF Init
  <1>3. /\ 0 \in 0..MaxSends /\ sent \in 0..MaxSent /\ taken \in 0..sent
        /\ recv_size_ \in Nat
      BY ConnAssumption DEF Init
  <1> QED BY <1>1, <1>2, <1>3 DEF Init, TypeOK

(* A read callback keeps the types. *)
LEMMA OnReceiveDataType == TypeOK /\ OnReceiveData => TypeOK'
  <1> SUFFICES ASSUME TypeOK, OnReceiveData PROVE TypeOK'
      OBVIOUS
  <1>1. PICK n \in 1..ReadMax :
          /\ n <= sent - taken
          /\ taken' = taken + n
          /\ IF read_awaiters_ = <<>>
             THEN /\ lost' = lost \cup {taken + i : i \in 1..n}
                  /\ UNCHANGED <<pc, result, recv_buffer_, read_awaiters_, delivered>>
             ELSE /\ HandleReceive(Head(read_awaiters_), n, recv_buffer_ \o Chunk(n), recv_size_)
                  /\ read_awaiters_' = Tail(read_awaiters_)
                  /\ UNCHANGED lost
      BY DEF OnReceiveData
  <1>2. n \in Nat /\ taken \in Nat /\ sent \in Nat /\ taken' \in 0..sent
      BY <1>1, ConnAssumption DEF TypeOK
  <1>3. CASE read_awaiters_ = <<>>
    <2>1. lost' \subseteq Nat
      <3>1. \A i \in 1..n : taken + i \in Nat
          BY <1>2
      <3>2. lost \subseteq Nat /\ lost' = lost \cup {taken + i : i \in 1..n}
          BY <1>1, <1>3 DEF TypeOK
      <3> QED BY <3>1, <3>2, Zenon
    <2> QED
        BY <1>1, <1>2, <1>3, <2>1 DEF TypeOK, OnReceiveData, connVars, sendVars
  <1>4. CASE read_awaiters_ # <<>>
    <2>1. Head(read_awaiters_) \in Coros /\ Tail(read_awaiters_) \in Seq(Coros)
        BY <1>4, HeadTailProperties DEF TypeOK
    <2>2. recv_buffer_ \in Seq(Nat) /\ recv_size_ \in Nat
        BY DEF TypeOK
    <2>3. /\ recv_buffer_ \o Chunk(n) \in Seq(Nat)
          /\ n <= Len(recv_buffer_ \o Chunk(n))
        BY <1>2, <2>2, ChunkType, ConcatProperties, LenProperties
    <2>4. HandleReceive(Head(read_awaiters_), n, recv_buffer_ \o Chunk(n), recv_size_)
        BY <1>1, <1>4
    <2>5. delivered' \in Seq(Nat) /\ recv_buffer_' \in Seq(Nat)
        BY <1>2, <2>1, <2>2, <2>3, <2>4, HandleReceiveEffect
    <2>6. Resume(Head(read_awaiters_), "recv_ok")
        BY <2>4 DEF HandleReceive
    <2>7. /\ pc' \in [Coros -> {"new", "running", "receiving", "sending", "done"}]
          /\ result' \in [Coros -> {"pending", "recv_ok", "recv_error", "send_ok", "send_error"}]
        BY <2>1, <2>6, ResumeType
    <2> QED
        BY <1>1, <1>2, <1>4, <2>1, <2>5, <2>7 DEF TypeOK, OnReceiveData, connVars, sendVars
  <1> QED BY <1>3, <1>4

(* CoReceive keeps the types, answered at once or not. *)
LEMMA CoReceiveType ==
    ASSUME TypeOK, NEW c \in Coros, NEW size \in RecvSizes, CoReceive(c, size)
    PROVE  TypeOK'
  <1>1. size \in Nat /\ recv_buffer_ \in Seq(Nat) /\ Len(recv_buffer_) \in Nat
      BY ConnAssumption, LenProperties DEF TypeOK
  <1>2. CASE AnswersAtOnce
    <2>1. HandleReceive(c, Len(recv_buffer_), recv_buffer_, size) /\ UNCHANGED read_awaiters_
        BY <1>2 DEF CoReceive
    <2>2. delivered' \in Seq(Nat) /\ recv_buffer_' \in Seq(Nat)
        BY <1>1, <2>1, HandleReceiveEffect
    <2>3. Resume(c, "recv_ok")
        BY <2>1 DEF HandleReceive
    <2>4. /\ pc' \in [Coros -> {"new", "running", "receiving", "sending", "done"}]
          /\ result' \in [Coros -> {"pending", "recv_ok", "recv_error", "send_ok", "send_error"}]
        BY <2>3, ResumeType
    <2> QED
        BY <1>1, <2>1, <2>2, <2>4 DEF TypeOK, CoReceive, connVars, sendVars, peerVars
  <1>3. CASE ~AnswersAtOnce
    <2>1. read_awaiters_' \in Seq(Coros)
      <3>1. read_awaiters_ \in Seq(Coros) /\ read_awaiters_' = Append(read_awaiters_, c)
          BY <1>3 DEF TypeOK, CoReceive
      <3> QED BY <3>1, AppendProperties
    <2> QED
        BY <1>1, <1>3, <2>1 DEF TypeOK, CoReceive, connVars, sendVars, peerVars
  <1> QED BY <1>2, <1>3

(* CoSend keeps the types, whether uv_write accepts the request or not. *)
LEMMA CoSendType ==
    ASSUME TypeOK, NEW c \in Coros, CoSend(c)
    PROVE  TypeOK'
  <1>1. sends[c] \in 0..MaxSends /\ sends[c] < MaxSends /\ MaxSends \in Nat
      BY ConnAssumption DEF TypeOK, CoSend
  <1>2. Request(c) \in Coros \X (1..MaxSends)
      BY <1>1 DEF Request
  <1>3. sends' \in [Coros -> 0..MaxSends]
      BY <1>1 DEF TypeOK, CoSend
  <1>4. CASE SendStarts(c)
    <2>1. uv_writes' \in Seq(Coros \X (1..MaxSends)) /\ write_awaiters_' \in Seq(Coros)
        BY <1>2, <1>4, AppendProperties DEF TypeOK, SendStarts
    <2> QED
        BY <1>3, <1>4, <2>1 DEF TypeOK, CoSend, SendStarts, connVars, recvVars, peerVars
  <1>5. CASE SendFails(c)
      BY <1>3, <1>5, ResumeType DEF TypeOK, CoSend, SendFails, connVars, recvVars, peerVars
  <1> QED BY <1>4, <1>5 DEF CoSend

(* A write callback keeps the types. *)
LEMMA OnWriteType == TypeOK /\ OnWrite => TypeOK'
  <1> SUFFICES ASSUME TypeOK, OnWrite PROVE TypeOK'
      OBVIOUS
  <1>1. PICK status \in {"send_ok", "send_error"} :
          /\ written' = IF status = "send_ok" THEN written \cup {Head(uv_writes)} ELSE written
          /\ IF write_awaiters_ = <<>>
             THEN UNCHANGED <<pc, result, write_awaiters_>>
             ELSE /\ HandleSend(Head(write_awaiters_), status)
                  /\ write_awaiters_' = Tail(write_awaiters_)
      BY DEF OnWrite
  <1>2. /\ Head(uv_writes) \in Coros \X (1..MaxSends)
        /\ uv_writes' \in Seq(Coros \X (1..MaxSends))
      BY HeadTailProperties DEF TypeOK, OnWrite
  <1>3. written' \subseteq Coros \X (1..MaxSends)
      BY <1>1, <1>2 DEF TypeOK
  <1>4. CASE write_awaiters_ = <<>>
      BY <1>1, <1>2, <1>3, <1>4 DEF TypeOK, OnWrite, connVars, recvVars, peerVars
  <1>5. CASE write_awaiters_ # <<>>
    <2>1. Head(write_awaiters_) \in Coros /\ write_awaiters_' \in Seq(Coros)
      <3>1. write_awaiters_ \in Seq(Coros) /\ write_awaiters_' = Tail(write_awaiters_)
          BY <1>1, <1>5 DEF TypeOK
      <3> QED BY <1>5, <3>1, HeadTailProperties
    <2>2. /\ pc' \in [Coros -> {"new", "running", "receiving", "sending", "done"}]
          /\ result' \in [Coros -> {"pending", "recv_ok", "recv_error", "send_ok", "send_error"}]
        BY <1>1, <1>5, <2>1, ResumeType DEF HandleSend
    <2> QED
        BY <1>2, <1>3, <2>1, <2>2 DEF TypeOK, OnWrite, connVars, recvVars, peerVars
  <1> QED BY <1>4, <1>5

(* A reported end of the stream keeps the types. *)
LEMMA OnReceiveEndType == TypeOK /\ OnReceiveEnd => TypeOK'
  <1> SUFFICES ASSUME TypeOK, OnReceiveEnd PROVE TypeOK'
      OBVIOUS
  <1>1. ended' \in BOOLEAN
      BY DEF OnReceiveEnd
  <1>2. CASE read_awaiters_ = <<>>
      BY <1>1, <1>2 DEF TypeOK, OnReceiveEnd, connVars, sendVars
  <1>3. CASE read_awaiters_ # <<>>
    <2>1. Head(read_awaiters_) \in Coros /\ Tail(read_awaiters_) \in Seq(Coros)
        BY <1>3, HeadTailProperties DEF TypeOK
    <2>2. /\ pc' \in [Coros -> {"new", "running", "receiving", "sending", "done"}]
          /\ result' \in [Coros -> {"pending", "recv_ok", "recv_error", "send_ok", "send_error"}]
        BY <1>3, <2>1, ResumeType DEF OnReceiveEnd, HandleReceiveError
    <2> QED
        BY <1>1, <1>3, <2>1, <2>2 DEF TypeOK, OnReceiveEnd, connVars, sendVars
  <1> QED BY <1>2, <1>3

(* Dropping a shared_ptr keeps the types of what the destructor touches. *)
LEMMA DestroyIfType ==
    ASSUME TypeOK, NEW last \in BOOLEAN, DestroyIf(last)
    PROVE  alive' \in BOOLEAN /\ uv_handle' \in {"open", "closing", "closed"}
  <1>1. alive' \in BOOLEAN
      BY DEF DestroyIf
  <1>2. uv_handle' \in {"open", "closing", "closed"}
      BY DEF TypeOK, DestroyIf
  <1> QED BY <1>1, <1>2

(* Every step keeps the types. *)
LEMMA NextType == TypeOK /\ [Next]_vars => TypeOK'
  <1> SUFFICES ASSUME TypeOK, [Next]_vars PROVE TypeOK'
      OBVIOUS
  <1>1. ASSUME NEW c \in Coros, Start(c) PROVE TypeOK'
      BY <1>1 DEF TypeOK, Start, connVars, recvVars, sendVars, peerVars
  <1>2. ASSUME NEW c \in Coros, CoroStep(c) PROVE TypeOK'
    <2>1. ASSUME Return(c) PROVE TypeOK'
      <3>1. LastHolder(c) \in BOOLEAN /\ DestroyIf(LastHolder(c))
          BY <2>1 DEF LastHolder, Return
      <3>2. alive' \in BOOLEAN /\ uv_handle' \in {"open", "closing", "closed"}
          BY <3>1, DestroyIfType
      <3> QED
          BY <2>1, <3>2 DEF TypeOK, Return, recvVars, sendVars, peerVars
    <2> QED BY <1>2, <2>1, CoReceiveType, CoSendType DEF CoroStep
  <1>3. CASE PeerSend
      BY <1>3, ConnAssumption DEF TypeOK, PeerSend, connVars, recvVars, sendVars
  <1>4. CASE PeerEnd
      BY <1>4 DEF TypeOK, PeerEnd, connVars, recvVars, sendVars
  <1>5. CASE OwnerRelease
    <2>1. (Holders = {}) \in BOOLEAN /\ DestroyIf(Holders = {}) /\ owner' \in BOOLEAN
        BY <1>5 DEF OwnerRelease
    <2>2. alive' \in BOOLEAN /\ uv_handle' \in {"open", "closing", "closed"}
        BY <2>1, DestroyIfType
    <2> QED
        BY <1>5, <2>1, <2>2 DEF TypeOK, OwnerRelease, recvVars, sendVars, peerVars
  <1>6. CASE OnCoConnUVClose
    <2>1. dangling' \in BOOLEAN
        BY <1>6 DEF OnCoConnUVClose
    <2>2. uv_writes' \in Seq(Coros \X (1..MaxSends))
        BY <1>6, EmptySeq DEF OnCoConnUVClose
    <2> QED
        BY <1>6, <2>1, <2>2 DEF TypeOK, OnCoConnUVClose, recvVars, peerVars
  <1>7. CASE UNCHANGED vars
      BY <1>7 DEF TypeOK, vars, connVars, recvVars, sendVars, peerVars
  <1> QED
      BY <1>1, <1>2, <1>3, <1>4, <1>5, <1>6, <1>7,
         OnReceiveDataType, OnReceiveEndType, OnWriteType DEF Next

(* TypeOK in every reachable state of the connection, for any coroutines.   *)
THEOREM TypeCorrect == Spec => []TypeOK
  BY InitType, NextType, PTL DEF Spec
------------------------------------------------------------------------------
(* Before anybody waits, the receive side is empty. *)
LEMMA InitReceive == Init => ReceiveInv
  <1> SUFFICES ASSUME Init PROVE ReceiveInv
      OBVIOUS
  <1>1. Len(read_awaiters_) = 0 /\ read_awaiters_ = <<>> /\ recv_buffer_ = <<>>
      BY EmptySeq DEF Init
  <1>2. \A c \in Coros : pc[c] # "receiving" /\ <<c>> # <<>>
      BY DEF Init
  <1> QED
      BY <1>1, <1>2 DEF ReceiveInv, OneReceiver, ReceiverFindsBufferEmpty

(* A receive queue of at most one awaiter is empty or names one coroutine. *)
LEMMA ReadQueueShape ==
    ASSUME TypeOK, OneReceiver, read_awaiters_ # <<>>
    PROVE  /\ read_awaiters_ = <<Head(read_awaiters_)>> /\ Head(read_awaiters_) \in Coros
           /\ Tail(read_awaiters_) = <<>>
  <1>1. read_awaiters_ \in Seq(Coros) /\ Len(read_awaiters_) \in Nat \ {0}
      BY EmptySeq DEF TypeOK
  <1>2. Len(read_awaiters_) = 1
    <2>1. \A k \in Nat \ {0} : k <= 1 => k = 1
        OBVIOUS
    <2> QED BY <1>1, <2>1, Zenon DEF OneReceiver
  <1>3. /\ Head(read_awaiters_) \in Coros /\ Tail(read_awaiters_) \in Seq(Coros)
        /\ Len(Tail(read_awaiters_)) = 0
      BY <1>1, <1>2, HeadTailProperties
  <1>4. Tail(read_awaiters_) = <<>>
      BY <1>3, EmptySeq
  <1>5. read_awaiters_ = <<Head(read_awaiters_)>>
    <2>1. read_awaiters_[1] = Head(read_awaiters_)
        BY <1>1, <1>2
    <2> QED BY <1>1, <1>2, <1>3, <2>1, SeqEqual
  <1> QED BY <1>3, <1>4, <1>5

(* Moving a coroutine that is not waiting in CoReceive to a place that is   *)
(* not CoReceive leaves the receive side alone.                             *)
LEMMA ReceiveUndisturbed ==
    ASSUME TypeOK, ReceiveInv, UNCHANGED <<read_awaiters_, recv_buffer_>>,
           NEW d \in Coros, pc[d] # "receiving",
           NEW place, place # "receiving", pc' = [pc EXCEPT ![d] = place]
    PROVE  ReceiveInv'
  <1>1. \A c \in Coros : pc'[c] = "receiving" <=> pc[c] = "receiving"
      BY DEF TypeOK
  <1> QED
      BY <1>1 DEF ReceiveInv, OneReceiver, ReceiverFindsBufferEmpty

(* Answering the receiver that waits empties the receive queue. *)
LEMMA ReceiverAnswered ==
    ASSUME TypeOK, ReceiveInv, read_awaiters_ # <<>>,
           read_awaiters_' = Tail(read_awaiters_),
           pc' = [pc EXCEPT ![Head(read_awaiters_)] = "running"]
    PROVE  ReceiveInv'
  <1> DEFINE h == Head(read_awaiters_)
  <1>1. h \in Coros /\ read_awaiters_ = <<h>> /\ read_awaiters_' = <<>>
      BY ReadQueueShape DEF ReceiveInv
  <1>2. Len(read_awaiters_') = 0
      BY <1>1, EmptySeq
  <1>3. \A c \in Coros : pc'[c] # "receiving"
    <2> TAKE c \in Coros
    <2>1. CASE c = h
        BY <1>1, <2>1 DEF TypeOK
    <2>2. CASE c # h
      <3>1. <<c>> # <<h>>
          BY <2>2
      <3>2. pc[c] # "receiving"
          BY <1>1, <3>1 DEF ReceiveInv, ReceiverFindsBufferEmpty
      <3> QED BY <1>1, <2>2, <3>2 DEF TypeOK
    <2> QED BY <2>1, <2>2
  <1>4. \A c \in Coros : <<c>> # <<>>
      OBVIOUS
  <1> QED
      BY <1>1, <1>2, <1>3, <1>4 DEF ReceiveInv, OneReceiver, ReceiverFindsBufferEmpty

(* A CoReceive call keeps the receive side in order: it is answered only    *)
(* when nobody is queued, and queued only when the buffer is empty.         *)
LEMMA CoReceiveReceive ==
    ASSUME TypeOK, ReceiveInv, NEW c \in Coros, NEW size \in RecvSizes, CoReceive(c, size)
    PROVE  ReceiveInv'
  <1>1. read_awaiters_ = <<>>
    <2> SUFFICES ASSUME read_awaiters_ # <<>> PROVE FALSE
        OBVIOUS
    <2>1. Head(read_awaiters_) \in Coros /\ read_awaiters_ = <<Head(read_awaiters_)>>
        BY ReadQueueShape DEF ReceiveInv
    <2>2. pc[Head(read_awaiters_)] = "receiving"
        BY <2>1 DEF ReceiveInv, ReceiverFindsBufferEmpty
    <2> QED BY <2>1, <2>2 DEF CoReceive
  <1>2. \A d \in Coros : pc[d] # "receiving"
      BY DEF CoReceive
  <1>3. \A d \in Coros : <<d>> # <<>>
      OBVIOUS
  <1>4. CASE AnswersAtOnce
    <2>1. pc' = [pc EXCEPT ![c] = "running"] /\ read_awaiters_' = <<>>
        BY <1>1, <1>4 DEF CoReceive, HandleReceive, Resume
    <2>2. \A d \in Coros : pc'[d] # "receiving"
        BY <1>2, <2>1 DEF TypeOK
    <2> QED
        BY <1>1, <1>3, <2>1, <2>2 DEF ReceiveInv, OneReceiver, ReceiverFindsBufferEmpty
  <1>5. CASE ~AnswersAtOnce
    <2>1. /\ pc' = [pc EXCEPT ![c] = "receiving"] /\ read_awaiters_' = Append(<<>>, c)
          /\ recv_buffer_' = <<>>
        BY <1>1, <1>5 DEF CoReceive, AnswersAtOnce
    <2>2. read_awaiters_' = <<c>> /\ Len(read_awaiters_') = 1
        BY <2>1
    <2>3. \A d \in Coros : pc'[d] = "receiving" <=> d = c
        BY <1>2, <2>1 DEF TypeOK
    <2>4. \A d \in Coros : <<c>> = <<d>> <=> d = c
        OBVIOUS
    <2> QED
        BY <2>1, <2>2, <2>3, <2>4 DEF ReceiveInv, OneReceiver, ReceiverFindsBufferEmpty
  <1> QED BY <1>4, <1>5

(* The oldest write awaiter is suspended in CoSend. *)
LEMMA WriteHead ==
    ASSUME TypeOK, SendersWait, write_awaiters_ # <<>>
    PROVE  /\ Head(write_awaiters_) \in Coros /\ Head(write_awaiters_) = write_awaiters_[1]
           /\ 1 \in DOMAIN write_awaiters_
           /\ pc[Head(write_awaiters_)] = "sending"
  <1>1. /\ write_awaiters_ \in Seq(Coros) /\ Len(write_awaiters_) \in Nat \ {0}
        /\ DOMAIN write_awaiters_ = 1..Len(write_awaiters_)
      BY EmptySeq, LenProperties DEF TypeOK
  <1>2. 1 \in DOMAIN write_awaiters_
      BY <1>1
  <1>3. Head(write_awaiters_) \in Coros /\ Head(write_awaiters_) = write_awaiters_[1]
      BY <1>1, HeadTailProperties
  <1> QED BY <1>2, <1>3 DEF SendersWait

(* Every step keeps the receive side in order. *)
LEMMA NextReceive ==
    ASSUME TypeOK, ReceiveInv, SendersWait, [Next]_vars
    PROVE  ReceiveInv'
  <1>1. ASSUME NEW c \in Coros, Start(c) PROVE ReceiveInv'
      BY <1>1, ReceiveUndisturbed DEF Start, recvVars
  <1>2. ASSUME NEW c \in Coros, CoroStep(c) PROVE ReceiveInv'
    <2>1. CASE Return(c)
        BY <2>1, ReceiveUndisturbed DEF Return, recvVars
    <2>2. CASE CoSend(c)
      <3>1. pc[c] # "receiving" /\ UNCHANGED <<read_awaiters_, recv_buffer_>>
          BY <2>2 DEF CoSend, recvVars
      <3>2. CASE pc' = [pc EXCEPT ![c] = "sending"]
          BY <3>1, <3>2, ReceiveUndisturbed
      <3>3. CASE pc' = [pc EXCEPT ![c] = "running"]
          BY <3>1, <3>3, ReceiveUndisturbed
      <3> QED BY <2>2, <3>2, <3>3 DEF CoSend, SendStarts, SendFails, Resume
    <2> QED BY <1>2, <2>1, <2>2, CoReceiveReceive DEF CoroStep
  <1>3. CASE OnReceiveData
    <2>1. CASE read_awaiters_ = <<>>
        BY <1>3, <2>1
        DEF OnReceiveData, ReceiveInv, OneReceiver, ReceiverFindsBufferEmpty
    <2>2. CASE read_awaiters_ # <<>>
        BY <1>3, <2>2, ReceiverAnswered DEF OnReceiveData, HandleReceive, Resume
    <2> QED BY <2>1, <2>2
  <1>4. CASE OnReceiveEnd
    <2>1. CASE read_awaiters_ = <<>>
        BY <1>4, <2>1
        DEF OnReceiveEnd, ReceiveInv, OneReceiver, ReceiverFindsBufferEmpty
    <2>2. CASE read_awaiters_ # <<>>
        BY <1>4, <2>2, ReceiverAnswered DEF OnReceiveEnd, HandleReceiveError, Resume
    <2> QED BY <2>1, <2>2
  <1>5. CASE OnWrite
    <2>1. UNCHANGED <<read_awaiters_, recv_buffer_>>
        BY <1>5 DEF OnWrite, recvVars
    <2>2. CASE write_awaiters_ = <<>>
        BY <1>5, <2>1, <2>2
        DEF OnWrite, ReceiveInv, OneReceiver, ReceiverFindsBufferEmpty
    <2>3. CASE write_awaiters_ # <<>>
      <3>1. /\ Head(write_awaiters_) \in Coros
            /\ pc' = [pc EXCEPT ![Head(write_awaiters_)] = "running"]
          BY <1>5, <2>3, HeadTailProperties DEF TypeOK, OnWrite, HandleSend, Resume
      <3>2. pc[Head(write_awaiters_)] = "sending"
          BY <2>3, WriteHead
      <3> QED BY <2>1, <3>1, <3>2, ReceiveUndisturbed
    <2> QED BY <2>2, <2>3
  <1>6. CASE UNCHANGED <<pc, read_awaiters_, recv_buffer_>>
      BY <1>6 DEF ReceiveInv, OneReceiver, ReceiverFindsBufferEmpty
  <1>7. PeerSend \/ PeerEnd \/ OwnerRelease \/ OnCoConnUVClose \/ UNCHANGED vars
           => UNCHANGED <<pc, read_awaiters_, recv_buffer_>>
      BY DEF PeerSend, PeerEnd, OwnerRelease, OnCoConnUVClose, vars, recvVars
  <1> QED
      BY <1>1, <1>2, <1>3, <1>4, <1>5, <1>6, <1>7 DEF Next
------------------------------------------------------------------------------
(* Nothing is being sent at first. *)
LEMMA InitSend == Init => SendInv
  <1> SUFFICES ASSUME Init PROVE SendInv
      OBVIOUS
  <1>1. /\ write_awaiters_ = <<>> /\ uv_writes = <<>> /\ written = {}
        /\ DOMAIN write_awaiters_ = {} /\ DOMAIN uv_writes = {}
        /\ Len(write_awaiters_) = Len(uv_writes)
      BY DEF Init
  <1>2. \A c \in Coros : pc[c] = "new" /\ result[c] = "pending"
      BY DEF Init
  <1> QED
      BY <1>1, <1>2 DEF SendInv, SendersWait, WriteQueuesInStep, WrittenWasSent, SendAnswerTruthful

(* Moving a coroutine d between places other than CoSend, with an answer    *)
(* that is not CoSend's, leaves the send side alone.                        *)
LEMMA SendUndisturbed ==
    ASSUME TypeOK, SendInv, UNCHANGED sendVars,
           NEW d \in Coros, pc[d] # "sending",
           NEW place, place # "sending", pc' = [pc EXCEPT ![d] = place],
           \/ UNCHANGED result
           \/ \E answer \in {"pending", "recv_ok", "recv_error"} :
                  result' = [result EXCEPT ![d] = answer]
    PROVE  SendInv'
  <1>1. \A c \in Coros : pc'[c] = "sending" <=> pc[c] = "sending"
      BY DEF TypeOK
  <1>2. \A c \in Coros :
           /\ pc[c] = "sending" => result'[c] = result[c]
           /\ result'[c] = "send_ok" => result[c] = "send_ok"
           /\ result'[c] = "send_error" => result[c] = "send_error"
      BY DEF TypeOK
  <1>3. /\ write_awaiters_' = write_awaiters_ /\ uv_writes' = uv_writes
        /\ written' = written /\ sends' = sends
      BY DEF sendVars
  <1>4. \A i \in DOMAIN write_awaiters_ : write_awaiters_[i] \in Coros
      BY ElementOfSeq, LenProperties DEF TypeOK
  <1>5. SendersWait'
      BY <1>1, <1>3, <1>4 DEF SendInv, SendersWait
  <1>6. WriteQueuesInStep'
      BY <1>3 DEF SendInv, WriteQueuesInStep
  <1>7. WrittenWasSent'
      BY <1>1, <1>2, <1>3 DEF SendInv, WrittenWasSent
  <1>8. SendAnswerTruthful'
      BY <1>2, <1>3 DEF SendInv, SendAnswerTruthful
  <1> QED BY <1>5, <1>6, <1>7, <1>8 DEF SendInv

(* What the two queues hold, index by index. *)
LEMMA WriteQueueShape ==
    ASSUME TypeOK, WriteQueuesInStep
    PROVE  /\ Len(write_awaiters_) \in Nat /\ Len(uv_writes) = Len(write_awaiters_)
           /\ DOMAIN write_awaiters_ = 1..Len(write_awaiters_)
           /\ DOMAIN uv_writes = 1..Len(write_awaiters_)
           /\ \A i \in 1..Len(write_awaiters_) : write_awaiters_[i] \in Coros
  BY LenProperties, ElementOfSeq DEF TypeOK, WriteQueuesInStep

(* CoSend with a request that uv_write accepted: both queues grow by the    *)
(* same sender.                                                             *)
LEMMA SendStartsSend ==
    ASSUME TypeOK, SendInv, NEW c \in Coros, CoSend(c), SendStarts(c)
    PROVE  SendInv'
  <1> DEFINE len == Len(write_awaiters_)
  <1>1. /\ len \in Nat /\ Len(uv_writes) = len
        /\ \A i \in 1..len : write_awaiters_[i] \in Coros
        /\ DOMAIN write_awaiters_ = 1..len /\ DOMAIN uv_writes = 1..len
      BY WriteQueueShape DEF SendInv
  <1>2. /\ pc[c] = "running" /\ pc' = [pc EXCEPT ![c] = "sending"]
        /\ result' = [result EXCEPT ![c] = "pending"] /\ written' = written
        /\ sends[c] \in 0..MaxSends /\ sends[c] < MaxSends /\ MaxSends \in Nat
        /\ sends' = [sends EXCEPT ![c] = sends[c] + 1]
        /\ write_awaiters_' = Append(write_awaiters_, c)
        /\ uv_writes' = Append(uv_writes, <<c, sends[c] + 1>>)
      BY ConnAssumption DEF CoSend, SendStarts, Request, TypeOK
  <1>3. /\ Len(write_awaiters_') = len + 1 /\ write_awaiters_'[len + 1] = c
        /\ \A i \in 1..len : write_awaiters_'[i] = write_awaiters_[i]
        /\ DOMAIN write_awaiters_' = 1..(len + 1)
      BY <1>1, <1>2, AppendProperties, LenProperties DEF TypeOK
  <1>4. /\ Len(uv_writes') = len + 1 /\ uv_writes'[len + 1] = <<c, sends[c] + 1>>
        /\ \A i \in 1..len : uv_writes'[i] = uv_writes[i]
        /\ DOMAIN uv_writes' = 1..(len + 1)
      BY <1>1, <1>2, AppendProperties, LenProperties DEF TypeOK
  <1>5. \A i \in 1..len : write_awaiters_[i] # c
      BY <1>1, <1>2 DEF SendInv, SendersWait
  <1>6. /\ \A d \in Coros : d # c => pc'[d] = pc[d] /\ result'[d] = result[d] /\ sends'[d] = sends[d]
        /\ pc'[c] = "sending" /\ result'[c] = "pending" /\ sends'[c] = sends[c] + 1
      BY <1>2 DEF TypeOK
  <1> HIDE DEF len
  <1>7. SendersWait'
    <2>1. \A i \in 1..(len + 1) : i \in 1..len \/ i = len + 1
        BY <1>1
    <2>2. \A i \in 1..len : pc[write_awaiters_[i]] = "sending"
        BY <1>1 DEF SendInv, SendersWait
    <2>3. \A i \in DOMAIN write_awaiters_' : pc'[write_awaiters_'[i]] = "sending"
        BY <1>1, <1>3, <1>5, <1>6, <2>1, <2>2
    <2>4. \A i, j \in 1..len : write_awaiters_[i] = write_awaiters_[j] => i = j
        BY <1>1 DEF SendInv, SendersWait
    <2>5. \A i, j \in DOMAIN write_awaiters_' :
             write_awaiters_'[i] = write_awaiters_'[j] => i = j
        BY <1>3, <1>5, <2>1, <2>4
    <2> QED BY <2>3, <2>5 DEF SendersWait
  <1>8. WriteQueuesInStep'
    <2>1. ASSUME NEW i \in DOMAIN uv_writes'
          PROVE  uv_writes'[i] = <<write_awaiters_'[i], sends'[write_awaiters_'[i]]>>
      <3>1. CASE i = len + 1
          BY <1>3, <1>4, <1>6, <3>1
      <3>2. CASE i \in 1..len
        <4>1. uv_writes[i] = <<write_awaiters_[i], sends[write_awaiters_[i]]>>
            BY <1>1, <3>2 DEF SendInv, WriteQueuesInStep
        <4>2. sends'[write_awaiters_[i]] = sends[write_awaiters_[i]]
            BY <1>1, <1>5, <1>6, <3>2
        <4> QED BY <1>3, <1>4, <3>2, <4>1, <4>2
      <3> QED BY <1>1, <1>4, <2>1, <3>1, <3>2
    <2> QED BY <1>3, <1>4, <2>1 DEF WriteQueuesInStep
  <1>9. <<c, sends[c] + 1>> \notin written
    <2>1. sends[c] + 1 \in 1..MaxSends /\ ~(sends[c] + 1 <= sends[c])
        BY <1>2
    <2> QED BY <2>1 DEF SendInv, WrittenWasSent
  <1>10. WrittenWasSent'
    <2>1. ASSUME NEW d \in Coros, NEW k \in 1..MaxSends, <<d, k>> \in written
          PROVE  k <= sends'[d]
      <3>1. k <= sends[d] /\ sends[d] \in Nat /\ k \in Nat
          BY <1>2, <2>1 DEF SendInv, WrittenWasSent, TypeOK
      <3> QED BY <1>6, <3>1
    <2>2. ASSUME NEW d \in Coros, pc'[d] = "sending"
          PROVE  result'[d] = "pending" /\ <<d, sends'[d]>> \notin written
        BY <1>6, <1>9, <2>2 DEF SendInv, WrittenWasSent
    <2> QED BY <1>2, <2>1, <2>2 DEF WrittenWasSent
  <1>11. SendAnswerTruthful'
    <2> SUFFICES ASSUME NEW d \in Coros
                 PROVE  /\ result'[d] = "send_ok" => <<d, sends'[d]>> \in written
                        /\ result'[d] = "send_error" => <<d, sends'[d]>> \notin written
        BY <1>2 DEF SendAnswerTruthful
    <2> QED BY <1>6 DEF SendInv, SendAnswerTruthful
  <1> QED BY <1>7, <1>8, <1>10, <1>11 DEF SendInv

(* CoSend that uv_write refused: the sender knows, and neither queue moves. *)
LEMMA SendFailsSend ==
    ASSUME TypeOK, SendInv, NEW c \in Coros, CoSend(c), SendFails(c)
    PROVE  SendInv'
  <1> DEFINE len == Len(write_awaiters_)
  <1>1. /\ len \in Nat /\ Len(uv_writes) = len
        /\ \A i \in 1..len : write_awaiters_[i] \in Coros
        /\ DOMAIN write_awaiters_ = 1..len /\ DOMAIN uv_writes = 1..len
      BY WriteQueueShape DEF SendInv
  <1>2. /\ pc[c] = "running" /\ pc' = [pc EXCEPT ![c] = "running"]
        /\ result' = [result EXCEPT ![c] = "send_error"] /\ written' = written
        /\ sends[c] \in 0..MaxSends /\ sends[c] < MaxSends /\ MaxSends \in Nat
        /\ sends' = [sends EXCEPT ![c] = sends[c] + 1]
        /\ write_awaiters_' = write_awaiters_ /\ uv_writes' = uv_writes
      BY ConnAssumption DEF CoSend, SendFails, Resume, TypeOK
  <1>3. \A i \in 1..len : write_awaiters_[i] # c
      BY <1>1, <1>2 DEF SendInv, SendersWait
  <1>4. /\ \A d \in Coros : d # c => pc'[d] = pc[d] /\ result'[d] = result[d] /\ sends'[d] = sends[d]
        /\ pc'[c] = "running" /\ result'[c] = "send_error" /\ sends'[c] = sends[c] + 1
      BY <1>2 DEF TypeOK
  <1> HIDE DEF len
  <1>5. SendersWait'
      BY <1>1, <1>2, <1>3, <1>4 DEF SendInv, SendersWait
  <1>6. WriteQueuesInStep'
    <2>1. \A i \in 1..len : sends'[write_awaiters_[i]] = sends[write_awaiters_[i]]
        BY <1>1, <1>3, <1>4
    <2>2. \A i \in 1..len : uv_writes[i] = <<write_awaiters_[i], sends[write_awaiters_[i]]>>
        BY <1>1 DEF SendInv, WriteQueuesInStep
    <2>3. \A i \in 1..len : uv_writes[i] = <<write_awaiters_[i], sends'[write_awaiters_[i]]>>
        BY <2>1, <2>2
    <2>4. Len(write_awaiters_) = Len(uv_writes)
        BY <1>1 DEF len
    <2> QED BY <1>1, <1>2, <2>3, <2>4, Zenon DEF WriteQueuesInStep
  <1>7. <<c, sends[c] + 1>> \notin written
    <2>1. sends[c] + 1 \in 1..MaxSends /\ ~(sends[c] + 1 <= sends[c])
        BY <1>2
    <2> QED BY <2>1 DEF SendInv, WrittenWasSent
  <1>8. WrittenWasSent'
    <2>1. ASSUME NEW d \in Coros, NEW k \in 1..MaxSends, <<d, k>> \in written
          PROVE  k <= sends'[d]
      <3>1. k <= sends[d] /\ sends[d] \in Nat /\ k \in Nat
          BY <1>2, <2>1 DEF SendInv, WrittenWasSent, TypeOK
      <3> QED BY <1>4, <3>1
    <2>2. ASSUME NEW d \in Coros, pc'[d] = "sending"
          PROVE  result'[d] = "pending" /\ <<d, sends'[d]>> \notin written
        BY <1>4, <2>2 DEF SendInv, WrittenWasSent
    <2> QED BY <1>2, <2>1, <2>2 DEF WrittenWasSent
  <1>9. SendAnswerTruthful'
    <2> SUFFICES ASSUME NEW d \in Coros
                 PROVE  /\ result'[d] = "send_ok" => <<d, sends'[d]>> \in written
                        /\ result'[d] = "send_error" => <<d, sends'[d]>> \notin written
        BY <1>2 DEF SendAnswerTruthful
    <2> QED BY <1>4, <1>7 DEF SendInv, SendAnswerTruthful
  <1> QED BY <1>5, <1>6, <1>8, <1>9 DEF SendInv

(* A write callback pops both queues; the sender it resumes is the one      *)
(* whose request libuv completed.                                           *)
LEMMA OnWriteSend == TypeOK /\ SendInv /\ OnWrite => SendInv'
  <1> SUFFICES ASSUME TypeOK, SendInv, OnWrite PROVE SendInv'
      OBVIOUS
  <1> DEFINE len == Len(write_awaiters_)
             h == Head(write_awaiters_)
  <1>1. /\ len \in Nat /\ Len(uv_writes) = len
        /\ \A i \in 1..len : write_awaiters_[i] \in Coros
        /\ DOMAIN write_awaiters_ = 1..len /\ DOMAIN uv_writes = 1..len
      BY WriteQueueShape DEF SendInv
  <1>2. uv_writes # <<>> /\ len # 0 /\ write_awaiters_ # <<>>
    <2>1. uv_writes # <<>> /\ uv_writes \in Seq(Coros \X (1..MaxSends))
        BY DEF OnWrite, TypeOK
    <2>2. Len(uv_writes) # 0
        BY <2>1, EmptySeq
    <2> QED BY <1>1, <2>1, <2>2
  <1>3. h \in Coros /\ h = write_awaiters_[1] /\ pc[h] = "sending" /\ 1 \in 1..len
      BY <1>1, <1>2, WriteHead DEF SendInv
  <1>4. Head(uv_writes) = <<h, sends[h]>>
    <2>1. Head(uv_writes) = uv_writes[1]
        BY <1>2 DEF TypeOK
    <2> QED BY <1>1, <1>3, <2>1 DEF SendInv, WriteQueuesInStep
  <1>5. PICK status \in {"send_ok", "send_error"} :
          /\ written' = IF status = "send_ok" THEN written \cup {<<h, sends[h]>>} ELSE written
          /\ pc' = [pc EXCEPT ![h] = "running"]
          /\ result' = [result EXCEPT ![h] = status]
          /\ write_awaiters_' = Tail(write_awaiters_)
      BY <1>2, <1>4 DEF OnWrite, HandleSend, Resume
  <1>6. sends' = sends /\ uv_writes' = Tail(uv_writes)
      BY DEF OnWrite
  <1>7. /\ Len(write_awaiters_') = len - 1 /\ DOMAIN write_awaiters_' = 1..(len - 1)
        /\ \A i \in 1..(len - 1) : write_awaiters_'[i] = write_awaiters_[i + 1]
      BY <1>1, <1>2, <1>5, HeadTailProperties, LenProperties DEF TypeOK
  <1>8. /\ Len(uv_writes') = len - 1 /\ DOMAIN uv_writes' = 1..(len - 1)
        /\ \A i \in 1..(len - 1) : uv_writes'[i] = uv_writes[i + 1]
      BY <1>1, <1>2, <1>6, HeadTailProperties, LenProperties DEF TypeOK
  <1>9. /\ \A d \in Coros : d # h => pc'[d] = pc[d] /\ result'[d] = result[d]
        /\ pc'[h] = "running" /\ result'[h] = status
      BY <1>3, <1>5 DEF TypeOK
  <1> HIDE DEF len, h
  <1>10. \A i \in 1..(len - 1) : i + 1 \in 1..len /\ i + 1 # 1
      BY <1>1
  <1>11. \A i \in 1..(len - 1) : write_awaiters_[i + 1] # h
    <2> SUFFICES ASSUME NEW i \in 1..(len - 1) PROVE write_awaiters_[i + 1] # h
        OBVIOUS
    <2>1. i + 1 \in DOMAIN write_awaiters_ /\ 1 \in DOMAIN write_awaiters_ /\ i + 1 # 1
        BY <1>1, <1>3, <1>10
    <2> QED BY <1>3, <2>1 DEF SendInv, SendersWait
  <1>12. SendersWait'
    <2>1. \A i \in DOMAIN write_awaiters_' : pc'[write_awaiters_'[i]] = "sending"
        BY <1>1, <1>7, <1>9, <1>10, <1>11, SMTT(30) DEF SendInv, SendersWait
    <2>2. ASSUME NEW i \in DOMAIN write_awaiters_', NEW j \in DOMAIN write_awaiters_',
                 write_awaiters_'[i] = write_awaiters_'[j]
          PROVE  i = j
      <3>1. i + 1 \in DOMAIN write_awaiters_ /\ j + 1 \in DOMAIN write_awaiters_
          BY <1>1, <1>7, <1>10
      <3>2. i + 1 = j + 1
          BY <1>7, <2>2, <3>1 DEF SendInv, SendersWait
      <3>3. i \in Int /\ j \in Int
          BY <1>7
      <3> QED BY <3>2, <3>3
    <2> QED BY <2>1, <2>2 DEF SendersWait
  <1>13. WriteQueuesInStep'
    <2>1. ASSUME NEW i \in DOMAIN uv_writes'
          PROVE  uv_writes'[i] = <<write_awaiters_'[i], sends'[write_awaiters_'[i]]>>
      <3>1. i + 1 \in DOMAIN uv_writes
          BY <1>1, <1>8, <1>10, <2>1
      <3>2. uv_writes[i + 1] = <<write_awaiters_[i + 1], sends[write_awaiters_[i + 1]]>>
          BY <3>1 DEF SendInv, WriteQueuesInStep
      <3>3. uv_writes'[i] = uv_writes[i + 1] /\ write_awaiters_'[i] = write_awaiters_[i + 1]
          BY <1>7, <1>8, <2>1
      <3> QED BY <1>6, <3>2, <3>3
    <2> QED BY <1>7, <1>8, <2>1 DEF WriteQueuesInStep
  <1>14. ASSUME NEW d \in Coros, d # h, NEW k
         PROVE  <<d, k>> \in written' <=> <<d, k>> \in written
      BY <1>5, <1>14
  <1>15. WrittenWasSent'
    <2>1. sends[h] \in 0..MaxSends
        BY <1>3 DEF TypeOK
    <2>2. ASSUME NEW d \in Coros, NEW k \in 1..MaxSends, <<d, k>> \in written'
          PROVE  k <= sends[d]
      <3>1. CASE <<d, k>> \in written
          BY <3>1 DEF SendInv, WrittenWasSent
      <3>2. CASE <<d, k>> = <<h, sends[h]>>
          BY <2>1, <3>2
      <3> QED BY <1>5, <2>2, <3>1, <3>2
    <2>3. ASSUME NEW d \in Coros, pc'[d] = "sending"
          PROVE  result'[d] = "pending" /\ <<d, sends[d]>> \notin written'
        BY <1>9, <1>14, <2>3 DEF SendInv, WrittenWasSent
    <2> QED BY <1>6, <2>2, <2>3 DEF WrittenWasSent
  <1>16. SendAnswerTruthful'
    <2>1. ASSUME NEW d \in Coros
          PROVE  /\ result'[d] = "send_ok" => <<d, sends[d]>> \in written'
                 /\ result'[d] = "send_error" => <<d, sends[d]>> \notin written'
      <3>1. CASE d = h
        <4>1. <<h, sends[h]>> \notin written
            BY <1>3 DEF SendInv, WrittenWasSent
        <4> QED BY <1>5, <1>9, <3>1, <4>1
      <3>2. CASE d # h
          BY <1>9, <1>14, <3>2 DEF SendInv, SendAnswerTruthful
      <3> QED BY <3>1, <3>2
    <2> QED BY <1>6, <2>1 DEF SendAnswerTruthful
  <1> QED BY <1>12, <1>13, <1>15, <1>16 DEF SendInv

(* A connection that nobody holds has nothing to write. *)
LEMMA UnheldHasNoWrites ==
    ASSUME TypeOK, SendInv, Holders = {}
    PROVE  uv_writes = <<>> /\ write_awaiters_ = <<>>
  <1>1. write_awaiters_ = <<>>
    <2> SUFFICES ASSUME write_awaiters_ # <<>> PROVE FALSE
        OBVIOUS
    <2>1. Head(write_awaiters_) \in Coros /\ pc[Head(write_awaiters_)] = "sending"
        BY WriteHead DEF SendInv
    <2> QED BY <2>1 DEF Holders, Waiting
  <1>2. Len(uv_writes) = 0 /\ uv_writes \in Seq(Coros \X (1..MaxSends))
      BY <1>1, EmptySeq DEF SendInv, WriteQueuesInStep, TypeOK
  <1> QED BY <1>1, <1>2, EmptySeq

(* Every step keeps the send side in order. *)
LEMMA NextSend ==
    ASSUME TypeOK, ReceiveInv, SendInv, LifeInv, [Next]_vars
    PROVE  SendInv'
  <1>1. ASSUME NEW c \in Coros, Start(c) PROVE SendInv'
      BY <1>1, SendUndisturbed DEF Start
  <1>2. ASSUME NEW c \in Coros, CoroStep(c) PROVE SendInv'
    <2>1. CASE Return(c)
        BY <2>1, SendUndisturbed DEF Return
    <2>2. CASE CoSend(c)
        BY <2>2, SendStartsSend, SendFailsSend DEF CoSend
    <2>3. ASSUME NEW size \in RecvSizes, CoReceive(c, size) PROVE SendInv'
      <3>1. pc[c] # "sending" /\ UNCHANGED sendVars
          BY <2>3 DEF CoReceive
      <3>2. CASE AnswersAtOnce
        <4>1. pc' = [pc EXCEPT ![c] = "running"] /\ result' = [result EXCEPT ![c] = "recv_ok"]
            BY <2>3, <3>2 DEF CoReceive, HandleReceive, Resume
        <4> QED BY <3>1, <4>1, SendUndisturbed
      <3>3. CASE ~AnswersAtOnce
        <4>1. pc' = [pc EXCEPT ![c] = "receiving"] /\ result' = [result EXCEPT ![c] = "pending"]
            BY <2>3, <3>3 DEF CoReceive
        <4> QED BY <3>1, <4>1, SendUndisturbed
      <3> QED BY <3>2, <3>3
    <2> QED BY <1>2, <2>1, <2>2, <2>3 DEF CoroStep
  <1>3. ASSUME read_awaiters_ # <<>>, UNCHANGED sendVars,
               Resume(Head(read_awaiters_), "recv_ok") \/ Resume(Head(read_awaiters_), "recv_error")
        PROVE  SendInv'
    <2>1. /\ Head(read_awaiters_) \in Coros
          /\ pc[Head(read_awaiters_)] = "receiving"
        BY <1>3, ReadQueueShape DEF ReceiveInv, ReceiverFindsBufferEmpty
    <2> QED BY <1>3, <2>1, SendUndisturbed DEF Resume
  <1>4. CASE UNCHANGED <<pc, result, sendVars>>
      BY <1>4
      DEF sendVars, SendInv, SendersWait, WriteQueuesInStep, WrittenWasSent, SendAnswerTruthful
  <1>5. CASE OnReceiveData
      BY <1>3, <1>4, <1>5 DEF OnReceiveData, HandleReceive
  <1>6. CASE OnReceiveEnd
      BY <1>3, <1>4, <1>6 DEF OnReceiveEnd, HandleReceiveError
  <1>7. CASE OnCoConnUVClose
    <2>1. Holders = {}
        BY <1>7 DEF OnCoConnUVClose, LifeInv, ClosedOnlyUnheld
    <2>2. uv_writes = <<>>
        BY <2>1, UnheldHasNoWrites
    <2> QED BY <1>4, <1>7, <2>2 DEF OnCoConnUVClose, sendVars
  <1>8. PeerSend \/ PeerEnd \/ OwnerRelease \/ UNCHANGED vars => UNCHANGED <<pc, result, sendVars>>
      BY DEF PeerSend, PeerEnd, OwnerRelease, vars
  <1> QED
      BY <1>1, <1>2, <1>4, <1>5, <1>6, <1>7, <1>8, OnWriteSend DEF Next
------------------------------------------------------------------------------
(* A step that moves no coroutine into or out of a shared_ptr and neither   *)
(* destroys nor closes keeps the lifetime facts.                            *)
LEMMA LifeUndisturbed ==
    ASSUME LifeInv, UNCHANGED connVars, UNCHANGED dangling, ~alive => Holders' = {}
    PROVE  LifeInv'
  BY DEF connVars, LifeInv, ClosedOnlyUnheld, NoDanglingCallback

(* The destructor runs only when the shared_ptr that goes is the last one,  *)
(* so no write is pending when uv_close is called.                          *)
LEMMA NextLife ==
    ASSUME TypeOK, ReceiveInv, SendInv, LifeInv, [Next]_vars
    PROVE  LifeInv'
  <1>1. ASSUME NEW c \in Coros, Start(c) PROVE LifeInv'
      BY <1>1, LifeUndisturbed DEF Start, LifeInv, ClosedOnlyUnheld
  <1>2. ASSUME NEW c \in Coros, CoroStep(c) PROVE LifeInv'
    <2>1. c \in Holders
        BY <1>2 DEF CoroStep, CoReceive, CoSend, Return, Holders
    <2>2. alive
        BY <2>1 DEF LifeInv, ClosedOnlyUnheld
    <2>3. CASE Return(c)
      <3>1. Holders' = Holders \ {c}
          BY <2>3 DEF Return, Holders, Waiting, TypeOK
      <3>2. CASE LastHolder(c)
          BY <2>3, <3>1, <3>2 DEF Return, DestroyIf, LastHolder, LifeInv, ClosedOnlyUnheld, NoDanglingCallback
      <3>3. CASE ~LastHolder(c)
          BY <2>2, <2>3, <3>3 DEF Return, DestroyIf, LifeInv, ClosedOnlyUnheld, NoDanglingCallback
      <3> QED BY <3>2, <3>3
    <2>4. CASE ~Return(c)
        BY <1>2, <2>2, <2>4, LifeUndisturbed DEF CoroStep, CoReceive, CoSend
    <2> QED BY <2>3, <2>4
  <1>3. CASE OnReceiveData \/ OnReceiveEnd \/ OnWrite
    <2>1. alive /\ UNCHANGED connVars /\ UNCHANGED dangling
        BY <1>3 DEF OnReceiveData, OnReceiveEnd, OnWrite, CanRead
    <2> QED BY <2>1, LifeUndisturbed
  <1>4. CASE OwnerRelease
    <2>1. alive /\ Holders' = Holders
        BY <1>4 DEF OwnerRelease, Holders, LifeInv, ClosedOnlyUnheld
    <2>2. CASE Holders = {}
        BY <1>4, <2>1, <2>2 DEF OwnerRelease, DestroyIf, LifeInv, ClosedOnlyUnheld, NoDanglingCallback
    <2>3. CASE Holders # {}
        BY <1>4, <2>1, <2>3 DEF OwnerRelease, DestroyIf, LifeInv, ClosedOnlyUnheld, NoDanglingCallback
    <2> QED BY <2>2, <2>3
  <1>5. CASE OnCoConnUVClose
    <2>1. ~alive /\ ~owner /\ Holders = {} /\ ~dangling
        BY <1>5 DEF OnCoConnUVClose, LifeInv, ClosedOnlyUnheld, NoDanglingCallback
    <2>2. uv_writes = <<>>
        BY <2>1, UnheldHasNoWrites
    <2>3. ~dangling' /\ Holders' = Holders
        BY <1>5, <2>1, <2>2 DEF OnCoConnUVClose, Holders
    <2> QED
        BY <1>5, <2>1, <2>3 DEF OnCoConnUVClose, LifeInv, ClosedOnlyUnheld, NoDanglingCallback
  <1>6. CASE PeerSend \/ PeerEnd \/ UNCHANGED vars
    <2>1. Holders' = Holders /\ UNCHANGED connVars /\ UNCHANGED dangling
        BY <1>6 DEF PeerSend, PeerEnd, vars, Holders
    <2> QED BY <2>1, LifeUndisturbed DEF LifeInv, ClosedOnlyUnheld
  <1> QED
      BY <1>1, <1>2, <1>3, <1>4, <1>5, <1>6 DEF Next
------------------------------------------------------------------------------
(* A read whose bytes are kept extends what has been seen by those bytes. *)
LEMMA ReadExtends ==
    ASSUME TypeOK, StreamInv, NEW n \in Nat, lost' = lost, taken' = taken + n,
           delivered' \o recv_buffer_' = (delivered \o recv_buffer_) \o Chunk(n)
    PROVE  StreamInv'
  <1> DEFINE s == delivered \o recv_buffer_
             t == delivered' \o recv_buffer_'
             len == Len(s)
  <1>1. s \in Seq(Nat) /\ len \in Nat /\ DOMAIN s = 1..len /\ taken \in Nat
      BY ConcatProperties, LenProperties DEF TypeOK
  <1>2. /\ Chunk(n) \in Seq(Nat) /\ Len(Chunk(n)) = n
        /\ \A i \in 1..n : Chunk(n)[i] = taken + i
      BY <1>1, ChunkType
  <1>3. t = s \o Chunk(n) /\ t \in Seq(Nat) /\ Len(t) = len + n
      BY <1>1, <1>2, ConcatProperties
  <1>4. DOMAIN t = 1..(len + n)
      BY <1>3, LenProperties
  <1>5. \A i \in 1..len : t[i] = s[i]
      BY <1>1, <1>2, <1>3, ConcatProperties
  <1>6. \A i \in (len + 1)..(len + n) : t[i] = taken + (i - len)
    <2> SUFFICES ASSUME NEW i \in (len + 1)..(len + n) PROVE t[i] = taken + (i - len)
        OBVIOUS
    <2>1. i - len \in 1..n /\ i \in 1..(len + n) /\ ~(i <= len)
        BY <1>1
    <2>2. t[i] = Chunk(n)[i - len]
        BY <1>1, <1>2, <1>3, <2>1, ConcatProperties
    <2> QED BY <1>2, <2>1, <2>2
  <1>7. /\ \A i, j \in 1..len : i < j => s[i] < s[j]
        /\ {s[i] : i \in 1..len} = (1..taken) \ lost
      BY <1>1 DEF StreamInv, InOrderExactlyOnce
  <1>8. \A i \in 1..len : s[i] \in 1..taken
      BY <1>7
  <1> HIDE DEF s, t, len
  <1>9. ASSUME NEW i \in 1..(len + n), NEW j \in 1..(len + n), i < j
        PROVE  t[i] < t[j]
    <2>1. CASE j \in 1..len
      <3>1. i \in 1..len
          BY <1>1, <1>9, <2>1
      <3> QED BY <1>5, <1>7, <1>9, <2>1, <3>1
    <2>2. CASE j \notin 1..len /\ i \in 1..len
      <3>1. t[i] \in 1..taken
          BY <1>5, <1>8, <2>2
      <3>2. j \in (len + 1)..(len + n)
          BY <1>1, <2>2
      <3>3. t[j] = taken + (j - len) /\ j - len > 0
          BY <1>1, <1>6, <3>2
      <3> QED BY <1>1, <3>1, <3>2, <3>3
    <2>3. CASE i \notin 1..len
      <3>1. i \in (len + 1)..(len + n) /\ j \in (len + 1)..(len + n)
          BY <1>1, <1>9, <2>3
      <3>2. t[i] = taken + (i - len) /\ t[j] = taken + (j - len)
          BY <1>6, <3>1
      <3> QED BY <1>1, <1>9, <3>1, <3>2
    <2> QED BY <2>1, <2>2, <2>3
  <1>10. {t[i] : i \in 1..(len + n)} = (1..taken') \ lost'
    <2>1. ASSUME NEW i \in 1..(len + n) PROVE t[i] \in (1..(taken + n)) \ lost
      <3>1. CASE i \in 1..len
        <4>1. t[i] \in (1..taken) \ lost
            BY <1>5, <1>7, <3>1
        <4> QED BY <1>1, <4>1
      <3>2. CASE i \notin 1..len
        <4>1. i \in (len + 1)..(len + n)
            BY <1>1, <2>1, <3>2
        <4>2. t[i] \in (taken + 1)..(taken + n)
            BY <1>1, <1>6, <4>1
        <4> QED BY <1>1, <4>2 DEF StreamInv
      <3> QED BY <3>1, <3>2
    <2>2. ASSUME NEW x \in (1..(taken + n)) \ lost
          PROVE  \E i \in 1..(len + n) : t[i] = x
      <3>1. CASE x \in 1..taken
        <4>1. x \in {s[i] : i \in 1..len}
            BY <1>7, <2>2, <3>1
        <4>2. PICK i \in 1..len : s[i] = x
            BY <4>1
        <4>3. i \in 1..(len + n) /\ t[i] = x
            BY <1>1, <1>5, <4>2
        <4> QED BY <4>3
      <3>2. CASE x \notin 1..taken
        <4>1. len + (x - taken) \in (len + 1)..(len + n) /\ len + (x - taken) \in 1..(len + n)
            BY <1>1, <2>2, <3>2
        <4>2. t[len + (x - taken)] = taken + ((len + (x - taken)) - len)
            BY <1>6, <4>1
        <4>3. taken + ((len + (x - taken)) - len) = x
            BY <1>1
        <4> QED BY <4>1, <4>2, <4>3
      <3> QED BY <3>1, <3>2
    <2>3. \A x : x \in {t[i] : i \in 1..(len + n)} <=> x \in (1..(taken + n)) \ lost
        BY <2>1, <2>2
    <2> QED BY <2>3
  <1>11. lost' \subseteq 1..taken'
      BY <1>1 DEF StreamInv
  <1>12. InOrderExactlyOnce'
      BY <1>4, <1>9, <1>10 DEF InOrderExactlyOnce, t
  <1> QED BY <1>11, <1>12 DEF StreamInv

(* Bytes that are dropped count as lost, and nothing else changes. *)
LEMMA DropRecorded ==
    ASSUME TypeOK, StreamInv, NEW n \in Nat, taken' = taken + n,
           lost' = lost \cup {taken + i : i \in 1..n},
           UNCHANGED <<delivered, recv_buffer_>>
    PROVE  StreamInv'
  <1>1. taken \in Nat
      BY DEF TypeOK
  <1>2. \A x : x \in {taken + i : i \in 1..n} <=> x \in (taken + 1)..(taken + n)
    <2>1. ASSUME NEW x \in (taken + 1)..(taken + n)
          PROVE  \E i \in 1..n : x = taken + i
      <3>1. x - taken \in 1..n /\ x = taken + (x - taken)
          BY <1>1
      <3> QED BY <3>1
    <2>2. \A i \in 1..n : taken + i \in (taken + 1)..(taken + n)
        BY <1>1
    <2> QED BY <2>1, <2>2
  <1>3. lost \subseteq 1..taken
      BY DEF StreamInv
  <1>4. lost' \subseteq 1..taken'
    <2> SUFFICES ASSUME NEW x \in lost' PROVE x \in 1..(taken + n)
        OBVIOUS
    <2> QED BY <1>1, <1>2, <1>3
  <1>5. (1..taken') \ lost' = (1..taken) \ lost
    <2>1. \A x : x \in lost' <=> x \in lost \/ x \in (taken + 1)..(taken + n)
        BY <1>2
    <2>2. \A x : x \in 1..(taken + n) <=> x \in 1..taken \/ x \in (taken + 1)..(taken + n)
        BY <1>1
    <2>3. \A x : ~(x \in 1..taken /\ x \in (taken + 1)..(taken + n))
        BY <1>1
    <2> QED BY <2>1, <2>2, <2>3
  <1>6. InOrderExactlyOnce'
      BY <1>5 DEF StreamInv, InOrderExactlyOnce
  <1> QED BY <1>4, <1>6 DEF StreamInv

(* Every step keeps the stream in order and complete. *)
LEMMA NextStream ==
    ASSUME TypeOK, StreamInv, [Next]_vars
    PROVE  StreamInv'
  <1>1. ASSUME delivered' \o recv_buffer_' = delivered \o recv_buffer_, UNCHANGED <<taken, lost>>
        PROVE  StreamInv'
      BY <1>1 DEF StreamInv, InOrderExactlyOnce
  <1>2. CASE OnReceiveData
    <2>1. PICK n \in 1..ReadMax :
            /\ taken' = taken + n
            /\ IF read_awaiters_ = <<>>
               THEN /\ lost' = lost \cup {taken + i : i \in 1..n}
                    /\ UNCHANGED <<pc, result, recv_buffer_, read_awaiters_, delivered>>
               ELSE /\ HandleReceive(Head(read_awaiters_), n, recv_buffer_ \o Chunk(n), recv_size_)
                    /\ read_awaiters_' = Tail(read_awaiters_)
                    /\ UNCHANGED lost
        BY <1>2 DEF OnReceiveData
    <2>2. /\ n \in Nat /\ taken \in Nat /\ recv_size_ \in Nat
          /\ recv_buffer_ \in Seq(Nat) /\ delivered \in Seq(Nat)
        BY ConnAssumption DEF TypeOK
    <2>3. CASE read_awaiters_ = <<>>
        BY <2>1, <2>2, <2>3, DropRecorded
    <2>4. CASE read_awaiters_ # <<>>
      <3>1. Head(read_awaiters_) \in Coros
          BY <2>4, HeadTailProperties DEF TypeOK
      <3>2. Chunk(n) \in Seq(Nat) /\ Len(Chunk(n)) = n
          BY <2>2, ChunkType
      <3>3. /\ recv_buffer_ \o Chunk(n) \in Seq(Nat)
            /\ n <= Len(recv_buffer_ \o Chunk(n))
          BY <2>2, <3>2, ConcatProperties, LenProperties
      <3>4. HandleReceive(Head(read_awaiters_), n, recv_buffer_ \o Chunk(n), recv_size_)
          BY <2>1, <2>4
      <3>5. delivered' \o recv_buffer_' = delivered \o (recv_buffer_ \o Chunk(n))
          BY <2>2, <3>1, <3>3, <3>4, HandleReceiveEffect
      <3>6. delivered' \o recv_buffer_' = (delivered \o recv_buffer_) \o Chunk(n)
          BY <2>2, <3>2, <3>5, Associative
      <3> QED BY <2>1, <2>2, <2>4, <3>6, ReadExtends
    <2> QED BY <2>3, <2>4
  <1>3. ASSUME NEW c \in Coros, NEW size \in RecvSizes, CoReceive(c, size)
        PROVE  StreamInv'
    <2>1. /\ size \in Nat /\ recv_buffer_ \in Seq(Nat) /\ Len(recv_buffer_) \in Nat
          /\ Len(recv_buffer_) <= Len(recv_buffer_)
        BY ConnAssumption, LenProperties DEF TypeOK
    <2>2. UNCHANGED <<taken, lost>>
        BY <1>3 DEF CoReceive, peerVars
    <2>3. CASE AnswersAtOnce
      <3>1. HandleReceive(c, Len(recv_buffer_), recv_buffer_, size)
          BY <1>3, <2>3 DEF CoReceive
      <3>2. delivered' \o recv_buffer_' = delivered \o recv_buffer_
          BY <2>1, <3>1, HandleReceiveEffect
      <3> QED BY <1>1, <2>2, <3>2
    <2>4. CASE ~AnswersAtOnce
        BY <1>1, <1>3, <2>2, <2>4 DEF CoReceive
    <2> QED BY <2>3, <2>4
  <1>4. CASE UNCHANGED <<recv_buffer_, delivered, taken, lost>>
      BY <1>1, <1>4
  <1>5. ASSUME NEW c \in Coros, Start(c) \/ CoSend(c) \/ Return(c)
        PROVE  UNCHANGED <<recv_buffer_, delivered, taken, lost>>
      BY <1>5 DEF Start, CoSend, Return, recvVars, peerVars
  <1>6. \/ PeerSend \/ PeerEnd \/ OnReceiveEnd \/ OnWrite \/ OwnerRelease
        \/ OnCoConnUVClose \/ UNCHANGED vars
        => UNCHANGED <<recv_buffer_, delivered, taken, lost>>
      BY DEF PeerSend, PeerEnd, OnReceiveEnd, OnWrite, OwnerRelease, OnCoConnUVClose,
             vars, recvVars, peerVars
  <1> QED
      BY <1>2, <1>3, <1>4, <1>5, <1>6 DEF Next, CoroStep
------------------------------------------------------------------------------
(* The constructor establishes the inductive invariant. *)
LEMMA InitInv == Init => IInv
  <1> SUFFICES ASSUME Init PROVE IInv
      OBVIOUS
  <1>1. LifeInv
      BY DEF Init, LifeInv, ClosedOnlyUnheld, NoDanglingCallback
  <1>2. StreamInv
    <2>1. delivered \o recv_buffer_ = <<>> /\ taken = 0 /\ lost = {}
        BY DEF Init
    <2>2. DOMAIN (delivered \o recv_buffer_) = {} /\ 1..0 = {}
        BY <2>1
    <2> QED BY <2>1, <2>2 DEF StreamInv, InOrderExactlyOnce
  <1> QED BY <1>1, <1>2, InitType, InitReceive, InitSend DEF IInv

(* Every step of the connection, its users and the peer preserves it. *)
LEMMA NextInv == IInv /\ [Next]_vars => IInv'
  <1> SUFFICES ASSUME IInv, [Next]_vars PROVE IInv'
      OBVIOUS
  <1>1. TypeOK /\ ReceiveInv /\ SendInv /\ SendersWait /\ LifeInv /\ StreamInv
      BY DEF IInv, SendInv
  <1> QED
      BY <1>1, NextType, NextReceive, NextSend, NextLife, NextStream DEF IInv

(* The inductive invariant holds throughout. *)
LEMMA Invariance == Spec => []IInv
  BY InitInv, NextInv, PTL DEF Spec

(* CoReceive queues a receiver only while recv_buffer_ is empty, and never  *)
(* two (co_tcp_session_recv.cpp:27-32).                                     *)
THEOREM ReceiverNeverWaitsOnData == Spec => []ReceiverFindsBufferEmpty
  <1>1. IInv => ReceiverFindsBufferEmpty
      BY DEF IInv, ReceiveInv
  <1> QED BY <1>1, Invariance, PTL

(* The bytes CoReceive hands out are the peer's, in order, none twice and   *)
(* none missing but those OnReceive dropped with no awaiter.                *)
THEOREM StreamDelivered == Spec => []InOrderExactlyOnce
  <1>1. IInv => InOrderExactlyOnce
      BY DEF IInv, StreamInv
  <1> QED BY <1>1, Invariance, PTL

(* OnWrite pairs every completed request with the sender that made it, so   *)
(* CoSend's answer is the truth about the caller's own bytes.               *)
THEOREM SendsAnsweredTruthfully == Spec => [](WriteQueuesInStep /\ SendAnswerTruthful)
  <1>1. IInv => WriteQueuesInStep /\ SendAnswerTruthful
      BY DEF IInv, SendInv
  <1> QED BY <1>1, Invariance, PTL

(* While users hold a shared_ptr for as long as they wait, the destructor's *)
(* uv_close cancels no write, so OnUvWrite never sees a dead connection.    *)
THEOREM NoUseAfterDestroy == Spec => []NoDanglingCallback
  <1>1. IInv => NoDanglingCallback
      BY DEF IInv, LifeInv
  <1> QED BY <1>1, Invariance, PTL
==============================================================================
