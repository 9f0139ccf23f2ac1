--------------------------- MODULE CoRtmpSession ---------------------------
(***************************************************************************)
(* net/rtmp/co_rtmp/co_rtmp_session: the server's side of one RTMP          *)
(* handshake, CoRtmpSession::Run and HandleRequest, over an accepted        *)
(* connection, against a client that builds C0C1 as C1S1Handle does (or, as *)
(* other clients do, with SCHEMA0 or without a digest).                     *)
(*                                                                         *)
(* Each action is a libuv callback with all that runs inside it.  Run waits *)
(* in CoReceive whenever no callback runs, so the connection delivers the   *)
(* client's cells in order, in reads of any size up to recv_data_'s.        *)
(* HandleRequest is not awaited: when it suspends in CoSend, Run goes on.   *)
(* RtmpServer::Run stores a session and does not call Run; whoever does is  *)
(* outside the repository.  The client, libuv's stream and OpenSSL are      *)
(* external.                                                                *)
(*                                                                         *)
(* Operators named Op_Slip are mutated forms of Op, each a plausible slip   *)
(* in the lines Op models, used only to see that a property notices it.     *)
(***************************************************************************)
EXTENDS RtmpHandshake

CONSTANTS
    RecvCap,        \* cells of recv_data_ (more than C0C1 and C2 together)
    OffsetSums,     \* byte sums of the offsets a client draws
    MaxReads,       \* bound: reads of the session
    ReadSizes,      \* bound: cells of a read that leaves some behind
    None

ASSUME SessionAssumption ==
    /\ RecvCap \in Nat /\ RecvCap >= 1 + 2 * C1Len
    /\ OffsetSums \subseteq Nat /\ MaxReads \in Nat /\ ReadSizes \subseteq Nat \ {0}

VARIABLES
    c1,              \* the C1 the client made (None before)
    schema,          \* how: "SCHEMA0", "SCHEMA1", "simple"
    client,          \* "new", "c1" (C0C1 sent), "c2" (C2 sent), "ended"
    answers,         \* the parts of S0S1S2 the client has received
    c2s,             \* cells on their way to the session
    uv_writes,       \* the parts libuv still has to write, per CoSend
    recv_data_, recv_buffer_, phase_, closed_,
    run,             \* "receiving", "returned"
    hs_,             \* the fields of C1S1Handle after ParseC1 (None before)
    reads,           \* bound: reads so far
    split,           \* a read ended inside C0C1
    early            \* C2 was sent before the whole answer was there

vars == <<c1, schema, client, answers, c2s, uv_writes, recv_data_, recv_buffer_,
          phase_, closed_, run, hs_, reads, split, early>>

clientVars == <<c1, schema, client, answers, early>>

Init ==
    /\ c1 = None /\ schema = None /\ client = "new" /\ answers = <<>>
    /\ c2s = <<>> /\ uv_writes = <<>>
    /\ recv_data_ = [i \in 1..RecvCap |-> Cell(0, <<"zero">>)]
    /\ recv_buffer_ = <<>>
    /\ phase_ = "initial" /\ closed_ = FALSE /\ run = "receiving" /\ hs_ = None
    /\ reads = 0 /\ split = FALSE /\ early = FALSE
------------------------------------------------------------------------------
Head1 == <<Cell(1, <<"time">>), Cell(1, <<"client">>)>>

ClientSends(kind, packet) ==
    /\ client = "new"
    /\ client' = "c1" /\ schema' = kind /\ c1' = packet
    /\ c2s' = <<Cell(3, <<"C0">>)>> \o packet
    /\ UNCHANGED <<answers, uv_writes, recv_data_, recv_buffer_, phase_, closed_,
                   run, hs_, reads, split, early>>

(* A client that is C1S1Handle: MakeC0C1 with SCHEMA1, if it succeeds. *)
ClientSendsC0C1 ==
    \E ds, ks \in OffsetSums :
        /\ ~MakeC0C1Fails(PrepareDigest(ds))
        /\ ClientSends("SCHEMA1", MakeC1(Head1, PrepareDigest(ds), PrepareKey(ks), "SCHEMA1"))

(* Other clients: the digest behind the key, or no digest. *)
OtherClientSendsC0C1 ==
    \/ \E ds, ks \in OffsetSums :
          ClientSends("SCHEMA0", MakeC1(Head1, PrepareDigest(ds), PrepareKey(ks), "SCHEMA0"))
    \/ ClientSends("simple", Head1 \o Random("any", 2 * BlockLen))

(* C2 may be sent as soon as S1 is there. *)
ClientSendsC2 ==
    /\ client = "c1" /\ answers # <<>>
    /\ client' = "c2" /\ early' = (early \/ Len(answers) < 2)
    /\ c2s' = c2s \o Random("c2", C1Len)
    /\ UNCHANGED <<c1, schema, answers, uv_writes, recv_data_, recv_buffer_, phase_,
                   closed_, run, hs_, reads, split>>

ClientEnds ==
    /\ client \in {"c1", "c2"}
    /\ client' = "ended"
    /\ UNCHANGED <<c1, schema, answers, c2s, uv_writes, recv_data_, recv_buffer_,
                   phase_, closed_, run, hs_, reads, split, early>>
------------------------------------------------------------------------------
(* HandleC0C1 on the buffer b; then SendS0S1S2, which fails with DH, and     *)
(* CoSend, which suspends (or fails in uv_write: phase_ stays).             *)
HandleInitial(b) ==
    IF Len(b) < 1 + C1Len
    THEN /\ recv_buffer_' = b
         /\ UNCHANGED <<hs_, phase_, closed_, uv_writes>>
    ELSE LET h == ParseC1(SubSeq(b, 2, 1 + C1Len))
         IN  /\ hs_' = h
             /\ recv_buffer_' = <<>>
             /\ UNCHANGED phase_
             /\ \/ closed_' = TRUE /\ UNCHANGED uv_writes
                \/ /\ uv_writes' = Append(uv_writes, <<[part |-> "S0S1", s1 |-> MakeS1(h)],
                                                       [part |-> "S2", s2 |-> MakeS2(h)]>>)
                   /\ UNCHANGED closed_
                \/ UNCHANGED <<uv_writes, closed_>>

(* HandleC2 looks at the length only. *)
HandleC2_NoPhase(b) ==
    /\ recv_buffer_' = IF Len(b) < C1Len THEN b ELSE SubSeq(b, C1Len + 1, Len(b))
    /\ UNCHANGED <<phase_, hs_, closed_, uv_writes>>
HandleC2(b) ==
    /\ IF Len(b) < C1Len
       THEN recv_buffer_' = b /\ UNCHANGED phase_
       ELSE recv_buffer_' = SubSeq(b, C1Len + 1, Len(b)) /\ phase_' = "connect"
    /\ UNCHANGED <<hs_, closed_, uv_writes>>

HandleRequest(b) ==
    \/ phase_ = "initial" /\ HandleInitial(b)
    \/ phase_ = "c2" /\ HandleC2(b)
    \/ phase_ = "connect" /\ recv_buffer_' = b /\ UNCHANGED <<hs_, phase_, closed_, uv_writes>>

(* CoReceive answers with n cells, which lie at the front of recv_data_;    *)
(* what is appended is the whole array.  libuv calls back a write that the  *)
(* socket has taken before it polls for another read.                       *)
Received(n) == [i \in 1..RecvCap |-> IF i <= n THEN c2s[i] ELSE recv_data_[i]]
WriteDone == uv_writes # <<>> /\ Head(uv_writes) = <<>>

OnReceive ==
    /\ run = "receiving" /\ c2s # <<>> /\ reads < MaxReads /\ ~WriteDone
    /\ reads' = reads + 1
    /\ \E n \in {k \in ReadSizes : k < Len(c2s)} \union {Len(c2s)} :
          /\ c2s' = SubSeq(c2s, n + 1, Len(c2s))
          /\ recv_data_' = Received(n)
          /\ split' = (split \/ (reads = 0 /\ n < 1 + C1Len))
          /\ HandleRequest(recv_buffer_ \o Received(n))
    /\ run' = IF closed_' THEN "returned" ELSE "receiving"
    /\ UNCHANGED clientVars

(* CoReceive answers with an error: Run leaves its loop. *)
OnReceiveEnd ==
    /\ run = "receiving" /\ client = "ended" /\ c2s = <<>> /\ ~WriteDone
    /\ run' = "returned" /\ closed_' = FALSE
    /\ UNCHANGED <<clientVars, c2s, uv_writes, recv_data_, recv_buffer_, phase_, hs_,
                   reads, split>>

(* The socket takes the next part of the oldest write.  A client that has   *)
(* ended reads nothing any more.                                            *)
SocketTakes ==
    /\ uv_writes # <<>> /\ Head(uv_writes) # <<>>
    /\ uv_writes' = [uv_writes EXCEPT ![1] = Tail(@)]
    /\ answers' = IF client = "ended" THEN answers ELSE Append(answers, Head(Head(uv_writes)))
    /\ UNCHANGED <<c1, schema, client, early, c2s, recv_data_, recv_buffer_, phase_,
                   closed_, run, hs_, reads, split>>

(* OnWrite resumes the HandleRequest that waits in CoSend. *)
PhaseAfterSend_Kept(phase) == phase
PhaseAfterSend(phase) == "c2"
OnWrite ==
    /\ WriteDone
    /\ uv_writes' = Tail(uv_writes)
    /\ phase_' = PhaseAfterSend(phase_)
    /\ UNCHANGED <<clientVars, c2s, recv_data_, recv_buffer_, closed_, run, hs_, reads, split>>

(* The write fails: HandleRequest returns and leaves phase_ as it is. *)
OnWriteError ==
    /\ uv_writes # <<>> /\ ~WriteDone /\ client = "ended"
    /\ uv_writes' = Tail(uv_writes)
    /\ UNCHANGED <<clientVars, c2s, recv_data_, recv_buffer_, phase_, closed_, run,
                   hs_, reads, split>>

Next ==
    \/ ClientSendsC0C1 \/ OtherClientSendsC0C1 \/ ClientSendsC2 \/ ClientEnds
    \/ OnReceive \/ OnReceiveEnd \/ SocketTakes \/ OnWrite \/ OnWriteError

Spec == Init /\ [][Next]_vars

(* libuv delivers what has arrived and what the socket takes.  The client   *)
(* is not obliged to send, to read or to end.                               *)
FairSpec ==
    /\ Spec
    /\ WF_vars(OnReceive) /\ WF_vars(OnReceiveEnd)
    /\ WF_vars(SocketTakes) /\ WF_vars(OnWrite)
------------------------------------------------------------------------------
IsCells(q) == \A i \in DOMAIN q : q[i].n \in Nat

(* Types, and: however the offsets of a packet lie, ParseDigest and         *)
(* ParseKey cut each block of the C1 they are given into parts that fill it *)
(* exactly (the assertions of ParseDigest and ParseKey).                    *)
TypeOK ==
    /\ client \in {"new", "c1", "c2", "ended"}
    /\ schema \in {None, "SCHEMA0", "SCHEMA1", "simple"}
    /\ client = "new" => c1 = None /\ schema = None
    /\ phase_ \in {"initial", "c2", "connect"} /\ run \in {"receiving", "returned"}
    /\ closed_ \in BOOLEAN /\ split \in BOOLEAN /\ early \in BOOLEAN
    /\ reads \in 0..MaxReads
    /\ Len(recv_data_) = RecvCap /\ Len(recv_buffer_) <= reads * RecvCap
    /\ IsCells(c2s) /\ IsCells(recv_data_) /\ IsCells(recv_buffer_)
    /\ hs_ # None =>
          /\ hs_.schema \in {"SCHEMA0", "SCHEMA1"} /\ hs_.simple \in BOOLEAN
          /\ OffsetLen + Len(hs_.d.random0) + DigestLen + Len(hs_.d.random1) = BlockLen
          /\ Len(hs_.k.random0) + Len(hs_.k.key) + Len(hs_.k.random1) + OffsetLen = BlockLen

(* ParseC1, MakeS1 and MakeS2 fit a client of either schema whose C0C1 came *)
(* in one read: the first S1 it receives has, at the places the client's    *)
(* own offsets name, the key computed from the client's key and the         *)
(* server's digest, and S2 is made from the client's digest.  This holds    *)
(* also when C2 comes early and the session has parsed it over hs_.         *)
AnswerFitsClient ==
    (answers # <<>> /\ ~split /\ schema \in {"SCHEMA0", "SCHEMA1"}) =>
        LET mine == DigestBlock(c1, schema)
            s1   == answers[1].s1
        IN  /\ KeyBlock(s1, schema).key = SharedKey(Random("key", KeyLen))
            /\ DigestBlock(s1, schema).digest
                    = MakeS1Digest([time |-> c1[1], d |-> mine, k |-> KeyBlock(c1, schema)])
            /\ Len(answers) > 1 =>
                    answers[2].s2 = Hmac(Hmac("player68", <<mine.digest>>),
                                         <<Cell(1, <<"random">>)>>)

(* HandleRequest runs beside Run, and phase_ moves on only when its CoSend  *)
(* has been answered.  A client whose C0C1 came in one read and that has    *)
(* waited for all of S0S1S2 is answered once: its C2 is not taken for       *)
(* another C0C1.                                                            *)
AnsweredOnce ==
    (~split /\ ~early) =>
        /\ Len(answers) + (IF uv_writes = <<>> THEN 0 ELSE Len(uv_writes[1])) <= 2
        /\ Len(uv_writes) <= 1
        /\ client = "c2" => phase_ # "initial" \/ WriteDone

(* The handshake of such a client goes through: once it has sent C2 the     *)
(* session enters connect_phase, unless the client ends.                    *)
PatientClientConnects ==
    (client = "c2" /\ ~early /\ ~split) ~> (phase_ = "connect" \/ client = "ended")
==============================================================================
