------------------------ MODULE HttpExchange_proofs ------------------------
(***************************************************************************)
(* Proofs about the callback HTTP stack, for any number of connections, any *)
(* requests, any handlers and any size of plaintext_data_, with and without *)
(* TLS.  The first part: types, what the wire carries and the session       *)
(* table, from IInv.  The second: SafeCallbacks, from IInv with GoneInv and *)
(* LiveInv, which say how far a connection has come while its client is     *)
(* there, and what remain_bytes_ counts.                                    *)
(***************************************************************************)
EXTENDS HttpExchange, FiniteSetTheorems, SequenceTheorems, WellFoundedInduction, TLAPS

(* The cells the wire may carry, and libuv's write requests with them. *)
KindsOf(t) == IF t THEN HttpCells \union TlsCells ELSE HttpCells
CellsOf(t) == [k : KindsOf(t), v : Int]
WriteOf(t) == [cells : Seq(CellsOf(t)), done : BOOLEAN]
IsServer(s) == \E st, b, f : s = [state |-> st, bio |-> b, finished |-> f]
IsClient(c) == \E st, b : c = [state |-> st, bio |-> b]

(* Everything that is on the wire, waits in libuv or will be written is     *)
(* made of cells that this connection may carry.                            *)
WireInv ==
    /\ tls \in BOOLEAN
    /\ c2s \in Seq(CellsOf(tls)) /\ s2c \in Seq(CellsOf(tls))
    /\ request \in Seq(CellsOf(FALSE)) /\ written \in Seq(CellsOf(FALSE))
    /\ client_writes \in Seq(WriteOf(tls)) /\ server_writes \in Seq(WriteOf(tls))
    /\ pieces \in Seq(Nat)

(* The TLS states: a server that still waits for the hello has not finished *)
(* its handshake, a connected client has sent its hello; it has a request.  *)
SslInv ==
    /\ IsServer(ssl_) /\ IsClient(ssl_client_)
    /\ ssl_.state \in {"INIT", "HELLO_DONE", "KEY_EXCHANGE_DONE", "DATA_RECV"}
    /\ ssl_.state = "INIT" => ~ssl_.finished
    /\ ssl_client_.state \in {"ZERO", "HELLO_DONE", "KEY_EXCHANGE", "READY"}
    /\ tls /\ client = "open" => ssl_client_.state # "ZERO"
    /\ client # "idle" => request # <<>>

(* What the application has and does. *)
AppInv ==
    /\ handler \in Seq(Nat) /\ made \in 0..Len(handler)
    /\ response_ptr_ # None => response_ptr_ \in Response

(* Clients, sessions and the table.  Every Close of a session also closes   *)
(* its connection and tells its response; only TcpSession closes alone, in  *)
(* the handshake.                                                           *)
SessionInv ==
    /\ conns \in 0..MaxConns /\ session_ptr_map_ \in 0..conns
    /\ client \in {"idle", "connecting", "accepted", "open", "gone"}
    /\ client = "connecting" => conns > 0
    /\ tcp \in {"none", "open", "closed"} /\ http \in {"none", "open", "closed"}
    /\ tcp = "open" => http = "open"
    /\ TableExact
    /\ http = "closed" /\ response_ptr_ # None => response_ptr_.is_close

IInv == WireInv /\ SslInv /\ AppInv /\ SessionInv
------------------------------------------------------------------------------
(* What HTTP sends may also be sent over TLS. *)
LEMMA CellsWider ==
    ASSUME NEW t \in BOOLEAN
    PROVE  CellsOf(FALSE) \subseteq CellsOf(t) /\ Seq(CellsOf(FALSE)) \subseteq Seq(CellsOf(t))
  <1>1. CellsOf(FALSE) \subseteq CellsOf(t)
      BY DEF CellsOf, KindsOf
  <1> QED BY <1>1, SeqMonotonic

(* A sequence with one element. *)
LEMMA OneElement == ASSUME NEW S, NEW a \in S PROVE <<a>> \in Seq(S)
  OBVIOUS
(* A sequence with two elements. *)
LEMMA TwoElements == ASSUME NEW S, NEW a \in S, NEW b \in S PROVE <<a, b>> \in Seq(S)
  OBVIOUS

(* A function on 1..n with values in S. *)
LEMMA FunctionInSeq ==
    ASSUME NEW S, NEW n \in Nat, NEW f, f = [i \in 1..n |-> f[i]],
           \A i \in 1..n : f[i] \in S
    PROVE  f \in Seq(S)
  <1>1. f \in [1..n -> S]
      OBVIOUS
  <1> QED BY <1>1, SeqDef

(* A cell of a known kind is a cell of the wire. *)
LEMMA CellType ==
    ASSUME NEW t, NEW v \in Int, NEW kind \in KindsOf(t)
    PROVE  Cell(kind, v) \in CellsOf(t)
  BY DEF Cell, CellsOf

(* A flight of the handshake. *)
LEMMA FlightType ==
    ASSUME NEW f \in {"CH", "SH", "CKE", "FIN"}
    PROVE  Flight(f) \in Seq(CellsOf(TRUE))
  <1>1. f \in KindsOf(TRUE)
      BY DEF TlsCells, KindsOf
  <1>2. \A v \in Int : Cell(f, v) \in CellsOf(TRUE)
      BY <1>1, CellType
  <1>3. Cell(f, 1) \in CellsOf(TRUE) /\ Cell(f, 2) \in CellsOf(TRUE)
    <2>1. 1 \in Int /\ 2 \in Int
        OBVIOUS
    <2> QED BY <1>2, <2>1, Zenon
  <1> QED BY <1>3, TwoElements DEF Flight

(* AsyncWrite and Send put HTTP cells into a record, or send them as they   *)
(* are.                                                                     *)
LEMMA WireType ==
    ASSUME WireInv, NEW data \in Seq(CellsOf(FALSE))
    PROVE  Wire(data) \in Seq(CellsOf(tls))
  <1>1. data \in Seq(CellsOf(tls))
      BY CellsWider DEF WireInv
  <1>2. CASE tls
    <2>1. "tag" \in KindsOf(tls)
        BY <1>2 DEF TlsCells, KindsOf
    <2>2. Tag \in CellsOf(tls)
        BY <2>1, CellType DEF Tag, WireInv
    <2>3. Append(data, Tag) \in Seq(CellsOf(tls))
        BY <1>1, <2>2, AppendProperties
    <2> QED BY <1>2, <2>3 DEF Wire, Record
  <1>3. CASE ~tls
      BY <1>1, <1>3 DEF Wire
  <1> QED BY <1>2, <1>3

(* Write requests handed to libuv. *)
LEMMA QueuedType ==
    ASSUME NEW t, NEW ws \in Seq(Seq(CellsOf(t)))
    PROVE  Queued(ws) \in Seq(WriteOf(t))
  <1>1. /\ Len(ws) \in Nat /\ DOMAIN ws = 1..Len(ws)
        /\ \A i \in 1..Len(ws) : ws[i] \in Seq(CellsOf(t))
      BY LenProperties, ElementOfSeq
  <1>2. \A i \in 1..Len(ws) : [cells |-> ws[i], done |-> FALSE] \in WriteOf(t)
      BY <1>1 DEF WriteOf
  <1>3. Queued(ws) = [i \in 1..Len(ws) |-> [cells |-> ws[i], done |-> FALSE]]
      BY <1>1 DEF Queued
  <1> QED BY <1>1, <1>2, <1>3, IsASeq

(* More write requests behind those there are. *)
LEMMA MoreWrites ==
    ASSUME NEW t, NEW q \in Seq(WriteOf(t)), NEW ws \in Seq(Seq(CellsOf(t)))
    PROVE  q \o Queued(ws) \in Seq(WriteOf(t))
  <1>1. Queued(ws) \in Seq(WriteOf(t))
      BY QueuedType
  <1> QED BY <1>1, ConcatProperties

(* The content of one Write. *)
LEMMA PieceType ==
    ASSUME WireInv, NEW n \in Nat
    PROVE  Piece(n) \in Seq(CellsOf(FALSE))
  <1>1. Len(written) \in Nat
      BY LenProperties DEF WireInv
  <1>2. "x" \in KindsOf(FALSE)
      BY DEF HttpCells, KindsOf
  <1>3. \A i \in 1..n : Len(written) + i \in Int
      BY <1>1
  <1>4. \A i \in 1..n : Cell("x", Len(written) + i) \in CellsOf(FALSE)
      BY <1>2, <1>3, CellType
  <1>5. PICK p : p = Piece(n)
      OBVIOUS
  <1>6. /\ p = [i \in 1..n |-> p[i]]
        /\ \A i \in 1..n : p[i] = Cell("x", Len(written) + i)
      BY <1>5 DEF Piece
  <1>7. p \in Seq(CellsOf(FALSE))
      BY <1>4, <1>6, FunctionInSeq
  <1> QED BY <1>5, <1>7

(* How many records a Write needs, and where each of them ends. *)
Count(n) == (n + RecordCap - 1) \div RecordCap

LEMMA CountIs ==
    ASSUME NEW n \in Nat
    PROVE  /\ Count(n) \in Nat /\ n <= Count(n) * RecordCap
           /\ n > 0 => Count(n) >= 1 /\ (Count(n) - 1) * RecordCap < n
           /\ n = 0 => Count(n) = 0
  BY RecordCapAssumption DEF Count

LEMMA FragmentEndIs ==
    ASSUME NEW n \in Nat, NEW i \in 1..Count(n)
    PROVE  /\ FragmentEnd(n, i) \in Nat /\ FragmentEnd(n, i - 1) \in Nat
           /\ FragmentEnd(n, i - 1) < FragmentEnd(n, i) /\ FragmentEnd(n, i) <= n
  <1>1. Count(n) \in Nat /\ i \in Nat /\ i >= 1 /\ i <= Count(n)
      BY CountIs
  <1>2. n > 0
      BY <1>1, CountIs
  <1>3. (Count(n) - 1) * RecordCap < n
      BY <1>2, CountIs
  <1>4. (i - 1) * RecordCap <= (Count(n) - 1) * RecordCap
      BY <1>1, RecordCapAssumption
  <1>5. /\ (i - 1) * RecordCap \in Nat /\ i * RecordCap \in Nat
        /\ (Count(n) - 1) * RecordCap \in Nat /\ i * RecordCap = (i - 1) * RecordCap + RecordCap
      BY <1>1, RecordCapAssumption
  <1>6. (i - 1) * RecordCap < n
      BY <1>3, <1>4, <1>5
  <1>7. FragmentEnd(n, i - 1) = (i - 1) * RecordCap
      BY <1>6 DEF FragmentEnd
  <1>8. CASE i * RecordCap < n
    <2>1. FragmentEnd(n, i) = i * RecordCap
        BY <1>8 DEF FragmentEnd
    <2> QED BY ONLY <1>5, <1>7, <1>8, <2>1, RecordCapAssumption
  <1>9. CASE ~(i * RecordCap < n)
    <2>1. FragmentEnd(n, i) = n
        BY <1>9 DEF FragmentEnd
    <2> QED BY ONLY <1>5, <1>6, <1>7, <2>1, n \in Nat
  <1> QED BY <1>8, <1>9

(* The records of one Write, one after another. *)
LEMMA FragmentsAre ==
    ASSUME NEW S, NEW data \in Seq(S)
    PROVE  /\ Len(data) \in Nat
           /\ Fragments(data) \in Seq(Seq(S)) /\ Len(Fragments(data)) = Count(Len(data))
           /\ \A i \in 1..Count(Len(data)) :
                  /\ Fragments(data)[i] = SubSeq(data, FragmentEnd(Len(data), i - 1) + 1,
                                                 FragmentEnd(Len(data), i))
                  /\ Fragments(data)[i] \in Seq(S)
                  /\ Len(Fragments(data)[i])
                        = FragmentEnd(Len(data), i) - FragmentEnd(Len(data), i - 1)
  <1>1. PICK n : n = Len(data)
      OBVIOUS
  <1>2. n \in Nat /\ Count(n) \in Nat
      BY <1>1, LenProperties, CountIs
  <1>3. PICK f : f = Fragments(data)
      OBVIOUS
  <1>4. f = [i \in 1..Count(n) |-> SubSeq(data, FragmentEnd(n, i - 1) + 1, FragmentEnd(n, i))]
      BY <1>1, <1>3 DEF Fragments, Count
  <1>5. \A i \in 1..Count(n) :
           f[i] = SubSeq(data, FragmentEnd(n, i - 1) + 1, FragmentEnd(n, i))
      BY <1>4
  <1>6. ASSUME NEW i \in 1..Count(n)
        PROVE  f[i] \in Seq(S) /\ Len(f[i]) = FragmentEnd(n, i) - FragmentEnd(n, i - 1)
    <2>1. PICK a, b : a = FragmentEnd(n, i - 1) /\ b = FragmentEnd(n, i)
        OBVIOUS
    <2>2. a \in Nat /\ b \in Nat /\ a < b /\ b <= n
        BY <1>2, <2>1, FragmentEndIs
    <2>3. a + 1 \in 1..n + 1 /\ b \in 0..n /\ \A j \in a + 1..b : j \in 1..n
        BY <1>2, <2>2
    <2>4. \A j \in a + 1..b : data[j] \in S
        BY <1>1, <2>3, ElementOfSeq
    <2>5. /\ SubSeq(data, a + 1, b) \in Seq(S)
          /\ Len(SubSeq(data, a + 1, b)) = IF a + 1 <= b THEN b - (a + 1) + 1 ELSE 0
        BY <2>2, <2>4, SubSeqProperties
    <2>6. Len(SubSeq(data, a + 1, b)) = b - a
        BY <2>2, <2>5
    <2> QED BY <1>5, <2>1, <2>5, <2>6
  <1>7. f \in Seq(Seq(S)) /\ Len(f) = Count(n)
    <2>1. f \in [1..Count(n) -> Seq(S)]
        BY <1>4, <1>6
    <2>2. f \in Seq(Seq(S))
        BY <1>2, <2>1, SeqDef
    <2> QED BY <1>2, <2>1, <2>2, LenProperties
  <1> QED BY <1>1, <1>2, <1>3, <1>5, <1>6, <1>7

(* What one Write hands to AsyncWrite, piece by piece. *)
LEMMA BodyType ==
    ASSUME WireInv, NEW n \in Nat
    PROVE  Body(n) \in Seq(Seq(CellsOf(FALSE)))
  <1>1. Piece(n) \in Seq(CellsOf(FALSE))
      BY PieceType
  <1>2. PICK p : p = Piece(n)
      OBVIOUS
  <1>4. Fragments(p) \in Seq(Seq(CellsOf(FALSE)))
      BY <1>1, <1>2, FragmentsAre
  <1>3. <<>> \in Seq(Seq(CellsOf(FALSE)))
      OBVIOUS
  <1>7. <<Piece(n)>> \in Seq(Seq(CellsOf(FALSE)))
      BY <1>1, OneElement
  <1>5. Cut(p) \in Seq(Seq(CellsOf(FALSE)))
    <2>1. CASE tls
        BY <1>4, <2>1 DEF Cut
    <2>2. CASE ~tls
        BY <1>2, <1>7, <2>2 DEF Cut
    <2> QED BY <2>1, <2>2
  <1>6. Body(n) = Cut(p) \/ Body(n) = <<>>
      BY <1>2 DEF Body
  <1> QED BY <1>3, <1>5, <1>6

(* The lengths of these pieces. *)
LEMMA LengthsType ==
    ASSUME WireInv, NEW n \in Nat
    PROVE  [i \in DOMAIN Body(n) |-> Len(Body(n)[i])] \in Seq(Nat)
  <1>1. PICK b : b = Body(n)
      OBVIOUS
  <1>2. b \in Seq(Seq(CellsOf(FALSE)))
      BY <1>1, BodyType
  <1>3. Len(b) \in Nat /\ DOMAIN b = 1..Len(b) /\ \A i \in 1..Len(b) : b[i] \in Seq(CellsOf(FALSE))
      BY <1>2, LenProperties, ElementOfSeq
  <1>4. \A i \in 1..Len(b) : Len(b[i]) \in Nat
      BY <1>3, LenProperties
  <1>5. [i \in 1..Len(b) |-> Len(b[i])] \in Seq(Nat)
      BY <1>3, <1>4, IsASeq
  <1> QED BY <1>1, <1>3, <1>5

(* The parts of one Write, as cells of this connection. *)
LEMMA PartsType ==
    ASSUME WireInv, NEW r, NEW n \in Nat, NEW continue \in BOOLEAN
    PROVE  [i \in DOMAIN Parts(r, n, continue) |-> Wire(Parts(r, n, continue)[i])]
               \in Seq(Seq(CellsOf(tls)))
  <1>1. PICK ps : ps = Parts(r, n, continue)
      OBVIOUS
  <1>2. ps \in Seq(Seq(CellsOf(FALSE)))
    <2>1. PICK head : head = (IF r.written_header THEN <<>>
                              ELSE <<<<Cell("HTTP", 0),
                                       Cell("end", IF continue THEN NoLength ELSE n)>>>>)
        OBVIOUS
    <2>2. PICK body : body = Body(n)
        OBVIOUS
    <2>3. head \in Seq(Seq(CellsOf(FALSE)))
      <3>1. /\ "HTTP" \in KindsOf(FALSE)
            /\ "end" \in KindsOf(FALSE)
          BY DEF HttpCells, KindsOf
      <3>2. (IF continue THEN NoLength ELSE n) \in Int
          BY DEF NoLength
      <3>3. \A v \in Int : Cell("HTTP", v) \in CellsOf(FALSE)
          BY <3>1, CellType
      <3>4. Cell("HTTP", 0) \in CellsOf(FALSE)
        <4>1. 0 \in Int
            OBVIOUS
        <4> QED BY <3>3, <4>1, Zenon
      <3>5. Cell("end", IF continue THEN NoLength ELSE n) \in CellsOf(FALSE)
          BY <3>1, <3>2, CellType
      <3>6. <<Cell("HTTP", 0), Cell("end", IF continue THEN NoLength ELSE n)>>
                \in Seq(CellsOf(FALSE))
          BY <3>4, <3>5, TwoElements
      <3>7. <<<<Cell("HTTP", 0), Cell("end", IF continue THEN NoLength ELSE n)>>>>
                \in Seq(Seq(CellsOf(FALSE)))
          BY <3>6, OneElement
      <3>8. <<>> \in Seq(Seq(CellsOf(FALSE)))
          OBVIOUS
      <3> QED BY <2>1, <3>7, <3>8
    <2>4. body \in Seq(Seq(CellsOf(FALSE)))
        BY <2>2, BodyType
    <2>5. ps = head \o body
        BY <1>1, <2>1, <2>2 DEF Parts
    <2> QED BY <2>3, <2>4, <2>5, ConcatProperties
  <1>3. /\ Len(ps) \in Nat /\ DOMAIN ps = 1..Len(ps)
        /\ \A i \in 1..Len(ps) : ps[i] \in Seq(CellsOf(FALSE))
      BY <1>2, LenProperties, ElementOfSeq
  <1>4. \A i \in 1..Len(ps) : Wire(ps[i]) \in Seq(CellsOf(tls))
      BY <1>3, WireType
  <1>5. [i \in 1..Len(ps) |-> Wire(ps[i])] \in Seq(Seq(CellsOf(tls)))
      BY <1>3, <1>4, IsASeq
  <1> QED BY <1>1, <1>3, <1>5

(* HttpResponse::Write keeps the types, and is_close_. *)
LEMMA WriteType ==
    ASSUME WireInv, NEW r \in Response, NEW n \in Nat, NEW continue \in BOOLEAN,
           Write(r, n, continue)
    PROVE  /\ response_ptr_' \in Response /\ response_ptr_'.is_close = r.is_close
           /\ server_writes' \in Seq(WriteOf(tls)) /\ written' \in Seq(CellsOf(FALSE))
           /\ pieces' \in Seq(Nat)
  <1>1. response_ptr_' = AfterWrite(r, n, continue)
      BY DEF Write
  <1>2. Added(r, n) \in Int
      BY DEF Added
  <1>3. response_ptr_' \in Response /\ response_ptr_'.is_close = r.is_close
    <2>1. CASE r.is_close
        BY <1>1, <2>1 DEF AfterWrite, Response
    <2>2. CASE ~r.is_close
      <3>1. r.remain + Added(r, n) \in Int
          BY <1>2 DEF Response
      <3> QED BY <1>1, <2>2, <3>1 DEF AfterWrite, Response
    <2> QED BY <2>1, <2>2
  <1>4. CASE r.is_close
      BY <1>3, <1>4 DEF Write, WireInv
  <1>5. CASE ~r.is_close
    <2>1. server_writes' = server_writes \o
               Queued([i \in DOMAIN Parts(r, n, continue) |-> Wire(Parts(r, n, continue)[i])])
        BY <1>5 DEF Write, Requested
    <2>2. server_writes' \in Seq(WriteOf(tls))
        BY <2>1, PartsType, MoreWrites DEF WireInv
    <2>3. written' = written \o Piece(n)
        BY <1>5 DEF Write
    <2>4. written' \in Seq(CellsOf(FALSE))
        BY <2>3, PieceType, ConcatProperties DEF WireInv
    <2>5. pieces' = pieces \o [i \in DOMAIN Body(n) |-> Len(Body(n)[i])]
        BY <1>5 DEF Write
    <2>6. pieces' \in Seq(Nat)
        BY <2>5, LengthsType, ConcatProperties DEF WireInv
    <2> QED BY <1>3, <2>2, <2>4, <2>6
  <1> QED BY <1>4, <1>5

(* The record of an SslServer with some of its fields changed. *)
LEMMA ServerChanged ==
    ASSUME NEW s, IsServer(s), NEW st, NEW b, NEW f
    PROVE  /\ [s EXCEPT !.state = st] = [state |-> st, bio |-> s.bio, finished |-> s.finished]
           /\ [s EXCEPT !.bio = b] = [state |-> s.state, bio |-> b, finished |-> s.finished]
           /\ [s EXCEPT !.state = st, !.bio = b] = [state |-> st, bio |-> b, finished |-> s.finished]
           /\ [s EXCEPT !.bio = b, !.finished = f] = [state |-> s.state, bio |-> b, finished |-> f]
  <1>1. PICK st0, b0, f0 : s = [state |-> st0, bio |-> b0, finished |-> f0]
      BY DEF IsServer
  <1>2. s.state = st0 /\ s.bio = b0 /\ s.finished = f0
      BY <1>1
  <1>3. [s EXCEPT !.state = st] = [state |-> st, bio |-> b0, finished |-> f0]
      BY <1>1
  <1>4. [s EXCEPT !.bio = b] = [state |-> st0, bio |-> b, finished |-> f0]
      BY <1>1
  <1>5. [s EXCEPT !.state = st, !.bio = b] = [state |-> st, bio |-> b, finished |-> f0]
    <2>1. PICK t : t = [s EXCEPT !.state = st]
        OBVIOUS
    <2>2. [s EXCEPT !.state = st, !.bio = b] = [t EXCEPT !.bio = b]
        BY <2>1
    <2>3. t = [state |-> st, bio |-> b0, finished |-> f0]
        BY <1>3, <2>1
    <2>4. [t EXCEPT !.bio = b] = [state |-> st, bio |-> b, finished |-> f0]
        BY <2>3
    <2> QED BY <2>2, <2>4
  <1>6. [s EXCEPT !.bio = b, !.finished = f] = [state |-> st0, bio |-> b, finished |-> f]
    <2>1. PICK t : t = [s EXCEPT !.bio = b]
        OBVIOUS
    <2>2. [s EXCEPT !.bio = b, !.finished = f] = [t EXCEPT !.finished = f]
        BY <2>1
    <2>3. t = [state |-> st0, bio |-> b, finished |-> f0]
        BY <1>4, <2>1
    <2>4. [t EXCEPT !.finished = f] = [state |-> st0, bio |-> b, finished |-> f]
        BY <2>3
    <2> QED BY <2>2, <2>4
  <1> QED BY <1>2, <1>3, <1>4, <1>5, <1>6

(* A record of the three fields is an SslServer. *)
LEMMA ServerRecord ==
    ASSUME NEW st, NEW b, NEW f
    PROVE  IsServer([state |-> st, bio |-> b, finished |-> f])
  BY DEF IsServer

(* SslServer's handshake: its state stays one of the four, what it sends    *)
(* are flights, and it fails only while it waits for the hello, with        *)
(* nothing to send.                                                         *)
LEMMA HandshakeType ==
    ASSUME SslInv, NEW data
    PROVE  LET h == Handshake(ssl_, data)
           IN  /\ IsServer(h.s)
               /\ h.s.state \in {"INIT", "HELLO_DONE", "KEY_EXCHANGE_DONE", "DATA_RECV"}
               /\ h.s.state = "INIT" => ~h.s.finished
               /\ h.out \in Seq(Seq(CellsOf(TRUE)))
               /\ h.ret # 0 => h.out = <<>> /\ ~ssl_.finished
  <1>h. PICK h : h = Handshake(ssl_, data)
      OBVIOUS
  <1> SUFFICES /\ IsServer(h.s)
               /\ h.s.state \in {"INIT", "HELLO_DONE", "KEY_EXCHANGE_DONE", "DATA_RECV"}
               /\ h.s.state = "INIT" => ~h.s.finished
               /\ h.out \in Seq(Seq(CellsOf(TRUE)))
               /\ h.ret # 0 => h.out = <<>> /\ ~ssl_.finished
      BY <1>h
  <1>1. /\ <<>> \in Seq(Seq(CellsOf(TRUE)))
        /\ <<<<>>>> \in Seq(Seq(CellsOf(TRUE)))
      OBVIOUS
  <1>2. \A f \in {"CH", "SH", "CKE", "FIN"} : <<Flight(f)>> \in Seq(Seq(CellsOf(TRUE)))
      BY FlightType, OneElement
  <1>3. CASE ssl_.state = "INIT"
    <2>1. h = HandleTlsHello(ssl_, data)
        BY <1>3, <1>h DEF Handshake
    <2>2. CASE HasFlight(ssl_.bio \o data, "CH")
      <3>1. h = [s |-> [ssl_ EXCEPT !.state = "HELLO_DONE", !.bio = <<>>],
                 out |-> <<Flight("SH")>>, ret |-> 0]
          BY <2>1, <2>2 DEF HandleTlsHello
      <3>2. h.s = [state |-> "HELLO_DONE", bio |-> <<>>, finished |-> ssl_.finished]
        <4>1. h.s = [ssl_ EXCEPT !.state = "HELLO_DONE", !.bio = <<>>]
            BY <3>1
        <4> QED BY <4>1, ServerChanged DEF SslInv
      <3>3. IsServer(h.s) /\ h.s.state = "HELLO_DONE"
          BY <3>2, ServerRecord
      <3>4. <<Flight("SH")>> \in Seq(Seq(CellsOf(TRUE)))
          BY <1>2
      <3>5. h.out = <<Flight("SH")>> /\ h.ret = 0
          BY <3>1
      <3>6. h.out \in Seq(Seq(CellsOf(TRUE))) /\ h.ret = 0
          BY <3>4, <3>5, Zenon
      <3> QED BY <3>3, <3>6
    <2>3. CASE ~HasFlight(ssl_.bio \o data, "CH")
      <3>1. h = [s |-> [ssl_ EXCEPT !.bio = @ \o data], out |-> <<>>, ret |-> -1]
          BY <2>1, <2>3 DEF HandleTlsHello
      <3>2. h.s = [state |-> ssl_.state, bio |-> ssl_.bio \o data, finished |-> ssl_.finished]
        <4>1. h.s = [ssl_ EXCEPT !.bio = ssl_.bio \o data]
            BY <3>1
        <4> QED BY <4>1, ServerChanged DEF SslInv
      <3>3. IsServer(h.s) /\ h.s.state = "INIT" /\ h.s.finished = ssl_.finished
          BY <1>3, <3>2, ServerRecord
      <3>4. ~ssl_.finished
          BY <1>3 DEF SslInv
      <3>5. h.out = <<>>
          BY <3>1
      <3> QED BY <1>1, <3>3, <3>4, <3>5
    <2> QED BY <2>2, <2>3
  <1>4. CASE ssl_.state = "HELLO_DONE"
    <2>1. h = HandleKeyExchange(ssl_, data)
        BY <1>4, <1>h DEF Handshake
    <2>2. CASE HasFlight(ssl_.bio \o data, "CKE")
      <3>1. h = [s |-> [state |-> "KEY_EXCHANGE_DONE", bio |-> AfterFlight(ssl_.bio \o data),
                        finished |-> TRUE], out |-> <<Flight("FIN")>>, ret |-> 0]
          BY <2>1, <2>2 DEF HandleKeyExchange
      <3>2. IsServer(h.s) /\ h.s.state = "KEY_EXCHANGE_DONE"
          BY <3>1, ServerRecord
      <3>3. <<Flight("FIN")>> \in Seq(Seq(CellsOf(TRUE)))
          BY <1>2
      <3>4. h.out = <<Flight("FIN")>> /\ h.ret = 0
          BY <3>1
      <3>5. h.out \in Seq(Seq(CellsOf(TRUE))) /\ h.ret = 0
          BY <3>3, <3>4, Zenon
      <3> QED BY <3>2, <3>5
    <2>3. CASE ~HasFlight(ssl_.bio \o data, "CKE")
      <3>1. h = [s |-> [state |-> "KEY_EXCHANGE_DONE", bio |-> ssl_.bio \o data,
                        finished |-> FALSE], out |-> <<<<>>>>, ret |-> 0]
          BY <2>1, <2>3 DEF HandleKeyExchange
      <3>2. IsServer(h.s) /\ h.s.state = "KEY_EXCHANGE_DONE"
          BY <3>1, ServerRecord
      <3> QED BY <1>1, <3>1, <3>2
    <2> QED BY <2>2, <2>3
  <1>5. CASE ssl_.state \notin {"INIT", "HELLO_DONE"}
    <2>1. h = [s |-> ssl_, out |-> <<>>, ret |-> 0]
        BY <1>5, <1>h DEF Handshake
    <2> QED BY <1>1, <2>1 DEF SslInv
  <1> QED BY <1>3, <1>4, <1>5 DEF SslInv

(* HandleSslDataRecv keeps the state one of the four. *)
LEMMA DataRecvType ==
    ASSUME NEW s, NEW data, IsServer(s),
           s.state \in {"INIT", "HELLO_DONE", "KEY_EXCHANGE_DONE", "DATA_RECV"},
           s.state = "INIT" => ~s.finished
    PROVE  LET r == ServerDataRecv(s, data)
           IN  /\ IsServer(r.s)
               /\ r.s.state \in {"INIT", "HELLO_DONE", "KEY_EXCHANGE_DONE", "DATA_RECV"}
               /\ r.s.state = "INIT" => ~r.s.finished
  <1> DEFINE b == s.bio \o data
  <1>r. PICK r : r = ServerDataRecv(s, data)
      OBVIOUS
  <1> SUFFICES /\ IsServer(r.s)
               /\ r.s.state \in {"INIT", "HELLO_DONE", "KEY_EXCHANGE_DONE", "DATA_RECV"}
               /\ r.s.state = "INIT" => ~r.s.finished
      BY <1>r
  <1>1. CASE s.state \in {"INIT", "HELLO_DONE"}
    <2>1. r = [s |-> s, plain |-> <<>>]
        BY <1>1, <1>r DEF ServerDataRecv
    <2> QED BY <2>1
  <1>2. CASE s.state = "KEY_EXCHANGE_DONE"
    <2>1. r = [s |-> [s EXCEPT !.state = "DATA_RECV"], plain |-> <<>>]
        BY <1>2, <1>r DEF ServerDataRecv
    <2>2. r.s = [state |-> "DATA_RECV", bio |-> s.bio, finished |-> s.finished]
      <3>1. r.s = [s EXCEPT !.state = "DATA_RECV"]
          BY <2>1
      <3> QED BY <3>1, ServerChanged
    <2> QED BY <2>2, ServerRecord
  <1>3. CASE s.state = "DATA_RECV" /\ s.finished
    <2>1. r = [s |-> [s EXCEPT !.bio = SSL_read(b).bio], plain |-> SSL_read(b).plain]
        BY <1>3, <1>r DEF ServerDataRecv
    <2>2. r.s = [state |-> s.state, bio |-> SSL_read(b).bio, finished |-> s.finished]
      <3>1. r.s = [s EXCEPT !.bio = SSL_read(b).bio]
          BY <2>1
      <3> QED BY <3>1, ServerChanged
    <2> QED BY <1>3, <2>2, ServerRecord
  <1>4. CASE s.state = "DATA_RECV" /\ ~s.finished
    <2>1. r = [s |-> IF HasFlight(b, "CKE")
                     THEN [s EXCEPT !.bio = AfterFlight(b), !.finished = TRUE]
                     ELSE [s EXCEPT !.bio = b],
               plain |-> <<>>]
        BY <1>4, <1>r DEF ServerDataRecv
    <2>2. IsServer(r.s) /\ r.s.state = "DATA_RECV"
      <3>1. CASE HasFlight(b, "CKE")
        <4>1. r.s = [state |-> s.state, bio |-> AfterFlight(b), finished |-> TRUE]
          <5>1. r.s = [s EXCEPT !.bio = AfterFlight(b), !.finished = TRUE]
              BY <2>1, <3>1
          <5> QED BY <5>1, ServerChanged
        <4> QED BY <1>4, <4>1, ServerRecord
      <3>2. CASE ~HasFlight(b, "CKE")
        <4>1. r.s = [state |-> s.state, bio |-> b, finished |-> s.finished]
          <5>1. r.s = [s EXCEPT !.bio = b]
              BY <2>1, <3>2
          <5> QED BY <5>1, ServerChanged
        <4> QED BY <1>4, <4>1, ServerRecord
      <3> QED BY <3>1, <3>2
    <2> QED BY <2>2
  <1> QED BY <1>1, <1>2, <1>3, <1>4

(* SslClient: what it sends are flights, and its state moves on. *)
LEMMA ClientHelloType ==
    ASSUME SslInv
    PROVE  /\ IsClient(ClientHello(ssl_client_).c)
           /\ ClientHello(ssl_client_).c.state = "HELLO_DONE"
           /\ ClientHello(ssl_client_).out \in Seq(Seq(CellsOf(TRUE)))
  <1>1. <<Flight("CH")>> \in Seq(Seq(CellsOf(TRUE)))
      BY FlightType, OneElement
  <1> QED BY <1>1 DEF ClientHello, IsClient, SslInv

(* RecvServerHello waits for the whole flight, or answers it. *)
LEMMA ServerHelloType ==
    ASSUME SslInv, NEW data, ssl_client_.state = "HELLO_DONE"
    PROVE  LET r == RecvServerHello(ssl_client_, data)
           IN  /\ IsClient(r.c) /\ r.c.state \in {"HELLO_DONE", "KEY_EXCHANGE"}
               /\ r.out \in Seq(Seq(CellsOf(TRUE)))
  <1> DEFINE b == ssl_client_.bio \o data
  <1>0. Flight("CKE") \in Seq(CellsOf(TRUE))
      BY FlightType
  <1>1. <<Flight("CKE")>> \in Seq(Seq(CellsOf(TRUE))) /\ <<>> \in Seq(Seq(CellsOf(TRUE)))
    <2>1. <<Flight("CKE")>> \in Seq(Seq(CellsOf(TRUE)))
        BY <1>0, OneElement
    <2>2. <<>> \in Seq(Seq(CellsOf(TRUE)))
        OBVIOUS
    <2> QED BY <2>1, <2>2, Zenon
  <1>2. CASE HasFlight(b, "SH")
      BY <1>1, <1>2 DEF RecvServerHello, IsClient
  <1>3. CASE ~HasFlight(b, "SH")
      BY <1>1, <1>3 DEF RecvServerHello, IsClient, SslInv
  <1> QED BY <1>2, <1>3

(* HandleSessionTicket waits for the whole flight, or is READY. *)
LEMMA TicketType ==
    ASSUME SslInv, NEW data, ssl_client_.state = "KEY_EXCHANGE"
    PROVE  LET r == HandleSessionTicket(ssl_client_, data)
           IN  IsClient(r) /\ r.state \in {"KEY_EXCHANGE", "READY"}
  <1> DEFINE b == ssl_client_.bio \o data
  <1>1. CASE HasFlight(b, "FIN")
      BY <1>1 DEF HandleSessionTicket, IsClient
  <1>2. CASE ~HasFlight(b, "FIN")
      BY <1>2 DEF HandleSessionTicket, IsClient, SslInv
  <1> QED BY <1>1, <1>2

(* HandleSslDataRecv of the client stays in its state. *)
LEMMA ClientDataType ==
    ASSUME SslInv, NEW x
    PROVE  /\ IsClient([ssl_client_ EXCEPT !.bio = x])
           /\ [ssl_client_ EXCEPT !.bio = x].state = ssl_client_.state
           /\ [ssl_client_ EXCEPT !.bio = x].bio = x
  <1>1. PICK st, b : ssl_client_ = [state |-> st, bio |-> b]
      BY DEF IsClient, SslInv
  <1>2. [ssl_client_ EXCEPT !.bio = x] = [state |-> st, bio |-> x]
      BY <1>1
  <1> QED BY <1>1, <1>2 DEF IsClient
------------------------------------------------------------------------------
(* The initial states satisfy the inductive invariant. *)
LEMMA InitInv == Init => IInv
  <1> SUFFICES ASSUME Init PROVE IInv
      OBVIOUS
  <1>1. WireInv
      BY DEF Init, WireInv
  <1>2. SslInv
      BY DEF Init, SslInv, NewServer, NewClient, IsServer, IsClient
  <1>3. AppInv
      BY DEF Init, AppInv
  <1>4. SessionInv
      BY ExchangeAssumption DEF Init, SessionInv, TableExact
  <1> QED BY <1>1, <1>2, <1>3, <1>4 DEF IInv

(* HttpSession::Close: session, connection and table entry go together, and *)
(* the response is told.                                                    *)
LEMMA SessionCloseInv ==
    ASSUME IInv, NEW r, r # None => r \in Response, NEW what, SessionClose(r, what),
           tls' = tls, conns' = conns, client' = client
    PROVE  /\ SessionInv' /\ server_writes' = <<>>
           /\ response_ptr_' # None => response_ptr_' \in Response
  <1>1. /\ http' = "closed" /\ tcp' = "closed" /\ server_writes' = <<>>
        /\ session_ptr_map_' = 0 /\ response_ptr_' = SetClose(r)
      BY DEF SessionClose, TcpClose, OnClose
  <1>2. response_ptr_' # None => response_ptr_' \in Response /\ response_ptr_'.is_close
      BY <1>1, ExchangeAssumption DEF SetClose, Response
  <1>3. 0 \in 0..conns
      BY DEF IInv, SessionInv
  <1>4. SessionInv'
      BY <1>1, <1>2, <1>3 DEF IInv, SessionInv, TableExact
  <1> QED BY <1>1, <1>2, <1>4

(* A Write, or none, that leaves the session as it is. *)
LEMMA AnsweredInv ==
    ASSUME IInv, http = "open", tcp = "open",
           UNCHANGED <<tls, conns, client, http, tcp, session_ptr_map_>>
    PROVE  SessionInv'
  BY DEF IInv, SessionInv, TableExact

(* The application is given a request: it writes now, or later, or closes   *)
(* the session.                                                             *)
LEMMA HandleInv ==
    ASSUME IInv, tcp = "open", NEW r \in Response, Handle(r),
           tls' = tls, conns' = conns, client' = client
    PROVE  /\ AppInv' /\ SessionInv'
           /\ server_writes' \in Seq(WriteOf(tls)) /\ written' \in Seq(CellsOf(FALSE))
           /\ pieces' \in Seq(Nat)
  <1>0. http = "open"
      BY DEF IInv, SessionInv
  <1>1. CASE \E h \in Handlers :
                /\ handler' = h
                /\ \/ made' = 1 /\ Write(r, h[1], Len(h) > 1)
                   \/ made' = 0 /\ response_ptr_' = r /\ UNCHANGED <<server_writes, written, pieces>>
                /\ UNCHANGED <<http, tcp, s2c_end, session_ptr_map_, ub>>
    <2>1. PICK h \in Handlers :
              /\ handler' = h
              /\ \/ made' = 1 /\ Write(r, h[1], Len(h) > 1)
                 \/ made' = 0 /\ response_ptr_' = r /\ UNCHANGED <<server_writes, written, pieces>>
              /\ UNCHANGED <<http, tcp, s2c_end, session_ptr_map_, ub>>
        BY <1>1
    <2>2. /\ h \in Seq(Nat) /\ Len(h) \in Nat /\ Len(h) >= 1
          /\ h[1] \in Nat
        BY ExchangeAssumption
    <2>3. (Len(h) > 1) \in BOOLEAN
        BY <2>2
    <2>4. SessionInv'
        BY <1>0, <2>1, AnsweredInv
    <2>5. CASE made' = 1 /\ Write(r, h[1], Len(h) > 1)
      <3>1. PICK n, continue : n = h[1] /\ continue = (Len(h) > 1)
          OBVIOUS
      <3>2. n \in Nat /\ continue \in BOOLEAN /\ Write(r, n, continue)
          BY <2>2, <2>3, <2>5, <3>1
      <3>3. /\ response_ptr_' \in Response
            /\ server_writes' \in Seq(WriteOf(tls)) /\ written' \in Seq(CellsOf(FALSE))
            /\ pieces' \in Seq(Nat)
          BY <3>2, WriteType DEF IInv
      <3>4. made' \in 0..Len(h)
          BY <2>2, <2>5
      <3> QED BY <2>1, <2>2, <2>4, <3>3, <3>4 DEF AppInv
    <2>6. CASE made' = 0 /\ response_ptr_' = r /\ UNCHANGED <<server_writes, written, pieces>>
      <3>1. made' \in 0..Len(h)
          BY <2>2, <2>6
      <3>2. /\ server_writes' \in Seq(WriteOf(tls)) /\ written' \in Seq(CellsOf(FALSE))
            /\ pieces' \in Seq(Nat)
          BY <2>6 DEF IInv, WireInv
      <3> QED BY <2>1, <2>2, <2>4, <2>6, <3>1, <3>2 DEF AppInv
    <2> QED BY <2>1, <2>5, <2>6
  <1>2. CASE /\ handler' = <<>> /\ made' = 0
             /\ SessionClose(r, "closed_in_handler") /\ UNCHANGED <<written, pieces>>
    <2>1. /\ SessionInv' /\ server_writes' = <<>>
          /\ response_ptr_' # None => response_ptr_' \in Response
        BY <1>2, SessionCloseInv
    <2>2. /\ <<>> \in Seq(WriteOf(tls)) /\ <<>> \in Seq(Nat) /\ 0 \in 0..Len(<<>>)
        OBVIOUS
    <2> QED BY <1>2, <2>1, <2>2 DEF IInv, AppInv, WireInv
  <1> QED BY <1>1, <1>2 DEF Handle

(* HttpSession::OnRead, on an open session, answers or closes it. *)
LEMMA HttpOnReadInv ==
    ASSUME IInv, tcp = "open", NEW data, HttpOnRead(data),
           tls' = tls, conns' = conns, client' = client
    PROVE  /\ AppInv' /\ SessionInv'
           /\ server_writes' \in Seq(WriteOf(tls)) /\ written' \in Seq(CellsOf(FALSE))
           /\ pieces' \in Seq(Nat)
  <1> DEFINE all    == recv_ \o data
             e      == HeaderEnd(all)
             method == all[1].k
             r      == IF response_ptr_ = None THEN NewResponse ELSE response_ptr_
             wait   == e = 0 \/ (method = "POST" /\ Len(all) - e < all[e].v)
  <1>1. NewResponse \in Response /\ r \in Response
      BY DEF NewResponse, Response, IInv, AppInv
  <1>2. http = "open"
      BY DEF IInv, SessionInv
  <1>3. CASE ~wait /\ method = "BAD"
    <2>1. /\ SessionClose(response_ptr_, IF tls THEN "read_after_close" ELSE LateWrite(server_writes))
          /\ UNCHANGED <<recv_, handler, made, written, pieces>>
        BY <1>3 DEF HttpOnRead
    <2>2. /\ SessionInv' /\ server_writes' = <<>>
          /\ response_ptr_' # None => response_ptr_' \in Response
        BY <2>1, SessionCloseInv DEF IInv, AppInv
    <2>3. <<>> \in Seq(WriteOf(tls))
        OBVIOUS
    <2> QED BY <2>1, <2>2, <2>3 DEF IInv, AppInv, WireInv
  <1>4. CASE ~(~wait /\ method = "BAD") /\ wait
    <2>1. /\ UNCHANGED <<response_ptr_, server_writes, handler, made, written, pieces>>
          /\ UNCHANGED <<http, tcp, s2c_end, session_ptr_map_, ub>>
        BY <1>4 DEF HttpOnRead
    <2> QED BY <1>2, <2>1, AnsweredInv DEF IInv, AppInv, WireInv
  <1>5. CASE ~wait /\ method = "OPTIONS"
    <2>1. Write(r, 0, FALSE) /\ UNCHANGED <<handler, made, http, tcp, s2c_end, session_ptr_map_, ub>>
        BY <1>5 DEF HttpOnRead
    <2>2. /\ response_ptr_' \in Response
          /\ server_writes' \in Seq(WriteOf(tls)) /\ written' \in Seq(CellsOf(FALSE))
          /\ pieces' \in Seq(Nat)
        BY <1>1, <2>1, WriteType DEF IInv
    <2> QED BY <1>2, <2>1, <2>2, AnsweredInv DEF IInv, AppInv
  <1>6. CASE ~wait /\ method = "GET"
    <2>1. Handle(NewResponse)
        BY <1>6 DEF HttpOnRead
    <2> QED BY <1>1, <2>1, HandleInv
  <1>7. CASE ~wait /\ method \notin {"OPTIONS", "GET", "BAD"}
    <2>1. Handle(r)
        BY <1>7 DEF HttpOnRead
    <2> QED BY <1>1, <2>1, HandleInv
  <1> QED BY <1>3, <1>4, <1>5, <1>6, <1>7

(* The request of HttpClient::Get or Post is made of HTTP cells. *)
LEMMA RequestType ==
    ASSUME NEW r \in Requests
    PROVE  r \in Seq(CellsOf(FALSE))
  <1>1. \A kind \in HttpCells : \A v \in Int : Cell(kind, v) \in CellsOf(FALSE)
      BY CellType DEF KindsOf
  <1>2. "end" \in HttpCells /\ "POST" \in HttpCells /\ "b" \in HttpCells
      BY DEF HttpCells
  <1>3. CASE r \in {<<Cell(m, 0), Cell("end", 0)>> : m \in Methods \ {"POST"}}
    <2>1. PICK m \in Methods \ {"POST"} : r = <<Cell(m, 0), Cell("end", 0)>>
        BY <1>3
    <2>2. m \in HttpCells
        BY <2>1, ExchangeAssumption DEF HttpCells
    <2>3. 0 \in Int
        OBVIOUS
    <2>4. Cell(m, 0) \in CellsOf(FALSE) /\ Cell("end", 0) \in CellsOf(FALSE)
        BY <1>1, <1>2, <2>2, <2>3, Zenon
    <2> QED BY <2>1, <2>4, TwoElements
  <1>4. CASE r \in {<<Cell("POST", 0), Cell("end", n)>> \o Content("b", n) :
                        n \in IF "POST" \in Methods THEN PostLens ELSE {}}
    <2>1. PICK n \in IF "POST" \in Methods THEN PostLens ELSE {} :
              r = <<Cell("POST", 0), Cell("end", n)>> \o Content("b", n)
        BY <1>4
    <2>2. n \in Nat /\ n \in Int /\ 0 \in Int /\ \A i \in 1..n : i \in Int
        BY <2>1, ExchangeAssumption
    <2>3. Cell("POST", 0) \in CellsOf(FALSE) /\ Cell("end", n) \in CellsOf(FALSE)
        BY <1>1, <1>2, <2>2, Zenon
    <2>4. <<Cell("POST", 0), Cell("end", n)>> \in Seq(CellsOf(FALSE))
        BY <2>3, TwoElements
    <2>5. PICK c : c = Content("b", n)
        OBVIOUS
    <2>6. c = [i \in 1..n |-> c[i]] /\ \A i \in 1..n : c[i] = Cell("b", i)
        BY <2>5 DEF Content
    <2>7. \A i \in 1..n : Cell("b", i) \in CellsOf(FALSE)
        BY <1>1, <1>2, <2>2, Zenon
    <2>8. \A i \in 1..n : c[i] \in CellsOf(FALSE)
        BY <2>6, <2>7, Zenon
    <2>9. c \in Seq(CellsOf(FALSE))
        BY <2>2, <2>6, <2>8, FunctionInSeq
    <2> QED BY <2>1, <2>4, <2>5, <2>9, ConcatProperties
  <1> QED BY <1>3, <1>4 DEF Requests

(* A request has a first line. *)
LEMMA RequestSome ==
    ASSUME NEW r \in Requests
    PROVE  r # <<>>
  <1>1. \A a, b : <<a, b>> # <<>>
      OBVIOUS
  <1>2. ASSUME NEW a, NEW b, NEW n PROVE <<a, b>> \o Content("b", n) # <<>>
      OBVIOUS
  <1> QED BY <1>1, <1>2 DEF Requests

(* Steps of the client that leave the server alone keep what is known of    *)
(* the server's session.                                                    *)
LEMMA ServerKept ==
    ASSUME IInv, UNCHANGED <<tls, serverVars>>,
           conns' \in 0..MaxConns, conns' >= conns,
           client' \in {"idle", "connecting", "accepted", "open", "gone"},
           client' = "connecting" => conns' > 0
    PROVE  AppInv' /\ SessionInv'
  <1>1. AppInv'
      BY DEF IInv, AppInv, serverVars
  <1>2. session_ptr_map_' \in 0..conns'
      BY DEF IInv, SessionInv, serverVars
  <1>3. TableExact'
      BY DEF IInv, SessionInv, TableExact, serverVars
  <1> QED BY <1>1, <1>2, <1>3 DEF IInv, SessionInv, serverVars

(* A new HttpClient has sent nothing; the server does not know of it. *)
LEMMA ConnectInv == ASSUME IInv, Connect PROVE IInv'
  <1>1. PICK r \in Requests : request' = r
      BY DEF Connect
  <1>2. r \in Seq(CellsOf(FALSE))
      BY RequestType
  <1>3. WireInv'
    <2>1. client_writes' \in Seq(WriteOf(tls))
        BY DEF Connect
    <2>2. request' \in Seq(CellsOf(FALSE))
        BY <1>1, <1>2
    <2>3. UNCHANGED <<tls, c2s, s2c, written, server_writes, pieces>>
        BY DEF Connect, wireVars, serverVars
    <2> QED BY <2>1, <2>2, <2>3 DEF IInv, WireInv
  <1>4. SslInv'
      BY <1>1, RequestSome DEF Connect, IInv, SslInv, NewClient, IsClient, serverVars
  <1>5. conns' \in 0..MaxConns /\ conns' > 0 /\ conns' >= conns
      BY ExchangeAssumption DEF Connect, IInv, SessionInv
  <1>6. AppInv' /\ SessionInv'
      BY <1>5, ServerKept DEF Connect
  <1> QED BY <1>3, <1>4, <1>6 DEF IInv

(* A connection that fails never reaches the server. *)
LEMMA ConnectFailsInv == ASSUME IInv, ConnectFails PROVE IInv'
  <1>1. WireInv' /\ SslInv'
      BY DEF ConnectFails, IInv, WireInv, SslInv, wireVars, serverVars
  <1>2. conns' \in 0..MaxConns /\ conns' >= conns
      BY ExchangeAssumption DEF ConnectFails, IInv, SessionInv
  <1>3. AppInv' /\ SessionInv'
      BY <1>2, ServerKept DEF ConnectFails
  <1> QED BY <1>1, <1>3 DEF IInv

(* A session is put into the table, or takes the old one of its endpoint    *)
(* with it.                                                                 *)
LEMMA OnAcceptInv == ASSUME IInv, OnAccept PROVE IInv'
  <1>1. WireInv'
    <2>1. /\ c2s' \in Seq(CellsOf(tls)) /\ s2c' \in Seq(CellsOf(tls))
          /\ written' \in Seq(CellsOf(FALSE)) /\ server_writes' \in Seq(WriteOf(tls))
          /\ pieces' \in Seq(Nat)
        BY DEF OnAccept
    <2>2. UNCHANGED <<tls, request, client_writes>>
        BY DEF OnAccept
    <2> QED BY <2>1, <2>2 DEF IInv, WireInv
  <1>2. SslInv'
      BY DEF OnAccept, IInv, SslInv, NewServer, IsServer
  <1>3. AppInv'
      BY DEF OnAccept, IInv, AppInv
  <1>4. conns \in Nat /\ conns > 0
      BY ExchangeAssumption DEF OnAccept, IInv, SessionInv
  <1>5. SessionInv'
    <2>1. CASE session_ptr_map_ = 0
        BY <1>4, <2>1 DEF OnAccept, IInv, SessionInv, TableExact
    <2>2. CASE session_ptr_map_ # 0
        BY <1>4, <2>2 DEF OnAccept, IInv, SessionInv, TableExact
    <2> QED BY <2>1, <2>2
  <1> QED BY <1>1, <1>2, <1>3, <1>5 DEF IInv

(* A connected client queues its hello, or its request. *)
LEMMA ClientOnConnectInv == ASSUME IInv, ClientOnConnect PROVE IInv'
  <1>1. conns' \in 0..MaxConns /\ conns' >= conns
      BY ExchangeAssumption DEF ClientOnConnect, IInv, SessionInv
  <1>2. AppInv' /\ SessionInv'
      BY <1>1, ServerKept DEF ClientOnConnect
  <1>3. CASE tls
    <2>1. /\ ssl_client_' = ClientHello(ssl_client_).c
          /\ client_writes' = Queued(ClientHello(ssl_client_).out)
        BY <1>3 DEF ClientOnConnect
    <2>2. /\ IsClient(ssl_client_') /\ ssl_client_'.state = "HELLO_DONE"
          /\ ClientHello(ssl_client_).out \in Seq(Seq(CellsOf(TRUE)))
        BY <2>1, ClientHelloType DEF IInv
    <2>3. client_writes' \in Seq(WriteOf(TRUE))
        BY <2>1, <2>2, QueuedType
    <2>4. tls = TRUE
        BY <1>3 DEF IInv, WireInv
    <2>5. WireInv'
        BY <2>3, <2>4 DEF ClientOnConnect, IInv, WireInv, wireVars, serverVars
    <2>6. SslInv'
        BY <2>2 DEF ClientOnConnect, IInv, SslInv, serverVars
    <2> QED BY <1>2, <2>5, <2>6 DEF IInv
  <1>4. CASE ~tls
    <2>1. client_writes' = Queued(<<Wire(request)>>) /\ ssl_client_' = ssl_client_
        BY <1>4 DEF ClientOnConnect
    <2>2. Wire(request) \in Seq(CellsOf(tls))
        BY WireType DEF IInv, WireInv
    <2>3. <<Wire(request)>> \in Seq(Seq(CellsOf(tls)))
        BY <2>2, OneElement
    <2>4. client_writes' \in Seq(WriteOf(tls))
        BY <2>1, <2>3, QueuedType
    <2>5. WireInv'
        BY <2>4 DEF ClientOnConnect, IInv, WireInv, wireVars, serverVars
    <2>6. SslInv'
        BY <1>4, <2>1 DEF ClientOnConnect, IInv, SslInv, serverVars
    <2> QED BY <1>2, <2>5, <2>6 DEF IInv
  <1> QED BY <1>3, <1>4

(* The socket takes the write request in front, or one behind others. *)
LEMMA TakenType ==
    ASSUME NEW t, NEW q \in Seq(WriteOf(t)), NEW i \in 1..Len(q)
    PROVE  [q EXCEPT ![i].done = TRUE] \in Seq(WriteOf(t)) /\ q[i].cells \in Seq(CellsOf(t))
  <1>1. q[i] \in WriteOf(t)
      BY ElementOfSeq
  <1>2. [q[i] EXCEPT !.done = TRUE] \in WriteOf(t) /\ q[i].cells \in Seq(CellsOf(t))
      BY <1>1 DEF WriteOf
  <1>3. [q EXCEPT ![i] = [q[i] EXCEPT !.done = TRUE]] \in Seq(WriteOf(t))
      BY <1>2, ExceptSeq
  <1>4. [q EXCEPT ![i].done = TRUE] = [q EXCEPT ![i] = [q[i] EXCEPT !.done = TRUE]]
      OBVIOUS
  <1> QED BY <1>2, <1>3, <1>4

(* The socket takes what the client wrote. *)
LEMMA ClientTakesInv == ASSUME IInv, ClientTakes PROVE IInv'
  <1>1. conns' \in 0..MaxConns /\ conns' >= conns
      BY ExchangeAssumption DEF ClientTakes, IInv, SessionInv
  <1>2. AppInv' /\ SessionInv'
      BY <1>1, ServerKept DEF ClientTakes, IInv, SessionInv
  <1>3. 1 \in 1..Len(client_writes) /\ Head(client_writes) = client_writes[1]
      BY DEF ClientTakes, IInv, WireInv
  <1>4. /\ client_writes' \in Seq(WriteOf(tls))
        /\ Head(client_writes).cells \in Seq(CellsOf(tls))
      BY <1>3, TakenType DEF ClientTakes, IInv, WireInv
  <1>5. c2s' \in Seq(CellsOf(tls))
      BY <1>4, ConcatProperties DEF ClientTakes, IInv, WireInv
  <1>6. WireInv'
      BY <1>4, <1>5 DEF ClientTakes, IInv, WireInv, serverVars
  <1>7. SslInv'
      BY DEF ClientTakes, IInv, SslInv, serverVars
  <1> QED BY <1>2, <1>6, <1>7 DEF IInv

(* A write of the client is called back. *)
LEMMA ClientOnWriteInv == ASSUME IInv, ClientOnWrite PROVE IInv'
  <1>1. conns' \in 0..MaxConns /\ conns' >= conns
      BY ExchangeAssumption DEF ClientOnWrite, IInv, SessionInv
  <1>2. AppInv' /\ SessionInv'
      BY <1>1, ServerKept DEF ClientOnWrite, IInv, SessionInv
  <1>3. client_writes' \in Seq(WriteOf(tls))
      BY HeadTailProperties DEF ClientOnWrite, IInv, WireInv
  <1>4. WireInv'
      BY <1>3 DEF ClientOnWrite, IInv, WireInv, wireVars, serverVars
  <1>5. SslInv'
      BY DEF ClientOnWrite, IInv, SslInv, serverVars
  <1> QED BY <1>2, <1>4, <1>5 DEF IInv

(* What is left of a stream after a read. *)
LEMMA RestType ==
    ASSUME NEW S, NEW s \in Seq(S), NEW n \in 1..Len(s)
    PROVE  SubSeq(s, n + 1, Len(s)) \in Seq(S)
  OBVIOUS

(* The client goes on with its handshake, or reads the response. *)
LEMMA ClientOnReadInv == ASSUME IInv, ClientOnRead PROVE IInv'
  <1>1. conns' \in 0..MaxConns /\ conns' >= conns
      BY ExchangeAssumption DEF ClientOnRead, IInv, SessionInv
  <1>2. AppInv' /\ SessionInv'
      BY <1>1, ServerKept DEF ClientOnRead, IInv, SessionInv
  <1>3. PICK n \in 1..Len(s2c) :
            /\ s2c' = SubSeq(s2c, n + 1, Len(s2c))
            /\ IF tls THEN ClientTlsRead(SubSeq(s2c, 1, n))
                      ELSE UNCHANGED <<ssl_client_, client_writes>>
      BY DEF ClientOnRead
  <1>4. s2c' \in Seq(CellsOf(tls))
      BY <1>3, RestType DEF IInv, WireInv
  <1>5. UNCHANGED <<tls, client, request, c2s, serverVars>>
      BY DEF ClientOnRead
  <1>6. /\ client_writes' \in Seq(WriteOf(tls)) /\ IsClient(ssl_client_')
        /\ ssl_client_'.state \in {"ZERO", "HELLO_DONE", "KEY_EXCHANGE", "READY"}
        /\ tls => ssl_client_'.state # "ZERO"
    <2>1. CASE ~tls
        BY <1>3, <2>1 DEF IInv, WireInv, SslInv
    <2>2. CASE tls
      <3>1. PICK data : data = SubSeq(s2c, 1, n)
          OBVIOUS
      <3>2. ClientTlsRead(data)
          BY <1>3, <2>2, <3>1
      <3>3. tls = TRUE
          BY <2>2 DEF IInv, WireInv
      <3>4. ssl_client_.state \in {"HELLO_DONE", "KEY_EXCHANGE", "READY"}
          BY <2>2 DEF ClientOnRead, IInv, SslInv
      <3>5. CASE ssl_client_.state = "HELLO_DONE"
        <4>1. PICK r : r = RecvServerHello(ssl_client_, data)
            OBVIOUS
        <4>2. ssl_client_' = r.c /\ client_writes' = client_writes \o Queued(r.out)
            BY <3>2, <3>5, <4>1 DEF ClientTlsRead
        <4>3. /\ IsClient(r.c) /\ r.c.state \in {"HELLO_DONE", "KEY_EXCHANGE"}
              /\ r.out \in Seq(Seq(CellsOf(TRUE)))
            BY <3>5, <4>1, ServerHelloType DEF IInv
        <4>4. client_writes' \in Seq(WriteOf(TRUE))
            BY <3>3, <4>2, <4>3, MoreWrites DEF IInv, WireInv
        <4> QED BY <3>3, <4>2, <4>3, <4>4
      <3>6. CASE ssl_client_.state = "KEY_EXCHANGE"
        <4>1. /\ ssl_client_' = HandleSessionTicket(ssl_client_, data)
              /\ client_writes' = IF ssl_client_'.state = "READY"
                                  THEN client_writes \o Queued(<<Wire(request)>>)
                                  ELSE client_writes
            BY <3>2, <3>6 DEF ClientTlsRead
        <4>2. IsClient(ssl_client_') /\ ssl_client_'.state \in {"KEY_EXCHANGE", "READY"}
            BY <3>6, <4>1, TicketType DEF IInv
        <4>3. <<Wire(request)>> \in Seq(Seq(CellsOf(tls)))
          <5>1. Wire(request) \in Seq(CellsOf(tls))
              BY WireType DEF IInv, WireInv
          <5> QED BY <5>1, OneElement
        <4>4. client_writes \o Queued(<<Wire(request)>>) \in Seq(WriteOf(tls))
            BY <4>3, MoreWrites DEF IInv, WireInv
        <4>5. client_writes \in Seq(WriteOf(tls))
            BY DEF IInv, WireInv
        <4> QED BY <4>1, <4>2, <4>4, <4>5
      <3>7. CASE ssl_client_.state = "READY"
        <4>1. PICK x : ssl_client_' = [ssl_client_ EXCEPT !.bio = x] /\ UNCHANGED client_writes
            BY <3>2, <3>7 DEF ClientTlsRead
        <4>2. IsClient(ssl_client_') /\ ssl_client_'.state = "READY"
            BY <3>7, <4>1, ClientDataType DEF IInv
        <4> QED BY <4>1, <4>2 DEF IInv, WireInv
      <3> QED BY <3>4, <3>5, <3>6, <3>7
    <2> QED BY <2>1, <2>2
  <1>7. WireInv'
      BY <1>4, <1>5, <1>6 DEF IInv, WireInv, serverVars
  <1>8. SslInv'
      BY <1>5, <1>6 DEF IInv, SslInv, serverVars
  <1> QED BY <1>2, <1>7, <1>8 DEF IInv

(* The end of the stream changes only what the application is told. *)
LEMMA ClientOnEndInv == ASSUME IInv, ClientOnEnd PROVE IInv'
  <1>1. conns' \in 0..MaxConns /\ conns' >= conns
      BY ExchangeAssumption DEF ClientOnEnd, IInv, SessionInv
  <1>2. AppInv' /\ SessionInv'
      BY <1>1, ServerKept DEF ClientOnEnd, IInv, SessionInv
  <1>3. WireInv'
      BY DEF ClientOnEnd, IInv, WireInv, wireVars, serverVars
  <1>4. SslInv'
      BY DEF ClientOnEnd, IInv, SslInv, serverVars
  <1> QED BY <1>2, <1>3, <1>4 DEF IInv

(* Another client's next request is written like the first one. *)
LEMMA OtherSendsInv == ASSUME IInv, OtherSends PROVE IInv'
  <1>1. conns' \in 0..MaxConns /\ conns' >= conns
      BY ExchangeAssumption DEF OtherSends, IInv, SessionInv
  <1>2. AppInv' /\ SessionInv'
      BY <1>1, ServerKept DEF OtherSends, IInv, SessionInv
  <1>3. PICK line : line = <<Head(request)>>
      OBVIOUS
  <1>4. line \in Seq(CellsOf(FALSE))
    <2>1. request # <<>> /\ request \in Seq(CellsOf(FALSE))
        BY DEF OtherSends, IInv, WireInv, SslInv
    <2>2. Head(request) \in CellsOf(FALSE)
        BY <2>1, HeadTailProperties
    <2> QED BY <1>3, <2>2, OneElement
  <1>5. <<Wire(line)>> \in Seq(Seq(CellsOf(tls)))
      BY <1>4, WireType, OneElement DEF IInv
  <1>6. client_writes' \in Seq(WriteOf(tls))
      BY <1>3, <1>5, QueuedType DEF OtherSends
  <1>7. WireInv'
    <2>1. s2c' \in Seq(CellsOf(tls))
        BY DEF OtherSends
    <2>2. UNCHANGED <<tls, c2s, request, written, server_writes, pieces>>
        BY DEF OtherSends, serverVars
    <2> QED BY <1>6, <2>1, <2>2 DEF IInv, WireInv
  <1>8. SslInv'
      BY DEF OtherSends, IInv, SslInv, serverVars
  <1> QED BY <1>2, <1>7, <1>8 DEF IInv

(* A client that goes leaves the server as it is. *)
LEMMA ClientGoesInv == ASSUME IInv, ClientGoes PROVE IInv'
  <1>1. conns' \in 0..MaxConns /\ conns' >= conns
      BY ExchangeAssumption DEF ClientGoes, IInv, SessionInv
  <1>2. AppInv' /\ SessionInv'
      BY <1>1, ServerKept DEF ClientGoes, IInv, SessionInv
  <1>3. WireInv'
    <2>1. client_writes' \in Seq(WriteOf(tls))
        BY DEF ClientGoes
    <2> QED BY <2>1 DEF ClientGoes, IInv, WireInv, serverVars
  <1>4. SslInv'
      BY DEF ClientGoes, IInv, SslInv, serverVars
  <1> QED BY <1>2, <1>3, <1>4 DEF IInv

(* TcpSession::OnRead behind TLS: the handshake fails and closes only the   *)
(* connection, goes on, or hands the plaintext to HttpSession.              *)
LEMMA ServerTlsReadInv ==
    ASSUME IInv, tls, tcp = "open", NEW data, ServerTlsRead(data),
           tls' = tls, conns' = conns, client' = client, ssl_client_' = ssl_client_,
           request' = request
    PROVE  /\ SslInv' /\ AppInv' /\ SessionInv'
           /\ server_writes' \in Seq(WriteOf(tls)) /\ written' \in Seq(CellsOf(FALSE))
           /\ pieces' \in Seq(Nat)
  <1>1. PICK h : h = Handshake(ssl_, data)
      OBVIOUS
  <1>2. PICK r : r = ServerDataRecv(h.s, data)
      OBVIOUS
  <1>3. /\ IsServer(h.s)
        /\ h.s.state \in {"INIT", "HELLO_DONE", "KEY_EXCHANGE_DONE", "DATA_RECV"}
        /\ h.s.state = "INIT" => ~h.s.finished
        /\ h.out \in Seq(Seq(CellsOf(TRUE)))
        /\ h.ret # 0 => h.out = <<>> /\ ~ssl_.finished
      BY <1>1, HandshakeType DEF IInv
  <1>4. /\ IsServer(r.s)
        /\ r.s.state \in {"INIT", "HELLO_DONE", "KEY_EXCHANGE_DONE", "DATA_RECV"}
        /\ r.s.state = "INIT" => ~r.s.finished
      BY <1>2, <1>3, DataRecvType
  <1>5. tls = TRUE
      BY DEF IInv, WireInv
  <1>6. ASSUME HandshakeFails, ssl_' = ssl_ \/ ssl_' = h.s
        PROVE  /\ SslInv' /\ AppInv' /\ SessionInv'
               /\ server_writes' \in Seq(WriteOf(tls)) /\ written' \in Seq(CellsOf(FALSE))
               /\ pieces' \in Seq(Nat)
    <2>1. /\ failed' /\ tcp' = "closed" /\ server_writes' = <<>>
          /\ UNCHANGED <<http, response_ptr_, session_ptr_map_, handler, made, written, pieces>>
        BY <1>6 DEF HandshakeFails, TcpClose
    <2>2. SslInv'
        BY <1>3, <1>6 DEF IInv, SslInv
    <2>3. AppInv'
        BY <2>1 DEF IInv, AppInv
    <2>4. SessionInv'
        BY <2>1 DEF IInv, SessionInv, TableExact
    <2>5. server_writes' \in Seq(WriteOf(tls))
        BY <2>1
    <2>6. written' \in Seq(CellsOf(FALSE)) /\ pieces' \in Seq(Nat)
        BY <2>1 DEF IInv, WireInv
    <2> QED BY <2>2, <2>3, <2>4, <2>5, <2>6
  <1>7. ASSUME ssl_' = r.s, failed' = failed, server_writes' = server_writes \o Queued(h.out),
               UNCHANGED <<tcp, http, response_ptr_, session_ptr_map_, handler, made, written, pieces>>
        PROVE  /\ SslInv' /\ AppInv' /\ SessionInv'
               /\ server_writes' \in Seq(WriteOf(tls)) /\ written' \in Seq(CellsOf(FALSE))
               /\ pieces' \in Seq(Nat)
    <2>2. SslInv'
        BY <1>4, <1>7 DEF IInv, SslInv
    <2>3. AppInv'
        BY <1>7 DEF IInv, AppInv
    <2>4. SessionInv'
        BY <1>7 DEF IInv, SessionInv, TableExact
    <2>5. server_writes' \in Seq(WriteOf(TRUE))
        BY <1>3, <1>5, <1>7, MoreWrites DEF IInv, WireInv
    <2>6. written' \in Seq(CellsOf(FALSE)) /\ pieces' \in Seq(Nat)
        BY <1>7 DEF IInv, WireInv
    <2> QED BY <1>5, <2>2, <2>3, <2>4, <2>5, <2>6
  <1>8. ASSUME ssl_' = r.s, HttpOnRead(r.plain)
        PROVE  /\ SslInv' /\ AppInv' /\ SessionInv'
               /\ server_writes' \in Seq(WriteOf(tls)) /\ written' \in Seq(CellsOf(FALSE))
               /\ pieces' \in Seq(Nat)
    <2>1. SslInv'
        BY <1>4, <1>8 DEF IInv, SslInv
    <2> QED BY <1>8, <2>1, HttpOnReadInv
  <1>9. \/ HandshakeFails /\ ssl_' = ssl_
        \/ HandshakeFails /\ ssl_' = h.s
        \/ /\ ssl_' = r.s /\ failed' = failed /\ server_writes' = server_writes \o Queued(h.out)
           /\ UNCHANGED <<tcp, http, response_ptr_, session_ptr_map_, handler, made, written, pieces>>
        \/ ssl_' = r.s /\ HttpOnRead(r.plain)
      BY <1>1, <1>2 DEF ServerTlsRead
  <1> QED BY <1>6, <1>7, <1>8, <1>9

(* TcpSession::OnRead, with and without TLS. *)
LEMMA ServerOnReadInv == ASSUME IInv, ServerOnRead PROVE IInv'
  <1>1. PICK n \in 1..Len(c2s) :
            /\ c2s' = SubSeq(c2s, n + 1, Len(c2s))
            /\ IF tls THEN ServerTlsRead(SubSeq(c2s, 1, n))
                      ELSE HttpOnRead(SubSeq(c2s, 1, n)) /\ UNCHANGED <<ssl_, split, failed>>
      BY DEF ServerOnRead
  <1>2. c2s' \in Seq(CellsOf(tls))
      BY <1>1, RestType DEF IInv, WireInv
  <1>3. UNCHANGED <<tls, conns, client, request, ssl_client_, client_writes, s2c>>
      BY DEF ServerOnRead, clientVars
  <1>4. tcp = "open"
      BY DEF ServerOnRead
  <1>5. /\ SslInv' /\ AppInv' /\ SessionInv'
        /\ server_writes' \in Seq(WriteOf(tls)) /\ written' \in Seq(CellsOf(FALSE))
        /\ pieces' \in Seq(Nat)
    <2>1. CASE tls
        BY <1>1, <1>3, <1>4, <2>1, ServerTlsReadInv
    <2>2. CASE ~tls
      <3>1. HttpOnRead(SubSeq(c2s, 1, n)) /\ UNCHANGED <<ssl_, split, failed>>
          BY <1>1, <2>2
      <3>2. /\ AppInv' /\ SessionInv'
            /\ server_writes' \in Seq(WriteOf(tls)) /\ written' \in Seq(CellsOf(FALSE))
            /\ pieces' \in Seq(Nat)
          BY <1>3, <1>4, <3>1, HttpOnReadInv
      <3>3. SslInv'
          BY <1>3, <3>1 DEF IInv, SslInv
      <3> QED BY <3>2, <3>3
    <2> QED BY <2>1, <2>2
  <1>6. WireInv'
      BY <1>2, <1>3, <1>5 DEF IInv, WireInv
  <1> QED BY <1>5, <1>6 DEF IInv

(* A step that closes the session and keeps the rest. *)
LEMMA ClosingStepInv ==
    ASSUME IInv, NEW what, SessionClose(response_ptr_, what),
           UNCHANGED <<tls, conns, client, request, ssl_client_, client_writes,
                       c2s, s2c, ssl_, written, pieces>>,
           handler' \in Seq(Nat), made' \in 0..Len(handler')
    PROVE  IInv'
  <1>1. /\ SessionInv' /\ server_writes' = <<>>
        /\ response_ptr_' # None => response_ptr_' \in Response
      BY SessionCloseInv DEF IInv, AppInv
  <1>2. server_writes' \in Seq(WriteOf(tls))
      BY <1>1
  <1>3. WireInv'
      BY <1>2 DEF IInv, WireInv
  <1>4. SslInv'
      BY DEF IInv, SslInv
  <1>5. AppInv'
      BY <1>1 DEF AppInv
  <1> QED BY <1>1, <1>3, <1>4, <1>5 DEF IInv

(* The end of the stream closes the session. *)
LEMMA ServerOnEndInv == ASSUME IInv, ServerOnEnd PROVE IInv'
  <1>1. SessionClose(response_ptr_, LateWrite(server_writes))
      BY DEF ServerOnEnd
  <1>2. UNCHANGED <<tls, conns, client, request, ssl_client_, client_writes,
                    c2s, s2c, ssl_, written, pieces>>
      BY DEF ServerOnEnd, clientVars
  <1>3. handler' \in Seq(Nat) /\ made' \in 0..Len(handler')
      BY DEF ServerOnEnd, IInv, AppInv
  <1> QED BY <1>1, <1>2, <1>3, ClosingStepInv

(* The socket takes what the server wrote. *)
LEMMA ServerTakesInv == ASSUME IInv, ServerTakes PROVE IInv'
  <1>1. PICK i \in DOMAIN server_writes :
            /\ server_writes' = [server_writes EXCEPT ![i].done = TRUE]
            /\ s2c' = IF again THEN s2c ELSE s2c \o server_writes[i].cells
      BY DEF ServerTakes
  <1>2. i \in 1..Len(server_writes)
      BY LenProperties DEF IInv, WireInv
  <1>3. server_writes' \in Seq(WriteOf(tls)) /\ server_writes[i].cells \in Seq(CellsOf(tls))
      BY <1>1, <1>2, TakenType DEF IInv, WireInv
  <1>4. s2c' \in Seq(CellsOf(tls))
      BY <1>1, <1>3, ConcatProperties DEF IInv, WireInv
  <1>5. WireInv'
      BY <1>3, <1>4 DEF ServerTakes, IInv, WireInv, clientVars
  <1>6. SslInv'
      BY DEF ServerTakes, IInv, SslInv, clientVars
  <1>7. AppInv'
      BY DEF ServerTakes, IInv, AppInv
  <1>8. SessionInv'
      BY DEF ServerTakes, IInv, SessionInv, TableExact, clientVars
  <1> QED BY <1>5, <1>6, <1>7, <1>8 DEF IInv

(* OnWrite closes the session, or counts what was written. *)
LEMMA ServerOnWriteInv == ASSUME IInv, ServerOnWrite PROVE IInv'
  <1> DEFINE w      == Head(server_writes)
             left   == Tail(server_writes)
             remain == response_ptr_.remain - Len(w.cells)
  <1>1. UNCHANGED <<tls, conns, client, request, ssl_client_, client_writes,
                    c2s, s2c, ssl_, written, pieces>>
      BY DEF ServerOnWrite, clientVars
  <1>2. handler' \in Seq(Nat) /\ made' \in 0..Len(handler')
      BY DEF ServerOnWrite, IInv, AppInv
  <1>3. server_writes # <<>> /\ tcp = "open" /\ UNCHANGED <<handler, made, failed>>
      BY DEF ServerOnWrite
  <1>4. w \in WriteOf(tls) /\ left \in Seq(WriteOf(tls))
      BY <1>3, HeadTailProperties DEF IInv, WireInv
  <1>5. ASSUME NEW what, SessionClose(response_ptr_, what) PROVE IInv'
      BY <1>1, <1>2, <1>5, ClosingStepInv
  <1>6. ASSUME server_writes' = left, response_ptr_' # None => response_ptr_' \in Response,
               UNCHANGED <<http, tcp, s2c_end, session_ptr_map_, ub>>
        PROVE  IInv'
    <2>1. WireInv'
        BY <1>1, <1>4, <1>6 DEF IInv, WireInv
    <2>2. SslInv'
        BY <1>1 DEF IInv, SslInv
    <2>3. AppInv'
        BY <1>2, <1>6 DEF AppInv
    <2>4. SessionInv'
        BY <1>1, <1>3, <1>6 DEF IInv, SessionInv, TableExact
    <2> QED BY <2>1, <2>2, <2>3, <2>4 DEF IInv
  <1>7. CASE SessionClose(response_ptr_, "failed_write")
      BY <1>5, <1>7
  <1>8. CASE SessionClose(response_ptr_, LateWrite(left))
      BY <1>5, <1>8
  <1>9. CASE /\ response_ptr_ # None /\ server_writes' = left
             /\ response_ptr_' = [response_ptr_ EXCEPT !.remain = remain]
             /\ UNCHANGED <<http, tcp, s2c_end, session_ptr_map_, ub>>
    <2>1. response_ptr_ \in Response
        BY <1>9 DEF IInv, AppInv
    <2>2. Len(w.cells) \in Nat
        BY <1>4, LenProperties DEF WriteOf
    <2>3. remain \in Int
        BY <2>1, <2>2 DEF Response
    <2>4. response_ptr_' \in Response
        BY <1>9, <2>1, <2>3 DEF Response
    <2> QED BY <1>6, <1>9, <2>4
  <1>10. CASE server_writes' = left /\ UNCHANGED <<response_ptr_, http, tcp, s2c_end, session_ptr_map_, ub>>
      BY <1>6, <1>10 DEF IInv, AppInv
  <1> QED BY <1>7, <1>8, <1>9, <1>10 DEF ServerOnWrite

(* Another Write of the application. *)
LEMMA AppWritesInv == ASSUME IInv, AppWrites PROVE IInv'
  <1>1. PICK n, continue : n = handler[made + 1] /\ continue = (made + 1 < Len(handler))
      OBVIOUS
  <1>2. Write(response_ptr_, n, continue)
      BY <1>1 DEF AppWrites
  <1>3. /\ made \in Nat /\ Len(handler) \in Nat /\ made < Len(handler)
        /\ made' = made + 1 /\ handler' = handler
      BY DEF AppWrites, IInv, AppInv
  <1>4. n \in Nat /\ continue \in BOOLEAN
    <2>1. made + 1 \in 1..Len(handler)
        BY <1>3
    <2>2. handler[made + 1] \in Nat
        BY <2>1, ElementOfSeq DEF IInv, AppInv
    <2>3. (made + 1 < Len(handler)) \in BOOLEAN
        BY <1>3
    <2> QED BY <1>1, <2>2, <2>3
  <1>5. response_ptr_ \in Response
      BY DEF AppWrites, IInv, AppInv
  <1>6. /\ response_ptr_' \in Response /\ response_ptr_'.is_close = response_ptr_.is_close
        /\ server_writes' \in Seq(WriteOf(tls)) /\ written' \in Seq(CellsOf(FALSE))
        /\ pieces' \in Seq(Nat)
      BY <1>2, <1>4, <1>5, WriteType DEF IInv
  <1>7. WireInv'
      BY <1>6 DEF AppWrites, IInv, WireInv, clientVars, wireVars
  <1>8. SslInv'
      BY DEF AppWrites, IInv, SslInv, clientVars
  <1>9. AppInv'
      BY <1>3, <1>6 DEF IInv, AppInv
  <1>10. SessionInv'
    <2>1. UNCHANGED <<tls, conns, client, session_ptr_map_, tcp, http, failed>>
        BY DEF AppWrites, clientVars
    <2>2. response_ptr_ # None
        BY DEF AppWrites
    <2> QED BY <1>6, <2>1, <2>2 DEF IInv, SessionInv, TableExact
  <1> QED BY <1>7, <1>8, <1>9, <1>10 DEF IInv

(* The application writes to a response it has kept. *)
LEMMA AppUsesKeptInv == ASSUME IInv, AppUsesKept PROVE IInv'
  <1>1. PICK r : r = [NewResponse EXCEPT !.written_header = (kept = "begun")]
      OBVIOUS
  <1>2. [i \in DOMAIN Parts(r, 1, FALSE) |-> Wire(Parts(r, 1, FALSE)[i])] \in Seq(Seq(CellsOf(tls)))
      BY PartsType DEF IInv
  <1>3. server_writes \o Requested(Parts(r, 1, FALSE)) \in Seq(WriteOf(tls))
      BY <1>2, MoreWrites DEF Requested, IInv, WireInv
  <1>4. server_writes' = server_writes \/ server_writes' = server_writes \o Requested(Parts(r, 1, FALSE))
      BY <1>1 DEF AppUsesKept
  <1>5. WireInv'
      BY <1>3, <1>4 DEF AppUsesKept, IInv, WireInv, clientVars, wireVars
  <1>6. SslInv' /\ AppInv'
      BY DEF AppUsesKept, IInv, SslInv, AppInv, clientVars
  <1>7. SessionInv'
      BY DEF AppUsesKept, IInv, SessionInv, TableExact, clientVars
  <1> QED BY <1>5, <1>6, <1>7 DEF IInv

(* HttpResponse::Close closes the session. *)
LEMMA AppClosesInv == ASSUME IInv, AppCloses PROVE IInv'
  <1>1. SessionClose(response_ptr_, IF server_writes = <<>> THEN None ELSE "late_write_of_closed")
      BY DEF AppCloses
  <1>2. UNCHANGED <<tls, conns, client, request, ssl_client_, client_writes,
                    c2s, s2c, ssl_, written, pieces>>
      BY DEF AppCloses, clientVars
  <1>3. handler' \in Seq(Nat) /\ made' \in 0..Len(handler')
      BY DEF AppCloses
  <1> QED BY <1>1, <1>2, <1>3, ClosingStepInv

(* Every step keeps the inductive invariant. *)
LEMMA StepInv == IInv /\ [Next]_vars => IInv'
  <1> SUFFICES ASSUME IInv, [Next]_vars PROVE IInv'
      OBVIOUS
  <1>1. CASE UNCHANGED vars
    <2>1. WireInv' /\ SslInv' /\ AppInv'
        BY <1>1 DEF IInv, WireInv, SslInv, AppInv, vars, clientVars, wireVars, serverVars
    <2>2. SessionInv'
        BY <1>1 DEF IInv, SessionInv, TableExact, vars, clientVars, wireVars, serverVars
    <2> QED BY <2>1, <2>2 DEF IInv
  <1>2. CASE Connect \/ ConnectFails \/ OnAccept \/ ClientOnConnect
      BY <1>2, ConnectInv, ConnectFailsInv, OnAcceptInv, ClientOnConnectInv
  <1>3. CASE ClientTakes \/ ClientOnWrite \/ ClientOnRead \/ ClientOnEnd \/ OtherSends \/ ClientGoes
      BY <1>3, ClientTakesInv, ClientOnWriteInv, ClientOnReadInv, ClientOnEndInv, OtherSendsInv,
         ClientGoesInv
  <1>4. CASE ServerOnRead \/ ServerOnEnd \/ ServerTakes \/ ServerOnWrite
      BY <1>4, ServerOnReadInv, ServerOnEndInv, ServerTakesInv, ServerOnWriteInv
  <1>5. CASE AppWrites \/ AppUsesKept \/ AppCloses
      BY <1>5, AppWritesInv, AppUsesKeptInv, AppClosesInv
  <1> QED BY <1>1, <1>2, <1>3, <1>4, <1>5 DEF Next

(* The inductive invariant holds in every reachable state. *)
LEMMA Invariant == Spec => []IInv
  <1> QED BY InitInv, StepInv, PTL DEF Spec

(* Types, for any requests and handlers; and without TLS neither side ever  *)
(* puts a TLS record or a flight on the wire: Wire and OnConnect of both    *)
(* sides agree about ssl_enable_.                                           *)
THEOREM TypeCorrect == Spec => []TypeOK
  <1>1. IInv => TypeOK
    <2> SUFFICES ASSUME IInv PROVE TypeOK
        OBVIOUS
    <2>1. \A s \in Seq(CellsOf(tls)) : \A c \in Range(s) : c \in CellsOf(tls)
        BY RangeOfSeq
    <2>2. \A c \in OnWire : c \in CellsOf(tls)
        BY <2>1 DEF OnWire, IInv, WireInv
    <2>3. \A c \in OnWire : c.k \in IF tls THEN HttpCells \union TlsCells ELSE HttpCells
        BY <2>2 DEF CellsOf, KindsOf
    <2> QED BY <2>3 DEF TypeOK, IInv, SslInv, AppInv, SessionInv
  <1> QED BY <1>1, Invariant, PTL

(* For any number of clients from one endpoint, however their reads, writes *)
(* and ends interleave: session_ptr_map_ holds a session exactly while it   *)
(* is open, and only a TLS handshake that fails leaves an open session with *)
(* a closed connection.                                                     *)
THEOREM TableIsExact == Spec => []TableExact
  <1>1. IInv => TableExact
      BY DEF IInv, SessionInv
  <1> QED BY <1>1, Invariant, PTL
------------------------------------------------------------------------------------------------------------------------------------------------------------
(* The second part: SafeCallbacks in full.  While the client is there, what *)
(* is on its way and what remain_bytes_ counts are known exactly.           *)

(* What a write request has besides the plaintext. *)
Over(t) == IF t THEN 1 ELSE 0
Size(t, w) == Len(w.cells) - Over(t)

(* The sizes of ws add up to total: s[i] is the sum from i on.  (The sum is *)
(* given by a witness, since what a recursive sum computes is out of the    *)
(* provers' reach; each s[i] is at least the last size.)                    *)
IsSums(t, ws, s) ==
    /\ s[Len(ws) + 1] = 0
    /\ \A i \in 1..Len(ws) : /\ s[i] = s[i + 1] + Size(t, ws[i])
                             /\ s[i] >= Size(t, ws[Len(ws)])
Sums(t, ws, total) ==
    \E s \in [1..Len(ws) + 1 -> Nat] : IsSums(t, ws, s) /\ s[1] = total

(* By how much remain_bytes_ is too small: by the overhead of the write     *)
(* requests called back so far, of one for the header and one per piece.    *)
Lag(t, ws, p) == IF t THEN 1 + Len(p) - Len(ws) ELSE 0

(* The write requests ws are the last of those made for the header and the  *)
(* pieces p, and remain_bytes_ with its lag is the sum of their sizes.      *)
Accounted(t, ws, remain, p) ==
    /\ Len(ws) <= 1 + Len(p)
    /\ \A i \in 1..Len(ws) : Size(t, ws[i]) >= 1
    /\ Len(ws) > 0 /\ p # <<>> => Size(t, ws[Len(ws)]) = p[Len(p)]
    /\ Sums(t, ws, remain + Lag(t, ws, p))

(* Sizes are numbers. *)
LEMMA SizeType ==
    ASSUME NEW t \in BOOLEAN, NEW w \in WriteOf(t)
    PROVE  Size(t, w) \in Int /\ Len(w.cells) \in Nat /\ Size(t, w) = Len(w.cells) - Over(t)
  <1>1. Len(w.cells) \in Nat
      BY LenProperties DEF WriteOf
  <1> QED BY <1>1 DEF Size, Over

(* More write requests behind those there are. *)
LEMMA SumsConcat ==
    ASSUME NEW t \in BOOLEAN, NEW p \in Seq(WriteOf(t)), NEW q \in Seq(WriteOf(t)), q # <<>>,
           NEW a \in Int, Sums(t, p, a), NEW b \in Int, Sums(t, q, b)
    PROVE  Sums(t, p \o q, a + b)
  <1>1. PICK s \in [1..Len(p) + 1 -> Nat] : IsSums(t, p, s) /\ s[1] = a
      BY DEF Sums
  <1>2. PICK u \in [1..Len(q) + 1 -> Nat] : IsSums(t, q, u) /\ u[1] = b
      BY DEF Sums
  <1>3. PICK m, k, w : m = Len(p) /\ k = Len(q) /\ w = p \o q
      OBVIOUS
  <1>4. m \in Nat /\ k \in Nat /\ k >= 1
      BY <1>3
  <1>5. /\ w \in Seq(WriteOf(t)) /\ Len(w) = m + k
        /\ \A i \in 1..m + k : w[i] = IF i <= m THEN p[i] ELSE q[i - m]
      BY <1>3, ConcatProperties
  <1>6. PICK r : r = [i \in 1..m + k + 1 |-> IF i <= m THEN s[i] + b ELSE u[i - m]]
      OBVIOUS
  <1>7. /\ s \in [1..m + 1 -> Nat] /\ s[m + 1] = 0
        /\ \A i \in 1..m : s[i] = s[i + 1] + Size(t, p[i])
      BY <1>1, <1>3 DEF IsSums
  <1>8. /\ u \in [1..k + 1 -> Nat] /\ u[k + 1] = 0
        /\ \A i \in 1..k : u[i] = u[i + 1] + Size(t, q[i]) /\ u[i] >= Size(t, q[k])
      BY <1>2, <1>3 DEF IsSums
  <1>9. b \in Nat
      BY <1>2, <1>4, <1>8
  <1>10. ASSUME NEW i \in 1..m + k + 1
         PROVE  /\ i <= m => i \in 1..m /\ i \in 1..m + 1 /\ s[i] \in Nat /\ r[i] = s[i] + b
                /\ i > m => i - m \in 1..k + 1 /\ u[i - m] \in Nat /\ r[i] = u[i - m]
                /\ r[i] \in Nat
    <2>1. CASE i <= m
      <3>1. i \in 1..m /\ i \in 1..m + 1
          BY <1>4, <2>1
      <3>2. s[i] \in Nat
          BY <1>7, <3>1
      <3>3. r[i] = s[i] + b
          BY <1>6, <2>1
      <3> QED BY <1>4, <1>9, <2>1, <3>1, <3>2, <3>3
    <2>2. CASE i > m
      <3>1. i - m \in 1..k + 1 /\ ~(i <= m)
          BY <1>4, <2>2
      <3>2. u[i - m] \in Nat
          BY <1>8, <3>1
      <3>3. r[i] = u[i - m]
          BY <1>6, <3>1
      <3> QED BY <3>1, <3>2, <3>3
    <2> QED BY <1>4, <2>1, <2>2
  <1>11. r \in [1..m + k + 1 -> Nat]
    <2>1. r = [i \in 1..m + k + 1 |-> r[i]]
        BY <1>6
    <2> QED BY <1>10, <2>1
  <1>12. r[m + 1] = b
    <2>1. PICK i : i = m + 1
        OBVIOUS
    <2>2. i \in 1..m + k + 1 /\ i > m /\ i - m = 1
        BY <1>4, <2>1
    <2>3. r[i] = u[i - m]
        BY <1>10, <2>2
    <2> QED BY <1>2, <2>1, <2>2, <2>3
  <1>13. r[1] = a + b
    <2>1. CASE m = 0
      <3>1. s[1] = 0
          BY <1>7, <2>1
      <3> QED BY <1>1, <1>9, <1>12, <2>1, <3>1
    <2>2. CASE m > 0
      <3>1. 1 \in 1..m + k + 1 /\ 1 <= m
          BY <1>4, <2>2
      <3> QED BY <1>1, <1>10, <3>1
    <2> QED BY <1>4, <2>1, <2>2
  <1>14. Size(t, w[m + k]) = Size(t, q[k])
    <2>1. PICK i : i = m + k
        OBVIOUS
    <2>2. i \in 1..m + k /\ ~(i <= m) /\ i - m = k
        BY <1>4, <2>1
    <2>3. w[i] = q[i - m]
        BY <1>5, <2>2
    <2> QED BY <2>1, <2>2, <2>3
  <1>15. b >= Size(t, q[k])
    <2>1. 1 \in 1..k
        BY <1>4
    <2> QED BY <1>2, <1>8, <2>1
  <1>16. Size(t, q[k]) \in Int
    <2>1. k \in 1..k /\ q[k] \in WriteOf(t)
        BY <1>3, <1>4, ElementOfSeq
    <2> QED BY <2>1, SizeType
  <1>17. ASSUME NEW i \in 1..m + k
         PROVE  r[i] = r[i + 1] + Size(t, w[i]) /\ r[i] >= Size(t, q[k])
    <2>1. i \in 1..m + k + 1 /\ i + 1 \in 1..m + k + 1
        BY <1>4
    <2>2. CASE i <= m
      <3>1. i \in 1..m /\ s[i] \in Nat /\ r[i] = s[i] + b
          BY <1>10, <2>1, <2>2
      <3>2. w[i] = p[i] /\ Size(t, p[i]) \in Int
        <4>1. p[i] \in WriteOf(t)
            BY <1>3, <3>1, ElementOfSeq
        <4> QED BY <1>5, <2>2, <4>1, SizeType
      <3>3. r[i + 1] = s[i + 1] + b /\ s[i + 1] \in Nat
        <4>1. CASE i = m
          <5>1. r[i + 1] = b /\ s[i + 1] = 0
              BY <1>7, <1>12, <4>1
          <5> QED BY <1>9, <5>1
        <4>2. CASE i < m
          <5>1. i + 1 <= m
              BY <1>4, <4>2
          <5> QED BY <1>10, <2>1, <5>1
        <4> QED BY <1>4, <2>2, <4>1, <4>2
      <3>4. s[i] = s[i + 1] + Size(t, p[i])
          BY <1>7, <3>1
      <3>5. r[i] = r[i + 1] + Size(t, w[i])
          BY <1>9, <3>1, <3>2, <3>3, <3>4
      <3> QED BY <1>9, <1>15, <1>16, <3>1, <3>5
    <2>3. CASE i > m
      <3>1. PICK j : j = i - m
          OBVIOUS
      <3>2. j \in 1..k /\ j + 1 = i + 1 - m /\ i + 1 > m /\ ~(i <= m)
          BY <1>4, <2>3, <3>1
      <3>3. r[i] = u[j] /\ r[i + 1] = u[j + 1] /\ w[i] = q[j]
        <4>1. r[i] = u[i - m] /\ w[i] = q[i - m]
            BY <1>5, <1>10, <2>1, <2>3, <3>2
        <4>2. PICK l : l = i + 1
            OBVIOUS
        <4>3. l \in 1..m + k + 1 /\ l > m /\ l - m = j + 1
            BY <1>4, <2>1, <2>3, <3>1, <3>2, <4>2
        <4>4. r[l] = u[l - m]
            BY <1>10, <4>3
        <4> QED BY <3>1, <4>1, <4>2, <4>3, <4>4
      <3> QED BY <1>8, <3>2, <3>3
    <2> QED BY <1>4, <2>2, <2>3
  <1>18. r[m + k + 1] = 0
    <2>1. PICK i : i = m + k + 1
        OBVIOUS
    <2>2. i \in 1..m + k + 1 /\ i > m /\ i - m = k + 1
        BY <1>4, <2>1
    <2>3. r[i] = u[i - m]
        BY <1>10, <2>2
    <2> QED BY <1>8, <2>1, <2>2, <2>3
  <1>19. IsSums(t, w, r)
      BY <1>5, <1>14, <1>17, <1>18 DEF IsSums
  <1>20. Sums(t, w, a + b)
    <2>1. r \in [1..Len(w) + 1 -> Nat]
        BY <1>5, <1>11
    <2> QED BY <1>13, <1>19, <2>1 DEF Sums
  <1> QED BY <1>3, <1>20

(* One write request. *)
LEMMA SumsOne ==
    ASSUME NEW t \in BOOLEAN, NEW w \in WriteOf(t), Size(t, w) >= 1
    PROVE  Sums(t, <<w>>, Size(t, w))
  <1>1. PICK z, s : z = Size(t, w) /\ s = [i \in 1..2 |-> IF i = 1 THEN z ELSE 0]
      OBVIOUS
  <1>2. z \in Nat /\ z >= 1
      BY <1>1, SizeType
  <1>3. s \in [1..2 -> Nat] /\ s[1] = z /\ s[2] = 0
      BY <1>1, <1>2
  <1>4. PICK ws : ws = <<w>>
      OBVIOUS
  <1>5. Len(ws) = 1 /\ ws[1] = w /\ Len(ws) + 1 = 2 /\ \A i \in 1..Len(ws) : i = 1
      BY <1>4
  <1>6. s[1] = s[2] + Size(t, ws[1]) /\ s[1] >= Size(t, ws[1])
      BY <1>1, <1>2, <1>3, <1>5
  <1>7. IsSums(t, ws, s)
      BY <1>3, <1>5, <1>6 DEF IsSums
  <1>8. Sums(t, ws, z)
      BY <1>3, <1>5, <1>7 DEF Sums
  <1> QED BY <1>1, <1>4, <1>8

(* The write request in front is called back. *)
LEMMA SumsTail ==
    ASSUME NEW t \in BOOLEAN, NEW ws \in Seq(WriteOf(t)), ws # <<>>,
           NEW total \in Int, Sums(t, ws, total)
    PROVE  /\ Sums(t, Tail(ws), total - Size(t, ws[1]))
           /\ Len(ws) > 1 => total - Size(t, ws[1]) >= Size(t, ws[Len(ws)])
  <1>1. PICK s \in [1..Len(ws) + 1 -> Nat] : IsSums(t, ws, s) /\ s[1] = total
      BY DEF Sums
  <1>2. PICK m, q : m = Len(ws) - 1 /\ q = Tail(ws)
      OBVIOUS
  <1>3. /\ m \in Nat /\ Len(ws) = m + 1 /\ Len(q) = m /\ q \in Seq(WriteOf(t))
        /\ \A i \in 1..m : q[i] = ws[i + 1]
      BY <1>2, HeadTailProperties
  <1>4. PICK r : r = [i \in 1..m + 1 |-> s[i + 1]]
      OBVIOUS
  <1>5. s \in [1..m + 2 -> Nat] /\ s[m + 2] = 0
    <2>1. m + 1 + 1 = m + 2
        BY <1>3
    <2> QED BY <1>1, <1>3, <2>1 DEF IsSums
  <1>6. r \in [1..m + 1 -> Nat] /\ r[m + 1] = 0 /\ r[1] = s[2]
      BY <1>3, <1>4, <1>5
  <1>7. \A i \in 1..m + 1 : s[i] = s[i + 1] + Size(t, ws[i]) /\ s[i] >= Size(t, ws[m + 1])
      BY <1>1, <1>3 DEF IsSums
  <1>8. Size(t, ws[1]) \in Int
      BY <1>3, SizeType, ElementOfSeq
  <1>9. r[1] = total - Size(t, ws[1])
      BY <1>1, <1>3, <1>5, <1>6, <1>7, <1>8
  <1>10. \A i \in 1..m : r[i] = r[i + 1] + Size(t, q[i]) /\ r[i] >= Size(t, ws[m + 1])
      BY <1>3, <1>4, <1>7
  <1>11. \A i \in 1..m : r[i] >= Size(t, q[m])
      BY <1>3, <1>10
  <1>12. IsSums(t, q, r)
      BY <1>3, <1>6, <1>10, <1>11 DEF IsSums
  <1>13. Sums(t, q, total - Size(t, ws[1]))
      BY <1>3, <1>6, <1>9, <1>12 DEF Sums
  <1>14. Len(ws) > 1 => r[1] >= Size(t, ws[Len(ws)])
      BY <1>3, <1>10
  <1> QED BY <1>2, <1>9, <1>13, <1>14

------------------------------------------------------------------------------
(* The header is queued: two cells and the overhead. *)
LEMMA AccountHeader ==
    ASSUME NEW t \in BOOLEAN, NEW w \in WriteOf(t), Size(t, w) = 2
    PROVE  Accounted(t, <<w>>, 2, <<>>)
  <1>1. PICK ws, none : ws = <<w>> /\ none = <<>>
      OBVIOUS
  <1>2. ws \in Seq(WriteOf(t)) /\ Len(ws) = 1 /\ ws[1] = w /\ Len(none) = 0
      BY <1>1
  <1>3. Sums(t, ws, 2)
      BY <1>1, SumsOne
  <1>4. 2 + Lag(t, ws, none) = 2
      BY <1>2 DEF Lag
  <1>5. Sums(t, ws, 2 + Lag(t, ws, none))
      BY <1>3, <1>4
  <1>6. /\ Len(ws) <= 1 + Len(none)
        /\ \A i \in 1..Len(ws) : Size(t, ws[i]) >= 1
    <2>1. \A i \in 1..Len(ws) : i = 1
        BY <1>2
    <2> QED BY <1>2, <2>1
  <1>7. Accounted(t, ws, 2, none)
      BY <1>1, <1>5, <1>6 DEF Accounted
  <1> QED BY <1>1, <1>7

(* The pieces l of a Write are queued behind what is left. *)
LEMMA AccountPieces ==
    ASSUME NEW t \in BOOLEAN, NEW ws \in Seq(WriteOf(t)), NEW remain \in Int, NEW p \in Seq(Nat),
           Accounted(t, ws, remain, p),
           NEW q \in Seq(WriteOf(t)), NEW l \in Seq(Nat), Len(q) = Len(l), l # <<>>,
           \A i \in 1..Len(l) : Size(t, q[i]) = l[i] /\ l[i] >= 1,
           NEW k \in Int, Sums(t, q, k)
    PROVE  Accounted(t, ws \o q, remain + k, p \o l)
  <1>1. PICK m, c, d, qq, pp : m = Len(ws) /\ c = Len(p) /\ d = Len(l) /\ qq = ws \o q /\ pp = p \o l
      OBVIOUS
  <1>2. m \in Nat /\ c \in Nat /\ d \in Nat /\ d >= 1 /\ q # <<>>
      BY <1>1
  <1>3. /\ qq \in Seq(WriteOf(t)) /\ Len(qq) = m + d
        /\ \A i \in 1..m + d : qq[i] = IF i <= m THEN ws[i] ELSE q[i - m]
    <2>1. /\ qq \in Seq(WriteOf(t)) /\ Len(qq) = Len(ws) + Len(q)
          /\ \A i \in 1..Len(ws) + Len(q) : qq[i] = IF i <= Len(ws) THEN ws[i] ELSE q[i - Len(ws)]
        BY <1>1, ConcatProperties
    <2>2. Len(q) = d
        BY <1>1
    <2> QED BY <1>1, <2>1, <2>2
  <1>4. /\ pp \in Seq(Nat) /\ Len(pp) = c + d
        /\ \A i \in 1..c + d : pp[i] = IF i <= c THEN p[i] ELSE l[i - c]
      BY <1>1, ConcatProperties
  <1>5. m <= 1 + c /\ (\A i \in 1..m : Size(t, ws[i]) >= 1) /\ Sums(t, ws, remain + Lag(t, ws, p))
      BY <1>1 DEF Accounted
  <1>6. \A i \in 1..Len(qq) : Size(t, qq[i]) >= 1
    <2> SUFFICES ASSUME NEW i \in 1..m + d PROVE Size(t, qq[i]) >= 1
        BY <1>3
    <2>1. CASE i <= m
      <3>1. i \in 1..m /\ qq[i] = ws[i]
          BY <1>2, <1>3, <2>1
      <3> QED BY <1>5, <3>1
    <2>2. CASE ~(i <= m)
      <3>1. i - m \in 1..d /\ qq[i] = q[i - m]
          BY <1>2, <1>3, <2>2
      <3> QED BY <1>1, <3>1
    <2> QED BY <2>1, <2>2
  <1>7. Size(t, qq[Len(qq)]) = pp[Len(pp)]
    <2>1. PICK i, j : i = m + d /\ j = c + d
        OBVIOUS
    <2>2. i \in 1..m + d /\ ~(i <= m) /\ i - m = d /\ j \in 1..c + d /\ ~(j <= c) /\ j - c = d
        BY <1>2, <2>1
    <2>3. qq[i] = q[i - m] /\ pp[j] = l[j - c]
        BY <1>3, <1>4, <2>2
    <2>4. d \in 1..Len(l)
        BY <1>1, <1>2
    <2> QED BY <1>3, <1>4, <2>1, <2>2, <2>3, <2>4
  <1>8. Lag(t, ws, p) \in Int /\ Lag(t, qq, pp) = Lag(t, ws, p)
    <2>1. CASE t
      <3>1. Lag(t, ws, p) = 1 + c - m /\ Lag(t, qq, pp) = 1 + (c + d) - (m + d)
          BY <1>1, <1>3, <1>4, <2>1 DEF Lag
      <3> QED BY <1>2, <3>1
    <2>2. CASE ~t
        BY <2>2 DEF Lag
    <2> QED BY <2>1, <2>2
  <1>9. PICK total : total = remain + Lag(t, ws, p)
      OBVIOUS
  <1>10. total \in Int /\ Sums(t, ws, total)
      BY <1>5, <1>8, <1>9
  <1>11. Sums(t, qq, total + k)
      BY <1>1, <1>2, <1>10, SumsConcat
  <1>12. (remain + k) + Lag(t, qq, pp) = total + k
      BY <1>8, <1>9
  <1>13. Sums(t, qq, (remain + k) + Lag(t, qq, pp))
      BY <1>11, <1>12
  <1>14. Len(qq) <= 1 + Len(pp)
      BY <1>2, <1>3, <1>4, <1>5
  <1>15. Accounted(t, qq, remain + k, pp)
      BY <1>6, <1>7, <1>13, <1>14 DEF Accounted
  <1> QED BY <1>1, <1>15

(* OnWrite of the request in front: remain_bytes_ goes down by all of it.   *)
(* What remains is more than nothing while another request is left, unless  *)
(* the overheads of those called back come to the last size.                *)
LEMMA AccountTail ==
    ASSUME NEW t \in BOOLEAN, NEW ws \in Seq(WriteOf(t)), NEW remain \in Int,
           NEW p \in Seq(Nat), ws # <<>>, Accounted(t, ws, remain, p)
    PROVE  /\ Accounted(t, Tail(ws), remain - Len(ws[1].cells), p)
           /\ Tail(ws) # <<>> /\ remain - Len(ws[1].cells) <= 0 =>
                  t /\ p # <<>> /\ p[Len(p)] <= Len(p)
  <1>1. PICK q, m, c, z, k : q = Tail(ws) /\ m = Len(ws) /\ c = Len(p)
                             /\ z = Size(t, ws[1]) /\ k = Len(ws[1].cells)
      OBVIOUS
  <1>2. /\ q \in Seq(WriteOf(t)) /\ Len(q) = m - 1
        /\ \A i \in 1..m - 1 : q[i] = ws[i + 1]
        /\ m \in Nat /\ m >= 1
      BY <1>1, HeadTailProperties
  <1>3. c \in Nat /\ (c >= 1 => p # <<>>)
      BY <1>1
  <1>4. k \in Nat /\ z = k - Over(t) /\ z \in Int
    <2>1. 1 \in 1..m /\ ws[1] \in WriteOf(t)
        BY <1>1, <1>2, ElementOfSeq
    <2> QED BY <1>1, <2>1, SizeType
  <1>5. Lag(t, ws, p) \in Int /\ Lag(t, q, p) = Lag(t, ws, p) + Over(t)
      BY <1>1, <1>2, <1>3 DEF Lag, Over
  <1>6. PICK total : total = remain + Lag(t, ws, p)
      OBVIOUS
  <1>7. total \in Int /\ Sums(t, ws, total)
      BY <1>5, <1>6 DEF Accounted
  <1>8. /\ Sums(t, q, total - z)
        /\ m > 1 => total - z >= Size(t, ws[m])
      BY <1>1, <1>7, SumsTail
  <1>9. (remain - k) + Lag(t, q, p) = total - z
      BY <1>4, <1>5, <1>6 DEF Over
  <1>10. Sums(t, q, (remain - k) + Lag(t, q, p))
      BY <1>8, <1>9
  <1>11. /\ m <= 1 + c
         /\ \A i \in 1..m : Size(t, ws[i]) >= 1
         /\ p # <<>> => Size(t, ws[m]) = p[c]
      BY <1>1, <1>2 DEF Accounted
  <1>12. Accounted(t, q, remain - k, p)
    <2>1. Len(q) <= 1 + Len(p)
        BY <1>1, <1>2, <1>3, <1>11
    <2>2. \A i \in 1..Len(q) : Size(t, q[i]) >= 1
        BY <1>2, <1>11
    <2>3. Len(q) > 0 /\ p # <<>> => Size(t, q[Len(q)]) = p[Len(p)]
      <3>1. Len(q) > 0 => q[Len(q)] = ws[m]
          BY <1>2
      <3> QED BY <1>1, <1>11, <3>1
    <2> QED BY <1>10, <2>1, <2>2, <2>3 DEF Accounted
  <1>13. ASSUME q # <<>>, remain - k <= 0
         PROVE  t /\ p # <<>> /\ p[Len(p)] <= Len(p)
    <2>1. m > 1
        BY <1>2, <1>13
    <2>2. PICK last : last = Size(t, ws[m])
        OBVIOUS
    <2>3. last \in Int /\ last >= 1 /\ total - z >= last
      <3>1. m \in 1..m /\ ws[m] \in WriteOf(t)
          BY <1>1, <1>2, ElementOfSeq
      <3> QED BY <1>8, <1>11, <2>1, <2>2, <3>1, SizeType
    <2>4. t
      <3>1. CASE ~t
        <4>1. Lag(t, ws, p) = 0 /\ z = k
            BY <1>4, <3>1 DEF Lag, Over
        <4> QED BY <1>4, <1>6, <1>13, <2>3, <4>1
      <3> QED BY <3>1
    <2>5. last <= c
      <3>1. Lag(t, ws, p) = 1 + c - m /\ z = k - 1
          BY <1>1, <1>4, <2>4 DEF Lag, Over
      <3> QED BY <1>2, <1>3, <1>4, <1>6, <1>13, <2>1, <2>3, <3>1
    <2>6. p # <<>>
        BY <1>2, <1>3, <1>11, <2>1
    <2> QED BY <1>1, <1>11, <2>2, <2>4, <2>5, <2>6
  <1> QED BY <1>1, <1>12, <1>13

------------------------------------------------------------------------------
(* The response as HttpSession has it between header and end: nothing is    *)
(* queued before the header, and then remain_bytes_ is Accounted; the last  *)
(* Write is the one without the continue flag.                              *)
Answering(t, ws, r, p, h, n) ==
    /\ ~r.is_close
    /\ r.written_header => /\ Accounted(t, ws, r.remain, p)
                           /\ ~r.continue_flag => n = Len(h)
    /\ ~r.written_header => ws = <<>> /\ r.remain = 0 /\ p = <<>> /\ n = 0

(* A new write request with the cells data. *)
Sent(data) == [cells |-> Wire(data), done |-> FALSE]

(* Its size is that of the data. *)
LEMMA SentSize ==
    ASSUME WireInv, NEW data \in Seq(CellsOf(FALSE))
    PROVE  Sent(data) \in WriteOf(tls) /\ Size(tls, Sent(data)) = Len(data)
  <1>1. Wire(data) \in Seq(CellsOf(tls))
      BY WireType
  <1>2. Sent(data) \in WriteOf(tls) /\ Sent(data).cells = Wire(data)
      BY <1>1 DEF Sent, WriteOf
  <1>3. Len(data) \in Nat
      BY LenProperties
  <1>4. CASE tls
    <2>1. Len(Wire(data)) = Len(data) + 1
        BY <1>4, AppendProperties DEF Wire, Record
    <2>2. Size(tls, Sent(data)) = Len(Wire(data)) - 1
        BY <1>2, <1>4 DEF Size, Over
    <2> QED BY <1>2, <1>3, <2>1, <2>2
  <1>5. CASE ~tls
      BY <1>2, <1>3, <1>5 DEF Size, Over, Wire
  <1> QED BY <1>2, <1>4, <1>5

(* The length of a function on 1..n. *)
LEMMA FunctionLen ==
    ASSUME NEW S, NEW n \in Nat, NEW f, f = [i \in 1..n |-> f[i]],
           \A i \in 1..n : f[i] \in S
    PROVE  f \in Seq(S) /\ Len(f) = n
  <1>1. f \in Seq(S)
      BY FunctionInSeq
  <1>2. DOMAIN f = 1..n
      OBVIOUS
  <1>3. PICK m : m = Len(f)
      OBVIOUS
  <1>4. m \in Nat /\ DOMAIN f = 1..m
      BY <1>1, <1>3, LenProperties
  <1>5. 1..m = 1..n
      BY <1>2, <1>4
  <1>6. m = n
    <2>1. \A i \in Int : i \in 1..m <=> i \in 1..n
        BY <1>5
    <2>2. m <= n
      <3>1. m > 0 => m \in 1..m
          BY <1>4
      <3>2. m > 0 => m \in 1..n
          BY <1>5, <3>1
      <3> QED BY <1>4, <3>2
    <2>3. n <= m
      <3>1. n > 0 => n \in 1..n
          OBVIOUS
      <3>2. n > 0 => n \in 1..m
          BY <1>5, <3>1
      <3> QED BY <1>4, <3>2
    <2> QED BY <1>4, <2>2, <2>3
  <1> QED BY <1>1, <1>3, <1>6

(* Functions on one and on two indices are tuples. *)
LEMMA SmallTuples ==
    ASSUME NEW f
    PROVE  /\ f = [i \in 1..1 |-> f[i]] => f = <<f[1]>>
           /\ f = [i \in 1..2 |-> f[i]] => f = <<f[1], f[2]>>
  <1>1. ASSUME f = [i \in 1..1 |-> f[i]] PROVE f = <<f[1]>>
    <2>1. PICK S, a, t : S = {f[1]} /\ a = f[1] /\ t = <<f[1]>>
        OBVIOUS
    <2>2. \A i \in 1..1 : f[i] \in S
        BY <2>1
    <2>3. f \in Seq(S) /\ Len(f) = 1
        BY <1>1, <2>2, FunctionLen
    <2>4. t \in Seq(S) /\ Len(t) = 1 /\ t[1] = f[1]
        BY <2>1
    <2>5. \A i \in 1..1 : f[i] = t[i]
        BY <2>4
    <2>6. f = t
        BY <2>3, <2>4, <2>5, SeqEqual
    <2> QED BY <2>1, <2>6
  <1>2. ASSUME f = [i \in 1..2 |-> f[i]] PROVE f = <<f[1], f[2]>>
    <2>1. PICK S, t : S = {f[1], f[2]} /\ t = <<f[1], f[2]>>
        OBVIOUS
    <2>2. \A i \in 1..2 : f[i] \in S
        BY <2>1
    <2>3. f \in Seq(S) /\ Len(f) = 2
        BY <1>2, <2>2, FunctionLen
    <2>4. t \in Seq(S) /\ Len(t) = 2 /\ t[1] = f[1] /\ t[2] = f[2]
        BY <2>1
    <2>5. \A i \in 1..2 : f[i] = t[i]
        BY <2>4
    <2>6. f = t
        BY <2>3, <2>4, <2>5, SeqEqual
    <2> QED BY <2>1, <2>6
  <1> QED BY <1>1, <1>2

(* Behind the pieces of content comes the end of what is written. *)
LEMMA PieceLen ==
    ASSUME WireInv, NEW n \in Nat
    PROVE  Piece(n) \in Seq(CellsOf(FALSE)) /\ Len(Piece(n)) = n
  <1>1. PICK body : body = Piece(n)
      OBVIOUS
  <1>2. body \in Seq(CellsOf(FALSE))
      BY <1>1, PieceType
  <1>3. body = [i \in 1..n |-> body[i]]
      BY <1>1 DEF Piece
  <1>4. PICK S : S = {body[i] : i \in 1..n}
      OBVIOUS
  <1>5. \A i \in 1..n : body[i] \in S
      BY <1>4
  <1>6. Len(body) = n
      BY <1>3, <1>5, FunctionLen
  <1> QED BY <1>1, <1>2, <1>6

(* Where the pieces of one Write end: e[i] cells are in the first i.        *)
Ending(b, data, e) ==
    /\ e \in [0..Len(b) -> Nat] /\ e[0] = 0 /\ e[Len(b)] = Len(data)
    /\ \A i \in 1..Len(b) : /\ b[i] = SubSeq(data, e[i - 1] + 1, e[i])
                            /\ e[i - 1] < e[i] /\ e[i] <= Len(data)
                            /\ e[i - 1] <= e[Len(b) - 1]
                            /\ Len(b[i]) = e[i] - e[i - 1]

(* The content of a Write is cut into its pieces: with TLS at the ends of   *)
(* the records.                                                             *)
LEMMA FragmentsEnd ==
    ASSUME NEW S, NEW data \in Seq(S), Len(data) > 0
    PROVE  Len(Fragments(data)) >= 1 /\ \E e : Ending(Fragments(data), data, e)
  <1>1. PICK n, f, c : n = Len(data) /\ f = Fragments(data) /\ c = Count(n)
      OBVIOUS
  <1>2. n \in Nat /\ n > 0 /\ c \in Nat /\ c >= 1 /\ (c - 1) * RecordCap < n /\ n <= c * RecordCap
      BY <1>1, LenProperties, CountIs
  <1>3. Len(f) = c /\ \A i \in 1..c : /\ f[i] = SubSeq(data, FragmentEnd(n, i - 1) + 1, FragmentEnd(n, i))
                                      /\ Len(f[i]) = FragmentEnd(n, i) - FragmentEnd(n, i - 1)
      BY <1>1, FragmentsAre
  <1>4. PICK e : e = [i \in 0..c |-> FragmentEnd(n, i)]
      OBVIOUS
  <1>5. \A i \in 1..c : /\ FragmentEnd(n, i) \in Nat /\ FragmentEnd(n, i - 1) \in Nat
                        /\ FragmentEnd(n, i - 1) < FragmentEnd(n, i) /\ FragmentEnd(n, i) <= n
      BY <1>1, <1>2, FragmentEndIs
  <1>6. FragmentEnd(n, 0) = 0 /\ FragmentEnd(n, c) = n
    <2>1. 0 * RecordCap = 0 /\ c * RecordCap \in Nat
        BY <1>2, RecordCapAssumption
    <2> QED BY <1>2, <2>1 DEF FragmentEnd
  <1>7. e \in [0..c -> Nat]
    <2> SUFFICES ASSUME NEW i \in 0..c PROVE FragmentEnd(n, i) \in Nat
        BY <1>4
    <2>1. i = 0 \/ i \in 1..c
        BY <1>2
    <2> QED BY <1>5, <1>6, <2>1
  <1>8. ASSUME NEW i \in 1..c
        PROVE  e[i] = FragmentEnd(n, i) /\ e[i - 1] = FragmentEnd(n, i - 1)
    <2>1. i \in 0..c /\ i - 1 \in 0..c
        BY <1>2
    <2> QED BY <1>4, <2>1
  <1>9. ASSUME NEW i \in 1..c PROVE e[i - 1] <= e[c - 1]
    <2>1. c \in 1..c
        BY <1>2
    <2>2. PICK x, y : x = (i - 1) * RecordCap /\ y = (c - 1) * RecordCap
        OBVIOUS
    <2>3. x \in Nat /\ y \in Nat /\ x <= y /\ y < n
        BY <1>2, <2>2, RecordCapAssumption
    <2>4. FragmentEnd(n, i - 1) = x /\ FragmentEnd(n, c - 1) = y
        BY <1>2, <2>2, <2>3 DEF FragmentEnd
    <2> QED BY <1>8, <2>1, <2>3, <2>4
  <1>10. e[0] = 0 /\ e[c] = n
      BY <1>2, <1>4, <1>6
  <1>11. Ending(f, data, e)
      BY <1>1, <1>3, <1>5, <1>7, <1>8, <1>9, <1>10 DEF Ending
  <1> QED BY <1>1, <1>2, <1>3, <1>11

(* ... and without TLS it is one piece. *)
LEMMA WholeEnds ==
    ASSUME NEW S, NEW data \in Seq(S), Len(data) > 0
    PROVE  \E e : Ending(<<data>>, data, e)
  <1>1. PICK n, f : n = Len(data) /\ f = <<data>>
      OBVIOUS
  <1>2. n \in Nat /\ n > 0 /\ Len(f) = 1 /\ f[1] = data
      BY <1>1, LenProperties
  <1>3. PICK e : e = [i \in 0..1 |-> IF i = 0 THEN 0 ELSE n]
      OBVIOUS
  <1>4. e \in [0..1 -> Nat] /\ e[0] = 0 /\ e[1] = n
      BY <1>2, <1>3
  <1>5. SubSeq(data, 1, n) = data
      BY <1>1, <1>2
  <1>6. ASSUME NEW i \in 1..1
        PROVE  /\ f[i] = SubSeq(data, e[i - 1] + 1, e[i])
               /\ e[i - 1] < e[i] /\ e[i] <= n /\ e[i - 1] <= e[1 - 1]
               /\ Len(f[i]) = e[i] - e[i - 1]
    <2>1. i = 1 /\ i - 1 = 0 /\ 1 - 1 = 0 /\ 0 + 1 = 1
        OBVIOUS
    <2>2. f[i] = SubSeq(data, e[i - 1] + 1, e[i])
        BY <1>2, <1>4, <1>5, <2>1
    <2>3. e[i - 1] = 0 /\ e[i] = n /\ e[1 - 1] = 0 /\ Len(f[i]) = n
        BY <1>1, <1>2, <1>4, <2>1
    <2> QED BY <1>2, <2>2, <2>3
  <1>7. Ending(f, data, e)
      BY <1>1, <1>2, <1>4, <1>6 DEF Ending
  <1> QED BY <1>1, <1>7

(* The pieces of one Write. *)
LEMMA BodyIs ==
    ASSUME WireInv, NEW n \in Nat, n > 0
    PROVE  /\ Body(n) \in Seq(Seq(CellsOf(FALSE))) /\ Len(Body(n)) >= 1
           /\ \E e : Ending(Body(n), Piece(n), e)
  <1>1. PICK p : p = Piece(n)
      OBVIOUS
  <1>2. p \in Seq(CellsOf(FALSE)) /\ Len(p) > 0
      BY <1>1, PieceLen
  <1>3. Body(n) = Cut(p)
      BY <1>1 DEF Body
  <1>4. Body(n) \in Seq(Seq(CellsOf(FALSE)))
      BY BodyType
  <1>5. CASE tls
    <2>1. Body(n) = Fragments(p)
        BY <1>3, <1>5 DEF Cut
    <2>2. Len(Fragments(p)) >= 1 /\ \E e : Ending(Fragments(p), p, e)
        BY <1>2, FragmentsEnd
    <2> QED BY <1>1, <1>4, <2>1, <2>2
  <1>6. CASE ~tls
    <2>1. Body(n) = <<p>>
        BY <1>3, <1>6 DEF Cut
    <2>2. \E e : Ending(<<p>>, p, e)
        BY <1>2, WholeEnds
    <2>3. Len(<<p>>) >= 1
        OBVIOUS
    <2> QED BY <1>1, <1>4, <2>1, <2>2, <2>3
  <1> QED BY <1>5, <1>6

(* The write requests for some parts, one each. *)
LEMMA RequestedIs ==
    ASSUME WireInv, NEW ps \in Seq(Seq(CellsOf(FALSE)))
    PROVE  /\ Requested(ps) \in Seq(WriteOf(tls)) /\ Len(Requested(ps)) = Len(ps)
           /\ \A i \in 1..Len(ps) : /\ Requested(ps)[i] = Sent(ps[i])
                                    /\ Size(tls, Requested(ps)[i]) = Len(ps[i])
  <1>1. Len(ps) \in Nat /\ DOMAIN ps = 1..Len(ps) /\ \A i \in 1..Len(ps) : ps[i] \in Seq(CellsOf(FALSE))
      BY LenProperties, ElementOfSeq
  <1>2. PICK ws : ws = [i \in DOMAIN ps |-> Wire(ps[i])]
      OBVIOUS
  <1>3. DOMAIN ws = 1..Len(ps) /\ \A i \in 1..Len(ps) : ws[i] = Wire(ps[i])
      BY <1>1, <1>2
  <1>4. PICK q : q = Requested(ps)
      OBVIOUS
  <1>5. q = [i \in 1..Len(ps) |-> q[i]] /\ \A i \in 1..Len(ps) : q[i] = [cells |-> ws[i], done |-> FALSE]
      BY <1>2, <1>3, <1>4 DEF Requested, Queued
  <1>6. ASSUME NEW i \in 1..Len(ps)
        PROVE  q[i] = Sent(ps[i]) /\ q[i] \in WriteOf(tls) /\ Size(tls, q[i]) = Len(ps[i])
    <2>1. q[i] = Sent(ps[i])
        BY <1>3, <1>5 DEF Sent
    <2>2. ps[i] \in Seq(CellsOf(FALSE))
        BY <1>1
    <2>3. Sent(ps[i]) \in WriteOf(tls) /\ Size(tls, Sent(ps[i])) = Len(ps[i])
        BY <2>2, SentSize
    <2> QED BY <2>1, <2>3
  <1>7. q \in Seq(WriteOf(tls)) /\ Len(q) = Len(ps)
      BY <1>1, <1>5, <1>6, FunctionLen
  <1> QED BY <1>4, <1>6, <1>7

(* Those of one Write: their sizes are the lengths, and add up to n. *)
Lengths(n) == [i \in DOMAIN Body(n) |-> Len(Body(n)[i])]
LEMMA BodyQueued ==
    ASSUME WireInv, NEW n \in Nat, n > 0
    PROVE  /\ Requested(Body(n)) \in Seq(WriteOf(tls)) /\ Lengths(n) \in Seq(Nat)
           /\ Len(Requested(Body(n))) = Len(Lengths(n)) /\ Lengths(n) # <<>>
           /\ \A i \in 1..Len(Lengths(n)) : Size(tls, Requested(Body(n))[i]) = Lengths(n)[i]
                                            /\ Lengths(n)[i] >= 1
           /\ Sums(tls, Requested(Body(n)), n)
  <1>1. PICK b, q, l, p : b = Body(n) /\ q = Requested(Body(n)) /\ l = Lengths(n) /\ p = Piece(n)
      OBVIOUS
  <1>2. b \in Seq(Seq(CellsOf(FALSE))) /\ Len(b) >= 1 /\ \E e : Ending(b, p, e)
      BY <1>1, BodyIs
  <1>3. PICK e : Ending(b, p, e)
      BY <1>2
  <1>4. PICK c : c = Len(b)
      OBVIOUS
  <1>5. c \in Nat /\ c >= 1 /\ DOMAIN b = 1..c /\ Len(p) = n
      BY <1>1, <1>2, <1>4, LenProperties, PieceLen
  <1>6. /\ q \in Seq(WriteOf(tls)) /\ Len(q) = c
        /\ \A i \in 1..c : Size(tls, q[i]) = Len(b[i])
      BY <1>1, <1>2, <1>4, RequestedIs
  <1>7. /\ e \in [0..c -> Nat] /\ e[0] = 0 /\ e[c] = n
        /\ \A i \in 1..c : /\ e[i - 1] < e[i] /\ e[i] <= n /\ e[i - 1] <= e[c - 1]
                           /\ Len(b[i]) = e[i] - e[i - 1]
      BY <1>3, <1>4, <1>5 DEF Ending
  <1>8. ASSUME NEW i \in 1..c
        PROVE  e[i] \in Nat /\ e[i - 1] \in Nat /\ e[i - 1] < e[i] /\ e[i] <= n /\ Len(b[i]) \in Nat
               /\ Len(b[i]) >= 1
    <2>1. i \in 0..c /\ i - 1 \in 0..c
        BY <1>5
    <2>2. e[i] \in Nat /\ e[i - 1] \in Nat
        BY <1>7, <2>1
    <2> QED BY <1>7, <2>2
  <1>9. l = [i \in 1..c |-> l[i]] /\ \A i \in 1..c : l[i] = Len(b[i])
      BY <1>1, <1>5 DEF Lengths
  <1>10. l \in Seq(Nat) /\ Len(l) = c
    <2>1. \A i \in 1..c : l[i] \in Nat
        BY <1>8, <1>9
    <2> QED BY <1>5, <1>9, <2>1, FunctionLen
  <1>11. l # <<>>
      BY <1>5, <1>10
  <1>12. \A i \in 1..c : Size(tls, q[i]) = l[i] /\ l[i] >= 1
      BY <1>6, <1>8, <1>9
  <1>13. PICK s : s = [i \in 1..c + 1 |-> n - e[i - 1]]
      OBVIOUS
  <1>14. ASSUME NEW i \in 1..c + 1 PROVE s[i] \in Nat /\ s[i] = n - e[i - 1]
    <2>1. i = c + 1 \/ i \in 1..c
        BY <1>5
    <2>2. s[i] = n - e[i - 1]
        BY <1>13
    <2>3. CASE i \in 1..c
      <3>1. e[i - 1] \in Nat /\ e[i - 1] < e[i] /\ e[i] <= n /\ e[i] \in Nat
          BY <1>8, <2>3
      <3> QED BY <2>2, <3>1
    <2>4. CASE i = c + 1
      <3>1. i - 1 = c
          BY <1>5, <2>4
      <3>2. s[i] = n - n
          BY <1>7, <2>2, <3>1
      <3> QED BY <2>2, <3>2
    <2> QED BY <2>1, <2>3, <2>4
  <1>15. s \in [1..c + 1 -> Nat]
    <2>1. s = [i \in 1..c + 1 |-> s[i]]
        BY <1>13
    <2> QED BY <1>14, <2>1
  <1>16. s[1] = n /\ s[c + 1] = 0
    <2>1. PICK i, j : i = 1 /\ j = c + 1
        OBVIOUS
    <2>2. i \in 1..c + 1 /\ j \in 1..c + 1 /\ i - 1 = 0 /\ j - 1 = c
        BY <1>5, <2>1
    <2>3. s[i] = n - e[i - 1] /\ s[j] = n - e[j - 1]
        BY <1>14, <2>2
    <2>4. s[i] = n - 0 /\ s[j] = n - n
        BY <1>7, <2>2, <2>3
    <2> QED BY <2>1, <2>4
  <1>17. ASSUME NEW i \in 1..c
         PROVE  s[i] = s[i + 1] + Size(tls, q[i]) /\ s[i] >= Size(tls, q[c])
    <2>1. i \in 1..c + 1 /\ i + 1 \in 1..c + 1 /\ i + 1 - 1 = i /\ c \in 1..c
        BY <1>5
    <2>2. s[i] = n - e[i - 1] /\ s[i + 1] = n - e[i]
      <3>1. s[i + 1] = n - e[i + 1 - 1]
          BY <1>14, <2>1
      <3> QED BY <1>14, <2>1, <3>1
    <2>3. Size(tls, q[i]) = e[i] - e[i - 1] /\ Size(tls, q[c]) = n - e[c - 1] /\ e[i - 1] <= e[c - 1]
      <3>1. Size(tls, q[c]) = e[c] - e[c - 1]
          BY <1>6, <1>7, <2>1
      <3> QED BY <1>6, <1>7, <3>1
    <2>4. e[i] \in Nat /\ e[i - 1] \in Nat /\ e[c - 1] \in Nat
        BY <1>8, <2>1
    <2> QED BY <2>2, <2>3, <2>4
  <1>18. IsSums(tls, q, s)
      BY <1>6, <1>16, <1>17 DEF IsSums
  <1>19. Sums(tls, q, n)
    <2>1. s \in [1..Len(q) + 1 -> Nat]
        BY <1>6, <1>15
    <2> QED BY <1>16, <1>18, <2>1 DEF Sums
  <1> QED BY <1>1, <1>6, <1>10, <1>11, <1>12, <1>19

(* HttpResponse::Write queues the header with the first call, and the       *)
(* content behind it if there is some.                                      *)
HeadOf(n, continue) == <<Cell("HTTP", 0), Cell("end", IF continue THEN NoLength ELSE n)>>

LEMMA HeadType ==
    ASSUME NEW n \in Nat, NEW continue \in BOOLEAN
    PROVE  HeadOf(n, continue) \in Seq(CellsOf(FALSE)) /\ Len(HeadOf(n, continue)) = 2
  <1>1. "HTTP" \in KindsOf(FALSE) /\ "end" \in KindsOf(FALSE)
      BY DEF HttpCells, KindsOf
  <1>2. PICK zero, len : zero = 0 /\ len = IF continue THEN NoLength ELSE n
      OBVIOUS
  <1>3. zero \in Int /\ len \in Int
      BY <1>2 DEF NoLength
  <1>4. Cell("HTTP", zero) \in CellsOf(FALSE) /\ Cell("end", len) \in CellsOf(FALSE)
      BY <1>1, <1>3, CellType
  <1>5. HeadOf(n, continue) = <<Cell("HTTP", zero), Cell("end", len)>>
      BY <1>2 DEF HeadOf
  <1> QED BY <1>4, <1>5, TwoElements

(* The write requests for a header and the pieces behind it. *)
LEMMA RequestedConcat ==
    ASSUME WireInv, NEW a \in Seq(CellsOf(FALSE)), NEW ps \in Seq(Seq(CellsOf(FALSE)))
    PROVE  Requested(<<a>> \o ps) = <<Sent(a)>> \o Requested(ps)
  <1>1. PICK all, one, q, m : /\ all = <<a>> \o ps /\ one = <<Sent(a)>> /\ q = Requested(ps)
                              /\ m = Len(ps)
      OBVIOUS
  <1>2. PICK first : first = <<a>>
      OBVIOUS
  <1>3. first \in Seq(Seq(CellsOf(FALSE))) /\ Len(first) = 1 /\ first[1] = a
    <2>1. first \in Seq(Seq(CellsOf(FALSE)))
        BY <1>2, OneElement
    <2> QED BY <1>2, <2>1
  <1>4. m \in Nat
      BY <1>1, LenProperties
  <1>5. /\ all \in Seq(Seq(CellsOf(FALSE))) /\ Len(all) = 1 + m
        /\ \A i \in 1..1 + m : all[i] = IF i <= 1 THEN first[i] ELSE ps[i - 1]
    <2>1. all = first \o ps
        BY <1>1, <1>2
    <2>2. /\ all \in Seq(Seq(CellsOf(FALSE))) /\ Len(all) = Len(first) + Len(ps)
          /\ \A i \in 1..Len(first) + Len(ps) :
                 all[i] = IF i <= Len(first) THEN first[i] ELSE ps[i - Len(first)]
        BY <1>3, <2>1, ConcatProperties
    <2> QED BY <1>1, <1>3, <2>2
  <1>6. q \in Seq(WriteOf(tls)) /\ Len(q) = m /\ \A i \in 1..m : q[i] = Sent(ps[i])
      BY <1>1, RequestedIs
  <1>7. PICK x : x = Requested(all)
      OBVIOUS
  <1>8. x \in Seq(WriteOf(tls)) /\ Len(x) = 1 + m /\ \A i \in 1..1 + m : x[i] = Sent(all[i])
      BY <1>5, <1>7, RequestedIs
  <1>9. one \in Seq(WriteOf(tls)) /\ Len(one) = 1 /\ one[1] = Sent(a)
    <2>1. Sent(a) \in WriteOf(tls)
        BY SentSize
    <2> QED BY <1>1, <2>1
  <1>10. PICK y : y = one \o q
      OBVIOUS
  <1>11. /\ y \in Seq(WriteOf(tls)) /\ Len(y) = 1 + m
         /\ \A i \in 1..1 + m : y[i] = IF i <= 1 THEN one[i] ELSE q[i - 1]
    <2>1. /\ y \in Seq(WriteOf(tls)) /\ Len(y) = Len(one) + Len(q)
          /\ \A i \in 1..Len(one) + Len(q) :
                 y[i] = IF i <= Len(one) THEN one[i] ELSE q[i - Len(one)]
        BY <1>6, <1>9, <1>10, ConcatProperties
    <2> QED BY <1>6, <1>9, <2>1
  <1>12. ASSUME NEW i \in 1..1 + m PROVE x[i] = y[i]
    <2>1. CASE i = 1
        BY <1>3, <1>5, <1>8, <1>9, <1>11, <2>1
    <2>2. CASE i # 1
      <3>1. PICK j : j = i - 1
          OBVIOUS
      <3>2. ~(i <= 1) /\ j \in 1..m
          BY <1>4, <2>2, <3>1
      <3>3. all[i] = ps[j] /\ y[i] = q[j]
          BY <1>5, <1>11, <3>1, <3>2
      <3> QED BY <1>6, <1>8, <3>2, <3>3
    <2> QED BY <2>1, <2>2
  <1>13. x = y
      BY <1>8, <1>11, <1>12, SeqEqual
  <1> QED BY <1>1, <1>7, <1>10, <1>13

(* What one call of Write queues. *)
LEMMA WriteQueues ==
    ASSUME WireInv, NEW r \in Response, NEW n \in Nat, NEW continue \in BOOLEAN,
           ~r.is_close, Write(r, n, continue)
    PROVE  /\ Sent(HeadOf(n, continue)) \in WriteOf(tls) /\ Size(tls, Sent(HeadOf(n, continue))) = 2
           /\ \E base \in Seq(WriteOf(tls)) :
                 /\ r.written_header => base = server_writes
                 /\ ~r.written_header => base = server_writes \o <<Sent(HeadOf(n, continue))>>
                 /\ n = 0 => server_writes' = base /\ pieces' = pieces
                 /\ n > 0 => server_writes' = base \o Requested(Body(n))
                             /\ pieces' = pieces \o Lengths(n)
  <1>1. server_writes' = server_writes \o Requested(Parts(r, n, continue))
      BY DEF Write
  <1>2. pieces' = pieces \o Lengths(n)
      BY DEF Write, Lengths
  <1>3. PICK head, b, q, hw : /\ head = HeadOf(n, continue) /\ b = Body(n) /\ q = Requested(Body(n))
                              /\ hw = Sent(head)
      OBVIOUS
  <1>4. head \in Seq(CellsOf(FALSE)) /\ Len(head) = 2
      BY <1>3, HeadType
  <1>5. hw \in WriteOf(tls) /\ Size(tls, hw) = 2
      BY <1>3, <1>4, SentSize
  <1>6. b \in Seq(Seq(CellsOf(FALSE)))
      BY <1>3, BodyType
  <1>7. q \in Seq(WriteOf(tls)) /\ Len(q) = Len(b)
      BY <1>3, <1>6, RequestedIs
  <1>8. server_writes \in Seq(WriteOf(tls)) /\ pieces \in Seq(Nat) /\ <<hw>> \in Seq(WriteOf(tls))
      BY <1>5 DEF WireInv
  <1>9. PICK base : base = IF r.written_header THEN server_writes ELSE server_writes \o <<hw>>
      OBVIOUS
  <1>10. base \in Seq(WriteOf(tls))
      BY <1>8, <1>9, ConcatProperties
  <1>11. server_writes' = base \o q
    <2>1. CASE r.written_header
      <3>1. Parts(r, n, continue) = <<>> \o b
          BY <1>3, <2>1 DEF Parts
      <3>2. Parts(r, n, continue) = b
          BY <1>6, <3>1, ConcatEmptySeq
      <3> QED BY <1>1, <1>3, <1>9, <2>1, <3>2
    <2>2. CASE ~r.written_header
      <3>1. Parts(r, n, continue) = <<head>> \o b
          BY <1>3, <2>2 DEF Parts, HeadOf
      <3>2. Requested(<<head>> \o b) = <<hw>> \o q
          BY <1>3, <1>4, <1>6, RequestedConcat
      <3>3. server_writes' = server_writes \o (<<hw>> \o q)
          BY <1>1, <3>1, <3>2
      <3>4. server_writes \o (<<hw>> \o q) = (server_writes \o <<hw>>) \o q
          BY <1>7, <1>8, ConcatAssociative
      <3> QED BY <1>9, <2>2, <3>3, <3>4
    <2> QED BY <2>1, <2>2
  <1>12. ASSUME n = 0 PROVE server_writes' = base /\ pieces' = pieces
    <2>1. b = <<>>
        BY <1>3, <1>12 DEF Body
    <2>2. q = <<>>
        BY <1>7, <2>1, EmptySeq
    <2>3. Lengths(n) = <<>>
        BY <1>3, <2>1 DEF Lengths
    <2>4. base \o <<>> = base
        BY <1>10, ConcatEmptySeq
    <2>5. pieces \o <<>> = pieces
        BY <1>8, ConcatEmptySeq
    <2> QED BY <1>2, <1>11, <2>2, <2>3, <2>4, <2>5
  <1> QED BY <1>2, <1>3, <1>5, <1>9, <1>10, <1>11, <1>12

(* The next Write of the handler h, its n-th but one. *)
LEMMA WriteAnswers ==
    ASSUME WireInv, NEW r \in Response, NEW h \in Seq(Nat), NEW n \in Nat, n + 1 <= Len(h),
           Answering(tls, server_writes, r, pieces, h, n), Write(r, h[n + 1], n + 1 < Len(h))
    PROVE  Answering(tls, server_writes', response_ptr_', pieces', h, n + 1)
  <1>1. PICK k, continue : k = h[n + 1] /\ continue = (n + 1 < Len(h))
      OBVIOUS
  <1>2. k \in Nat /\ continue \in BOOLEAN /\ Write(r, k, continue) /\ ~r.is_close
      BY <1>1, ElementOfSeq DEF Answering
  <1>3. response_ptr_' = [is_close |-> FALSE, written_header |-> TRUE, continue_flag |-> continue,
                          remain |-> r.remain + Added(r, k)]
      BY <1>2 DEF Write, AfterWrite
  <1>4. PICK hw : hw = Sent(HeadOf(k, continue))
      OBVIOUS
  <1>5. tls \in BOOLEAN /\ server_writes \in Seq(WriteOf(tls)) /\ r.remain \in Int /\ pieces \in Seq(Nat)
      BY DEF WireInv, Response
  <1>6. /\ hw \in WriteOf(tls) /\ Size(tls, hw) = 2
        /\ \E base \in Seq(WriteOf(tls)) :
              /\ r.written_header => base = server_writes
              /\ ~r.written_header => base = server_writes \o <<hw>>
              /\ k = 0 => server_writes' = base /\ pieces' = pieces
              /\ k > 0 => server_writes' = base \o Requested(Body(k)) /\ pieces' = pieces \o Lengths(k)
      BY <1>2, <1>4, WriteQueues
  <1>7. PICK base \in Seq(WriteOf(tls)) :
              /\ r.written_header => base = server_writes
              /\ ~r.written_header => base = server_writes \o <<hw>>
              /\ k = 0 => server_writes' = base /\ pieces' = pieces
              /\ k > 0 => server_writes' = base \o Requested(Body(k)) /\ pieces' = pieces \o Lengths(k)
      BY <1>6
  <1>8. PICK before : before = r.remain + Added(r, k) - k
      OBVIOUS
  <1>9. /\ before \in Int /\ Accounted(tls, base, before, pieces)
        /\ r.remain + Added(r, k) = before + k
    <2>1. CASE r.written_header
      <3>1. Added(r, k) = k
          BY <1>2, <2>1 DEF Added
      <3>2. before = r.remain
          BY <1>2, <1>5, <1>8, <3>1
      <3> QED BY <1>2, <1>5, <1>7, <2>1, <3>1, <3>2 DEF Answering
    <2>2. CASE ~r.written_header
      <3>1. Added(r, k) = k + 2
          BY <1>2, <2>2 DEF Added
      <3>2. server_writes = <<>> /\ r.remain = 0 /\ n = 0 /\ pieces = <<>>
          BY <2>2 DEF Answering
      <3>3. before = 2
          BY <1>2, <1>8, <3>1, <3>2
      <3>4. base = <<hw>>
        <4>1. <<hw>> \in Seq(WriteOf(tls))
            BY <1>6
        <4>2. <<>> \o <<hw>> = <<hw>>
            BY <4>1, ConcatEmptySeq
        <4> QED BY <1>7, <2>2, <3>2, <4>2
      <3>5. Accounted(tls, <<hw>>, 2, <<>>)
          BY <1>5, <1>6, AccountHeader
      <3>6. r.remain + Added(r, k) = before + k
          BY <1>2, <3>1, <3>2, <3>3
      <3> QED BY <3>2, <3>3, <3>4, <3>5, <3>6
    <2> QED BY <2>1, <2>2
  <1>10. Accounted(tls, server_writes', before + k, pieces')
    <2>1. CASE k = 0
      <3>1. server_writes' = base /\ pieces' = pieces /\ before + k = before
          BY <1>7, <1>9, <2>1
      <3> QED BY <1>9, <3>1
    <2>2. CASE k > 0
      <3>1. PICK q, l : q = Requested(Body(k)) /\ l = Lengths(k)
          OBVIOUS
      <3>2. /\ q \in Seq(WriteOf(tls)) /\ l \in Seq(Nat) /\ Len(q) = Len(l) /\ l # <<>>
            /\ \A i \in 1..Len(l) : Size(tls, q[i]) = l[i] /\ l[i] >= 1
            /\ Sums(tls, q, k)
          BY <1>2, <2>2, <3>1, BodyQueued
      <3>3. Accounted(tls, base \o q, before + k, pieces \o l)
        <4>1. PICK t, p : t = tls /\ p = pieces
            OBVIOUS
        <4>2. /\ t \in BOOLEAN /\ base \in Seq(WriteOf(t)) /\ before \in Int /\ p \in Seq(Nat)
              /\ Accounted(t, base, before, p) /\ k \in Int
              /\ q \in Seq(WriteOf(t)) /\ l \in Seq(Nat) /\ Len(q) = Len(l) /\ l # <<>>
              /\ \A i \in 1..Len(l) : Size(t, q[i]) = l[i] /\ l[i] >= 1
              /\ Sums(t, q, k)
            BY <1>2, <1>5, <1>9, <3>2, <4>1
        <4>3. Accounted(t, base \o q, before + k, p \o l)
            BY ONLY <4>2, AccountPieces
        <4> QED BY <4>1, <4>3
      <3> QED BY <1>7, <2>2, <3>1, <3>3
    <2> QED BY <1>2, <2>1, <2>2
  <1>11. response_ptr_'.remain = before + k /\ ~response_ptr_'.is_close
         /\ response_ptr_'.written_header /\ response_ptr_'.continue_flag = continue
      BY <1>3, <1>9
  <1>12. ~continue => n + 1 = Len(h)
    <2>1. Len(h) \in Nat
        BY LenProperties
    <2>2. continue <=> n + 1 < Len(h)
        BY <1>1
    <2> QED BY <2>1, <2>2
  <1> QED BY <1>10, <1>11, <1>12 DEF Answering

(* The answer to OPTIONS: a header, with no handler. *)
LEMMA OptionsAnswers ==
    ASSUME WireInv, NEW r \in Response, Answering(tls, server_writes, r, pieces, <<>>, 0),
           ~r.written_header, Write(r, 0, FALSE)
    PROVE  Answering(tls, server_writes', response_ptr_', pieces', <<>>, 0)
  <1>1. ~r.is_close /\ server_writes = <<>> /\ r.remain = 0 /\ pieces = <<>>
      BY DEF Answering
  <1>2. PICK zero, no, hw : zero = 0 /\ no = FALSE /\ hw = Sent(HeadOf(zero, no))
      OBVIOUS
  <1>3. zero \in Nat /\ no \in BOOLEAN /\ Write(r, zero, no)
      BY <1>2
  <1>4. /\ hw \in WriteOf(tls) /\ Size(tls, hw) = 2
        /\ server_writes' = server_writes \o <<hw>> /\ pieces' = pieces
      BY <1>1, <1>2, <1>3, WriteQueues
  <1>5. tls \in BOOLEAN
      BY DEF WireInv
  <1>6. server_writes' = <<hw>>
    <2>1. <<hw>> \in Seq(WriteOf(tls))
        BY <1>4
    <2>2. <<>> \o <<hw>> = <<hw>>
        BY <2>1, ConcatEmptySeq
    <2> QED BY <1>1, <1>4, <2>2
  <1>7. Accounted(tls, server_writes', 2, pieces')
      BY <1>1, <1>4, <1>5, <1>6, AccountHeader
  <1>8. response_ptr_' = [is_close |-> FALSE, written_header |-> TRUE, continue_flag |-> FALSE,
                          remain |-> 2]
    <2>1. response_ptr_' = AfterWrite(r, 0, FALSE)
        BY DEF Write
    <2>2. r.remain + Added(r, 0) = 2
        BY <1>1 DEF Added
    <2> QED BY <1>1, <2>1, <2>2 DEF AfterWrite
  <1>9. Len(<<>>) = 0
      OBVIOUS
  <1> QED BY <1>7, <1>8, <1>9 DEF Answering

------------------------------------------------------------------------------
(* A request: the line with the method, the end of the header and, for a    *)
(* POST only, as much content as the header says.                           *)
Shaped(q) ==
    /\ q \in Seq(CellsOf(FALSE)) /\ Len(q) >= 2
    /\ q[1].k # "end" /\ q[2].k = "end"
    /\ \A i \in 1..Len(q) : q[i].k # "tag"
    /\ q[1].k = "POST" => q[2].v = Len(q) - 2
    /\ q[1].k # "POST" => Len(q) = 2

(* HttpClient::Get and Post make such requests. *)
LEMMA RequestShaped == ASSUME NEW r \in Requests PROVE Shaped(r)
  <1>0. r \in Seq(CellsOf(FALSE))
      BY RequestType
  <1>1. CASE r \in {<<Cell(m, 0), Cell("end", 0)>> : m \in Methods \ {"POST"}}
    <2>1. PICK m \in Methods \ {"POST"} : r = <<Cell(m, 0), Cell("end", 0)>>
        BY <1>1
    <2>2. m \in {"GET", "OPTIONS", "BAD"}
        BY <2>1, ExchangeAssumption
    <2>3. Len(r) = 2 /\ r[1] = Cell(m, 0) /\ r[2] = Cell("end", 0)
        BY <2>1
    <2>4. r[1].k = m /\ r[2].k = "end"
        BY <2>3 DEF Cell
    <2>5. \A i \in 1..Len(r) : i = 1 \/ i = 2
        BY <2>3
    <2>6. \A i \in 1..Len(r) : r[i].k # "tag"
        BY <2>2, <2>4, <2>5
    <2>7. r[1].k # "end" /\ r[1].k # "POST" /\ Len(r) >= 2
        BY <2>2, <2>3, <2>4
    <2> QED BY <1>0, <2>3, <2>4, <2>6, <2>7 DEF Shaped
  <1>2. CASE r \in {<<Cell("POST", 0), Cell("end", n)>> \o Content("b", n) :
                        n \in IF "POST" \in Methods THEN PostLens ELSE {}}
    <2>1. PICK n \in IF "POST" \in Methods THEN PostLens ELSE {} :
              r = <<Cell("POST", 0), Cell("end", n)>> \o Content("b", n)
        BY <1>2
    <2>2. n \in Nat
        BY <2>1, ExchangeAssumption
    <2>3. PICK p, c, S : p = <<Cell("POST", 0), Cell("end", n)>> /\ c = Content("b", n)
                         /\ S = {Cell("POST", 0), Cell("end", n)} \union {Cell("b", i) : i \in 1..n}
        OBVIOUS
    <2>4. p \in Seq(S) /\ Len(p) = 2 /\ p[1] = Cell("POST", 0) /\ p[2] = Cell("end", n)
        BY <2>3
    <2>5. c = [i \in 1..n |-> c[i]] /\ \A i \in 1..n : c[i] = Cell("b", i)
        BY <2>3 DEF Content
    <2>6. \A i \in 1..n : c[i] \in S
        BY <2>3, <2>5
    <2>7. c \in Seq(S) /\ Len(c) = n
        BY <2>2, <2>5, <2>6, FunctionLen
    <2>8. r = p \o c
        BY <2>1, <2>3
    <2>9. /\ Len(r) = n + 2
          /\ \A i \in 1..n + 2 : r[i] = IF i <= 2 THEN p[i] ELSE c[i - 2]
      <3>1. /\ Len(r) = Len(p) + Len(c)
            /\ \A i \in 1..Len(p) + Len(c) : r[i] = IF i <= Len(p) THEN p[i] ELSE c[i - Len(p)]
          BY <2>4, <2>7, <2>8, ConcatProperties
      <3>2. Len(p) + Len(c) = n + 2
          BY <2>2, <2>4, <2>7
      <3> QED BY <2>4, <3>1, <3>2
    <2>10. r[1] = Cell("POST", 0) /\ r[2] = Cell("end", n)
        BY <2>2, <2>4, <2>9
    <2>11. r[1].k = "POST" /\ r[2].k = "end" /\ r[2].v = n
        BY <2>10 DEF Cell
    <2>12. \A i \in 1..Len(r) : r[i].k # "tag"
      <3> SUFFICES ASSUME NEW i \in 1..Len(r) PROVE r[i].k # "tag"
          OBVIOUS
      <3>1. CASE i <= 2
        <4>1. i = 1 \/ i = 2
            BY <3>1
        <4> QED BY <2>11, <4>1
      <3>2. CASE i > 2
        <4>1. i - 2 \in 1..n /\ r[i] = c[i - 2]
            BY <2>2, <2>9, <3>2
        <4>2. r[i] = Cell("b", i - 2)
            BY <2>5, <4>1
        <4> QED BY <4>2 DEF Cell
      <3> QED BY <3>1, <3>2
    <2>13. Len(r) >= 2 /\ r[2].v = Len(r) - 2
        BY <2>2, <2>9, <2>11
    <2>14. r[1].k # "end"
        BY <2>11
    <2> QED BY <1>0, <2>11, <2>12, <2>13, <2>14 DEF Shaped
  <1> QED BY <1>1, <1>2 DEF Requests

(* The least number of a set. *)
LEMMA MinOf ==
    ASSUME NEW I \in SUBSET Int, NEW e \in I, \A j \in I : e <= j
    PROVE  Min(I) = e
  <1>1. PICK m : m = Min(I)
      OBVIOUS
  <1>2. m \in I /\ \A j \in I : m <= j
      BY <1>1 DEF Min
  <1>3. m \in Int /\ e \in Int /\ m <= e /\ e <= m
      BY <1>2
  <1> QED BY <1>1, <1>3

(* AnalyzeHeader on the beginning p of a request: there is no end of the    *)
(* header in the first cell, and else it is the second.                     *)
LEMMA HeaderEndOfPart ==
    ASSUME NEW q, Shaped(q), NEW p \in Seq(CellsOf(FALSE)), Len(p) >= 1, Len(p) <= Len(q),
           \A i \in 1..Len(p) : p[i] = q[i]
    PROVE  HeaderEnd(p) = IF Len(p) = 1 THEN 0 ELSE 2
  <1>1. PICK I : I = {i \in 1..Len(p) : p[i].k = "end"}
      OBVIOUS
  <1>2. HeaderEnd(p) = IF I # {} THEN Min(I) ELSE 0
      BY <1>1 DEF HeaderEnd, SelectInSeq
  <1>3. Len(p) \in Nat /\ Len(q) \in Nat
      BY LenProperties DEF Shaped
  <1>4. 1 \in 1..Len(p) /\ p[1].k # "end"
      BY <1>3 DEF Shaped
  <1>5. CASE Len(p) = 1
    <2>1. I = {}
        BY <1>1, <1>4, <1>5
    <2> QED BY <1>2, <1>5, <2>1
  <1>6. CASE Len(p) >= 2
    <2>1. 2 \in 1..Len(p) /\ p[2].k = "end"
        BY <1>3, <1>6 DEF Shaped
    <2>2. 2 \in I /\ I \in SUBSET Int
        BY <1>1, <2>1
    <2>3. \A j \in I : 2 <= j
        BY <1>1, <1>3, <1>4
    <2>4. Min(I) = 2
        BY <2>2, <2>3, MinOf
    <2> QED BY <1>2, <1>6, <2>2, <2>4
  <1> QED BY <1>3, <1>5, <1>6

(* Nothing is answered yet. *)
Idle == response_ptr_ = None /\ pieces = <<>> /\ handler = <<>> /\ made = 0 /\ kept = "no"

(* HttpSession::OnRead of data, when with recv_ it is a beginning of the    *)
(* request: it waits, or it has the whole request and starts the answer, or *)
(* the request is bad and the session is closed, or the handler closes it.  *)
LEMMA RequestRead ==
    ASSUME IInv, Up, Shaped(request), Idle, server_writes = <<>>, NEW data, HttpOnRead(data),
           recv_ \o data \in Seq(CellsOf(FALSE)), recv_ \o data # <<>>,
           Len(recv_ \o data) <= Len(request),
           \A i \in 1..Len(recv_ \o data) : (recv_ \o data)[i] = request[i]
    PROVE  \/ /\ recv_' = recv_ \o data
              /\ UNCHANGED <<response_ptr_, server_writes, pieces, handler, made, kept, tcp, s2c_end, ub>>
           \/ /\ Len(recv_ \o data) = Len(request) /\ response_ptr_' # None
              /\ Answering(tls, server_writes', response_ptr_', pieces', handler', made')
              /\ UNCHANGED <<kept, tcp, s2c_end, ub>>
           \/ /\ tcp' = "closed" /\ Method = "BAD"
              /\ ~tls => ub' = ub
           \/ tcp' = "closed" /\ ub' = "closed_in_handler"
  <1>1. PICK all, e : all = recv_ \o data /\ e = HeaderEnd(all)
      OBVIOUS
  <1>2. /\ all \in Seq(CellsOf(FALSE)) /\ Len(all) \in Nat /\ Len(all) >= 1
        /\ Len(request) \in Nat /\ Len(all) <= Len(request)
        /\ \A i \in 1..Len(all) : all[i] = request[i]
    <2>1. all \in Seq(CellsOf(FALSE)) /\ all # <<>> /\ request \in Seq(CellsOf(FALSE))
        BY <1>1 DEF Shaped
    <2>2. Len(all) \in Nat /\ Len(request) \in Nat
        BY <2>1, LenProperties
    <2>3. Len(all) >= 1
        BY <2>1, <2>2, EmptySeq
    <2> QED BY <1>1, <2>1, <2>2, <2>3
  <1>3. e = IF Len(all) = 1 THEN 0 ELSE 2
      BY <1>1, <1>2, HeaderEndOfPart
  <1>4. all[1].k = Method
      BY <1>2 DEF Method
  <1>5. PICK wait : wait = (e = 0 \/ (all[1].k = "POST" /\ Len(all) - e < all[e].v))
      OBVIOUS
  <1>6. ~wait => Len(all) = Len(request)
    <2> SUFFICES ASSUME ~wait PROVE Len(all) = Len(request)
        OBVIOUS
    <2>0. e # 0
        BY <1>5
    <2>1. e = 2 /\ Len(all) >= 2
      <3>1. Len(all) # 1
          BY <1>3, <2>0
      <3>2. e = 2
          BY <1>3, <3>1
      <3>3. PICK len : len = Len(all)
          OBVIOUS
      <3>4. len \in Nat /\ len >= 1 /\ len # 1
          BY <1>2, <3>1, <3>3
      <3> QED BY <3>2, <3>3, <3>4
    <2>2. CASE request[1].k = "POST"
      <3>1. all[2] = request[2] /\ all[1] = request[1]
          BY <1>2, <2>1
      <3>2. ~(Len(all) - 2 < request[2].v)
          BY <1>5, <2>1, <2>2, <3>1
      <3>3. request[2].v = Len(request) - 2
          BY <2>2 DEF Shaped
      <3> QED BY <1>2, <3>2, <3>3
    <2>3. CASE request[1].k # "POST"
        BY <1>2, <2>1, <2>3 DEF Shaped
    <2> QED BY <2>2, <2>3
  <1>7. NewResponse \in Response
      BY DEF NewResponse, Response
  <1>8. Answering(tls, server_writes, NewResponse, pieces, handler, made) /\ ~NewResponse.written_header
      BY DEF Answering, NewResponse, Idle
  <1>9. WireInv
      BY DEF IInv
  <1>10. CASE ~wait /\ all[1].k = "BAD"
    <2>1. SessionClose(response_ptr_, IF tls THEN "read_after_close" ELSE LateWrite(server_writes))
        BY <1>1, <1>5, <1>10 DEF HttpOnRead
    <2>2. tcp' = "closed"
        BY <2>1 DEF SessionClose, TcpClose
    <2>3. ~tls => ub' = ub
        BY <2>1 DEF SessionClose, LateWrite, Up
    <2> QED BY <1>4, <1>10, <2>2, <2>3
  <1>11. CASE wait
    <2>1. ~(~wait /\ all[1].k = "BAD")
        BY <1>11
    <2>2. /\ recv_' = all /\ kept' = kept
          /\ UNCHANGED <<response_ptr_, server_writes, handler, made, written, pieces>>
          /\ UNCHANGED <<http, tcp, s2c_end, session_ptr_map_, ub>>
        BY <1>1, <1>5, <1>11, <2>1 DEF HttpOnRead
    <2> QED BY <1>1, <2>2
  <1>12. CASE ~wait /\ all[1].k = "OPTIONS"
    <2>1. /\ Write(NewResponse, 0, FALSE) /\ UNCHANGED <<handler, made, kept>>
          /\ UNCHANGED <<http, tcp, s2c_end, session_ptr_map_, ub>>
        BY <1>1, <1>5, <1>12 DEF HttpOnRead, Idle
    <2>2. Answering(tls, server_writes, NewResponse, pieces, <<>>, 0)
        BY <1>8 DEF Idle
    <2>3. Answering(tls, server_writes', response_ptr_', pieces', <<>>, 0)
        BY <1>7, <1>8, <1>9, <2>1, <2>2, OptionsAnswers
    <2>4. response_ptr_' # None
      <3>1. PICK zero, no : zero = 0 /\ no = FALSE
          OBVIOUS
      <3>2. zero \in Nat /\ no \in BOOLEAN /\ Write(NewResponse, zero, no)
          BY <2>1, <3>1
      <3>3. response_ptr_' \in Response
          BY <1>7, <1>9, <3>2, WriteType
      <3> QED BY <3>3, ExchangeAssumption
    <2> QED BY <1>1, <1>6, <1>12, <2>1, <2>3, <2>4 DEF Idle
  <1>13. CASE ~wait /\ all[1].k \notin {"BAD", "OPTIONS"}
    <2>1. Handle(NewResponse) /\ kept' = kept
        BY <1>1, <1>5, <1>13 DEF HttpOnRead, Idle
    <2>c. CASE SessionClose(NewResponse, "closed_in_handler")
      <3>1. tcp' = "closed" /\ ub' = "closed_in_handler"
          BY <2>c DEF SessionClose, TcpClose
      <3> QED BY <3>1
    <2>d. CASE ~SessionClose(NewResponse, "closed_in_handler")
      <3>2. PICK h \in Handlers :
                /\ handler' = h
                /\ \/ made' = 1 /\ Write(NewResponse, h[1], Len(h) > 1)
                   \/ made' = 0 /\ response_ptr_' = NewResponse /\ UNCHANGED <<server_writes, written, pieces>>
                /\ UNCHANGED <<http, tcp, s2c_end, session_ptr_map_, ub>>
          BY <2>1, <2>d DEF Handle
      <3>3. h \in Seq(Nat) /\ Len(h) \in Nat /\ Len(h) >= 1
          BY ExchangeAssumption
      <3>4. Answering(tls, server_writes, NewResponse, pieces, h, 0)
          BY DEF Answering, NewResponse, Idle
      <3>5. CASE made' = 1 /\ Write(NewResponse, h[1], Len(h) > 1)
        <4>1. PICK zero \in Nat : zero = 0
            OBVIOUS
        <4>2. zero + 1 = 1 /\ zero + 1 <= Len(h) /\ 1 \in 1..Len(h)
            BY <3>3, <4>1
        <4>3. Write(NewResponse, h[zero + 1], zero + 1 < Len(h))
          <5>1. (zero + 1 < Len(h)) = (Len(h) > 1)
              BY <3>3, <4>1
          <5> QED BY <3>5, <4>2, <5>1
        <4>4. Answering(tls, server_writes', response_ptr_', pieces', h, zero + 1)
            BY <1>7, <1>9, <3>3, <3>4, <4>1, <4>2, <4>3, WriteAnswers
        <4>5. PICK n, continue : n = h[1] /\ continue = (Len(h) > 1)
            OBVIOUS
        <4>6. n \in Nat /\ continue \in BOOLEAN /\ Write(NewResponse, n, continue)
            BY <3>3, <3>5, <4>2, <4>5, ElementOfSeq
        <4>7. response_ptr_' \in Response
            BY <1>7, <1>9, <4>6, WriteType
        <4>8. response_ptr_' # None
            BY <4>7, ExchangeAssumption
        <4> QED BY <1>1, <1>6, <1>13, <2>1, <3>2, <3>5, <4>2, <4>4, <4>8
      <3>6. CASE made' = 0 /\ response_ptr_' = NewResponse /\ UNCHANGED <<server_writes, written, pieces>>
        <4>1. response_ptr_' # None
            BY <1>7, <3>6, ExchangeAssumption
        <4>2. Answering(tls, server_writes', response_ptr_', pieces', handler', made')
            BY <3>2, <3>4, <3>6
        <4> QED BY <1>1, <1>6, <1>13, <2>1, <3>2, <4>1, <4>2
      <3> QED BY <3>2, <3>5, <3>6
    <2> QED BY <2>c, <2>d
  <1> QED BY <1>10, <1>11, <1>12, <1>13

------------------------------------------------------------------------------
(* Write requests: one that the socket has still to take, and one that it   *)
(* has taken, or that has been called back since.                           *)
Pending(ws, cells) == ws = <<[cells |-> cells, done |-> FALSE]>>
Taken(ws, cells) == ws = <<>> \/ ws = <<[cells |-> cells, done |-> TRUE]>>

(* The socket takes a request. *)
LEMMA SetDone ==
    \A c, a, b : [[cells |-> c, done |-> a] EXCEPT !.done = b] = [cells |-> c, done |-> b]
  OBVIOUS

(* The socket can take a pending request. *)
LEMMA PendingTaken ==
    ASSUME NEW ws, NEW cells, Pending(ws, cells)
    PROVE  /\ ws # <<>> /\ DOMAIN ws = {1} /\ Head(ws) = ws[1]
           /\ ws[1].cells = cells /\ ~ws[1].done
           /\ Taken([ws EXCEPT ![1].done = TRUE], cells)
  <1>1. PICK w : w = [cells |-> cells, done |-> FALSE]
      OBVIOUS
  <1>2. ws = <<w>>
      BY <1>1 DEF Pending
  <1>3. ws # <<>> /\ DOMAIN ws = {1} /\ Head(ws) = ws[1] /\ ws[1] = w
      BY <1>2
  <1>4. PICK q, v : q = [ws EXCEPT ![1].done = TRUE] /\ v = [cells |-> cells, done |-> TRUE]
      OBVIOUS
  <1>5. q = [i \in 1..1 |-> q[i]] /\ q[1] = v
    <2>1. DOMAIN ws = 1..1
        BY <1>2
    <2>2. [w EXCEPT !.done = TRUE] = v
      <3>1. [w EXCEPT !.done = TRUE] = [cells |-> cells, done |-> TRUE]
          BY <1>1, SetDone, Zenon
      <3> QED BY <1>4, <3>1
    <2>3. q[1] = [w EXCEPT !.done = TRUE]
        BY <1>3, <1>4
    <2> QED BY <1>4, <2>1, <2>2, <2>3
  <1>6. q = <<v>>
      BY <1>5, SmallTuples
  <1>7. w.cells = cells /\ ~w.done
      BY <1>1
  <1> QED BY <1>3, <1>4, <1>6, <1>7 DEF Taken

(* A taken request can only be called back, and then none is left. *)
LEMMA TakenCalledBack ==
    ASSUME NEW ws, NEW cells, Taken(ws, cells)
    PROVE  /\ ws # <<>> => Head(ws).done /\ Tail(ws) = <<>>
           /\ \A i \in DOMAIN ws : ws[i].done
           /\ CalledBack(ws) => ws = <<>>
  <1>1. CASE ws = <<>>
    <2>1. DOMAIN ws = {}
        BY <1>1
    <2> QED BY <1>1, <2>1
  <1>2. CASE ws = <<[cells |-> cells, done |-> TRUE]>>
    <2>1. PICK w : w = [cells |-> cells, done |-> TRUE]
        OBVIOUS
    <2>2. ws = <<w>> /\ w.done
        BY <1>2, <2>1
    <2>3. Head(ws) = w /\ Tail(ws) = <<>> /\ DOMAIN ws = {1} /\ ws[1] = w
        BY <2>2
    <2> QED BY <2>2, <2>3 DEF CalledBack
  <1> QED BY <1>1, <1>2 DEF Taken

(* One request handed to libuv that had none. *)
LEMMA OneQueued ==
    ASSUME NEW cells
    PROVE  /\ Pending(Queued(<<cells>>), cells) /\ Pending(<<>> \o Queued(<<cells>>), cells)
           /\ <<>> \o Queued(<<>>) = <<>>
  <1>1. PICK f, v : f = Queued(<<cells>>) /\ v = [cells |-> cells, done |-> FALSE]
      OBVIOUS
  <1>2. f = [i \in 1..1 |-> f[i]] /\ f[1] = v
    <2>1. PICK s : s = <<cells>>
        OBVIOUS
    <2>2. DOMAIN s = 1..1 /\ s[1] = cells
        BY <2>1
    <2>3. f = [i \in 1..1 |-> [cells |-> s[i], done |-> FALSE]]
        BY <1>1, <2>1, <2>2 DEF Queued
    <2>4. f = [i \in 1..1 |-> f[i]]
        BY <2>3
    <2>5. f[1] = [cells |-> s[1], done |-> FALSE]
        BY <2>3
    <2>6. f[1] = v
        BY <1>1, <2>2, <2>5, Zenon
    <2> QED BY <2>4, <2>6
  <1>3. f = <<v>>
      BY <1>2, SmallTuples
  <1>4. <<>> \o f = f
    <2>1. f \in Seq({v})
        BY <1>3
    <2> QED BY <2>1, ConcatEmptySeq
  <1>5. <<>> \o Queued(<<>>) = <<>>
    <2>1. Queued(<<>>) = <<>>
        BY DEF Queued
    <2> QED BY <2>1
  <1> QED BY <1>1, <1>3, <1>4, <1>5 DEF Pending

(* What a read returns, and what it leaves. *)
LEMMA ReadParts ==
    ASSUME NEW S, NEW s \in Seq(S), NEW n \in 1..Len(s)
    PROVE  /\ SubSeq(s, 1, n) \in Seq(S) /\ SubSeq(s, 1, n) # <<>>
           /\ SubSeq(s, n + 1, Len(s)) \in Seq(S)
           /\ SubSeq(s, 1, n) \o SubSeq(s, n + 1, Len(s)) = s
  <1>1. Len(s) \in Nat /\ n \in Int /\ Len(s) \in Int /\ \A i \in 1..Len(s) : s[i] \in S
      BY LenProperties, ElementOfSeq
  <1>2. SubSeq(s, 1, n) \in Seq(S) /\ Len(SubSeq(s, 1, n)) = n
    <2>1. \A i \in 1..n : s[i] \in S
        BY <1>1
    <2> QED BY <1>1, <2>1, SubSeqProperties
  <1>3. SubSeq(s, n + 1, Len(s)) \in Seq(S)
    <2>1. \A i \in n + 1..Len(s) : s[i] \in S
        BY <1>1
    <2>2. n + 1 \in Int
        BY <1>1
    <2> QED BY <1>1, <2>1, <2>2, SubSeqProperties
  <1>4. SubSeq(s, 1, n) # <<>>
      BY <1>2
  <1>5. SubSeq(s, 1, n) \o SubSeq(s, n + 1, Len(s)) = SubSeq(s, 1, Len(s))
    <2>1. PICK one : one = 1
        OBVIOUS
    <2>2. one \in 1..Len(s) + 1 /\ n \in one - 1..Len(s) /\ Len(s) \in n..Len(s)
        BY <1>1, <2>1
    <2>3. SubSeq(s, one, n) \o SubSeq(s, n + 1, Len(s)) = SubSeq(s, one, Len(s))
        BY <2>2, ConcatAdjacentSubSeq
    <2> QED BY <2>1, <2>3
  <1>6. SubSeq(s, 1, Len(s)) = s
      BY SubSeqFull
  <1> QED BY <1>2, <1>3, <1>4, <1>5, <1>6

(* Concatenation of cells is associative. *)
LEMMA Regroup ==
    ASSUME NEW x \in Seq(CellsOf(TRUE)), NEW y \in Seq(CellsOf(TRUE)), NEW z \in Seq(CellsOf(TRUE))
    PROVE  (x \o y) \o z = x \o (y \o z)
  BY ConcatAssociative, SMTT(30)

(* A flight that arrives in parts: a so far, rest later. *)
LEMMA FlightParts ==
    ASSUME NEW f, NEW a \in Seq(CellsOf(TRUE)), NEW rest \in Seq(CellsOf(TRUE)),
           a \o rest = Flight(f)
    PROVE  /\ HasFlight(a, f) => rest = <<>> /\ a = Flight(f)
           /\ ~HasFlight(a, f) => rest # <<>>
  <1>2. a \in Seq(CellsOf(TRUE)) /\ a \o rest = Flight(f)
      OBVIOUS
  <1>3. PICK la, lr : la = Len(a) /\ lr = Len(rest)
      OBVIOUS
  <1>4. la \in Nat /\ lr \in Nat /\ la + lr = 2
    <2>1. Len(Flight(f)) = 2
        BY DEF Flight
    <2>2. Len(a \o rest) = Len(a) + Len(rest)
        BY <1>2, ConcatProperties
    <2> QED BY <1>2, <1>3, <2>1, <2>2, LenProperties
  <1>5. ASSUME HasFlight(a, f) PROVE rest = <<>> /\ a = Flight(f)
    <2>1. la >= 2
        BY <1>3, <1>5 DEF HasFlight
    <2>2. Len(rest) = 0
        BY <1>3, <1>4, <2>1
    <2>3. rest = <<>>
        BY <2>2, EmptySeq
    <2>4. a = Flight(f)
        BY <1>2, <2>3, ConcatEmptySeq
    <2> QED BY <2>3, <2>4
  <1>6. ASSUME ~HasFlight(a, f) PROVE rest # <<>>
    <2> SUFFICES ASSUME rest = <<>> PROVE FALSE
        OBVIOUS
    <2>1. a = Flight(f)
        BY <1>2, ConcatEmptySeq
    <2>2. Len(a) = 2
        BY <2>1 DEF Flight
    <2>3. SubSeq(a, 1, 2) = a
        BY <1>2, <2>2, SubSeqFull
    <2>4. Len(a) >= 2 /\ SubSeq(a, 1, 2) = Flight(f)
      <3>1. Len(a) >= 2
          BY <2>2
      <3>2. SubSeq(a, 1, 2) = Flight(f)
          BY <2>1, <2>3, Zenon
      <3> QED BY <3>1, <3>2
    <2> QED BY <1>6, <2>4 DEF HasFlight
  <1> QED BY <1>5, <1>6

(* Nothing is left behind a flight. *)
LEMMA FlightEnds == ASSUME NEW f PROVE AfterFlight(Flight(f)) = <<>>
  <1>1. Len(Flight(f)) = 2
      BY DEF Flight
  <1> QED BY <1>1, SubSeqEmpty DEF AfterFlight

------------------------------------------------------------------------------
(* SSL_read on the part b of the record of a request: nothing before the    *)
(* tag is there, and then the beginning of the request.                     *)
LEMMA RecordRead ==
    ASSUME NEW q, Shaped(q), NEW b \in Seq(CellsOf(TRUE)), NEW rest \in Seq(CellsOf(TRUE)),
           b \o rest = Record(q)
    PROVE  /\ rest # <<>> => SSL_read(b).plain = <<>> /\ SSL_read(b).bio = b
           /\ rest = <<>> => /\ SSL_read(b).plain \in Seq(CellsOf(FALSE))
                             /\ SSL_read(b).plain # <<>>
                             /\ Len(SSL_read(b).plain) <= Len(q)
                             /\ \A i \in 1..Len(SSL_read(b).plain) : SSL_read(b).plain[i] = q[i]
  <1>1. PICK r, m, n : r = Record(q) /\ m = Len(q) /\ n = Len(b)
      OBVIOUS
  <1>2. q \in Seq(CellsOf(TRUE)) /\ q \in Seq(CellsOf(FALSE)) /\ m \in Nat /\ m >= 2
      BY <1>1, CellsWider, LenProperties DEF Shaped
  <1>3. Tag \in CellsOf(TRUE) /\ Tag.k = "tag"
    <2>1. PICK zero : zero = 0
        OBVIOUS
    <2>2. zero \in Int /\ "tag" \in KindsOf(TRUE) /\ Tag = Cell("tag", zero)
        BY <2>1 DEF KindsOf, TlsCells, Tag
    <2>3. Tag \in CellsOf(TRUE)
        BY <2>2, CellType
    <2> QED BY <2>2, <2>3 DEF Cell
  <1>4. /\ r \in Seq(CellsOf(TRUE)) /\ Len(r) = m + 1 /\ r[m + 1] = Tag
        /\ \A i \in 1..m : r[i] = q[i]
    <2>1. PICK g : g = Tag
        OBVIOUS
    <2>2. g \in CellsOf(TRUE) /\ r = Append(q, g)
        BY <1>1, <1>3, <2>1 DEF Record
    <2>3. PICK C : C = CellsOf(TRUE)
        OBVIOUS
    <2>4. g \in C /\ q \in Seq(C)
        BY <1>2, <2>2, <2>3
    <2>5. /\ Append(q, g) \in Seq(C) /\ Len(Append(q, g)) = Len(q) + 1
          /\ Append(q, g)[Len(q) + 1] = g
          /\ \A i \in 1..Len(q) : Append(q, g)[i] = q[i]
        BY <2>4, AppendProperties
    <2> QED BY <1>1, <2>1, <2>2, <2>3, <2>5
  <1>5. n \in Nat /\ n + Len(rest) = m + 1 /\ \A i \in 1..n : b[i] = r[i]
    <2>1. /\ Len(b \o rest) = Len(b) + Len(rest) /\ Len(b) \in Nat /\ Len(rest) \in Nat
          /\ \A i \in 1..Len(b) : (b \o rest)[i] = b[i]
        BY ConcatProperties, LenProperties
    <2> QED BY <1>1, <1>4, <2>1
  <1>6. PICK I : I = {i \in 1..n : b[i].k = "tag"}
      OBVIOUS
  <1>7. TagAt(b) = IF I # {} THEN Min(I) ELSE 0
      BY <1>1, <1>6 DEF TagAt, SelectInSeq
  <1>8. \A i \in 1..m : q[i].k # "tag"
      BY <1>1 DEF Shaped
  <1>9. ASSUME rest # <<>> PROVE SSL_read(b).plain = <<>> /\ SSL_read(b).bio = b
    <2>1. Len(rest) \in Nat /\ Len(rest) > 0
        BY <1>9, EmptySeq
    <2>2. n <= m
        BY <1>2, <1>5, <2>1
    <2>3. I = {}
        BY <1>2, <1>4, <1>5, <1>6, <1>8, <2>2
    <2>4. TagAt(b) = 0
        BY <1>7, <2>3
    <2>5. SSL_read(b) = [plain |-> <<>>, bio |-> b]
        BY <2>4, PlainCapAssumption DEF SSL_read
    <2> QED BY <2>5
  <1>10. ASSUME rest = <<>>
         PROVE  /\ SSL_read(b).plain \in Seq(CellsOf(FALSE))
                /\ SSL_read(b).plain # <<>>
                /\ Len(SSL_read(b).plain) <= Len(q)
                /\ \A i \in 1..Len(SSL_read(b).plain) : SSL_read(b).plain[i] = q[i]
    <2>1. n = m + 1
      <3>1. Len(rest) = 0
          BY <1>10
      <3> QED BY <1>2, <1>5, <3>1
    <2>2. TagAt(b) = m + 1
      <3>1. m + 1 \in I /\ I \in SUBSET Int
          BY <1>2, <1>3, <1>4, <1>5, <1>6, <2>1
      <3>2. \A j \in I : m + 1 <= j
        <4>1. \A j \in I : j \in 1..m + 1 /\ j \notin 1..m
            BY <1>2, <1>4, <1>5, <1>6, <1>8, <2>1
        <4> QED BY <1>2, <4>1
      <3>3. Min(I) = m + 1
          BY <3>1, <3>2, MinOf
      <3> QED BY <1>7, <3>1, <3>3
    <2>3. PlainCap \in Nat /\ PlainCap >= 1
        BY PlainCapAssumption
    <2>4. PICK k : k = IF m > PlainCap THEN PlainCap ELSE m
        OBVIOUS
    <2>5. k \in Nat /\ k >= 1 /\ k <= m
        BY <1>2, <2>3, <2>4
    <2>6. SSL_read(b).plain = SubSeq(b, 1, k)
      <3>1. m + 1 # 0 /\ m + 1 - 1 = m
          BY <1>2
      <3>2. PICK R : R = SSL_read(b)
          OBVIOUS
      <3>3. CASE m > PlainCap
        <4>1. R = [plain |-> SubSeq(b, 1, PlainCap), bio |-> SubSeq(b, PlainCap + 1, Len(b))]
            BY <1>2, <2>2, <2>3, <3>1, <3>2, <3>3 DEF SSL_read
        <4>2. R.plain = SubSeq(b, 1, PlainCap)
            BY <4>1
        <4> QED BY <2>4, <3>2, <3>3, <4>2
      <3>4. CASE ~(m > PlainCap)
        <4>1. PICK t : t = TagAt(b)
            OBVIOUS
        <4>2. t = m + 1 /\ t # 0 /\ ~(t - 1 > PlainCap) /\ t - 1 = m
          <5>1. t = m + 1
              BY <2>2, <4>1
          <5> QED BY <1>2, <2>3, <3>4, <5>1
        <4>3. R = [plain |-> SubSeq(b, 1, t - 1), bio |-> SubSeq(b, t + 1, Len(b))]
            BY <3>2, <4>1, <4>2 DEF SSL_read
        <4>4. R.plain = SubSeq(b, 1, t - 1)
            BY <4>3
        <4> QED BY <2>4, <3>2, <3>4, <4>2, <4>4
      <3> QED BY <3>3, <3>4
    <2>7. \A i \in 1..k : b[i] = q[i] /\ b[i] \in CellsOf(FALSE)
      <3>1. \A i \in 1..k : b[i] = q[i] /\ i \in 1..m
        <4>1. \A i \in 1..k : i \in 1..m /\ i \in 1..n
            BY <1>2, <2>1, <2>5
        <4> QED BY <1>4, <1>5, <4>1
      <3>2. \A i \in 1..m : q[i] \in CellsOf(FALSE)
          BY <1>1, <1>2, ElementOfSeq
      <3> QED BY <3>1, <3>2
    <2>8. PICK p : p = SubSeq(b, 1, k)
        OBVIOUS
    <2>9. /\ p \in Seq(CellsOf(FALSE)) /\ Len(p) = k
          /\ \A i \in 1..k : p[i] = b[i]
      <3>0. PICK C : C = CellsOf(FALSE)
          OBVIOUS
      <3>1. k \in Int /\ \A i \in 1..k : b[i] \in C
        <4>1. \A i \in 1..k : b[i] \in C
            BY <2>7, <3>0, Zenon
        <4> QED BY <2>5, <4>1
      <3>2. /\ p \in Seq(C)
            /\ Len(p) = IF 1 <= k THEN k - 1 + 1 ELSE 0
            /\ \A i \in 1..k - 1 + 1 : p[i] = b[1 + i - 1]
          BY <2>8, <3>1, SubSeqProperties
      <3>3. 1 <= k /\ k - 1 + 1 = k /\ \A i \in 1..k : 1 + i - 1 = i
          BY <2>5
      <3> QED BY <3>0, <3>2, <3>3
    <2>10. p # <<>>
        BY <2>5, <2>9
    <2> QED BY <1>1, <2>5, <2>6, <2>7, <2>8, <2>9, <2>10
  <1> QED BY <1>9, <1>10
------------------------------------------------------------------------------
(* What the server has of the answer once the request is read. *)
Answer ==
    /\ kept = "no"
    /\ \/ response_ptr_ = None /\ server_writes = <<>> /\ pieces = <<>>
       \/ response_ptr_ # None /\ Answering(tls, server_writes, response_ptr_, pieces, handler, made)

(* The accounting looks at the cells of the requests only. *)
LEMMA AccountSame ==
    ASSUME NEW t \in BOOLEAN, NEW ws \in Seq(WriteOf(t)), NEW q \in Seq(WriteOf(t)),
           Len(q) = Len(ws), \A i \in 1..Len(ws) : q[i].cells = ws[i].cells,
           NEW remain, NEW p, Accounted(t, ws, remain, p)
    PROVE  Accounted(t, q, remain, p)
  <1>1. \A i \in 1..Len(ws) : Size(t, q[i]) = Size(t, ws[i])
      BY DEF Size
  <1>2. Len(ws) \in Nat /\ (Len(ws) > 0 => Len(ws) \in 1..Len(ws))
      BY LenProperties
  <1>3. PICK total : total = remain + Lag(t, ws, p)
      OBVIOUS
  <1>4. Lag(t, q, p) = Lag(t, ws, p)
      BY DEF Lag
  <1>5. PICK s \in [1..Len(ws) + 1 -> Nat] : IsSums(t, ws, s) /\ s[1] = total
      BY <1>3 DEF Accounted, Sums
  <1>6. IsSums(t, q, s)
      BY <1>1, <1>2, <1>5 DEF IsSums
  <1>7. Sums(t, q, total)
      BY <1>5, <1>6 DEF Sums
  <1>8. Sums(t, q, remain + Lag(t, q, p))
      BY <1>3, <1>4, <1>7
  <1>9. Len(q) <= 1 + Len(p) /\ \A i \in 1..Len(q) : Size(t, q[i]) >= 1
      BY <1>1 DEF Accounted
  <1>10. Len(q) > 0 /\ p # <<>> => Size(t, q[Len(q)]) = p[Len(p)]
      BY <1>1, <1>2 DEF Accounted
  <1> QED BY <1>8, <1>9, <1>10 DEF Accounted

(* The socket takes a part of the answer. *)
LEMMA AnswerTaken == ASSUME IInv, Answer, ServerTakes PROVE Answer'
  <1>1. PICK i \in DOMAIN server_writes :
            server_writes' = [server_writes EXCEPT ![i].done = TRUE]
      BY DEF ServerTakes
  <1>2. tls \in BOOLEAN /\ server_writes \in Seq(WriteOf(tls)) /\ i \in 1..Len(server_writes)
      BY LenProperties DEF IInv, WireInv
  <1>3. UNCHANGED <<tls, response_ptr_, pieces, handler, made, kept>>
      BY DEF ServerTakes
  <1>4. server_writes # <<>>
      BY <1>2
  <1>5. response_ptr_ # None /\ Answering(tls, server_writes, response_ptr_, pieces, handler, made)
      BY <1>4 DEF Answer
  <1>6. PICK q, v : q = server_writes' /\ v = [server_writes[i] EXCEPT !.done = TRUE]
      OBVIOUS
  <1>7. q = [server_writes EXCEPT ![i] = v]
      BY <1>1, <1>6
  <1>8. v \in WriteOf(tls) /\ v.cells = server_writes[i].cells
    <2>1. server_writes[i] \in WriteOf(tls)
        BY <1>2, ElementOfSeq
    <2> QED BY <1>6, <2>1 DEF WriteOf
  <1>9. /\ q \in Seq(WriteOf(tls)) /\ Len(q) = Len(server_writes)
        /\ \A j \in 1..Len(server_writes) : q[j] = IF j = i THEN v ELSE server_writes[j]
      BY <1>2, <1>7, <1>8, ExceptSeq
  <1>10. \A j \in 1..Len(server_writes) : q[j].cells = server_writes[j].cells
      BY <1>8, <1>9
  <1>11. response_ptr_.written_header
      BY <1>4, <1>5 DEF Answering
  <1>12. Accounted(tls, server_writes, response_ptr_.remain, pieces)
      BY <1>5, <1>11 DEF Answering
  <1>13. Accounted(tls, q, response_ptr_.remain, pieces)
      BY <1>2, <1>9, <1>10, <1>12, AccountSame
  <1>14. Answering(tls, q, response_ptr_, pieces, handler, made)
      BY <1>5, <1>11, <1>13 DEF Answering
  <1> QED BY <1>3, <1>5, <1>6, <1>14 DEF Answer

(* The application writes more of it. *)
LEMMA AnswerWritten == ASSUME IInv, Answer, AppWrites PROVE Answer'
  <1>1. /\ response_ptr_ # None /\ made < Len(handler) /\ made' = made + 1
        /\ Write(response_ptr_, handler[made + 1], made + 1 < Len(handler))
        /\ UNCHANGED <<tls, handler, kept>>
      BY DEF AppWrites
  <1>2. /\ WireInv /\ response_ptr_ \in Response /\ handler \in Seq(Nat)
        /\ made \in Nat /\ Len(handler) \in Nat /\ made + 1 <= Len(handler)
    <2>1. made \in 0..Len(handler) /\ handler \in Seq(Nat)
        BY DEF IInv, AppInv
    <2>2. Len(handler) \in Nat
        BY <2>1, LenProperties
    <2>3. made \in Nat /\ made + 1 <= Len(handler)
        BY <1>1, <2>1, <2>2
    <2> QED BY <1>1, <2>1, <2>2, <2>3 DEF IInv, AppInv
  <1>3. Answering(tls, server_writes, response_ptr_, pieces, handler, made)
      BY <1>1 DEF Answer
  <1>4. Answering(tls, server_writes', response_ptr_', pieces', handler, made + 1)
      BY <1>1, <1>2, <1>3, WriteAnswers
  <1>5. response_ptr_' # None
    <2>1. PICK n, continue : n = handler[made + 1] /\ continue = (made + 1 < Len(handler))
        OBVIOUS
    <2>2. made + 1 \in 1..Len(handler)
        BY <1>2
    <2>3. n \in Nat /\ continue \in BOOLEAN
        BY <1>2, <2>1, <2>2, ElementOfSeq
    <2>4. Write(response_ptr_, n, continue)
        BY <1>1, <2>1
    <2>5. response_ptr_' \in Response
        BY <1>2, <2>3, <2>4, WriteType
    <2> QED BY <2>5, ExchangeAssumption
  <1> QED BY <1>1, <1>4, <1>5 DEF Answer

(* A session that closes with requests left has run out of remain_bytes_:   *)
(* the response is Shortened.                                               *)
LEMMA ClosedEarly ==
    ASSUME IInv, response_ptr_ \in Response,
           Answering(tls, server_writes, response_ptr_, pieces, handler, made),
           response_ptr_.written_header, server_writes # <<>>, Tail(server_writes) # <<>>,
           response_ptr_.remain - Len(Head(server_writes).cells) <= 0
    PROVE  Shortened
  <1>1. /\ tls \in BOOLEAN /\ server_writes \in Seq(WriteOf(tls)) /\ pieces \in Seq(Nat)
        /\ response_ptr_.remain \in Int
      BY DEF IInv, WireInv, Response
  <1>2. Accounted(tls, server_writes, response_ptr_.remain, pieces)
      BY DEF Answering
  <1>3. response_ptr_.remain - Len(server_writes[1].cells) <= 0
      BY <1>1
  <1>4. tls /\ pieces # <<>> /\ pieces[Len(pieces)] <= Len(pieces)
      BY <1>1, <1>2, <1>3, AccountTail
  <1> QED BY <1>4 DEF Shortened, Last

(* A part of it is called back.  The session goes on with the rest, or      *)
(* closes; it closes before the rest is written only if that is Shortened.  *)
LEMMA AnswerCalledBack ==
    ASSUME IInv, Answer, ServerOnWrite, ~c2s_end, ~tls \/ ssl_.state = "DATA_RECV"
    PROVE  \/ Answer' /\ UNCHANGED <<tcp, s2c_end, ub>>
           \/ tcp' = "closed" /\ (ub' # ub => ub' = "late_write" /\ Shortened)
  <1>1. PICK w, left, remain :
            /\ w = Head(server_writes) /\ left = Tail(server_writes)
            /\ remain = response_ptr_.remain - Len(w.cells)
      OBVIOUS
  <1>2. Up /\ server_writes # <<>> /\ w.done /\ UNCHANGED <<tls, pieces, handler, made, kept>>
      BY <1>1 DEF ServerOnWrite
  <1>3. response_ptr_ # None /\ Answering(tls, server_writes, response_ptr_, pieces, handler, made)
      BY <1>2 DEF Answer
  <1>4. /\ tls \in BOOLEAN /\ server_writes \in Seq(WriteOf(tls)) /\ handler \in Seq(Nat)
        /\ made \in Nat /\ made <= Len(handler) /\ response_ptr_ \in Response
        /\ response_ptr_.remain \in Int /\ pieces \in Seq(Nat)
    <2>1. response_ptr_ \in Response
        BY <1>3 DEF IInv, AppInv
    <2>2. made \in 0..Len(handler) /\ handler \in Seq(Nat)
        BY DEF IInv, AppInv
    <2>3. made \in Nat /\ made <= Len(handler)
        BY <2>2, LenProperties
    <2> QED BY <2>1, <2>2, <2>3 DEF IInv, WireInv, Response
  <1>5. response_ptr_.written_header
      BY <1>2, <1>3 DEF Answering
  <1>6. Accounted(tls, server_writes, response_ptr_.remain, pieces)
      BY <1>3, <1>5 DEF Answering
  <1>7. w = server_writes[1]
      BY <1>1, <1>2, <1>4
  <1>8. Accounted(tls, left, remain, pieces)
      BY <1>1, <1>2, <1>4, <1>6, <1>7, AccountTail
  <1>9. CASE ~response_ptr_.continue_flag /\ remain <= 0 /\ SessionClose(response_ptr_, LateWrite(left))
    <2>1. tcp' = "closed"
        BY <1>9 DEF SessionClose, TcpClose
    <2>2. ASSUME ub' # ub PROVE ub' = "late_write" /\ Shortened
      <3>1. left # <<>> /\ ub' = "late_write"
          BY <1>2, <1>9, <2>2 DEF SessionClose, LateWrite, Up
      <3>2. response_ptr_.remain - Len(Head(server_writes).cells) <= 0 /\ Tail(server_writes) # <<>>
          BY <1>1, <1>9, <3>1
      <3>3. Shortened
          BY <1>2, <1>3, <1>4, <1>5, <1>9, <3>2, ClosedEarly
      <3> QED BY <3>1, <3>3
    <2> QED BY <2>1, <2>2
  <1>10. CASE /\ server_writes' = left
              /\ response_ptr_' = [response_ptr_ EXCEPT !.remain = remain]
              /\ UNCHANGED <<http, tcp, s2c_end, session_ptr_map_, ub>>
    <2>1. PICK r : r = [response_ptr_ EXCEPT !.remain = remain]
        OBVIOUS
    <2>2. remain \in Int
      <3>1. 1 \in 1..Len(server_writes)
          BY <1>2, <1>4, EmptySeq
      <3>2. w \in WriteOf(tls)
          BY <1>4, <1>7, <3>1, ElementOfSeq
      <3>3. Len(w.cells) \in Nat
          BY <3>2, LenProperties DEF WriteOf
      <3> QED BY <1>1, <1>4, <3>3
    <2>3. /\ r \in Response /\ r.remain = remain /\ r.is_close = response_ptr_.is_close
          /\ r.written_header = response_ptr_.written_header
          /\ r.continue_flag = response_ptr_.continue_flag
        BY <1>4, <2>1, <2>2 DEF Response
    <2>4. Answering(tls, left, r, pieces, handler, made)
        BY <1>3, <1>5, <1>8, <2>3 DEF Answering
    <2>5. r # None
        BY <2>3, ExchangeAssumption
    <2> QED BY <1>2, <1>10, <2>1, <2>4, <2>5 DEF Answer
  <1> QED BY <1>1, <1>2, <1>3, <1>9, <1>10 DEF ServerOnWrite

------------------------------------------------------------------------------
(* Whose connection the server has: a client that is not there has ended    *)
(* it, or the server never had one; a new client starts from nothing.       *)
GoneInv ==
    /\ client \in {"idle", "connecting", "gone"} => c2s_end \/ tcp = "none"
    /\ client = "connecting" => client_writes = <<>> /\ ssl_client_ = NewClient
    /\ tcp = "none" => server_writes = <<>> /\ response_ptr_ = None
    /\ tcp = "open" => ~s2c_end
    /\ client # "idle" => Shaped(request)

(* The server has seen nothing of a request. *)
Waiting == recv_ = <<>> /\ Idle

(* The client waits in its state for the flight f, which is queued at the   *)
(* server or on its way, in part already read.                              *)
Coming(f) ==
    \/ s2c = <<>> /\ ssl_client_.bio = <<>> /\ Pending(server_writes, f)
    \/ Taken(server_writes, f) /\ ssl_client_.bio \in Seq(CellsOf(TRUE)) /\ ssl_client_.bio \o s2c = f

(* A connection without TLS: accepted; the request is queued, is on its     *)
(* way, in part already read, and has arrived.                              *)
P0 == client = "accepted" /\ client_writes = <<>> /\ c2s = <<>> /\ server_writes = <<>> /\ Waiting
P1 == client = "open" /\ Pending(client_writes, request) /\ c2s = <<>> /\ server_writes = <<>> /\ Waiting
P2 == /\ client = "open" /\ Taken(client_writes, request) /\ c2s # <<>>
      /\ recv_ \in Seq(CellsOf(FALSE)) /\ recv_ \o c2s = request /\ server_writes = <<>> /\ Idle
P3 == client = "open" /\ Taken(client_writes, request) /\ c2s = <<>> /\ Answer

(* With TLS: accepted; the ClientHello is queued, on its way, answered; the *)
(* same of the client's second flight; the request's record is queued, on   *)
(* its way, and has arrived.                                                *)
Srv(st, b, f) == ssl_ = [state |-> st, bio |-> b, finished |-> f]
Cli(st) == client = "open" /\ ssl_client_.state = st
T0 == /\ client = "accepted" /\ ssl_client_ = NewClient /\ client_writes = <<>> /\ c2s = <<>>
      /\ Srv("INIT", <<>>, FALSE) /\ s2c = <<>> /\ server_writes = <<>> /\ Waiting
T1 == /\ Cli("HELLO_DONE") /\ ssl_client_.bio = <<>> /\ Pending(client_writes, Flight("CH")) /\ c2s = <<>>
      /\ Srv("INIT", <<>>, FALSE) /\ s2c = <<>> /\ server_writes = <<>> /\ Waiting
T2 == /\ Cli("HELLO_DONE") /\ ssl_client_.bio = <<>> /\ Taken(client_writes, Flight("CH"))
      /\ c2s = Flight("CH")
      /\ Srv("INIT", <<>>, FALSE) /\ s2c = <<>> /\ server_writes = <<>> /\ Waiting
T3 == /\ Cli("HELLO_DONE") /\ Taken(client_writes, Flight("CH")) /\ c2s = <<>>
      /\ Srv("HELLO_DONE", <<>>, FALSE) /\ Coming(Flight("SH")) /\ Waiting
T4 == /\ Cli("KEY_EXCHANGE") /\ ssl_client_.bio = <<>> /\ Pending(client_writes, Flight("CKE")) /\ c2s = <<>>
      /\ Srv("HELLO_DONE", <<>>, FALSE) /\ s2c = <<>> /\ Taken(server_writes, Flight("SH")) /\ Waiting
T5 == /\ Cli("KEY_EXCHANGE") /\ ssl_client_.bio = <<>> /\ Taken(client_writes, Flight("CKE"))
      /\ c2s = Flight("CKE")
      /\ Srv("HELLO_DONE", <<>>, FALSE) /\ s2c = <<>> /\ Taken(server_writes, Flight("SH")) /\ Waiting
T6 == /\ Cli("KEY_EXCHANGE") /\ Taken(client_writes, Flight("CKE")) /\ c2s = <<>>
      /\ Srv("DATA_RECV", <<>>, TRUE) /\ Coming(Flight("FIN")) /\ Waiting
T7 == /\ Cli("READY") /\ Pending(client_writes, Record(request)) /\ c2s = <<>>
      /\ Srv("DATA_RECV", <<>>, TRUE) /\ s2c = <<>> /\ Taken(server_writes, Flight("FIN")) /\ Waiting
T8 == /\ Cli("READY") /\ Taken(client_writes, Record(request)) /\ c2s # <<>>
      /\ ssl_.state = "DATA_RECV" /\ ssl_.finished /\ ssl_.bio \in Seq(CellsOf(TRUE))
      /\ ssl_.bio \o c2s = Record(request)
      /\ s2c = <<>> /\ Taken(server_writes, Flight("FIN")) /\ Waiting
T9 == /\ Cli("READY") /\ Taken(client_writes, Record(request)) /\ c2s = <<>>
      /\ ssl_.state = "DATA_RECV" /\ ssl_.finished /\ Answer

(* The second flight came in parts: SslServer has moved on with an empty    *)
(* answer, and the client waits for ever.                                   *)
TS == /\ Cli("KEY_EXCHANGE") /\ Taken(client_writes, Flight("CKE"))
      /\ ssl_.state = "DATA_RECV" /\ s2c = <<>> /\ Waiting
      /\ Pending(server_writes, <<>>) \/ Taken(server_writes, <<>>)
      /\ \/ ssl_.finished /\ c2s = <<>>
         \/ /\ ~ssl_.finished /\ ssl_.bio \in Seq(CellsOf(TRUE)) /\ c2s # <<>>
            /\ ssl_.bio \o c2s = Flight("CKE")

PlainPhase == P0 \/ P1 \/ P2 \/ P3
TlsPhase == T0 \/ T1 \/ T2 \/ T3 \/ T4 \/ T5 \/ T6 \/ T7 \/ T8 \/ T9 \/ TS
Live == tcp = "open" /\ ~c2s_end
LiveInv == Live => /\ tls => TlsPhase
                   /\ ~tls => PlainPhase

(* Close of a session ends its connection. *)
LEMMA CloseEnds == ASSUME NEW r, NEW what, SessionClose(r, what) PROVE tcp' = "closed"
  BY DEF SessionClose, TcpClose

(* HttpSession::OnRead closes the session, leaves its connection as it is, *)
(* or calls the handler.                                                    *)
LEMMA HttpReadCases ==
    ASSUME NEW data, HttpOnRead(data)
    PROVE  \/ SessionClose(response_ptr_, IF tls THEN "read_after_close" ELSE LateWrite(server_writes))
           \/ UNCHANGED <<http, tcp, s2c_end, session_ptr_map_, ub>>
           \/ \E r : Handle(r)
  <1>1. PICK all, e, r, wait :
            /\ all = recv_ \o data /\ e = HeaderEnd(all)
            /\ r = IF response_ptr_ = None THEN NewResponse ELSE response_ptr_
            /\ wait = (e = 0 \/ (all[1].k = "POST" /\ Len(all) - e < all[e].v))
      OBVIOUS
  <1>2. CASE ~wait /\ all[1].k = "BAD"
      BY <1>1, <1>2 DEF HttpOnRead
  <1>3. CASE wait
      BY <1>1, <1>3 DEF HttpOnRead
  <1>4. CASE ~wait /\ all[1].k = "OPTIONS"
      BY <1>1, <1>4 DEF HttpOnRead
  <1>5. CASE ~wait /\ all[1].k = "GET"
    <2>1. Handle(NewResponse)
        BY <1>1, <1>5 DEF HttpOnRead
    <2> QED BY <2>1
  <1>6. CASE ~wait /\ all[1].k \notin {"BAD", "OPTIONS", "GET"}
    <2>1. Handle(r)
        BY <1>1, <1>6 DEF HttpOnRead
    <2> QED BY <2>1
  <1> QED BY <1>2, <1>3, <1>4, <1>5, <1>6

(* A read of the server leaves its connection as it is, or ends it. *)
LEMMA ReadEnds ==
    ASSUME ServerOnRead
    PROVE  tcp' = "closed" \/ UNCHANGED <<tcp, s2c_end>>
  <1>1. \A data : HttpOnRead(data) => tcp' = "closed" \/ UNCHANGED <<tcp, s2c_end>>
    <2>1. \A r : Handle(r) => tcp' = "closed" \/ UNCHANGED <<tcp, s2c_end>>
        BY CloseEnds DEF Handle
    <2> SUFFICES ASSUME NEW data, HttpOnRead(data)
                 PROVE  tcp' = "closed" \/ UNCHANGED <<tcp, s2c_end>>
        OBVIOUS
    <2>2. \/ \E r, what : SessionClose(r, what)
          \/ UNCHANGED <<tcp, s2c_end>>
          \/ \E r : Handle(r)
        BY HttpReadCases
    <2> QED BY <2>1, <2>2, CloseEnds
  <1>2. \A data : ServerTlsRead(data) => tcp' = "closed" \/ UNCHANGED <<tcp, s2c_end>>
    <2> SUFFICES ASSUME NEW data, ServerTlsRead(data)
                 PROVE  tcp' = "closed" \/ UNCHANGED <<tcp, s2c_end>>
        OBVIOUS
    <2>1. \/ HandshakeFails \/ UNCHANGED <<tcp, s2c_end>> \/ \E d : HttpOnRead(d)
        BY DEF ServerTlsRead
    <2> QED BY <1>1, <2>1 DEF HandshakeFails, TcpClose
  <1> QED BY <1>1, <1>2 DEF ServerOnRead

(* A callback on a write leaves the connection as it is, or ends it. *)
LEMMA WriteEnds ==
    ASSUME ServerOnWrite
    PROVE  tcp' = "closed" \/ UNCHANGED <<tcp, s2c_end>>
  BY CloseEnds DEF ServerOnWrite

(* A step of the server on an open connection. *)
LEMMA ServerGone ==
    ASSUME GoneInv, tcp # "none", UNCHANGED <<clientVars, c2s_end>>,
           tcp' = "closed" \/ UNCHANGED <<tcp, s2c_end>>
    PROVE  GoneInv'
  <1>1. UNCHANGED <<client, request, client_writes, ssl_client_>>
      BY DEF clientVars
  <1>2. tcp' # "none" /\ (tcp' = "open" => tcp = "open" /\ s2c_end' = s2c_end)
      OBVIOUS
  <1> QED BY <1>1, <1>2 DEF GoneInv

(* Every step keeps GoneInv. *)
LEMMA StepGone == ASSUME IInv, GoneInv, Next PROVE GoneInv'
  <1>1. CASE Connect
    <2>1. Shaped(request')
        BY <1>1, RequestShaped DEF Connect
    <2>2. /\ client' = "connecting" /\ client_writes' = <<>> /\ ssl_client_' = NewClient
          /\ client \in {"idle", "gone"}
          /\ UNCHANGED <<c2s_end, s2c_end, tcp, server_writes, response_ptr_>>
        BY <1>1 DEF Connect, wireVars, serverVars
    <2> QED BY <2>1, <2>2 DEF GoneInv
  <1>2. CASE ConnectFails
      BY <1>2 DEF ConnectFails, GoneInv, wireVars, serverVars
  <1>3. CASE OnAccept
    <2>1. /\ client = "connecting" /\ client' = "accepted" /\ request' = request
          /\ tcp' = "closed" \/ (tcp' = "open" /\ ~s2c_end')
        BY <1>3 DEF OnAccept
    <2> QED BY <2>1 DEF GoneInv
  <1>4. CASE ClientOnConnect \/ ClientTakes \/ ClientOnWrite \/ ClientOnRead \/ ClientOnEnd \/ OtherSends
    <2>1. /\ client' = "open" /\ client # "idle" /\ request' = request
          /\ UNCHANGED <<s2c_end, tcp, server_writes, response_ptr_>>
        BY <1>4 DEF ClientOnConnect, ClientTakes, ClientOnWrite, ClientOnRead, ClientOnEnd, OtherSends, wireVars, serverVars
    <2> QED BY <2>1 DEF GoneInv
  <1>5. CASE ClientGoes
    <2>1. /\ client' = "gone" /\ client # "idle" /\ request' = request /\ c2s_end'
          /\ UNCHANGED <<s2c_end, tcp, server_writes, response_ptr_>>
        BY <1>5 DEF ClientGoes, serverVars
    <2> QED BY <2>1 DEF GoneInv
  <1>6. CASE ServerOnRead
    <2>1. tcp = "open" /\ UNCHANGED <<clientVars, c2s_end>>
        BY <1>6 DEF ServerOnRead
    <2> QED BY <1>6, <2>1, ReadEnds, ServerGone
  <1>7. CASE ServerOnEnd
    <2>1. tcp = "open" /\ UNCHANGED <<clientVars, c2s_end>> /\ tcp' = "closed"
        BY <1>7, CloseEnds DEF ServerOnEnd
    <2> QED BY <2>1, ServerGone
  <1>8. CASE ServerTakes
    <2>1. tcp = "open" /\ UNCHANGED <<clientVars, c2s_end>> /\ UNCHANGED <<tcp, s2c_end>>
        BY <1>8 DEF ServerTakes
    <2> QED BY <2>1, ServerGone
  <1>9. CASE ServerOnWrite
    <2>1. tcp = "open" /\ UNCHANGED <<clientVars, c2s_end>>
        BY <1>9 DEF ServerOnWrite
    <2> QED BY <1>9, <2>1, WriteEnds, ServerGone
  <1>10. CASE AppWrites
    <2>1. response_ptr_ # None /\ UNCHANGED <<clientVars, wireVars, tcp>>
        BY <1>10 DEF AppWrites
    <2>2. UNCHANGED <<clientVars, c2s_end>> /\ UNCHANGED <<tcp, s2c_end>>
        BY <2>1 DEF wireVars
    <2>3. tcp # "none"
        BY <2>1 DEF GoneInv
    <2> QED BY <2>2, <2>3, ServerGone
  <1>11. CASE AppCloses
    <2>1. response_ptr_ # None /\ UNCHANGED <<clientVars, c2s_end>> /\ tcp' = "closed"
        BY <1>11, CloseEnds DEF AppCloses
    <2>2. tcp # "none"
        BY <2>1 DEF GoneInv
    <2> QED BY <2>1, <2>2, ServerGone
  <1>12. CASE AppUsesKept
    <2>1. /\ UNCHANGED <<clientVars, wireVars, tcp, response_ptr_>>
          /\ tcp # "open" => server_writes' = server_writes
        BY <1>12 DEF AppUsesKept
    <2>2. UNCHANGED <<client, request, client_writes, ssl_client_, c2s_end, s2c_end>>
        BY <2>1 DEF clientVars, wireVars
    <2> QED BY <2>1, <2>2 DEF GoneInv
  <1> QED BY <1>1, <1>2, <1>3, <1>4, <1>5, <1>6, <1>7, <1>8, <1>9, <1>10, <1>11, <1>12 DEF Next

------------------------------------------------------------------------------
(* Steps after which the client is not there, or the connection has ended. *)
LEMMA EndedLive ==
    ASSUME GoneInv, Connect \/ ConnectFails \/ ClientGoes \/ ClientOnEnd \/ ServerOnEnd \/ AppCloses
    PROVE  ~Live'
  <1>1. CASE Connect \/ ConnectFails
    <2>1. client \in {"idle", "connecting", "gone"} /\ UNCHANGED <<c2s_end, tcp>>
        BY <1>1 DEF Connect, ConnectFails, wireVars, serverVars
    <2> QED BY <2>1 DEF GoneInv, Live
  <1>2. CASE ClientGoes
      BY <1>2 DEF ClientGoes, Live
  <1>3. CASE ClientOnEnd
    <2>1. s2c_end /\ UNCHANGED tcp
        BY <1>3 DEF ClientOnEnd, serverVars
    <2> QED BY <2>1 DEF GoneInv, Live
  <1>4. CASE ServerOnEnd \/ AppCloses
    <2>1. tcp' = "closed"
        BY <1>4, CloseEnds DEF ServerOnEnd, AppCloses
    <2> QED BY <2>1 DEF Live
  <1> QED BY <1>1, <1>2, <1>3, <1>4

(* The phases of a connection with a client that is there. *)
LEMMA PhaseClient ==
    ASSUME LiveInv, Live, tls \in BOOLEAN
    PROVE  /\ client \in {"accepted", "open"}
           /\ tls => TlsPhase
           /\ ~tls => PlainPhase
           /\ client = "accepted" /\ tls => T0
           /\ client = "accepted" /\ ~tls => P0
           /\ client = "open" /\ tls => T1 \/ T2 \/ T3 \/ T4 \/ T5 \/ T6 \/ T7 \/ T8 \/ T9 \/ TS
           /\ client = "open" /\ ~tls => P1 \/ P2 \/ P3
  <1>1. (tls => TlsPhase) /\ (~tls => PlainPhase)
      BY DEF LiveInv
  <1>2. (P0 => client = "accepted") /\ (P1 \/ P2 \/ P3 => client = "open")
      BY DEF P0, P1, P2, P3
  <1>3. T0 => client = "accepted"
      BY DEF T0
  <1>4. T1 \/ T2 \/ T3 \/ T4 \/ T5 \/ T6 \/ T7 \/ T8 \/ T9 \/ TS => client = "open"
      BY DEF T1, T2, T3, T4, T5, T6, T7, T8, T9, TS, Cli
  <1> QED BY <1>1, <1>2, <1>3, <1>4 DEF TlsPhase, PlainPhase

(* A new connection. *)
LEMMA AcceptLive ==
    ASSUME IInv, GoneInv, OnAccept, Live'
    PROVE  (tls => T0') /\ (~tls => P0')
  <1>1. client_writes = <<>> /\ ssl_client_ = NewClient
      BY DEF OnAccept, GoneInv
  <1>2. /\ client' = "accepted" /\ c2s' = <<>> /\ s2c' = <<>> /\ ssl_' = NewServer
        /\ server_writes' = <<>> /\ recv_' = <<>> /\ response_ptr_' = None
        /\ pieces' = <<>> /\ handler' = <<>> /\ made' = 0 /\ kept' = "no"
        /\ UNCHANGED <<client_writes, ssl_client_>>
      BY DEF OnAccept
  <1>3. Waiting'
      BY <1>2 DEF Waiting, Idle
  <1>4. Srv("INIT", <<>>, FALSE)'
      BY <1>2 DEF Srv, NewServer
  <1>5. P0'
      BY <1>1, <1>2, <1>3 DEF P0
  <1>6. T0'
      BY <1>1, <1>2, <1>3, <1>4 DEF T0
  <1> QED BY <1>5, <1>6

(* The client is connected: it queues its request, or its ClientHello. *)
LEMMA ConnectedLive ==
    ASSUME IInv, LiveInv, ClientOnConnect, Live'
    PROVE  (tls => T1') /\ (~tls => P1')
  <1>1. client = "accepted" /\ client' = "open" /\ UNCHANGED <<tls, request, wireVars, serverVars>>
      BY DEF ClientOnConnect
  <1>2. UNCHANGED <<c2s, c2s_end, s2c, tcp, ssl_, server_writes, recv_, response_ptr_, pieces, handler, made, kept>>
      BY <1>1 DEF wireVars, serverVars
  <1>3. Live /\ tls \in BOOLEAN
      BY <1>2 DEF Live, IInv, WireInv
  <1>4. (tls => T0) /\ (~tls => P0)
      BY <1>1, <1>3, PhaseClient
  <1>5. Waiting => Waiting'
      BY <1>2 DEF Waiting, Idle
  <1>6. ASSUME ~tls PROVE P1'
    <2>1. client_writes' = Queued(<<request>>)
        BY <1>6 DEF ClientOnConnect, Wire
    <2>2. Pending(client_writes', request')
        BY <1>1, <2>1, OneQueued
    <2> QED BY <1>1, <1>2, <1>4, <1>5, <1>6, <2>2 DEF P0, P1
  <1>7. ASSUME tls PROVE T1'
    <2>1. client_writes' = Queued(<<Flight("CH")>>) /\ ssl_client_' = [ssl_client_ EXCEPT !.state = "HELLO_DONE"]
        BY <1>7 DEF ClientOnConnect, ClientHello
    <2>2. Pending(client_writes', Flight("CH"))
        BY <2>1, OneQueued
    <2>3. ssl_client_'.state = "HELLO_DONE" /\ ssl_client_'.bio = <<>>
        BY <1>4, <1>7, <2>1 DEF T0, NewClient
    <2>4. Srv("INIT", <<>>, FALSE) => Srv("INIT", <<>>, FALSE)'
        BY <1>2 DEF Srv
    <2> QED BY <1>1, <1>2, <1>4, <1>5, <1>7, <2>2, <2>3, <2>4 DEF T0, T1, Cli
  <1> QED BY <1>6, <1>7

------------------------------------------------------------------------------
(* What a step of the client leaves as it is. *)
LEMMA ServerSame ==
    ASSUME UNCHANGED <<tls, ssl_, server_writes, recv_, response_ptr_, pieces, handler, made, kept>>
    PROVE  /\ Waiting => Waiting'
           /\ Idle => Idle'
           /\ Answer => Answer'
           /\ Srv("INIT", <<>>, FALSE) => Srv("INIT", <<>>, FALSE)'
           /\ Srv("HELLO_DONE", <<>>, FALSE) => Srv("HELLO_DONE", <<>>, FALSE)'
           /\ Srv("DATA_RECV", <<>>, TRUE) => Srv("DATA_RECV", <<>>, TRUE)'
  <1>1. (Waiting => Waiting') /\ (Idle => Idle')
      BY DEF Waiting, Idle
  <1>2. Answer => Answer'
      BY DEF Answer
  <1>3. /\ Srv("INIT", <<>>, FALSE) => Srv("INIT", <<>>, FALSE)'
        /\ Srv("HELLO_DONE", <<>>, FALSE) => Srv("HELLO_DONE", <<>>, FALSE)'
        /\ Srv("DATA_RECV", <<>>, TRUE) => Srv("DATA_RECV", <<>>, TRUE)'
      BY DEF Srv
  <1> QED BY <1>1, <1>2, <1>3

(* The cells of a connection with TLS. *)
LEMMA TlsWire ==
    ASSUME WireInv, tls
    PROVE  c2s \in Seq(CellsOf(TRUE)) /\ s2c \in Seq(CellsOf(TRUE))
  <1>1. PICK C : C = CellsOf(tls)
      OBVIOUS
  <1>2. C = CellsOf(TRUE)
      BY <1>1 DEF CellsOf, KindsOf
  <1>3. c2s \in Seq(C) /\ s2c \in Seq(C)
      BY <1>1 DEF WireInv
  <1> QED BY <1>2, <1>3

(* The cells of a connection without. *)
LEMMA PlainWire ==
    ASSUME WireInv, ~tls
    PROVE  c2s \in Seq(CellsOf(FALSE))
  <1>1. PICK C : C = CellsOf(tls)
      OBVIOUS
  <1>2. C = CellsOf(FALSE)
      BY <1>1 DEF CellsOf, KindsOf
  <1>3. c2s \in Seq(C)
      BY <1>1 DEF WireInv
  <1> QED BY <1>2, <1>3

(* Flights and records are sequences of cells. *)
LEMMA Flights ==
    /\ Flight("CH") \in Seq(CellsOf(TRUE)) /\ Flight("SH") \in Seq(CellsOf(TRUE))
    /\ Flight("CKE") \in Seq(CellsOf(TRUE)) /\ Flight("FIN") \in Seq(CellsOf(TRUE))
  BY FlightType

(* A record, and that it is not empty. *)
LEMMA RecordType ==
    ASSUME NEW q \in Seq(CellsOf(FALSE))
    PROVE  Record(q) \in Seq(CellsOf(TRUE)) /\ Record(q) # <<>>
  <1>1. PICK C, g : C = CellsOf(TRUE) /\ g = Tag
      OBVIOUS
  <1>2. q \in Seq(C)
      BY <1>1, CellsWider
  <1>3. g \in C
    <2>1. PICK zero : zero = 0
        OBVIOUS
    <2>2. zero \in Int /\ "tag" \in KindsOf(TRUE) /\ Tag = Cell("tag", zero)
        BY <2>1 DEF KindsOf, TlsCells, Tag
    <2> QED BY <1>1, <2>2, CellType
  <1>4. Append(q, g) \in Seq(C) /\ Append(q, g) # <<>>
    <2>1. Append(q, g) \in Seq(C) /\ Len(Append(q, g)) = Len(q) + 1 /\ Len(q) \in Nat
        BY <1>2, <1>3, AppendProperties, LenProperties
    <2>2. Len(Append(q, g)) # 0
        BY <2>1
    <2> QED BY <2>1, <2>2, EmptySeq
  <1> QED BY <1>1, <1>4 DEF Record

(* The socket takes the pending write of the client. *)
LEMMA PendingSent ==
    ASSUME NEW S, NEW cells \in Seq(S), Pending(client_writes, cells), c2s = <<>>, ClientTakes
    PROVE  c2s' = cells /\ Taken(client_writes', cells)
  <1>1. /\ c2s' = c2s \o Head(client_writes).cells
        /\ client_writes' = [client_writes EXCEPT ![1].done = TRUE]
      BY DEF ClientTakes
  <1>2. /\ Head(client_writes) = client_writes[1] /\ client_writes[1].cells = cells
        /\ Taken([client_writes EXCEPT ![1].done = TRUE], cells)
      BY PendingTaken
  <1>3. c2s' = <<>> \o cells
      BY <1>1, <1>2
  <1>4. <<>> \o cells = cells
      BY ConcatEmptySeq
  <1> QED BY <1>1, <1>2, <1>3, <1>4

(* The socket takes nothing of what it has taken. *)
LEMMA NotTakenAgain ==
    ASSUME NEW cells, Taken(client_writes, cells), ClientTakes
    PROVE  FALSE
  <1>1. client_writes # <<>> /\ ~Head(client_writes).done
      BY DEF ClientTakes
  <1> QED BY <1>1, TakenCalledBack

(* The socket takes the client's write. *)
LEMMA TakesLive ==
    ASSUME IInv, IInv', GoneInv, LiveInv, ClientTakes, Live'
    PROVE  (tls => TlsPhase') /\ (~tls => PlainPhase')
  <1>1. /\ client = "open" /\ UNCHANGED <<tls, client, request, ssl_client_, c2s_end, s2c, serverVars>>
      BY DEF ClientTakes
  <1>2. UNCHANGED <<tcp, ssl_, server_writes, recv_, response_ptr_, pieces, handler, made, kept>>
      BY <1>1 DEF serverVars
  <1>3. Live /\ tls \in BOOLEAN
      BY <1>1, <1>2 DEF Live, IInv, WireInv
  <1>4. Shaped(request) /\ request \in Seq(CellsOf(FALSE)) /\ request # <<>>
    <2>1. Shaped(request)
        BY <1>1 DEF GoneInv
    <2>2. request \in Seq(CellsOf(FALSE)) /\ Len(request) >= 2
        BY <2>1 DEF Shaped
    <2>3. request # <<>>
      <3>1. request = <<>> => Len(request) = 0
          OBVIOUS
      <3> QED BY <2>2, <3>1
    <2> QED BY <2>1, <2>2, <2>3
  <1>5. ASSUME ~tls PROVE PlainPhase'
    <2>1. P1 \/ P2 \/ P3
        BY <1>1, <1>3, <1>5, PhaseClient
    <2>2. CASE P1
      <3>1. c2s' = request /\ Taken(client_writes', request)
          BY <1>4, <2>2, PendingSent DEF P1
      <3>2. recv_' = <<>> /\ Idle' /\ server_writes' = <<>>
          BY <1>1, <1>2, <2>2, ServerSame DEF P1, Waiting
      <3>3. PICK C : C = CellsOf(FALSE)
          OBVIOUS
      <3>4. recv_' \in Seq(C) /\ recv_' \o c2s' = request
        <4>1. request \in Seq(C)
            BY <1>4, <3>3
        <4>2. <<>> \o request = request
            BY <4>1, ConcatEmptySeq
        <4> QED BY <3>1, <3>2, <4>2
      <3>5. P2'
          BY <1>1, <1>4, <3>1, <3>2, <3>3, <3>4 DEF P2
      <3> QED BY <3>5 DEF PlainPhase
    <2>3. CASE P2 \/ P3
      <3>1. Taken(client_writes, request)
          BY <2>3 DEF P2, P3
      <3> QED BY <3>1, NotTakenAgain
    <2> QED BY <2>1, <2>2, <2>3
  <1>6. ASSUME tls PROVE TlsPhase'
    <2>1. T1 \/ T2 \/ T3 \/ T4 \/ T5 \/ T6 \/ T7 \/ T8 \/ T9 \/ TS
        BY <1>1, <1>3, <1>6, PhaseClient
    <2>2. CASE T1
      <3>1. c2s' = Flight("CH") /\ Taken(client_writes', Flight("CH"))
          BY <2>2, Flights, PendingSent DEF T1
      <3>2. Waiting' /\ Srv("INIT", <<>>, FALSE)' /\ server_writes' = <<>> /\ s2c' = <<>>
          BY <1>1, <1>2, <2>2, ServerSame DEF T1
      <3>3. T2'
          BY <1>1, <2>2, <3>1, <3>2 DEF T1, T2, Cli
      <3> QED BY <3>3 DEF TlsPhase
    <2>3. CASE T4
      <3>1. c2s' = Flight("CKE") /\ Taken(client_writes', Flight("CKE"))
          BY <2>3, Flights, PendingSent DEF T4
      <3>2. /\ Waiting' /\ Srv("HELLO_DONE", <<>>, FALSE)' /\ s2c' = <<>>
            /\ Taken(server_writes', Flight("SH"))
          BY <1>1, <1>2, <2>3, ServerSame DEF T4
      <3>3. T5'
          BY <1>1, <2>3, <3>1, <3>2 DEF T4, T5, Cli
      <3> QED BY <3>3 DEF TlsPhase
    <2>4. CASE T7
      <3>0. Record(request) \in Seq(CellsOf(TRUE)) /\ Record(request) # <<>>
          BY <1>4, RecordType
      <3>1. c2s' = Record(request) /\ Taken(client_writes', Record(request))
          BY <2>4, <3>0, PendingSent DEF T7
      <3>2. /\ Waiting' /\ s2c' = <<>> /\ Taken(server_writes', Flight("FIN"))
            /\ Srv("DATA_RECV", <<>>, TRUE)'
          BY <1>1, <1>2, <2>4, ServerSame DEF T7
      <3>3. ssl_'.state = "DATA_RECV" /\ ssl_'.finished /\ ssl_'.bio = <<>>
          BY <3>2 DEF Srv
      <3>4. PICK C : C = CellsOf(TRUE)
          OBVIOUS
      <3>5. ssl_'.bio \in Seq(C) /\ ssl_'.bio \o c2s' = Record(request)
        <4>1. Record(request) \in Seq(C)
            BY <3>0, <3>4
        <4>2. <<>> \o Record(request) = Record(request)
            BY <4>1, ConcatEmptySeq
        <4> QED BY <3>1, <3>3, <4>2
      <3>6. T8'
          BY <1>1, <2>4, <3>0, <3>1, <3>2, <3>3, <3>4, <3>5 DEF T7, T8, Cli
      <3> QED BY <3>6 DEF TlsPhase
    <2>5. CASE T2 \/ T3 \/ T5 \/ T6 \/ T8 \/ T9 \/ TS
      <3>1. \E f : Taken(client_writes, f)
          BY <2>5 DEF T2, T3, T5, T6, T8, T9, TS
      <3> QED BY <3>1, NotTakenAgain
    <2> QED BY <2>1, <2>2, <2>3, <2>4, <2>5
  <1> QED BY <1>5, <1>6

------------------------------------------------------------------------------
(* A write of the client is called back: it was taken, since the server has *)
(* not ended the connection.                                                *)
LEMMA CalledBackLive ==
    ASSUME IInv, GoneInv, LiveInv, ClientOnWrite, Live'
    PROVE  (tls => TlsPhase') /\ (~tls => PlainPhase')
  <1>1. /\ client = "open" /\ client_writes # <<>> /\ client_writes' = Tail(client_writes)
        /\ UNCHANGED <<tls, client, request, ssl_client_, wireVars, serverVars>>
      BY DEF ClientOnWrite
  <1>2. UNCHANGED <<c2s, c2s_end, s2c, s2c_end, tcp, ssl_, server_writes, recv_, response_ptr_, pieces, handler, made, kept>>
      BY <1>1 DEF wireVars, serverVars
  <1>3. Live /\ tls \in BOOLEAN /\ ~s2c_end
    <2>1. Live /\ tls \in BOOLEAN
        BY <1>2 DEF Live, IInv, WireInv
    <2> QED BY <2>1 DEF Live, GoneInv
  <1>4. Head(client_writes).done
      BY <1>3 DEF ClientOnWrite
  <1>5. \A cells : ~Pending(client_writes, cells)
      BY <1>4, PendingTaken
  <1>6. \A cells : Taken(client_writes, cells) => Taken(client_writes', cells)
      BY <1>1, TakenCalledBack DEF Taken
  <1>7. \A f : Coming(f) => Coming(f)'
      BY <1>1, <1>2 DEF Coming
  <1>8. /\ Waiting => Waiting'
        /\ Idle => Idle'
        /\ Answer => Answer'
        /\ Srv("INIT", <<>>, FALSE) => Srv("INIT", <<>>, FALSE)'
        /\ Srv("HELLO_DONE", <<>>, FALSE) => Srv("HELLO_DONE", <<>>, FALSE)'
        /\ Srv("DATA_RECV", <<>>, TRUE) => Srv("DATA_RECV", <<>>, TRUE)'
      BY <1>1, <1>2, ServerSame
  <1>9. \A st : Cli(st) => Cli(st)'
      BY <1>1 DEF Cli
  <1>10. ASSUME ~tls PROVE PlainPhase'
    <2>1. P1 \/ P2 \/ P3
        BY <1>1, <1>3, <1>10, PhaseClient
    <2>2. CASE P1
        BY <1>5, <2>2 DEF P1
    <2>3. CASE P2
      <3>1. P2'
          BY <1>1, <1>2, <1>6, <1>8, <2>3 DEF P2
      <3> QED BY <3>1 DEF PlainPhase
    <2>4. CASE P3
      <3>1. P3'
          BY <1>1, <1>2, <1>6, <1>8, <2>4 DEF P3
      <3> QED BY <3>1 DEF PlainPhase
    <2> QED BY <2>1, <2>2, <2>3, <2>4
  <1>11. ASSUME tls PROVE TlsPhase'
    <2>1. T1 \/ T2 \/ T3 \/ T4 \/ T5 \/ T6 \/ T7 \/ T8 \/ T9 \/ TS
        BY <1>1, <1>3, <1>11, PhaseClient
    <2>2. ~T1 /\ ~T4 /\ ~T7
        BY <1>5 DEF T1, T4, T7
    <2>3. T2 => T2'
        BY <1>1, <1>2, <1>6, <1>8 DEF T2, Cli
    <2>4. T3 => T3'
        BY <1>1, <1>2, <1>6, <1>7, <1>8 DEF T3, Cli
    <2>5. T5 => T5'
        BY <1>1, <1>2, <1>6, <1>8 DEF T5, Cli
    <2>6. T6 => T6'
        BY <1>1, <1>2, <1>6, <1>7, <1>8 DEF T6, Cli
    <2>7. T8 => T8'
        BY <1>1, <1>2, <1>6, <1>8 DEF T8, Cli
    <2>8. T9 => T9'
        BY <1>1, <1>2, <1>6, <1>8 DEF T9, Cli
    <2>9. TS => TS'
        BY <1>1, <1>2, <1>6, <1>8 DEF TS, Cli
    <2> QED BY <2>1, <2>2, <2>3, <2>4, <2>5, <2>6, <2>7, <2>8, <2>9 DEF TlsPhase
  <1> QED BY <1>10, <1>11

(* The client reads what there is of the flight it waits for. *)
LEMMA FlightRead ==
    ASSUME NEW f, Coming(Flight(f)), s2c \in Seq(CellsOf(TRUE)), NEW n \in 1..Len(s2c),
           NEW b, NEW rest, s2c # <<>>,
           b = ssl_client_.bio \o SubSeq(s2c, 1, n), rest = SubSeq(s2c, n + 1, Len(s2c))
    PROVE  /\ Taken(server_writes, Flight(f)) /\ b \in Seq(CellsOf(TRUE)) /\ b \o rest = Flight(f)
           /\ HasFlight(b, f) => rest = <<>> /\ b = Flight(f)
           /\ ~HasFlight(b, f) => rest # <<>>
  <1>1. PICK data, bio : data = SubSeq(s2c, 1, n) /\ bio = ssl_client_.bio
      OBVIOUS
  <1>2. Taken(server_writes, Flight(f)) /\ bio \in Seq(CellsOf(TRUE)) /\ bio \o s2c = Flight(f)
      BY <1>1 DEF Coming
  <1>3. data \in Seq(CellsOf(TRUE)) /\ rest \in Seq(CellsOf(TRUE)) /\ data \o rest = s2c
    <2>1. PICK C : C = CellsOf(TRUE)
        OBVIOUS
    <2>2. s2c \in Seq(C)
        BY <2>1
    <2>3. data \in Seq(C) /\ rest \in Seq(C) /\ data \o rest = s2c
        BY <1>1, <2>2, ReadParts
    <2> QED BY <2>1, <2>3
  <1>4. b = bio \o data
      BY <1>1
  <1>5. bio \o (data \o rest) = Flight(f)
      BY <1>2, <1>3
  <1>6. b \in Seq(CellsOf(TRUE)) /\ b \o rest = Flight(f)
    <2>1. bio \o data \in Seq(CellsOf(TRUE))
        BY <1>2, <1>3, ConcatProperties
    <2>2. (bio \o data) \o rest = Flight(f)
        BY <1>2, <1>3, <1>5, Regroup
    <2> QED BY <1>4, <2>1, <2>2
  <1>7. /\ HasFlight(b, f) => rest = <<>> /\ b = Flight(f)
        /\ ~HasFlight(b, f) => rest # <<>>
    <2>1. b \in Seq(CellsOf(TRUE)) /\ rest \in Seq(CellsOf(TRUE)) /\ b \o rest = Flight(f)
        BY <1>3, <1>6
    <2> QED BY ONLY <2>1, FlightParts
  <1> QED BY <1>2, <1>6, <1>7

------------------------------------------------------------------------------
(* The client reads: without TLS parts of the response, with TLS parts of a *)
(* flight of the handshake and then of the response.                        *)
LEMMA ClientReadLive ==
    ASSUME IInv, IInv', LiveInv, ClientOnRead, Live'
    PROVE  (tls => TlsPhase') /\ (~tls => PlainPhase')
  <1>1. /\ client = "open" /\ s2c # <<>> /\ CalledBack(client_writes)
        /\ UNCHANGED <<tls, client, request, c2s, c2s_end, serverVars>>
      BY DEF ClientOnRead
  <1>2. UNCHANGED <<tcp, ssl_, server_writes, recv_, response_ptr_, pieces, handler, made, kept>>
      BY <1>1 DEF serverVars
  <1>3. Live /\ tls \in BOOLEAN
      BY <1>1, <1>2 DEF Live, IInv, WireInv
  <1>4. /\ Waiting => Waiting'
        /\ Idle => Idle'
        /\ Answer => Answer'
        /\ Srv("HELLO_DONE", <<>>, FALSE) => Srv("HELLO_DONE", <<>>, FALSE)'
        /\ Srv("DATA_RECV", <<>>, TRUE) => Srv("DATA_RECV", <<>>, TRUE)'
      BY <1>1, <1>2, ServerSame
  <1>5. ASSUME ~tls PROVE PlainPhase'
    <2>1. client_writes' = client_writes
        BY <1>5 DEF ClientOnRead
    <2>2. P1 \/ P2 \/ P3
        BY <1>1, <1>3, <1>5, PhaseClient
    <2>3. (P1 => P1') /\ (P2 => P2') /\ (P3 => P3')
        BY <1>1, <1>2, <1>4, <2>1 DEF P1, P2, P3
    <2> QED BY <2>2, <2>3 DEF PlainPhase
  <1>6. ASSUME tls PROVE TlsPhase'
    <2>1. PICK n \in 1..Len(s2c) :
              s2c' = SubSeq(s2c, n + 1, Len(s2c)) /\ ClientTlsRead(SubSeq(s2c, 1, n))
        BY <1>6 DEF ClientOnRead
    <2>2. PICK data, b, rest : /\ data = SubSeq(s2c, 1, n) /\ b = ssl_client_.bio \o data
                               /\ rest = SubSeq(s2c, n + 1, Len(s2c))
        OBVIOUS
    <2>3. s2c \in Seq(CellsOf(TRUE)) /\ s2c' = rest /\ ClientTlsRead(data)
      <3>1. WireInv
          BY DEF IInv
      <3> QED BY <1>6, <2>1, <2>2, <3>1, TlsWire
    <2>r. b = ssl_client_.bio \o SubSeq(s2c, 1, n)
        BY <2>2
    <2>4. IsClient(ssl_client_)
        BY DEF IInv, SslInv
    <2>5. \A f : Taken(client_writes, f) => client_writes = <<>>
        BY <1>1, TakenCalledBack
    <2>6. T3 \/ T6 \/ T9
      <3>1. T1 \/ T2 \/ T3 \/ T4 \/ T5 \/ T6 \/ T7 \/ T8 \/ T9 \/ TS
          BY <1>1, <1>3, <1>6, PhaseClient
      <3>2. ~T1 /\ ~T2 /\ ~T4 /\ ~T5 /\ ~T7 /\ ~T8 /\ ~TS
          BY <1>1 DEF T1, T2, T4, T5, T7, T8, TS
      <3> QED BY <3>1, <3>2
    <2>7. CASE T3
      <3>1. /\ ssl_client_.state = "HELLO_DONE" /\ Coming(Flight("SH")) /\ client_writes = <<>>
            /\ Taken(client_writes, Flight("CH")) /\ c2s = <<>>
            /\ Srv("HELLO_DONE", <<>>, FALSE) /\ Waiting
          BY <2>5, <2>7 DEF T3, Cli
      <3>2. /\ Taken(server_writes, Flight("SH")) /\ b \in Seq(CellsOf(TRUE))
            /\ b \o rest = Flight("SH")
            /\ HasFlight(b, "SH") => rest = <<>> /\ b = Flight("SH")
            /\ ~HasFlight(b, "SH") => rest # <<>>
        <4>1. Coming(Flight("SH")) /\ s2c \in Seq(CellsOf(TRUE)) /\ s2c # <<>>
              /\ rest = SubSeq(s2c, n + 1, Len(s2c))
            BY <1>1, <2>2, <2>3, <3>1
        <4> QED BY ONLY n \in 1..Len(s2c), <2>r, <4>1, FlightRead
      <3>3. PICK r : r = RecvServerHello(ssl_client_, data)
          OBVIOUS
      <3>4. ssl_client_' = r.c /\ client_writes' = client_writes \o Queued(r.out)
          BY <2>3, <3>1, <3>3 DEF ClientTlsRead
      <3>5. CASE HasFlight(b, "SH")
        <4>1. /\ r.c = [state |-> "KEY_EXCHANGE", bio |-> <<>>]
              /\ r.out = <<Flight("CKE")>>
            BY <2>2, <3>3, <3>5 DEF RecvServerHello
        <4>2. Pending(client_writes', Flight("CKE"))
          <5>1. client_writes' = <<>> \o Queued(<<Flight("CKE")>>)
              BY <3>1, <3>4, <4>1
          <5> QED BY <5>1, OneQueued
        <4>3. ssl_client_'.state = "KEY_EXCHANGE" /\ ssl_client_'.bio = <<>>
            BY <3>4, <4>1
        <4>4. s2c' = <<>>
            BY <2>3, <3>2, <3>5
        <4>5. T4'
            BY <1>1, <1>2, <1>4, <3>1, <3>2, <4>2, <4>3, <4>4 DEF T4, Cli
        <4> QED BY <4>5 DEF TlsPhase
      <3>6. CASE ~HasFlight(b, "SH")
        <4>1. r.c = [ssl_client_ EXCEPT !.bio = b] /\ r.out = <<>>
            BY <2>2, <3>3, <3>6 DEF RecvServerHello
        <4>2. client_writes' = <<>>
          <5>1. client_writes' = <<>> \o Queued(<<>>)
              BY <3>1, <3>4, <4>1
          <5> QED BY <5>1, OneQueued
        <4>3. ssl_client_'.state = "HELLO_DONE" /\ ssl_client_'.bio = b
            BY <2>4, <3>1, <3>4, <4>1 DEF IsClient
        <4>4. Taken(client_writes', Flight("CH"))
            BY <4>2 DEF Taken
        <4>5. Coming(Flight("SH"))'
            BY <1>2, <2>3, <3>2, <4>3 DEF Coming
        <4>6. T3'
            BY <1>1, <1>4, <3>1, <4>3, <4>4, <4>5 DEF T3, Cli
        <4> QED BY <4>6 DEF TlsPhase
      <3> QED BY <3>5, <3>6
    <2>8. CASE T6
      <3>1. /\ ssl_client_.state = "KEY_EXCHANGE" /\ Coming(Flight("FIN")) /\ client_writes = <<>>
            /\ Taken(client_writes, Flight("CKE")) /\ c2s = <<>>
            /\ Srv("DATA_RECV", <<>>, TRUE) /\ Waiting
          BY <2>5, <2>8 DEF T6, Cli
      <3>2. /\ Taken(server_writes, Flight("FIN")) /\ b \in Seq(CellsOf(TRUE))
            /\ b \o rest = Flight("FIN")
            /\ HasFlight(b, "FIN") => rest = <<>> /\ b = Flight("FIN")
            /\ ~HasFlight(b, "FIN") => rest # <<>>
        <4>1. Coming(Flight("FIN")) /\ s2c \in Seq(CellsOf(TRUE)) /\ s2c # <<>>
              /\ rest = SubSeq(s2c, n + 1, Len(s2c))
            BY <1>1, <2>2, <2>3, <3>1
        <4> QED BY ONLY n \in 1..Len(s2c), <2>r, <4>1, FlightRead
      <3>3. PICK r : r = HandleSessionTicket(ssl_client_, data)
          OBVIOUS
      <3>4. /\ ssl_client_' = r
            /\ client_writes' = IF ssl_client_'.state = "READY"
                                THEN client_writes \o Queued(<<Wire(request)>>) ELSE client_writes
          BY <2>3, <3>1, <3>3 DEF ClientTlsRead
      <3>5. CASE HasFlight(b, "FIN")
        <4>1. r.state = "READY"
            BY <2>2, <3>3, <3>5 DEF HandleSessionTicket
        <4>2. Pending(client_writes', Record(request))
          <5>1. client_writes' = <<>> \o Queued(<<Wire(request)>>)
              BY <3>1, <3>4, <4>1
          <5>2. Wire(request) = Record(request)
              BY <1>6 DEF Wire
          <5> QED BY <5>1, <5>2, OneQueued
        <4>3. ssl_client_'.state = "READY"
            BY <3>4, <4>1
        <4>4. s2c' = <<>>
            BY <2>3, <3>2, <3>5
        <4>5. T7'
            BY <1>1, <1>2, <1>4, <3>1, <3>2, <4>2, <4>3, <4>4 DEF T7, Cli
        <4> QED BY <4>5 DEF TlsPhase
      <3>6. CASE ~HasFlight(b, "FIN")
        <4>1. r = [ssl_client_ EXCEPT !.bio = b]
            BY <2>2, <3>3, <3>6 DEF HandleSessionTicket
        <4>2. ssl_client_'.state = "KEY_EXCHANGE" /\ ssl_client_'.bio = b
            BY <2>4, <3>1, <3>4, <4>1 DEF IsClient
        <4>3. client_writes' = client_writes
            BY <3>4, <4>2
        <4>4. Taken(client_writes', Flight("CKE"))
            BY <3>1, <4>3
        <4>5. Coming(Flight("FIN"))'
            BY <1>2, <2>3, <3>2, <4>2 DEF Coming
        <4>6. T6'
            BY <1>1, <1>4, <3>1, <4>2, <4>4, <4>5 DEF T6, Cli
        <4> QED BY <4>6 DEF TlsPhase
      <3> QED BY <3>5, <3>6
    <2>9. CASE T9
      <3>1. ssl_client_.state = "READY"
          BY <2>9 DEF T9, Cli
      <3>2. PICK x : client_writes' = client_writes /\ ssl_client_' = [ssl_client_ EXCEPT !.bio = x]
          BY <2>3, <3>1 DEF ClientTlsRead
      <3>3. ssl_client_'.state = "READY"
          BY <2>4, <3>1, <3>2 DEF IsClient
      <3>4. T9'
          BY <1>1, <1>2, <1>4, <2>9, <3>2, <3>3 DEF T9, Cli
      <3> QED BY <3>4 DEF TlsPhase
    <2> QED BY <2>6, <2>7, <2>8, <2>9
  <1> QED BY <1>5, <1>6

------------------------------------------------------------------------------
(* What a step of the server leaves as it is. *)
LEMMA ClientSame ==
    ASSUME UNCHANGED clientVars
    PROVE  /\ UNCHANGED <<client, request, ssl_client_, client_writes>>
           /\ \A st : Cli(st) => Cli(st)'
  <1>1. UNCHANGED <<client, request, ssl_client_, client_writes>>
      BY DEF clientVars
  <1> QED BY <1>1 DEF Cli

(* A part of a sequence is not longer, and begins like it. *)
LEMMA Beginning ==
    ASSUME NEW S, NEW a \in Seq(S), NEW rest \in Seq(S)
    PROVE  /\ Len(a) <= Len(a \o rest) /\ \A i \in 1..Len(a) : a[i] = (a \o rest)[i]
           /\ Len(a) = Len(a \o rest) => rest = <<>>
  <1>1. PICK c : c = a \o rest
      OBVIOUS
  <1>2. /\ Len(a) \in Nat /\ Len(rest) \in Nat /\ Len(c) = Len(a) + Len(rest)
        /\ \A i \in 1..Len(a) : c[i] = a[i]
      BY <1>1, ConcatProperties, LenProperties
  <1>3. Len(a) = Len(c) => rest = <<>>
    <2>1. Len(a) = Len(c) => Len(rest) = 0
        BY <1>2
    <2> QED BY <2>1, EmptySeq
  <1>4. Len(a) <= Len(c)
      BY <1>2
  <1> QED BY <1>1, <1>2, <1>3, <1>4

(* HttpSession reads a part of the request that came without TLS. *)
LEMMA PlainReadLive ==
    ASSUME IInv, GoneInv, ~tls, P2, ServerOnRead
    PROVE  \/ UNCHANGED ub /\ (P2' \/ P3')
           \/ tcp' = "closed" /\ (ub' = ub \/ ub' = "closed_in_handler")
  <1>1. PICK n \in 1..Len(c2s) :
            c2s' = SubSeq(c2s, n + 1, Len(c2s)) /\ HttpOnRead(SubSeq(c2s, 1, n))
      BY DEF ServerOnRead
  <1>2. PICK data, rest, all, C :
            /\ data = SubSeq(c2s, 1, n) /\ rest = SubSeq(c2s, n + 1, Len(c2s))
            /\ all = recv_ \o data /\ C = CellsOf(FALSE)
      OBVIOUS
  <1>3. c2s \in Seq(C) /\ recv_ \in Seq(C)
    <2>1. WireInv
        BY DEF IInv
    <2> QED BY <1>2, <2>1, PlainWire DEF P2
  <1>4. data \in Seq(C) /\ data # <<>> /\ rest \in Seq(C) /\ data \o rest = c2s
      BY <1>2, <1>3, ReadParts
  <1>5. all \in Seq(C) /\ all \o rest = request
    <2>1. recv_ \o (data \o rest) = request
        BY <1>4 DEF P2
    <2>2. (recv_ \o data) \o rest = recv_ \o (data \o rest)
        BY <1>2, <1>3, <1>4, Regroup, CellsWider
    <2>3. recv_ \o data \in Seq(C)
        BY <1>3, <1>4, ConcatProperties
    <2> QED BY <1>2, <2>1, <2>2, <2>3
  <1>6. all # <<>>
    <2>1. Len(recv_ \o data) = Len(recv_) + Len(data) /\ Len(recv_) \in Nat /\ Len(data) \in Nat /\ Len(data) # 0
        BY <1>3, <1>4, ConcatProperties, LenProperties, EmptySeq
    <2>2. Len(all) # 0
        BY <1>2, <2>1
    <2> QED BY <2>2
  <1>7. /\ Len(all) <= Len(request) /\ \A i \in 1..Len(all) : all[i] = request[i]
        /\ Len(all) = Len(request) => rest = <<>>
      BY <1>5, Beginning
  <1>8. /\ client = "open" /\ Taken(client_writes, request) /\ server_writes = <<>> /\ Idle
        /\ Shaped(request)
      BY DEF P2, GoneInv
  <1>9. /\ Up /\ HttpOnRead(data) /\ c2s' = rest /\ UNCHANGED <<client, request, client_writes>>
      BY <1>1, <1>2, ClientSame DEF ServerOnRead
  <1>10. \/ /\ recv_' = recv_ \o data
            /\ UNCHANGED <<response_ptr_, server_writes, pieces, handler, made, kept, tcp, s2c_end, ub>>
         \/ /\ Len(recv_ \o data) = Len(request) /\ response_ptr_' # None
            /\ Answering(tls, server_writes', response_ptr_', pieces', handler', made')
            /\ UNCHANGED <<kept, tcp, s2c_end, ub>>
         \/ /\ tcp' = "closed" /\ Method = "BAD"
            /\ ~tls => ub' = ub
         \/ tcp' = "closed" /\ ub' = "closed_in_handler"
    <2>1. /\ recv_ \o data \in Seq(CellsOf(FALSE)) /\ recv_ \o data # <<>>
          /\ Len(recv_ \o data) <= Len(request)
          /\ \A i \in 1..Len(recv_ \o data) : (recv_ \o data)[i] = request[i]
        BY <1>2, <1>5, <1>6, <1>7
    <2> QED BY <1>8, <1>9, <2>1, RequestRead
  <1>11. tls' = tls
      BY DEF ServerOnRead
  <1>12. CASE /\ recv_' = recv_ \o data
              /\ UNCHANGED <<response_ptr_, server_writes, pieces, handler, made, kept, tcp, s2c_end, ub>>
    <2>1. Idle'
        BY <1>8, <1>12 DEF Idle
    <2>2. CASE rest = <<>>
      <3>1. Answer'
          BY <1>8, <1>12 DEF Answer, Idle
      <3>2. P3'
          BY <1>8, <1>9, <2>2, <3>1 DEF P3
      <3> QED BY <1>12, <3>2
    <2>3. CASE rest # <<>>
      <3>1. recv_' \in Seq(CellsOf(FALSE)) /\ recv_' \o c2s' = request'
          BY <1>2, <1>5, <1>9, <1>12
      <3>2. P2'
          BY <1>8, <1>9, <1>12, <2>1, <2>3, <3>1 DEF P2
      <3> QED BY <1>12, <3>2
    <2> QED BY <2>2, <2>3
  <1>13. CASE /\ Len(recv_ \o data) = Len(request) /\ response_ptr_' # None
              /\ Answering(tls, server_writes', response_ptr_', pieces', handler', made')
              /\ UNCHANGED <<kept, tcp, s2c_end, ub>>
    <2>1. rest = <<>>
        BY <1>2, <1>7, <1>13
    <2>2. Answer'
        BY <1>8, <1>11, <1>13 DEF Answer, Idle
    <2>3. P3'
        BY <1>8, <1>9, <2>1, <2>2 DEF P3
    <2> QED BY <1>13, <2>3
  <1> QED BY <1>10, <1>12, <1>13

------------------------------------------------------------------------------
(* TcpSession::OnRead while SslServer has no plaintext yet: it goes on with *)
(* the new state and sends what the handshake gives it.                     *)
LEMMA NoPlaintext ==
    ASSUME NEW data, ServerTlsRead(data), NEW h, NEW r, h = Handshake(ssl_, data),
           r = ServerDataRecv(h.s, data), h.ret = 0, r.plain = <<>>
    PROVE  \/ /\ ssl_' = r.s /\ server_writes' = server_writes \o Queued(h.out)
              /\ UNCHANGED <<tcp, s2c_end, recv_, response_ptr_, pieces, handler, made, kept, ub>>
           \/ MayRefuse(ssl_) /\ tcp' = "closed" /\ UNCHANGED ub
  BY DEF ServerTlsRead, HandshakeFails, TcpClose

(* HandleTlsHello in the state INIT: HELLO_DONE, or the end. *)
LEMMA HelloRead ==
    ASSUME NEW data \in Seq(CellsOf(TRUE)), ServerTlsRead(data), Srv("INIT", <<>>, FALSE)
    PROVE  \/ tcp' = "closed" /\ UNCHANGED ub
           \/ /\ HasFlight(data, "CH") /\ Srv("HELLO_DONE", <<>>, FALSE)'
              /\ server_writes' = server_writes \o Queued(<<Flight("SH")>>)
              /\ UNCHANGED <<tcp, s2c_end, recv_, response_ptr_, pieces, handler, made, kept, ub>>
  <1>1. PICK no : no = FALSE
      OBVIOUS
  <1>2. PICK h : h = Handshake(ssl_, data)
      OBVIOUS
  <1>3. ssl_ = [state |-> "INIT", bio |-> <<>>, finished |-> no]
      BY <1>1 DEF Srv
  <1>4. <<>> \o data = data
      BY ConcatEmptySeq
  <1>5. h = HandleTlsHello(ssl_, data)
      BY <1>2, <1>3 DEF Handshake
  <1>6. CASE HasFlight(data, "CH")
    <2>1. PICK s : s = [state |-> "HELLO_DONE", bio |-> <<>>, finished |-> no]
        OBVIOUS
    <2>2. h = [s |-> s, out |-> <<Flight("SH")>>, ret |-> 0]
      <3>1. h = [s |-> [ssl_ EXCEPT !.state = "HELLO_DONE", !.bio = <<>>],
                 out |-> <<Flight("SH")>>, ret |-> 0]
          BY <1>3, <1>4, <1>5, <1>6 DEF HandleTlsHello
      <3>2. [ssl_ EXCEPT !.state = "HELLO_DONE", !.bio = <<>>] = s
        <4>1. PICK u : u = [ssl_ EXCEPT !.state = "HELLO_DONE"]
            OBVIOUS
        <4>2. u = [state |-> "HELLO_DONE", bio |-> <<>>, finished |-> no]
            BY <1>3, <4>1
        <4>3. [u EXCEPT !.bio = <<>>] = s
            BY <2>1, <4>2
        <4> QED BY <4>1, <4>3
      <3> QED BY <3>1, <3>2
    <2>3. PICK r : r = ServerDataRecv(h.s, data)
        OBVIOUS
    <2>4. h.s = s /\ h.ret = 0 /\ h.out = <<Flight("SH")>>
        BY <2>2
    <2>5. r = [s |-> s, plain |-> <<>>]
        BY <2>1, <2>3, <2>4 DEF ServerDataRecv
    <2>6. r.s = s /\ r.plain = <<>>
        BY <2>5
    <2>7. \/ /\ ssl_' = s /\ server_writes' = server_writes \o Queued(<<Flight("SH")>>)
             /\ UNCHANGED <<tcp, s2c_end, recv_, response_ptr_, pieces, handler, made, kept, ub>>
          \/ tcp' = "closed" /\ UNCHANGED ub
        BY <1>2, <2>3, <2>4, <2>6, NoPlaintext
    <2>8. ssl_' = s => Srv("HELLO_DONE", <<>>, FALSE)'
        BY <1>1, <2>1, <2>7 DEF Srv
    <2> QED BY <1>6, <2>7, <2>8
  <1>7. CASE ~HasFlight(data, "CH")
    <2>1. h.ret = -1
        BY <1>3, <1>4, <1>5, <1>7 DEF HandleTlsHello
    <2>2. HandshakeFails
        BY <1>2, <2>1 DEF ServerTlsRead
    <2> QED BY <2>2 DEF HandshakeFails, TcpClose
  <1> QED BY <1>6, <1>7

(* HandleKeyExchange in the state HELLO_DONE: DATA_RECV, with the handshake *)
(* finished if the flight came in one read, or the end.                     *)
LEMMA KeyExchangeRead ==
    ASSUME NEW data \in Seq(CellsOf(TRUE)), ServerTlsRead(data), Srv("HELLO_DONE", <<>>, FALSE)
    PROVE  \/ tcp' = "closed" /\ UNCHANGED ub
           \/ /\ UNCHANGED <<tcp, s2c_end, recv_, response_ptr_, pieces, handler, made, kept, ub>>
              /\ HasFlight(data, "CKE") =>
                     /\ ssl_' = [state |-> "DATA_RECV", bio |-> AfterFlight(data), finished |-> TRUE]
                     /\ server_writes' = server_writes \o Queued(<<Flight("FIN")>>)
              /\ ~HasFlight(data, "CKE") =>
                     /\ ssl_' = [state |-> "DATA_RECV", bio |-> data, finished |-> FALSE]
                     /\ server_writes' = server_writes \o Queued(<<<<>>>>)
  <1>1. PICK no, yes : no = FALSE /\ yes = TRUE
      OBVIOUS
  <1>2. PICK h : h = Handshake(ssl_, data)
      OBVIOUS
  <1>3. ssl_ = [state |-> "HELLO_DONE", bio |-> <<>>, finished |-> no]
      BY <1>1 DEF Srv
  <1>4. <<>> \o data = data
      BY ConcatEmptySeq
  <1>5. h = HandleKeyExchange(ssl_, data)
      BY <1>2, <1>3 DEF Handshake
  <1> SUFFICES ASSUME tcp' # "closed" \/ ub' # ub
               PROVE  /\ UNCHANGED <<tcp, s2c_end, recv_, response_ptr_, pieces, handler, made, kept, ub>>
                      /\ HasFlight(data, "CKE") =>
                             /\ ssl_' = [state |-> "DATA_RECV", bio |-> AfterFlight(data), finished |-> TRUE]
                             /\ server_writes' = server_writes \o Queued(<<Flight("FIN")>>)
                      /\ ~HasFlight(data, "CKE") =>
                             /\ ssl_' = [state |-> "DATA_RECV", bio |-> data, finished |-> FALSE]
                             /\ server_writes' = server_writes \o Queued(<<<<>>>>)
      OBVIOUS
  <1>6. ASSUME NEW bio, NEW fin, NEW out,
               h = [s |-> [state |-> "KEY_EXCHANGE_DONE", bio |-> bio, finished |-> fin],
                    out |-> out, ret |-> 0]
        PROVE  /\ ssl_' = [state |-> "DATA_RECV", bio |-> bio, finished |-> fin]
               /\ server_writes' = server_writes \o Queued(out)
               /\ UNCHANGED <<tcp, s2c_end, recv_, response_ptr_, pieces, handler, made, kept, ub>>
    <2>1. PICK s, r : /\ s = [state |-> "KEY_EXCHANGE_DONE", bio |-> bio, finished |-> fin]
                      /\ r = ServerDataRecv(h.s, data)
        OBVIOUS
    <2>2. h.s = s /\ h.out = out /\ h.ret = 0
        BY <1>6, <2>1
    <2>3. r = [s |-> [s EXCEPT !.state = "DATA_RECV"], plain |-> <<>>]
      <3>1. s.state = "KEY_EXCHANGE_DONE"
          BY <2>1
      <3> QED BY <2>1, <2>2, <3>1 DEF ServerDataRecv
    <2>4. r.s = [state |-> "DATA_RECV", bio |-> bio, finished |-> fin] /\ r.plain = <<>>
        BY <2>1, <2>3
    <2>5. /\ ssl_' = r.s /\ server_writes' = server_writes \o Queued(h.out)
          /\ UNCHANGED <<tcp, s2c_end, recv_, response_ptr_, pieces, handler, made, kept, ub>>
        BY <1>2, <2>1, <2>2, <2>4, NoPlaintext
    <2> QED BY <2>2, <2>4, <2>5
  <1>7. CASE HasFlight(data, "CKE")
    <2>1. h = [s |-> [state |-> "KEY_EXCHANGE_DONE", bio |-> AfterFlight(data), finished |-> yes],
               out |-> <<Flight("FIN")>>, ret |-> 0]
        BY <1>1, <1>3, <1>4, <1>5, <1>7 DEF HandleKeyExchange
    <2>2. /\ ssl_' = [state |-> "DATA_RECV", bio |-> AfterFlight(data), finished |-> yes]
          /\ server_writes' = server_writes \o Queued(<<Flight("FIN")>>)
          /\ UNCHANGED <<tcp, s2c_end, recv_, response_ptr_, pieces, handler, made, kept, ub>>
        BY <1>6, <2>1
    <2> QED BY <1>1, <1>7, <2>2
  <1>8. CASE ~HasFlight(data, "CKE")
    <2>1. h = [s |-> [state |-> "KEY_EXCHANGE_DONE", bio |-> data, finished |-> no],
               out |-> <<<<>>>>, ret |-> 0]
        BY <1>1, <1>3, <1>4, <1>5, <1>8 DEF HandleKeyExchange
    <2>2. /\ ssl_' = [state |-> "DATA_RECV", bio |-> data, finished |-> no]
          /\ server_writes' = server_writes \o Queued(<<<<>>>>)
          /\ UNCHANGED <<tcp, s2c_end, recv_, response_ptr_, pieces, handler, made, kept, ub>>
        BY <1>6, <2>1
    <2> QED BY <1>1, <1>8, <2>2
  <1> QED BY <1>7, <1>8

(* HandleSslDataRecv with the handshake not finished: SSL_read finishes it  *)
(* once the flight is there.                                                *)
LEMMA LateKeyExchangeRead ==
    ASSUME IInv, NEW data, ServerTlsRead(data), ssl_.state = "DATA_RECV", ~ssl_.finished,
           NEW b, b = ssl_.bio \o data
    PROVE  /\ UNCHANGED <<server_writes, tcp, s2c_end, recv_, response_ptr_, pieces, handler, made, kept, ub>>
           /\ ssl_'.state = "DATA_RECV"
           /\ HasFlight(b, "CKE") => ssl_'.finished
           /\ ~HasFlight(b, "CKE") => ~ssl_'.finished /\ ssl_'.bio = b
  <1>1. PICK h, r : h = Handshake(ssl_, data) /\ r = ServerDataRecv(h.s, data)
      OBVIOUS
  <1>2. IsServer(ssl_) /\ server_writes \in Seq(WriteOf(tls))
      BY DEF IInv, SslInv, WireInv
  <1>3. h = [s |-> ssl_, out |-> <<>>, ret |-> 0]
      BY <1>1 DEF Handshake
  <1>4. h.s = ssl_ /\ h.out = <<>> /\ h.ret = 0
      BY <1>3
  <1>5. PICK s : s = IF HasFlight(b, "CKE")
                     THEN [ssl_ EXCEPT !.bio = AfterFlight(b), !.finished = TRUE]
                     ELSE [ssl_ EXCEPT !.bio = b]
      OBVIOUS
  <1>6. r = [s |-> s, plain |-> <<>>]
      BY <1>1, <1>4, <1>5 DEF ServerDataRecv
  <1>7. r.s = s /\ r.plain = <<>>
      BY <1>6
  <1>8. /\ ssl_' = s /\ server_writes' = server_writes \o Queued(<<>>)
        /\ UNCHANGED <<tcp, s2c_end, recv_, response_ptr_, pieces, handler, made, kept, ub>>
      BY <1>1, <1>4, <1>7, NoPlaintext DEF MayRefuse
  <1>9. server_writes' = server_writes
    <2>1. Queued(<<>>) = <<>>
        BY DEF Queued
    <2> QED BY <1>2, <1>8, <2>1, ConcatEmptySeq
  <1>10. s.state = "DATA_RECV" /\ (HasFlight(b, "CKE") => s.finished)
         /\ (~HasFlight(b, "CKE") => ~s.finished /\ s.bio = b)
    <2>1. CASE HasFlight(b, "CKE")
      <3>1. PICK u : u = [ssl_ EXCEPT !.bio = AfterFlight(b)]
          OBVIOUS
      <3>2. s = [u EXCEPT !.finished = TRUE]
          BY <1>5, <2>1, <3>1
      <3>3. IsServer(u) /\ u.state = "DATA_RECV"
          BY <1>2, <3>1 DEF IsServer
      <3>4. s.state = "DATA_RECV" /\ s.finished
          BY <3>2, <3>3 DEF IsServer
      <3> QED BY <2>1, <3>4
    <2>2. CASE ~HasFlight(b, "CKE")
      <3>1. s = [ssl_ EXCEPT !.bio = b]
          BY <1>5, <2>2
      <3>2. s.state = ssl_.state /\ s.finished = ssl_.finished /\ s.bio = b
          BY <1>2, <3>1 DEF IsServer
      <3> QED BY <2>2, <3>2
    <2> QED BY <2>1, <2>2
  <1> QED BY <1>8, <1>9, <1>10

(* HandleSslDataRecv with the handshake finished: one SSL_read, and         *)
(* HttpSession::OnRead if it gives plaintext.                               *)
LEMMA DataRead ==
    ASSUME IInv, NEW data, ServerTlsRead(data), ssl_.state = "DATA_RECV", ssl_.finished,
           NEW b, b = ssl_.bio \o data
    PROVE  /\ ssl_'.state = "DATA_RECV" /\ ssl_'.finished /\ ssl_'.bio = SSL_read(b).bio
           /\ SSL_read(b).plain = <<>> =>
                 UNCHANGED <<server_writes, tcp, s2c_end, recv_, response_ptr_, pieces, handler, made, kept, ub>>
           /\ SSL_read(b).plain # <<>> => HttpOnRead(SSL_read(b).plain)
  <1>1. PICK h, r : h = Handshake(ssl_, data) /\ r = ServerDataRecv(h.s, data)
      OBVIOUS
  <1>2. IsServer(ssl_) /\ server_writes \in Seq(WriteOf(tls))
      BY DEF IInv, SslInv, WireInv
  <1>3. h = [s |-> ssl_, out |-> <<>>, ret |-> 0]
      BY <1>1 DEF Handshake
  <1>4. h.s = ssl_ /\ h.out = <<>> /\ h.ret = 0
      BY <1>3
  <1>5. PICK x : x = SSL_read(b)
      OBVIOUS
  <1>6. r = [s |-> [ssl_ EXCEPT !.bio = x.bio], plain |-> x.plain]
      BY <1>1, <1>4, <1>5 DEF ServerDataRecv
  <1>7. r.s = [ssl_ EXCEPT !.bio = x.bio] /\ r.plain = x.plain
      BY <1>6
  <1>8. ssl_' = r.s
      BY <1>1, <1>4 DEF ServerTlsRead, MayRefuse
  <1>9. ssl_'.state = "DATA_RECV" /\ ssl_'.finished /\ ssl_'.bio = x.bio
      BY <1>2, <1>7, <1>8 DEF IsServer
  <1>10. ASSUME x.plain = <<>>
         PROVE  UNCHANGED <<server_writes, tcp, s2c_end, recv_, response_ptr_, pieces, handler, made, kept, ub>>
    <2>1. r.plain = <<>> /\ h.ret = 0
        BY <1>4, <1>7, <1>10
    <2>2. /\ server_writes' = server_writes \o Queued(h.out)
          /\ UNCHANGED <<tcp, s2c_end, recv_, response_ptr_, pieces, handler, made, kept, ub>>
        BY <1>1, <2>1, NoPlaintext DEF MayRefuse
    <2>3. /\ server_writes' = server_writes \o Queued(<<>>)
          /\ UNCHANGED <<tcp, s2c_end, recv_, response_ptr_, pieces, handler, made, kept, ub>>
        BY <1>4, <2>2
    <2>4. Queued(<<>>) = <<>>
        BY DEF Queued
    <2> QED BY <1>2, <2>3, <2>4, ConcatEmptySeq
  <1>11. ASSUME x.plain # <<>> PROVE HttpOnRead(x.plain)
      BY <1>1, <1>4, <1>7, <1>11 DEF ServerTlsRead, MayRefuse
  <1> QED BY <1>5, <1>9, <1>10, <1>11

------------------------------------------------------------------------------
(* The server reads a part of the ClientHello: it answers, or it ends. *)
LEMMA HelloReadLive ==
    ASSUME IInv, tls, T2, ServerOnRead
    PROVE  \/ tcp' = "closed" /\ UNCHANGED ub
           \/ T3' /\ UNCHANGED ub
  <1>1. PICK n \in 1..Len(c2s) :
            c2s' = SubSeq(c2s, n + 1, Len(c2s)) /\ ServerTlsRead(SubSeq(c2s, 1, n))
      BY DEF ServerOnRead
  <1>2. PICK data, rest : data = SubSeq(c2s, 1, n) /\ rest = SubSeq(c2s, n + 1, Len(c2s))
      OBVIOUS
  <1>3. c2s \in Seq(CellsOf(TRUE))
    <2>1. WireInv
        BY DEF IInv
    <2> QED BY <2>1, TlsWire
  <1>4. data \in Seq(CellsOf(TRUE)) /\ rest \in Seq(CellsOf(TRUE)) /\ data \o rest = c2s
      BY <1>2, <1>3, ReadParts
  <1>5. UNCHANGED <<client, request, ssl_client_, client_writes, s2c>>
      BY ClientSame DEF ServerOnRead
  <1>6. /\ HasFlight(data, "CH") => rest = <<>> /\ data = Flight("CH")
        /\ ~HasFlight(data, "CH") => rest # <<>>
    <2>1. data \o rest = Flight("CH")
        BY <1>4 DEF T2
    <2> QED BY <1>4, <2>1, FlightParts
  <1>7. Srv("INIT", <<>>, FALSE) /\ ServerTlsRead(data)
      BY <1>1, <1>2 DEF T2
  <1>8. ASSUME /\ HasFlight(data, "CH") /\ Srv("HELLO_DONE", <<>>, FALSE)'
               /\ server_writes' = server_writes \o Queued(<<Flight("SH")>>)
               /\ UNCHANGED <<tcp, s2c_end, recv_, response_ptr_, pieces, handler, made, kept, ub>>
        PROVE  T3'
    <2>1. server_writes' = <<>> \o Queued(<<Flight("SH")>>)
        BY <1>8 DEF T2
    <2>2. Pending(server_writes', Flight("SH"))
        BY <2>1, OneQueued
    <2>3. c2s' = <<>>
        BY <1>1, <1>2, <1>6, <1>8
    <2>4. Waiting'
        BY <1>8 DEF T2, Waiting, Idle
    <2>5. Coming(Flight("SH"))'
        BY <1>5, <2>2 DEF Coming, T2
    <2> QED BY <1>5, <1>8, <2>3, <2>4, <2>5 DEF T2, T3, Cli
  <1> QED BY <1>4, <1>7, <1>8, HelloRead

(* The server reads a part of the client's second flight. *)
LEMMA KeyExchangeReadLive ==
    ASSUME IInv, tls, T5, ServerOnRead
    PROVE  \/ tcp' = "closed" /\ UNCHANGED ub
           \/ UNCHANGED ub /\ (T6' \/ TS')
  <1>1. PICK n \in 1..Len(c2s) :
            c2s' = SubSeq(c2s, n + 1, Len(c2s)) /\ ServerTlsRead(SubSeq(c2s, 1, n))
      BY DEF ServerOnRead
  <1>2. PICK data, rest : data = SubSeq(c2s, 1, n) /\ rest = SubSeq(c2s, n + 1, Len(c2s))
      OBVIOUS
  <1>3. c2s \in Seq(CellsOf(TRUE))
    <2>1. WireInv
        BY DEF IInv
    <2> QED BY <2>1, TlsWire
  <1>4. data \in Seq(CellsOf(TRUE)) /\ rest \in Seq(CellsOf(TRUE)) /\ data \o rest = c2s
      BY <1>2, <1>3, ReadParts
  <1>5. UNCHANGED <<client, request, ssl_client_, client_writes, s2c>> /\ CalledBack(server_writes)
      BY ClientSame DEF ServerOnRead
  <1>6. data \o rest = Flight("CKE")
      BY <1>4 DEF T5
  <1>7. /\ HasFlight(data, "CKE") => rest = <<>> /\ data = Flight("CKE")
        /\ ~HasFlight(data, "CKE") => rest # <<>>
      BY <1>4, <1>6, FlightParts
  <1>8. Srv("HELLO_DONE", <<>>, FALSE) /\ ServerTlsRead(data) /\ c2s' = rest
      BY <1>1, <1>2 DEF T5
  <1> SUFFICES ASSUME tcp' # "closed" \/ ub' # ub PROVE UNCHANGED ub /\ (T6' \/ TS')
      OBVIOUS
  <1>9. /\ UNCHANGED <<tcp, s2c_end, recv_, response_ptr_, pieces, handler, made, kept, ub>>
        /\ HasFlight(data, "CKE") =>
               /\ ssl_' = [state |-> "DATA_RECV", bio |-> AfterFlight(data), finished |-> TRUE]
               /\ server_writes' = server_writes \o Queued(<<Flight("FIN")>>)
        /\ ~HasFlight(data, "CKE") =>
               /\ ssl_' = [state |-> "DATA_RECV", bio |-> data, finished |-> FALSE]
               /\ server_writes' = server_writes \o Queued(<<<<>>>>)
      BY <1>4, <1>8, KeyExchangeRead
  <1>10. server_writes = <<>>
      BY <1>5, TakenCalledBack DEF T5
  <1>11. Waiting'
      BY <1>9 DEF T5, Waiting, Idle
  <1>12. CASE HasFlight(data, "CKE")
    <2>1. server_writes' = <<>> \o Queued(<<Flight("FIN")>>)
        BY <1>9, <1>10, <1>12
    <2>2. Pending(server_writes', Flight("FIN"))
        BY <2>1, OneQueued
    <2>3. c2s' = <<>>
        BY <1>7, <1>8, <1>12
    <2>4. AfterFlight(data) = <<>>
        BY <1>7, <1>12, FlightEnds
    <2>5. Srv("DATA_RECV", <<>>, TRUE)'
        BY <1>9, <1>12, <2>4 DEF Srv
    <2>6. Coming(Flight("FIN"))'
        BY <1>5, <2>2 DEF Coming, T5
    <2>7. T6'
        BY <1>5, <1>11, <2>3, <2>5, <2>6 DEF T5, T6, Cli
    <2> QED BY <1>9, <2>7
  <1>13. CASE ~HasFlight(data, "CKE")
    <2>1. server_writes' = <<>> \o Queued(<<<<>>>>)
        BY <1>9, <1>10, <1>13
    <2>2. Pending(server_writes', <<>>)
        BY <2>1, OneQueued
    <2>3. c2s' # <<>> /\ data \o c2s' = Flight("CKE")
        BY <1>6, <1>7, <1>8, <1>13
    <2>4. ssl_'.state = "DATA_RECV" /\ ssl_'.bio = data /\ ~ssl_'.finished
        BY <1>9, <1>13
    <2>5. TS'
        BY <1>4, <1>5, <1>11, <2>2, <2>3, <2>4 DEF T5, TS, Cli
    <2> QED BY <1>9, <2>5
  <1> QED BY <1>12, <1>13

(* The server reads the rest of that flight too late. *)
LEMMA LateReadLive ==
    ASSUME IInv, tls, TS, ServerOnRead
    PROVE  UNCHANGED ub /\ TS'
  <1>1. PICK n \in 1..Len(c2s) :
            c2s' = SubSeq(c2s, n + 1, Len(c2s)) /\ ServerTlsRead(SubSeq(c2s, 1, n))
      BY DEF ServerOnRead
  <1>2. PICK data, rest, b : /\ data = SubSeq(c2s, 1, n) /\ rest = SubSeq(c2s, n + 1, Len(c2s))
                             /\ b = ssl_.bio \o data
      OBVIOUS
  <1>3. c2s \in Seq(CellsOf(TRUE)) /\ c2s # <<>>
    <2>1. WireInv
        BY DEF IInv
    <2> QED BY <2>1, TlsWire DEF ServerOnRead
  <1>4. data \in Seq(CellsOf(TRUE)) /\ rest \in Seq(CellsOf(TRUE)) /\ data \o rest = c2s
      BY <1>2, <1>3, ReadParts
  <1>5. UNCHANGED <<client, request, ssl_client_, client_writes, s2c>>
      BY ClientSame DEF ServerOnRead
  <1>6. /\ ssl_.state = "DATA_RECV" /\ ~ssl_.finished /\ ssl_.bio \in Seq(CellsOf(TRUE))
        /\ ssl_.bio \o c2s = Flight("CKE")
      BY <1>3 DEF TS
  <1>7. b \in Seq(CellsOf(TRUE)) /\ b \o rest = Flight("CKE")
    <2>1. ssl_.bio \o (data \o rest) = Flight("CKE")
        BY <1>4, <1>6
    <2>2. (ssl_.bio \o data) \o rest = Flight("CKE")
        BY <1>4, <1>6, <2>1, Regroup
    <2>3. ssl_.bio \o data \in Seq(CellsOf(TRUE))
        BY <1>4, <1>6, ConcatProperties
    <2> QED BY <1>2, <2>2, <2>3
  <1>8. /\ HasFlight(b, "CKE") => rest = <<>> /\ b = Flight("CKE")
        /\ ~HasFlight(b, "CKE") => rest # <<>>
      BY <1>4, <1>7, FlightParts
  <1>9. ServerTlsRead(data) /\ c2s' = rest
      BY <1>1, <1>2
  <1>10. /\ UNCHANGED <<server_writes, tcp, s2c_end, recv_, response_ptr_, pieces, handler, made, kept, ub>>
         /\ ssl_'.state = "DATA_RECV"
         /\ HasFlight(b, "CKE") => ssl_'.finished
         /\ ~HasFlight(b, "CKE") => ~ssl_'.finished /\ ssl_'.bio = b
      BY <1>2, <1>6, <1>9, LateKeyExchangeRead
  <1>11. Waiting'
      BY <1>10 DEF TS, Waiting, Idle
  <1>12. \/ ssl_'.finished /\ c2s' = <<>>
         \/ /\ ~ssl_'.finished /\ ssl_'.bio \in Seq(CellsOf(TRUE)) /\ c2s' # <<>>
            /\ ssl_'.bio \o c2s' = Flight("CKE")
      BY <1>7, <1>8, <1>9, <1>10
  <1>13. TS'
      BY <1>5, <1>10, <1>11, <1>12 DEF TS, Cli
  <1> QED BY <1>10, <1>13

------------------------------------------------------------------------------
(* What HttpSession::OnRead uses after its end. *)
LEMMA ReadUb ==
    ASSUME Up, NEW data, HttpOnRead(data)
    PROVE  /\ ub' \in {ub, "read_after_close", "late_write", "closed_in_handler"}
           /\ tls => ub' \in {ub, "read_after_close", "closed_in_handler"}
  <1>u. ub = None
      BY DEF Up
  <1>1. CASE SessionClose(response_ptr_, IF tls THEN "read_after_close" ELSE LateWrite(server_writes))
      BY <1>u, <1>1 DEF SessionClose, LateWrite
  <1>2. CASE UNCHANGED ub
      BY <1>u, <1>2
  <1>3. CASE \E r : Handle(r)
      BY <1>u, <1>3 DEF Handle, SessionClose
  <1> QED BY <1>1, <1>2, <1>3, HttpReadCases

(* The server reads a part of the record with the request. *)
LEMMA RecordReadLive ==
    ASSUME IInv, GoneInv, tls, T8, ServerOnRead
    PROVE  \/ UNCHANGED ub /\ (T8' \/ T9')
           \/ tcp' = "closed" /\ Method = "BAD" /\ (ub' = ub \/ ub' = "read_after_close")
           \/ tcp' = "closed" /\ ub' = "closed_in_handler"
  <1>1. PICK n \in 1..Len(c2s) :
            c2s' = SubSeq(c2s, n + 1, Len(c2s)) /\ ServerTlsRead(SubSeq(c2s, 1, n))
      BY DEF ServerOnRead
  <1>2. PICK data, rest, b : /\ data = SubSeq(c2s, 1, n) /\ rest = SubSeq(c2s, n + 1, Len(c2s))
                             /\ b = ssl_.bio \o data
      OBVIOUS
  <1>3. c2s \in Seq(CellsOf(TRUE)) /\ c2s # <<>>
    <2>1. WireInv
        BY DEF IInv
    <2> QED BY <2>1, TlsWire DEF ServerOnRead
  <1>4. data \in Seq(CellsOf(TRUE)) /\ rest \in Seq(CellsOf(TRUE)) /\ data \o rest = c2s
      BY <1>2, <1>3, ReadParts
  <1>5. /\ UNCHANGED <<client, request, ssl_client_, client_writes, s2c, tls>>
        /\ CalledBack(server_writes) /\ Up
      BY ClientSame DEF ServerOnRead
  <1>6. /\ ssl_.state = "DATA_RECV" /\ ssl_.finished /\ ssl_.bio \in Seq(CellsOf(TRUE))
        /\ ssl_.bio \o c2s = Record(request) /\ Cli("READY") /\ client = "open" /\ s2c = <<>>
        /\ Taken(client_writes, Record(request)) /\ Taken(server_writes, Flight("FIN")) /\ Waiting
      BY DEF T8, Cli
  <1>7. Shaped(request)
      BY <1>6 DEF GoneInv
  <1>8. b \in Seq(CellsOf(TRUE)) /\ b \o rest = Record(request)
    <2>1. ssl_.bio \o (data \o rest) = Record(request)
        BY <1>4, <1>6
    <2>2. (ssl_.bio \o data) \o rest = Record(request)
        BY <1>4, <1>6, <2>1, Regroup
    <2>3. ssl_.bio \o data \in Seq(CellsOf(TRUE))
        BY <1>4, <1>6, ConcatProperties
    <2> QED BY <1>2, <2>2, <2>3
  <1>9. PICK p : p = SSL_read(b).plain
      OBVIOUS
  <1>10. /\ rest # <<>> => p = <<>> /\ SSL_read(b).bio = b
         /\ rest = <<>> => /\ p \in Seq(CellsOf(FALSE)) /\ p # <<>> /\ Len(p) <= Len(request)
                           /\ \A i \in 1..Len(p) : p[i] = request[i]
    <2>1. rest \in Seq(CellsOf(TRUE))
        BY <1>4
    <2>2. rest # <<>> => SSL_read(b).plain = <<>> /\ SSL_read(b).bio = b
        BY ONLY <1>7, <1>8, <2>1, RecordRead
    <2>3. rest = <<>> => SSL_read(b).plain \in Seq(CellsOf(FALSE)) /\ SSL_read(b).plain # <<>>
        BY ONLY <1>7, <1>8, <2>1, RecordRead
    <2>4. rest = <<>> => /\ Len(SSL_read(b).plain) <= Len(request)
                         /\ \A i \in 1..Len(SSL_read(b).plain) : SSL_read(b).plain[i] = request[i]
        BY ONLY <1>7, <1>8, <2>1, RecordRead
    <2> QED BY ONLY <1>9, <2>2, <2>3, <2>4
  <1>11. ServerTlsRead(data) /\ c2s' = rest
      BY <1>1, <1>2
  <1>12. /\ ssl_'.state = "DATA_RECV" /\ ssl_'.finished /\ ssl_'.bio = SSL_read(b).bio
         /\ p = <<>> =>
               UNCHANGED <<server_writes, tcp, s2c_end, recv_, response_ptr_, pieces, handler, made, kept, ub>>
         /\ p # <<>> => HttpOnRead(p)
      BY <1>2, <1>6, <1>9, <1>11, DataRead
  <1>13. CASE rest # <<>>
    <2>1. UNCHANGED <<server_writes, tcp, s2c_end, recv_, response_ptr_, pieces, handler, made, kept, ub>>
        BY <1>10, <1>12, <1>13
    <2>2. Waiting'
        BY <1>6, <2>1 DEF Waiting, Idle
    <2>3. ssl_'.bio \in Seq(CellsOf(TRUE)) /\ ssl_'.bio \o c2s' = Record(request)
        BY <1>8, <1>10, <1>11, <1>12, <1>13
    <2>4. T8'
        BY <1>5, <1>6, <1>11, <1>12, <1>13, <2>1, <2>2, <2>3 DEF T8, Cli
    <2> QED BY <2>1, <2>4
  <1>14. CASE rest = <<>>
    <2>1. /\ p \in Seq(CellsOf(FALSE)) /\ p # <<>> /\ Len(p) <= Len(request)
          /\ \A i \in 1..Len(p) : p[i] = request[i]
        BY <1>10, <1>14
    <2>2. HttpOnRead(p)
        BY <1>12, <2>1
    <2>3. recv_ \o p = p
      <3>1. recv_ = <<>>
          BY <1>6 DEF Waiting
      <3>2. <<>> \o p = p
          BY <2>1, ConcatEmptySeq
      <3> QED BY <3>1, <3>2
    <2>4. server_writes = <<>>
        BY <1>5, <1>6, TakenCalledBack
    <2>5. \/ /\ recv_' = recv_ \o p
             /\ UNCHANGED <<response_ptr_, server_writes, pieces, handler, made, kept, tcp, s2c_end, ub>>
          \/ /\ Len(recv_ \o p) = Len(request) /\ response_ptr_' # None
             /\ Answering(tls, server_writes', response_ptr_', pieces', handler', made')
             /\ UNCHANGED <<kept, tcp, s2c_end, ub>>
          \/ /\ tcp' = "closed" /\ Method = "BAD"
             /\ ~tls => ub' = ub
          \/ tcp' = "closed" /\ ub' = "closed_in_handler"
      <3>1. /\ recv_ \o p \in Seq(CellsOf(FALSE)) /\ recv_ \o p # <<>>
            /\ Len(recv_ \o p) <= Len(request)
            /\ \A i \in 1..Len(recv_ \o p) : (recv_ \o p)[i] = request[i]
          BY <2>1, <2>3
      <3>2. Idle
          BY <1>6 DEF Waiting
      <3> QED BY <1>5, <1>7, <2>2, <2>4, <3>1, <3>2, RequestRead
    <2>6. Answer' => T9'
        BY <1>5, <1>6, <1>11, <1>12, <1>14 DEF T9, Cli
    <2>7. CASE /\ recv_' = recv_ \o p
               /\ UNCHANGED <<response_ptr_, server_writes, pieces, handler, made, kept, tcp, s2c_end, ub>>
      <3>1. Answer'
          BY <1>6, <2>4, <2>7 DEF Answer, Waiting, Idle
      <3> QED BY <2>6, <2>7, <3>1
    <2>8. CASE /\ response_ptr_' # None
               /\ Answering(tls, server_writes', response_ptr_', pieces', handler', made')
               /\ UNCHANGED <<kept, tcp, s2c_end, ub>>
      <3>1. Answer'
          BY <1>5, <1>6, <2>8 DEF Answer, Waiting, Idle
      <3> QED BY <2>6, <2>8, <3>1
    <2>9. CASE tcp' = "closed" /\ Method = "BAD"
      <3>1. ub' \in {ub, "read_after_close", "closed_in_handler"}
          BY <1>5, <2>2, ReadUb
      <3> QED BY <2>9, <3>1
    <2> QED BY <2>5, <2>7, <2>8, <2>9
  <1> QED BY <1>13, <1>14

(* What the server reads from a client that is there: the next part of what *)
(* it waits for.  A session ends by it when the handshake fails, for a bad  *)
(* request, behind TLS used after its end, or when its handler closes it.   *)
LEMMA ServerReadLive ==
    ASSUME IInv, GoneInv, LiveInv, Live, ServerOnRead
    PROVE  /\ tcp' = "closed" \/ ((tls => TlsPhase') /\ (~tls => PlainPhase'))
           /\ ub' # ub => \/ ub' = "closed_in_handler"
                          \/ ub' = "read_after_close" /\ tls /\ Method = "BAD"
  <1>1. c2s # <<>> /\ tls \in BOOLEAN
      BY DEF ServerOnRead, IInv, WireInv
  <1>2. (tls => TlsPhase) /\ (~tls => PlainPhase)
      BY DEF LiveInv
  <1>3. CASE tls
    <2>1. ~T0 /\ ~T1 /\ ~T3 /\ ~T4 /\ ~T6 /\ ~T7 /\ ~T9
        BY <1>1 DEF T0, T1, T3, T4, T6, T7, T9
    <2>2. T2 \/ T5 \/ T8 \/ TS
        BY <1>2, <1>3, <2>1 DEF TlsPhase
    <2>3. CASE T2
        BY <1>3, <2>3, HelloReadLive DEF TlsPhase
    <2>4. CASE T5
        BY <1>3, <2>4, KeyExchangeReadLive DEF TlsPhase
    <2>5. CASE T8
        BY <1>3, <2>5, RecordReadLive DEF TlsPhase
    <2>6. CASE TS
        BY <1>3, <2>6, LateReadLive DEF TlsPhase
    <2> QED BY <2>2, <2>3, <2>4, <2>5, <2>6
  <1>4. CASE ~tls
    <2>1. ~P0 /\ ~P1 /\ ~P3
        BY <1>1 DEF P0, P1, P3
    <2>2. P2
        BY <1>2, <1>4, <2>1 DEF PlainPhase
    <2> QED BY <1>4, <2>2, PlainReadLive DEF PlainPhase
  <1> QED BY <1>1, <1>3, <1>4

------------------------------------------------------------------------------
(* The socket takes the pending write of the server. *)
LEMMA PendingAnswered ==
    ASSUME NEW S, NEW cells \in Seq(S), Pending(server_writes, cells), s2c = <<>>, ServerTakes, ~again
    PROVE  s2c' = cells /\ Taken(server_writes', cells)
  <1>1. PICK i \in DOMAIN server_writes :
            /\ server_writes' = [server_writes EXCEPT ![i].done = TRUE]
            /\ s2c' = s2c \o server_writes[i].cells
      BY DEF ServerTakes
  <1>2. /\ DOMAIN server_writes = {1} /\ server_writes[1].cells = cells
        /\ Taken([server_writes EXCEPT ![1].done = TRUE], cells)
      BY PendingTaken
  <1>3. i = 1
      BY <1>2
  <1>4. s2c' = <<>> \o cells
      BY <1>1, <1>2, <1>3
  <1>5. <<>> \o cells = cells
      BY ConcatEmptySeq
  <1> QED BY <1>1, <1>2, <1>3, <1>4, <1>5

(* And nothing of what it has taken. *)
LEMMA NotAnsweredAgain ==
    ASSUME NEW cells, Taken(server_writes, cells), ServerTakes
    PROVE  FALSE
  <1>1. \E i \in DOMAIN server_writes : ~server_writes[i].done
      BY DEF ServerTakes
  <1> QED BY <1>1, TakenCalledBack

(* The flight the client waits for is taken. *)
LEMMA ComingTaken ==
    ASSUME NEW f, Flight(f) \in Seq(CellsOf(TRUE)), Coming(Flight(f)), ServerTakes, ~again
    PROVE  Coming(Flight(f))'
  <1>1. s2c = <<>> /\ ssl_client_.bio = <<>> /\ Pending(server_writes, Flight(f))
      BY NotAnsweredAgain DEF Coming
  <1>2. s2c' = Flight(f) /\ Taken(server_writes', Flight(f))
      BY <1>1, PendingAnswered
  <1>3. ssl_client_' = ssl_client_
      BY ClientSame DEF ServerTakes
  <1>4. <<>> \o Flight(f) = Flight(f)
      BY ConcatEmptySeq
  <1>5. ssl_client_'.bio \in Seq(CellsOf(TRUE)) /\ ssl_client_'.bio \o s2c' = Flight(f)
    <2>1. \A C : <<>> \in Seq(C)
        OBVIOUS
    <2>2. <<>> \in Seq(CellsOf(TRUE))
        BY <2>1, Zenon
    <2>3. ssl_client_'.bio = <<>>
        BY <1>1, <1>3
    <2>4. ssl_client_'.bio \o s2c' = Flight(f)
        BY <1>2, <1>4, <2>3
    <2> QED BY <2>2, <2>3, <2>4
  <1> QED BY <1>2, <1>5 DEF Coming

(* The socket takes a write of the server. *)
LEMMA ServerTakesLive ==
    ASSUME IInv, LiveInv, Live, ServerTakes, ~again
    PROVE  (tls => TlsPhase') /\ (~tls => PlainPhase')
  <1>1. UNCHANGED <<tls, clientVars, c2s, ssl_, recv_, response_ptr_, pieces, handler, made, kept>>
      BY DEF ServerTakes
  <1>2. UNCHANGED <<client, request, ssl_client_, client_writes>>
      BY <1>1, ClientSame
  <1>3. (tls => TlsPhase) /\ (~tls => PlainPhase)
      BY DEF LiveInv
  <1>4. server_writes # <<>>
    <2>1. \E i : i \in DOMAIN server_writes
        BY DEF ServerTakes
    <2> QED BY <2>1
  <1>5. Waiting => Waiting'
      BY <1>1 DEF Waiting, Idle
  <1>6. ASSUME ~tls PROVE PlainPhase'
    <2>1. ~P0 /\ ~P1 /\ ~P2
        BY <1>4 DEF P0, P1, P2
    <2>2. P3
        BY <1>3, <1>6, <2>1 DEF PlainPhase
    <2>3. Answer'
        BY <2>2, AnswerTaken DEF P3
    <2>4. P3'
        BY <1>1, <1>2, <2>2, <2>3 DEF P3
    <2> QED BY <2>4 DEF PlainPhase
  <1>7. ASSUME tls PROVE TlsPhase'
    <2>1. ~T0 /\ ~T1 /\ ~T2
        BY <1>4 DEF T0, T1, T2
    <2>2. ~T4 /\ ~T5 /\ ~T7 /\ ~T8
        BY NotAnsweredAgain DEF T4, T5, T7, T8
    <2>3. T3 \/ T6 \/ T9 \/ TS
        BY <1>3, <1>7, <2>1, <2>2 DEF TlsPhase
    <2>4. CASE T3
      <3>1. Coming(Flight("SH"))'
          BY <2>4, Flights, ComingTaken DEF T3
      <3>2. Srv("HELLO_DONE", <<>>, FALSE)'
          BY <1>1, <2>4 DEF T3, Srv
      <3>3. T3'
          BY <1>1, <1>2, <1>5, <2>4, <3>1, <3>2 DEF T3, Cli
      <3> QED BY <3>3 DEF TlsPhase
    <2>5. CASE T6
      <3>1. Coming(Flight("FIN"))'
          BY <2>5, Flights, ComingTaken DEF T6
      <3>2. Srv("DATA_RECV", <<>>, TRUE)'
          BY <1>1, <2>5 DEF T6, Srv
      <3>3. T6'
          BY <1>1, <1>2, <1>5, <2>5, <3>1, <3>2 DEF T6, Cli
      <3> QED BY <3>3 DEF TlsPhase
    <2>6. CASE T9
      <3>1. Answer'
          BY <2>6, AnswerTaken DEF T9
      <3>2. T9'
          BY <1>1, <1>2, <2>6, <3>1 DEF T9, Cli
      <3> QED BY <3>2 DEF TlsPhase
    <2>7. CASE TS
      <3>1. Pending(server_writes, <<>>) /\ s2c = <<>>
          BY <2>7, NotAnsweredAgain DEF TS
      <3>2. PICK e : e = <<>>
          OBVIOUS
      <3>3. e \in Seq(Int) /\ Pending(server_writes, e)
          BY <3>1, <3>2
      <3>4. s2c' = e /\ Taken(server_writes', e)
          BY <3>1, <3>3, PendingAnswered
      <3>5. TS'
          BY <1>1, <1>2, <1>5, <2>7, <3>2, <3>4 DEF TS, Cli
      <3> QED BY <3>5 DEF TlsPhase
    <2> QED BY <2>3, <2>4, <2>5, <2>6, <2>7
  <1> QED BY <1>6, <1>7

(* A write that is called back while nothing is answered. *)
LEMMA IdleCalledBack ==
    ASSUME ~c2s_end, ServerOnWrite, response_ptr_ = None
    PROVE  /\ UNCHANGED <<tcp, s2c_end, ub, response_ptr_>>
           /\ \A f : ~Pending(server_writes, f)
           /\ \A f : Taken(server_writes, f) => Taken(server_writes', f)
  <1>1. server_writes # <<>> /\ Head(server_writes).done
      BY DEF ServerOnWrite
  <1>2. server_writes' = Tail(server_writes) /\ UNCHANGED <<tcp, s2c_end, ub, response_ptr_>>
      BY <1>1 DEF ServerOnWrite
  <1>3. \A f : ~Pending(server_writes, f)
      BY <1>1, PendingTaken
  <1>4. \A f : Taken(server_writes, f) => Taken(server_writes', f)
      BY <1>1, <1>2, TakenCalledBack DEF Taken
  <1> QED BY <1>2, <1>3, <1>4

(* A write of the server is called back.  A session that closes by it has   *)
(* written all, or its answer is Shortened.                                 *)
LEMMA ServerWriteLive ==
    ASSUME IInv, LiveInv, Live, ServerOnWrite
    PROVE  /\ tcp' = "closed" \/ ((tls => TlsPhase') /\ (~tls => PlainPhase'))
           /\ ub' # ub => ub' = "late_write" /\ Shortened
  <1>1. UNCHANGED <<tls, clientVars, c2s, s2c, ssl_, recv_, pieces, handler, made, kept>>
      BY DEF ServerOnWrite
  <1>2. UNCHANGED <<client, request, ssl_client_, client_writes>>
      BY <1>1, ClientSame
  <1>3. (tls => TlsPhase) /\ (~tls => PlainPhase) /\ ~c2s_end /\ tls \in BOOLEAN
      BY DEF LiveInv, Live, IInv, WireInv
  <1>4. server_writes # <<>>
      BY DEF ServerOnWrite
  <1>5. CASE ~tls
    <2>1. ~P0 /\ ~P1 /\ ~P2
        BY <1>4 DEF P0, P1, P2
    <2>2. P3
        BY <1>3, <1>5, <2>1 DEF PlainPhase
    <2>3. \/ Answer' /\ UNCHANGED <<tcp, s2c_end, ub>>
          \/ tcp' = "closed" /\ (ub' # ub => ub' = "late_write" /\ Shortened)
        BY <1>3, <1>5, <2>2, AnswerCalledBack DEF P3
    <2>4. Answer' => P3'
        BY <1>1, <1>2, <2>2 DEF P3
    <2> QED BY <1>5, <2>3, <2>4 DEF PlainPhase
  <1>6. CASE tls /\ T9
    <2>1. \/ Answer' /\ UNCHANGED <<tcp, s2c_end, ub>>
          \/ tcp' = "closed" /\ (ub' # ub => ub' = "late_write" /\ Shortened)
        BY <1>3, <1>6, AnswerCalledBack DEF T9
    <2>2. Answer' => T9'
        BY <1>1, <1>2, <1>6 DEF T9, Cli
    <2> QED BY <1>6, <2>1, <2>2 DEF TlsPhase
  <1>7. CASE tls /\ ~T9
    <2>1. ~T0 /\ ~T1 /\ ~T2
        BY <1>4 DEF T0, T1, T2
    <2>2. T3 \/ T4 \/ T5 \/ T6 \/ T7 \/ T8 \/ TS
        BY <1>3, <1>7, <2>1 DEF TlsPhase
    <2>3. Waiting
        BY <2>2 DEF T3, T4, T5, T6, T7, T8, TS
    <2>4. /\ UNCHANGED <<tcp, s2c_end, ub, response_ptr_>>
          /\ \A f : ~Pending(server_writes, f)
          /\ \A f : Taken(server_writes, f) => Taken(server_writes', f)
        BY <1>3, <2>3, IdleCalledBack DEF Waiting, Idle
    <2>5. Waiting'
        BY <1>1, <2>3, <2>4 DEF Waiting, Idle
    <2>6. \A f : Coming(f) => Coming(f)'
        BY <1>1, <1>2, <2>4 DEF Coming
    <2>7. /\ Srv("HELLO_DONE", <<>>, FALSE) => Srv("HELLO_DONE", <<>>, FALSE)'
          /\ Srv("DATA_RECV", <<>>, TRUE) => Srv("DATA_RECV", <<>>, TRUE)'
        BY <1>1 DEF Srv
    <2>8. (T3 => T3') /\ (T6 => T6')
        BY <1>1, <1>2, <2>5, <2>6, <2>7 DEF T3, T6, Cli
    <2>9. (T4 => T4') /\ (T5 => T5') /\ (T7 => T7')
        BY <1>1, <1>2, <2>4, <2>5, <2>7 DEF T4, T5, T7, Cli
    <2>10. T8 => T8'
        BY <1>1, <1>2, <2>4, <2>5 DEF T8, Cli
    <2>11. TS => TS'
        BY <1>1, <1>2, <2>4, <2>5 DEF TS, Cli
    <2> QED BY <1>7, <2>2, <2>4, <2>8, <2>9, <2>10, <2>11 DEF TlsPhase
  <1> QED BY <1>3, <1>5, <1>6, <1>7

(* The application writes its answer when there is a request. *)
LEMMA AppWritesLive ==
    ASSUME IInv, LiveInv, Live, AppWrites
    PROVE  (tls => TlsPhase') /\ (~tls => PlainPhase')
  <1>1. response_ptr_ # None /\ UNCHANGED <<tls, clientVars, wireVars, ssl_>>
      BY DEF AppWrites
  <1>2. UNCHANGED <<client, request, ssl_client_, client_writes, c2s>>
      BY <1>1, ClientSame DEF wireVars
  <1>3. (tls => TlsPhase) /\ (~tls => PlainPhase)
      BY DEF LiveInv
  <1>4. ~Idle /\ ~Waiting
      BY <1>1 DEF Idle, Waiting
  <1>5. ASSUME ~tls PROVE PlainPhase'
    <2>1. P3
        BY <1>3, <1>4, <1>5 DEF PlainPhase, P0, P1, P2
    <2>2. Answer'
        BY <2>1, AnswerWritten DEF P3
    <2>3. P3'
        BY <1>2, <2>1, <2>2 DEF P3
    <2> QED BY <2>3 DEF PlainPhase
  <1>6. ASSUME tls PROVE TlsPhase'
    <2>1. ~T0 /\ ~T1 /\ ~T2 /\ ~T3 /\ ~T4 /\ ~T5 /\ ~T6 /\ ~T7 /\ ~T8 /\ ~TS
        BY <1>4 DEF T0, T1, T2, T3, T4, T5, T6, T7, T8, TS
    <2>2. T9
        BY <1>3, <1>6, <2>1 DEF TlsPhase
    <2>3. Answer'
        BY <2>2, AnswerWritten DEF T9
    <2>4. T9'
        BY <1>1, <1>2, <2>2, <2>3 DEF T9, Cli
    <2> QED BY <2>4 DEF TlsPhase
  <1> QED BY <1>5, <1>6

------------------------------------------------------------------------------
(* Of a response that another has replaced there is none. *)
LEMMA NothingKept == ASSUME LiveInv, Live, tls \in BOOLEAN PROVE kept = "no"
  <1>1. (Idle \/ Waiting \/ Answer) => kept = "no"
      BY DEF Idle, Waiting, Answer
  <1>2. PlainPhase => kept = "no"
      BY <1>1 DEF PlainPhase, P0, P1, P2, P3
  <1>3. TlsPhase => kept = "no"
      BY <1>1 DEF TlsPhase, T0, T1, T2, T3, T4, T5, T6, T7, T8, T9, TS
  <1> QED BY <1>2, <1>3 DEF LiveInv

(* Every step of a client, and every step of a connection, keeps LiveInv    *)
(* while the client sends no other request.                                 *)
LEMMA StepLive ==
    ASSUME IInv, IInv', GoneInv, ~again => LiveInv, [Next]_vars, ~again'
    PROVE  LiveInv'
  <1> SUFFICES ASSUME Live' PROVE (tls' => TlsPhase') /\ (~tls' => PlainPhase')
      BY DEF LiveInv
  <1>0. ASSUME again' = again PROVE LiveInv /\ ~again
      BY <1>0
  <1>1. CASE Connect \/ ConnectFails \/ ClientGoes \/ ClientOnEnd \/ ServerOnEnd \/ AppCloses
      BY <1>1, EndedLive
  <1>2. CASE OnAccept
    <2>1. tls' = tls
        BY <1>2 DEF OnAccept
    <2> QED BY <1>2, <2>1, AcceptLive DEF TlsPhase, PlainPhase
  <1>3. CASE ClientOnConnect
    <2>1. tls' = tls /\ again' = again
        BY <1>3 DEF ClientOnConnect
    <2> QED BY <1>0, <1>3, <2>1, ConnectedLive DEF TlsPhase, PlainPhase
  <1>4. CASE ClientTakes \/ ClientOnWrite \/ ClientOnRead
    <2>1. tls' = tls /\ again' = again
        BY <1>4 DEF ClientTakes, ClientOnWrite, ClientOnRead
    <2> QED BY <1>0, <1>4, <2>1, TakesLive, CalledBackLive, ClientReadLive
  <1>5. CASE ServerOnRead \/ ServerOnWrite \/ ServerTakes \/ AppWrites
    <2>1. tls' = tls /\ c2s_end' = c2s_end /\ tcp' # "closed"
        BY <1>5 DEF ServerOnRead, ServerOnWrite, ServerTakes, AppWrites, wireVars, Live
    <2>2. Live
      <3>1. CASE ServerOnRead \/ ServerOnWrite \/ ServerTakes
          BY <2>1, <3>1 DEF ServerOnRead, ServerOnWrite, ServerTakes, Live
      <3>2. CASE AppWrites
        <4>1. tcp' = tcp
            BY <3>2 DEF AppWrites
        <4> QED BY <2>1, <4>1 DEF Live
      <3> QED BY <1>5, <3>1, <3>2
    <2>3. again' = again
        BY <1>5 DEF ServerOnRead, ServerOnWrite, ServerTakes, AppWrites, clientVars
    <2> QED BY <1>0, <1>5, <2>1, <2>2, <2>3, ServerReadLive, ServerWriteLive, ServerTakesLive, AppWritesLive
  <1>6. CASE UNCHANGED vars
    <2>0. again' = again
        BY <1>6 DEF vars, clientVars
    <2>1. UNCHANGED <<tls, client, request, ssl_client_, client_writes, c2s, c2s_end, s2c, tcp, ssl_,
                      server_writes, recv_, response_ptr_, pieces, handler, made, kept>>
        BY <1>6 DEF vars, clientVars, wireVars, serverVars
    <2>2. (tls => TlsPhase) /\ (~tls => PlainPhase)
        BY <1>0, <2>0, <2>1 DEF LiveInv, Live
    <2>3. (Waiting => Waiting') /\ (Idle => Idle') /\ (Answer => Answer')
        BY <2>1, ServerSame
    <2>4. (P0 => P0') /\ (P1 => P1') /\ (P2 => P2') /\ (P3 => P3')
        BY <2>1, <2>3 DEF P0, P1, P2, P3
    <2>5. /\ Srv("INIT", <<>>, FALSE) => Srv("INIT", <<>>, FALSE)'
          /\ Srv("HELLO_DONE", <<>>, FALSE) => Srv("HELLO_DONE", <<>>, FALSE)'
          /\ Srv("DATA_RECV", <<>>, TRUE) => Srv("DATA_RECV", <<>>, TRUE)'
          /\ \A f : Coming(f) => Coming(f)'
        BY <2>1, ServerSame DEF Coming
    <2>6. (T0 => T0') /\ (T1 => T1') /\ (T2 => T2') /\ (T3 => T3')
        BY <2>1, <2>3, <2>5 DEF T0, T1, T2, T3, Cli
    <2>7. (T4 => T4') /\ (T5 => T5') /\ (T6 => T6') /\ (T7 => T7')
        BY <2>1, <2>3, <2>5 DEF T4, T5, T6, T7, Cli
    <2>8. (T8 => T8') /\ (T9 => T9') /\ (TS => TS')
        BY <2>1, <2>3 DEF T8, T9, TS, Cli
    <2> QED BY <2>1, <2>2, <2>4, <2>6, <2>7, <2>8 DEF TlsPhase, PlainPhase
  <1>7. CASE OtherSends
      BY <1>7 DEF OtherSends
  <1>8. CASE AppUsesKept
    <2>1. kept # "no" /\ UNCHANGED <<clientVars, wireVars, tcp>>
        BY <1>8 DEF AppUsesKept
    <2>2. UNCHANGED <<again, c2s_end, tcp>>
        BY <2>1 DEF clientVars, wireVars
    <2>3. LiveInv /\ Live /\ tls \in BOOLEAN
        BY <1>0, <2>2 DEF Live, IInv, WireInv
    <2> QED BY <2>1, <2>3, NothingKept
  <1> QED BY <1>1, <1>2, <1>3, <1>4, <1>5, <1>6, <1>7, <1>8 DEF Next

(* The whole inductive invariant. *)
FullInv == IInv /\ GoneInv /\ (~again => LiveInv)

(* It holds of a server that has no client yet. *)
LEMMA InitFull == Init => FullInv
  <1> SUFFICES ASSUME Init PROVE FullInv
      OBVIOUS
  <1>1. IInv
      BY InitInv
  <1>2. GoneInv
      BY DEF Init, GoneInv
  <1>3. LiveInv
      BY DEF Init, LiveInv, Live
  <1> QED BY <1>1, <1>2, <1>3 DEF FullInv

(* Every step keeps it. *)
LEMMA StepFull == FullInv /\ [Next]_vars => FullInv'
  <1> SUFFICES ASSUME FullInv, [Next]_vars PROVE FullInv'
      OBVIOUS
  <1>1. IInv /\ GoneInv /\ (~again => LiveInv)
      BY DEF FullInv
  <1>2. IInv'
      BY <1>1, StepInv
  <1>3. GoneInv'
    <2>1. CASE Next
        BY <1>1, <2>1, StepGone
    <2>2. CASE UNCHANGED vars
      <3>1. UNCHANGED <<client, request, ssl_client_, client_writes, c2s_end, s2c_end, tcp,
                        server_writes, response_ptr_>>
          BY <2>2 DEF vars, clientVars, wireVars, serverVars
      <3> QED BY <1>1, <3>1 DEF GoneInv
    <2> QED BY <2>1, <2>2
  <1>4. ~again' => LiveInv'
      BY <1>1, <1>2, StepLive
  <1> QED BY <1>2, <1>3, <1>4 DEF FullInv

(* A Close with a write request left over, or without. *)
LEMMA LateCloseUb ==
    ASSUME Up, NEW r, NEW left, SessionClose(r, LateWrite(left))
    PROVE  ub' = ub \/ ub' = "late_write"
  BY DEF SessionClose, LateWrite, Up

(* What SafeCallbacks says of a step. *)
SafeStep ==
    ub' # ub => /\ ub' = "stale_response" => kept # "no"
                /\ \/ c2s_end'
                   \/ c2s_end
                   \/ again
                   \/ ub' \in {"stale_response", "late_write_of_closed", "closed_in_handler"}
                   \/ ub' = "late_write" /\ Shortened
                   \/ ub' = "read_after_close" /\ tls /\ Method = "BAD"

(* The step of every action. *)
LEMMA StepSafe == FullInv /\ [Next]_vars => SafeStep
  <1> SUFFICES ASSUME FullInv, [Next]_vars, ub' # ub PROVE SafeStep
      BY DEF SafeStep
  <1>inv. IInv /\ GoneInv /\ (~again => LiveInv)
      BY DEF FullInv
  <1>1. CASE \/ Connect \/ ConnectFails \/ ClientOnConnect \/ ClientTakes \/ ClientOnWrite
             \/ ClientOnRead \/ ClientOnEnd \/ OtherSends \/ ServerTakes
      BY <1>1 DEF Connect, ConnectFails, ClientOnConnect, ClientTakes, ClientOnWrite, ClientOnRead,
         ClientOnEnd, OtherSends, ServerTakes
  <1>2. CASE AppUsesKept
      BY <1>2 DEF AppUsesKept, SafeStep
  <1>3. CASE OnAccept
    <2>1. client = "connecting" /\ server_writes # <<>> /\ ub' = "late_write"
        BY <1>3 DEF OnAccept
    <2>2. c2s_end
        BY <1>inv, <2>1 DEF GoneInv
    <2> QED BY <2>1, <2>2 DEF SafeStep
  <1>4. CASE ClientGoes
    <2>1. c2s_end' /\ ub' # "stale_response"
        BY <1>4 DEF ClientGoes
    <2> QED BY <2>1 DEF SafeStep
  <1>5. CASE ServerOnRead
    <2>1. CASE c2s_end \/ again
      <3>1. Up /\ \E data : HttpOnRead(data)
          BY <1>5 DEF ServerOnRead, ServerTlsRead, HandshakeFails
      <3>2. ub' # "stale_response"
          BY <3>1, ReadUb
      <3> QED BY <2>1, <3>2 DEF SafeStep
    <2>2. CASE ~c2s_end /\ ~again
      <3>1. Live
          BY <1>5, <2>2 DEF ServerOnRead, Live
      <3>2. \/ ub' = "closed_in_handler"
            \/ ub' = "read_after_close" /\ tls /\ Method = "BAD"
          BY <1>5, <1>inv, <2>2, <3>1, ServerReadLive
      <3> QED BY <3>2 DEF SafeStep
    <2> QED BY <2>1, <2>2
  <1>6. CASE ServerOnEnd
    <2>1. c2s_end /\ ub' = "late_write"
        BY <1>6, LateCloseUb DEF ServerOnEnd
    <2> QED BY <2>1 DEF SafeStep
  <1>7. CASE ServerOnWrite
    <2>1. CASE c2s_end \/ again
      <3>1. \/ \E r : SessionClose(r, "failed_write")
            \/ \E r : SessionClose(r, LateWrite(Tail(server_writes)))
          BY <1>7 DEF ServerOnWrite
      <3>2. ub' = "failed_write" \/ ub' = "late_write"
        <4>0. Up
            BY <1>7 DEF ServerOnWrite
        <4>1. CASE \E r : SessionClose(r, "failed_write")
            BY <4>1 DEF SessionClose
        <4>2. CASE \E r : SessionClose(r, LateWrite(Tail(server_writes)))
            BY <4>0, <4>2, LateCloseUb
        <4> QED BY <3>1, <4>1, <4>2
      <3> QED BY <2>1, <3>2 DEF SafeStep
    <2>2. CASE ~c2s_end /\ ~again
      <3>1. Live
          BY <1>7, <2>2 DEF ServerOnWrite, Live
      <3>2. ub' = "late_write" /\ Shortened
          BY <1>7, <1>inv, <2>2, <3>1, ServerWriteLive
      <3> QED BY <3>2 DEF SafeStep
    <2> QED BY <2>1, <2>2
  <1>8. CASE AppWrites
    <2>1. ~response_ptr_.is_close /\ http = "closed" /\ response_ptr_ # None
        BY <1>8 DEF AppWrites
    <2> QED BY <1>inv, <2>1 DEF IInv, SessionInv
  <1>9. CASE AppCloses
    <2>1. Up /\ ub' = IF server_writes = <<>> THEN None ELSE "late_write_of_closed"
        BY <1>9 DEF AppCloses, SessionClose
    <2>2. ub' = "late_write_of_closed"
        BY <2>1 DEF Up
    <2> QED BY <2>2 DEF SafeStep
  <1>10. CASE UNCHANGED vars
      BY <1>10 DEF vars
  <1> QED BY <1>1, <1>2, <1>3, <1>4, <1>5, <1>6, <1>7, <1>8, <1>9, <1>10 DEF Next

(* Sessions, responses and write requests outlive their use, for any number *)
(* of clients, any requests and handlers, any split of the reads and of the *)
(* Writes into records, with and without TLS; the exceptions are those of   *)
(* SafeCallbacks and no others: for a client that stays and sends one       *)
(* request, remain_bytes_ runs out before the last write only if the        *)
(* response is Shortened.                                                   *)
THEOREM CallbacksAreSafe == Spec => SafeCallbacks
  <1>1. Spec => []FullInv
      BY InitFull, StepFull, PTL DEF Spec
  <1>2. FullInv /\ [Next]_vars => [SafeStep]_vars
      BY StepSafe
  <1>3. Spec => [][SafeStep]_vars
      BY <1>1, <1>2, PTL DEF Spec
  <1> QED BY <1>3 DEF SafeCallbacks, SafeStep
==============================================================================
