------------------------ MODULE WebSocketConn_proofs ------------------------
(***************************************************************************)
(* Proofs about WebSocketConn, for any number of frames of the peer, any    *)
(* types of them and any pong timeout.                                      *)
(*                                                                         *)
(* The frames of a read are handled by a loop and its calls applied by      *)
(* another; both are recursive functions, and what holds of them is shown   *)
(* by induction over the set of rounds it holds of (UpTo, from the fact     *)
(* that a set of naturals has a least element).                             *)
(*                                                                         *)
(* EndsCleanly is not inductive.  What has to be carried along is why an    *)
(* end is not told twice: after it the client's timer is off and its        *)
(* reading has stopped for good (ClientInv); why a write to a closed socket *)
(* follows a CLOSE: nothing else closes a session's socket while the        *)
(* session is held (ServerInv); and, for the types, what lies on the wire   *)
(* behind the upgrade (HeadInv).                                            *)
(*                                                                         *)
(* DeliveredInOrder needs the whole flow of the frames (FlowInv): before    *)
(* the upgrade they all lie behind the end of the HTTP head (StartInv);     *)
(* after it the parser's buffer and the wire carry the cells of exactly     *)
(* those that have not been handled, recv_buffer_vec_ has the payloads of   *)
(* those that wait for a fin, last_op_code_ is the type of the message they *)
(* belong to (ParserAt), and what was told and answered is what is due of   *)
(* the rest (Delivered).  A round of HandleFrame's loop keeps that, with    *)
(* the calls made so far standing for the frames they settle (Parsed), and  *)
(* the calls of a read, applied one by one, deliver it (CallsDeliver).      *)
(***************************************************************************)
EXTENDS WebSocketConn, SequenceTheorems, FiniteSetTheorems, WellFoundedInduction, TLAPS

(* A set of naturals has a least element, if it has any. *)
LEMMA Least ==
    ASSUME NEW T \in SUBSET Nat, T # {}
    PROVE  \E x \in T : \A y \in T : x <= y
  <1>1. PICK R : R = {ss \in Nat \X Nat : ss[1] < ss[2]}
      OBVIOUS
  <1>2. IsWellFoundedOn(R, Nat)
      BY <1>1, NatLessThanWellFounded DEF OpToRel
  <1>3. PICK x \in T : \A y \in T : ~(<<y, x>> \in R)
      BY <1>2, WFMin
  <1>4. \A y \in T : x <= y
    <2> SUFFICES ASSUME NEW y \in T PROVE x <= y
        OBVIOUS
    <2>1. x \in Nat /\ y \in Nat
        OBVIOUS
    <2>2. y < x => <<y, x>> \in R
        BY <1>1, <2>1
    <2> QED BY <1>3, <2>1, <2>2
  <1> QED BY <1>4

(* So what holds of 0, and of i with i - 1, holds up to n: T is the set of  *)
(* the numbers it holds of.                                                 *)
LEMMA UpTo ==
    ASSUME NEW n \in Nat, NEW T, 0 \in T, \A i \in 1..n : i - 1 \in T => i \in T
    PROVE  \A i \in 0..n : i \in T
  <1> SUFFICES ASSUME NEW k \in 0..n, k \notin T PROVE FALSE
      OBVIOUS
  <1>1. PICK B : B = {i \in 0..n : i \notin T}
      OBVIOUS
  <1>2. B \in SUBSET Nat /\ B # {}
      BY <1>1
  <1>3. PICK x \in B : \A y \in B : x <= y
      BY <1>2, Least
  <1>4. x \in 0..n /\ x \notin T /\ x # 0
      BY <1>1
  <1>5. x \in 1..n /\ x - 1 \in 0..n /\ ~(x <= x - 1)
      BY <1>4
  <1>6. x - 1 \in T
      BY <1>1, <1>3, <1>5
  <1> QED BY <1>4, <1>5, <1>6
------------------------------------------------------------------------------
(* The loop of HandleFrame, round by round. *)
IsRounds(s, start, n, junk) ==
    s = [i \in 0..n |-> IF i = 0 THEN start ELSE Round(s[i - 1], junk)]

(* The choice from a set of one. *)
LEMMA RoundIs == ASSUME NEW s, NEW junk PROVE Round(s, junk) = OneFrame(s, junk)
  <1>1. PICK t : t = OneFrame(s, junk)
      OBVIOUS
  <1>2. {OneFrame(u, junk) : u \in {s}} = {t}
      BY <1>1
  <1> QED BY <1>1, <1>2 DEF Round

(* The loop's recursive definition has a solution. *)
LEMMA RoundsExist ==
    ASSUME NEW start, NEW n \in Nat, NEW junk
    PROVE  \E s : IsRounds(s, start, n, junk)
  <1>1. PICK T : T = {m \in 0..n : \E s : IsRounds(s, start, m, junk)}
      OBVIOUS
  <1>2. 0 \in T
    <2>1. PICK s : s = [i \in 0..0 |-> start]
        OBVIOUS
    <2>2. \A i \in 0..0 : i = 0
        OBVIOUS
    <2>3. s = [i \in 0..0 |-> IF i = 0 THEN start ELSE Round(s[i - 1], junk)]
        BY <2>1, <2>2
    <2> QED BY <1>1, <2>3 DEF IsRounds
  <1>3. \A m \in 1..n : m - 1 \in T => m \in T
    <2> SUFFICES ASSUME NEW m \in 1..n, m - 1 \in T PROVE m \in T
        OBVIOUS
    <2>1. PICK s : IsRounds(s, start, m - 1, junk)
        BY <1>1
    <2>2. PICK r : r = [i \in 0..m |-> IF i = m THEN Round(s[m - 1], junk) ELSE s[i]]
        OBVIOUS
    <2>3. \A i \in 0..(m - 1) : s[i] = IF i = 0 THEN start ELSE Round(s[i - 1], junk)
        BY <2>1 DEF IsRounds
    <2>4. \A i \in 0..m : r[i] = IF i = 0 THEN start ELSE Round(r[i - 1], junk)
      <3> SUFFICES ASSUME NEW i \in 0..m PROVE r[i] = IF i = 0 THEN start ELSE Round(r[i - 1], junk)
          OBVIOUS
      <3>1. CASE i = m
        <4>1. m - 1 \in 0..m /\ m - 1 # m /\ i # 0
            BY <3>1
        <4>2. r[m - 1] = s[m - 1] /\ r[m] = Round(s[m - 1], junk)
            BY <2>2, <4>1
        <4> QED BY <3>1, <4>1, <4>2
      <3>2. CASE i # m
        <4>1. i \in 0..(m - 1) /\ r[i] = s[i]
            BY <2>2, <3>2
        <4>2. i # 0 => i - 1 \in 0..m /\ i - 1 # m
            BY <4>1
        <4>3. i # 0 => r[i - 1] = s[i - 1]
            BY <2>2, <4>2
        <4> QED BY <2>3, <4>1, <4>3
      <3> QED BY <3>1, <3>2
    <2>5. r = [i \in 0..m |-> r[i]]
        BY <2>2
    <2>6. IsRounds(r, start, m, junk)
        BY <2>4, <2>5 DEF IsRounds
    <2> QED BY <1>1, <2>6
  <1>4. n \in T
      BY <1>2, <1>3, UpTo
  <1> QED BY <1>1, <1>4

(* So Rounds is one round after the other. *)
LEMMA RoundsAre ==
    ASSUME NEW start, NEW n \in Nat, NEW junk
    PROVE  /\ Rounds(start, n, junk)[0] = start
           /\ \A i \in 1..n : Rounds(start, n, junk)[i] = OneFrame(Rounds(start, n, junk)[i - 1], junk)
  <1>1. PICK s : IsRounds(s, start, n, junk)
      BY RoundsExist
  <1>2. PICK r : r = Rounds(start, n, junk)
      OBVIOUS
  <1>3. r = [i \in 0..n |-> IF i = 0 THEN start ELSE Round(r[i - 1], junk)]
      BY <1>1, <1>2 DEF IsRounds, Rounds
  <1>4. r[0] = start
      BY <1>3
  <1>5. \A i \in 1..n : r[i] = Round(r[i - 1], junk)
      BY <1>3
  <1>6. \A i \in 1..n : r[i] = OneFrame(r[i - 1], junk)
      BY <1>5, RoundIs
  <1> QED BY <1>2, <1>4, <1>6
------------------------------------------------------------------------------
(* The calls of one read, call by call. *)
IsApplied(s, start, n, calls) ==
    s = [i \in 0..n |-> IF i = 0 THEN start ELSE Apply(s[i - 1], calls[i])]

(* The same for the calls of a read: Applied's definition has a solution. *)
LEMMA AppliedExists ==
    ASSUME NEW start, NEW n \in Nat, NEW calls
    PROVE  \E s : IsApplied(s, start, n, calls)
  <1>1. PICK T : T = {m \in 0..n : \E s : IsApplied(s, start, m, calls)}
      OBVIOUS
  <1>2. 0 \in T
    <2>1. PICK s : s = [i \in 0..0 |-> start]
        OBVIOUS
    <2>2. \A i \in 0..0 : i = 0
        OBVIOUS
    <2>3. s = [i \in 0..0 |-> IF i = 0 THEN start ELSE Apply(s[i - 1], calls[i])]
        BY <2>1, <2>2
    <2> QED BY <1>1, <2>3 DEF IsApplied
  <1>3. \A m \in 1..n : m - 1 \in T => m \in T
    <2> SUFFICES ASSUME NEW m \in 1..n, m - 1 \in T PROVE m \in T
        OBVIOUS
    <2>1. PICK s : IsApplied(s, start, m - 1, calls)
        BY <1>1
    <2>2. PICK r : r = [i \in 0..m |-> IF i = m THEN Apply(s[m - 1], calls[m]) ELSE s[i]]
        OBVIOUS
    <2>3. \A i \in 0..(m - 1) : s[i] = IF i = 0 THEN start ELSE Apply(s[i - 1], calls[i])
        BY <2>1 DEF IsApplied
    <2>4. \A i \in 0..m : r[i] = IF i = 0 THEN start ELSE Apply(r[i - 1], calls[i])
      <3> SUFFICES ASSUME NEW i \in 0..m PROVE r[i] = IF i = 0 THEN start ELSE Apply(r[i - 1], calls[i])
          OBVIOUS
      <3>1. CASE i = m
        <4>1. m - 1 \in 0..m /\ m - 1 # m /\ i # 0
            BY <3>1
        <4>2. r[m - 1] = s[m - 1] /\ r[m] = Apply(s[m - 1], calls[m])
            BY <2>2, <4>1
        <4> QED BY <3>1, <4>1, <4>2
      <3>2. CASE i # m
        <4>1. i \in 0..(m - 1) /\ r[i] = s[i]
            BY <2>2, <3>2
        <4>2. i # 0 => i - 1 \in 0..m /\ i - 1 # m
            BY <4>1
        <4>3. i # 0 => r[i - 1] = s[i - 1]
            BY <2>2, <4>2
        <4> QED BY <2>3, <4>1, <4>3
      <3> QED BY <3>1, <3>2
    <2>5. r = [i \in 0..m |-> r[i]]
        BY <2>2
    <2>6. IsApplied(r, start, m, calls)
        BY <2>4, <2>5 DEF IsApplied
    <2> QED BY <1>1, <2>6
  <1>4. n \in T
      BY <1>2, <1>3, UpTo
  <1> QED BY <1>1, <1>4

(* So Applied is one call after the other. *)
LEMMA AppliedIs ==
    ASSUME NEW start, NEW calls, NEW n \in Nat, n = Len(calls)
    PROVE  /\ Applied(start, calls)[0] = start
           /\ \A i \in 1..n : Applied(start, calls)[i] = Apply(Applied(start, calls)[i - 1], calls[i])
  <1>1. PICK s : IsApplied(s, start, n, calls)
      BY AppliedExists
  <1>2. PICK r : r = Applied(start, calls)
      OBVIOUS
  <1>3. r = [i \in 0..n |-> IF i = 0 THEN start ELSE Apply(r[i - 1], calls[i])]
      BY <1>1, <1>2 DEF IsApplied, Applied
  <1>4. r[0] = start
      BY <1>3
  <1>5. \A i \in 1..n : r[i] = Apply(r[i - 1], calls[i])
      BY <1>3
  <1> QED BY <1>2, <1>4, <1>5
------------------------------------------------------------------------------
(* Payloads, calls and frames hold anything: IsSeq says no more than that a *)
(* value is a sequence.                                                     *)
IsSeq(q) == \E S : q \in Seq(S)

(* What IsSeq gives. *)
LEMMA SeqIs ==
    ASSUME NEW q, IsSeq(q)
    PROVE  Len(q) \in Nat /\ DOMAIN q = 1..Len(q)
  <1>1. PICK S : q \in Seq(S)
      BY DEF IsSeq
  <1> QED BY <1>1

(* A function on 1..n is a sequence. *)
LEMMA FunctionIsSeq ==
    ASSUME NEW n \in Nat, NEW q, q = [i \in 1..n |-> q[i]]
    PROVE  IsSeq(q) /\ Len(q) = n
  <1>1. PICK S : S = {q[i] : i \in 1..n}
      OBVIOUS
  <1>2. q \in [1..n -> S]
      BY <1>1
  <1>3. q \in Seq(S) /\ Len(q) = n
      BY <1>2
  <1>4. IsSeq(q)
      BY <1>3 DEF IsSeq
  <1> QED BY <1>3, <1>4

(* Append, for sequences of anything. *)
LEMMA SeqAppend ==
    ASSUME NEW q, IsSeq(q), NEW x
    PROVE  /\ IsSeq(Append(q, x)) /\ Len(Append(q, x)) = Len(q) + 1
           /\ Append(q, x)[Len(q) + 1] = x
           /\ \A i \in 1..Len(q) : Append(q, x)[i] = q[i]
  <1>1. PICK S : q \in Seq(S)
      BY DEF IsSeq
  <1>2. PICK T : T = S \cup {x}
      OBVIOUS
  <1>3. q \in Seq(T) /\ x \in T
    <2>1. Len(q) \in Nat /\ q \in [1..Len(q) -> T]
        BY <1>1, <1>2
    <2> QED BY <1>2, <2>1
  <1>4. Append(q, x) \in Seq(T)
      BY <1>3
  <1>5. IsSeq(Append(q, x))
      BY <1>4 DEF IsSeq
  <1> QED BY <1>3, <1>5, AppendProperties

(* The same for concatenation. *)
LEMMA SeqConcat ==
    ASSUME NEW a, NEW b, IsSeq(a), IsSeq(b)
    PROVE  /\ IsSeq(a \o b) /\ Len(a \o b) = Len(a) + Len(b)
           /\ \A i \in 1..(Len(a) + Len(b)) :
                 (a \o b)[i] = IF i <= Len(a) THEN a[i] ELSE b[i - Len(a)]
  <1>1. PICK S : a \in Seq(S)
      BY DEF IsSeq
  <1>2. PICK T : b \in Seq(T)
      BY DEF IsSeq
  <1>3. PICK U : U = S \cup T
      OBVIOUS
  <1>4. a \in Seq(U) /\ b \in Seq(U)
    <2>1. Len(a) \in Nat /\ a \in [1..Len(a) -> U]
        BY <1>1, <1>3
    <2>2. Len(b) \in Nat /\ b \in [1..Len(b) -> U]
        BY <1>2, <1>3
    <2> QED BY <2>1, <2>2
  <1>5. a \o b \in Seq(U)
      BY <1>4, ConcatProperties
  <1>6. IsSeq(a \o b)
      BY <1>5 DEF IsSeq
  <1> QED BY <1>4, <1>6, ConcatProperties
------------------------------------------------------------------------------
(* The cells on the wire. *)
Ops == {"TEXT", "BIN", "CONT", "PING", "PONG", "CLOSE"}
HeaderCell == [k : {"H"}, op : Ops, fin : BOOLEAN, mask : BOOLEAN, n : Nat]
Cell == HeaderCell \cup [k : {"K"}, key : {0, 1}] \cup [k : {"P"}, v : Int, key : {0, 1}]
        \cup [k : {"start", "end"}, ok : BOOLEAN]

(* The state of the frame parser between two cells; the payload of a frame  *)
(* lies behind its header.                                                  *)
FrameOK(f) ==
    /\ f = [buffer |-> f.buffer, header_ready |-> f.header_ready, start |-> f.start,
            len |-> f.len, fin |-> f.fin, op |-> f.op, key |-> f.key]
    /\ f.buffer \in Seq(Cell) /\ f.header_ready \in BOOLEAN
    /\ f.len \in Nat /\ f.start \in 0..2
    /\ f.header_ready => f.start >= 1

(* A header that has been read is not read again. *)
LEMMA HeaderOnce ==
    ASSUME NEW f, FrameOK(f), NEW junk \in HeaderCell, NEW g, g = ReadHeader(f, junk)
    PROVE  FrameOK(g) /\ g.buffer = f.buffer /\ ReadHeader(g, junk) = g
  <1>1. PICK h : h = IF f.buffer[1].k = "H" THEN f.buffer[1] ELSE junk
      OBVIOUS
  <1>2. g = IF f.header_ready \/ f.buffer = <<>> \/ (h.mask /\ Len(f.buffer) < 2) THEN f
            ELSE [f EXCEPT !.header_ready = TRUE, !.fin = h.fin, !.op = h.op, !.len = h.n,
                           !.start = IF h.mask THEN 2 ELSE 1,
                           !.key = IF h.mask THEN f.buffer[2].key ELSE 0]
      BY <1>1 DEF ReadHeader
  <1>3. CASE f.header_ready \/ f.buffer = <<>> \/ (h.mask /\ Len(f.buffer) < 2)
    <2>1. g = f
        BY <1>2, <1>3
    <2> QED BY <2>1
  <1>4. CASE ~(f.header_ready \/ f.buffer = <<>> \/ (h.mask /\ Len(f.buffer) < 2))
    <2>1. f.buffer \in Seq(Cell) /\ f.buffer # <<>>
        BY <1>4 DEF FrameOK
    <2>2. f.buffer[1] \in Cell
        BY <2>1
    <2>3. h \in HeaderCell
        BY <1>1, <2>2 DEF Cell, HeaderCell
    <2>4. h.n \in Nat
        BY <2>3 DEF HeaderCell
    <2>5. PICK key, start : key = (IF h.mask THEN f.buffer[2].key ELSE 0)
                            /\ start = (IF h.mask THEN 2 ELSE 1)
        OBVIOUS
    <2>6. g = [buffer |-> f.buffer, header_ready |-> TRUE, start |-> start,
               len |-> h.n, fin |-> h.fin, op |-> h.op, key |-> key]
        BY <1>2, <1>4, <2>5 DEF FrameOK
    <2>7. start \in 0..2 /\ start >= 1
        BY <2>5
    <2>8. /\ g.header_ready = TRUE /\ g.buffer = f.buffer /\ g.len = h.n /\ g.start = start
          /\ g.fin = h.fin /\ g.op = h.op /\ g.key = key
        BY <2>6
    <2>9. FrameOK(g)
        BY <2>1, <2>4, <2>6, <2>7, <2>8 DEF FrameOK
    <2>10. ReadHeader(g, junk) = g
        BY <2>8 DEF ReadHeader
    <2> QED BY <2>8, <2>9, <2>10
  <1> QED BY <1>3, <1>4

(* The calls that HandleFrame makes; it sends nothing but PONGs itself. *)
IsCall(c) == c.do \in {"send", "pong", "close", "data"} /\ (c.do = "send" => c.op = "PONG")
CallsOK(q) == IsSeq(q) /\ \A i \in 1..Len(q) : IsCall(q[i])
BaseOK(b) ==
    /\ b = [frame |-> b.frame, vec |-> b.vec, last_op |-> b.last_op]
    /\ FrameOK(b.frame) /\ IsSeq(b.vec) /\ b.last_op \in DataOps
RoundOK(s) ==
    s = [base |-> s.base, calls |-> s.calls] /\ BaseOK(s.base) /\ CallsOK(s.calls)

(* Whatever a frame holds, it makes calls of these kinds only. *)
LEMMA CallsAre ==
    ASSUME NEW op, NEW vec, IsSeq(vec), NEW last
    PROVE  CallsOK(Calls(op, vec, last))
  <1>1. Len(vec) \in Nat /\ DOMAIN vec = 1..Len(vec)
      BY SeqIs
  <1>2. ASSUME NEW do \in {"send", "close", "data"}, NEW o, do = "send" => o = "PONG"
        PROVE  CallsOK([i \in DOMAIN vec |-> Call(do, o, vec[i])])
    <2>1. PICK q : q = [i \in 1..Len(vec) |-> Call(do, o, vec[i])]
        OBVIOUS
    <2>2. q = [i \in 1..Len(vec) |-> q[i]]
        BY <2>1
    <2>3. IsSeq(q) /\ Len(q) = Len(vec)
        BY <1>1, <2>2, FunctionIsSeq
    <2>4. \A i \in 1..Len(vec) : q[i].do = do /\ q[i].op = o
        BY <2>1 DEF Call
    <2>5. CallsOK(q)
        BY <1>2, <2>3, <2>4 DEF CallsOK, IsCall
    <2> QED BY <1>1, <2>1, <2>5
  <1>3. CallsOK(<<Call("pong", "PONG", <<>>)>>)
    <2>1. PICK x : x = Call("pong", "PONG", <<>>)
        OBVIOUS
    <2>2. <<x>> \in Seq({x}) /\ Len(<<x>>) = 1 /\ <<x>>[1] = x
        OBVIOUS
    <2>3. IsSeq(<<x>>)
        BY <2>2 DEF IsSeq
    <2>4. IsCall(x)
        BY <2>1 DEF Call, IsCall
    <2>5. \A i \in 1..Len(<<x>>) : IsCall(<<x>>[i])
        BY <2>2, <2>4
    <2> QED BY <2>1, <2>3, <2>5 DEF CallsOK
  <1>4. CASE op = "PING"
      BY <1>2, <1>4 DEF Calls
  <1>5. CASE op = "PONG"
      BY <1>3, <1>5 DEF Calls
  <1>6. CASE op = "CLOSE"
      BY <1>2, <1>6 DEF Calls
  <1>7. CASE op = "CONT"
      BY <1>2, <1>7 DEF Calls
  <1>8. CASE op \notin {"PING", "PONG", "CLOSE", "CONT"}
      BY <1>2, <1>8 DEF Calls
  <1> QED BY <1>4, <1>5, <1>6, <1>7, <1>8

(* More calls after those made before. *)
LEMMA MoreCalls ==
    ASSUME NEW a, NEW b, CallsOK(a), CallsOK(b)
    PROVE  CallsOK(a \o b)
  <1>1. IsSeq(a) /\ IsSeq(b) /\ (\A i \in 1..Len(a) : IsCall(a[i])) /\ (\A i \in 1..Len(b) : IsCall(b[i]))
      BY DEF CallsOK
  <1>2. PICK q : q = a \o b
      OBVIOUS
  <1>3. IsSeq(q) /\ Len(q) = Len(a) + Len(b) /\ Len(a) \in Nat /\ Len(b) \in Nat
      BY <1>1, <1>2, SeqConcat, SeqIs
  <1>4. \A i \in 1..(Len(a) + Len(b)) : q[i] = IF i <= Len(a) THEN a[i] ELSE b[i - Len(a)]
      BY <1>1, <1>2, SeqConcat
  <1>5. \A i \in 1..Len(q) : IsCall(q[i])
    <2> SUFFICES ASSUME NEW i \in 1..Len(q) PROVE IsCall(q[i])
        OBVIOUS
    <2>1. CASE i <= Len(a)
        BY <1>1, <1>3, <1>4, <2>1
    <2>2. CASE ~(i <= Len(a))
      <3>1. i - Len(a) \in 1..Len(b) /\ i \in 1..(Len(a) + Len(b))
          BY <1>3, <2>2
      <3> QED BY <1>1, <1>4, <2>2, <3>1
    <2> QED BY <2>1, <2>2
  <1> QED BY <1>2, <1>3, <1>5 DEF CallsOK

(* A round finds no complete frame, and the next round will find the same,  *)
(* or it takes at least one cell.                                           *)
Stuck(s, junk) ==
    ~PayloadIsReady(s.base.frame) /\ ReadHeader(s.base.frame, junk) = s.base.frame

(* A round of the loop finds no complete frame, and then none is found      *)
(* again, or takes a cell at least from the buffer.                         *)
LEMMA RoundTakes ==
    ASSUME NEW s, RoundOK(s), NEW junk \in HeaderCell, NEW t, t = OneFrame(s, junk)
    PROVE  /\ RoundOK(t)
           /\ Stuck(s, junk) => t = s
           /\ \/ Stuck(t, junk)
              \/ Len(t.base.frame.buffer) < Len(s.base.frame.buffer)
  <1>1. PICK f : f = ReadHeader(s.base.frame, junk)
      OBVIOUS
  <1>2. /\ s = [base |-> s.base, calls |-> s.calls] /\ CallsOK(s.calls)
        /\ s.base = [frame |-> s.base.frame, vec |-> s.base.vec, last_op |-> s.base.last_op]
        /\ FrameOK(s.base.frame) /\ IsSeq(s.base.vec) /\ s.base.last_op \in DataOps
      BY DEF RoundOK, BaseOK
  <1>3. FrameOK(f) /\ f.buffer = s.base.frame.buffer /\ ReadHeader(f, junk) = f
      BY <1>1, <1>2, HeaderOnce
  <1>4. PICK op, vec : op = LastOp(f, s.base.last_op) /\ vec = Append(s.base.vec, Unmasked(f))
      OBVIOUS
  <1>5. PICK b : b = [frame |-> Reset(Consume(f)), vec |-> IF f.fin THEN <<>> ELSE vec, last_op |-> op]
      OBVIOUS
  <1>6. t = IF ~PayloadIsReady(f) THEN [s EXCEPT !.base.frame = f]
            ELSE [base |-> b, calls |-> s.calls \o IF f.fin THEN Calls(f.op, vec, op) ELSE <<>>]
      BY <1>1, <1>4, <1>5 DEF OneFrame
  <1>7. CASE ~PayloadIsReady(f)
    <2>1. t = [base |-> [frame |-> f, vec |-> s.base.vec, last_op |-> s.base.last_op], calls |-> s.calls]
        BY <1>2, <1>6, <1>7
    <2>2. /\ t.base.frame = f /\ t.base.vec = s.base.vec /\ t.base.last_op = s.base.last_op
          /\ t.calls = s.calls
        BY <2>1
    <2>3. BaseOK(t.base)
        BY <1>2, <1>3, <2>1, <2>2 DEF BaseOK
    <2>4. RoundOK(t)
        BY <1>2, <2>1, <2>2, <2>3 DEF RoundOK
    <2>5. Stuck(t, junk)
        BY <1>3, <1>7, <2>2 DEF Stuck
    <2>6. Stuck(s, junk) => t = s
        BY <1>1, <1>2, <2>1 DEF Stuck
    <2> QED BY <2>4, <2>5, <2>6
  <1>8. CASE PayloadIsReady(f)
    <2>1. PICK g, c : g = Reset(Consume(f)) /\ c = s.calls \o IF f.fin THEN Calls(f.op, vec, op) ELSE <<>>
        OBVIOUS
    <2>2. PICK rest : rest = SubSeq(f.buffer, f.start + f.len + 1, Len(f.buffer))
        OBVIOUS
    <2>3. /\ f.buffer \in Seq(Cell) /\ f.len \in Nat /\ f.start \in 1..2
          /\ Len(f.buffer) >= f.start + f.len
        BY <1>3, <1>8 DEF FrameOK, PayloadIsReady
    <2>4. rest \in Seq(Cell) /\ Len(rest) < Len(f.buffer)
      <3>1. f.start + f.len + 1 \in 1..(Len(f.buffer) + 1) /\ Len(f.buffer) \in Nat
          BY <2>3
      <3>2. /\ rest \in Seq(Cell)
            /\ Len(rest) = IF f.start + f.len + 1 <= Len(f.buffer)
                           THEN Len(f.buffer) - (f.start + f.len + 1) + 1 ELSE 0
          BY <2>2, <2>3, <3>1, SubSeqProperties
      <3> QED BY <2>3, <3>1, <3>2
    <2>5. g = [buffer |-> rest, header_ready |-> FALSE, start |-> 0, len |-> 0,
               fin |-> f.fin, op |-> f.op, key |-> f.key]
        BY <1>3, <2>1, <2>2 DEF FrameOK, Reset, Consume
    <2>6. FrameOK(g) /\ g.buffer = rest
        BY <2>4, <2>5 DEF FrameOK
    <2>7. op \in DataOps
        BY <1>2, <1>4 DEF LastOp
    <2>8. IsSeq(vec) /\ IsSeq(<<>>)
      <3>1. IsSeq(vec)
          BY <1>2, <1>4, SeqAppend
      <3>2. <<>> \in Seq({})
          OBVIOUS
      <3> QED BY <3>1, <3>2 DEF IsSeq
    <2>9. CallsOK(c)
      <3>1. CallsOK(Calls(f.op, vec, op))
          BY <2>8, CallsAre
      <3>2. CallsOK(<<>>)
          BY <2>8 DEF CallsOK
      <3>3. CallsOK(IF f.fin THEN Calls(f.op, vec, op) ELSE <<>>)
          BY <3>1, <3>2
      <3> QED BY <1>2, <2>1, <3>3, MoreCalls
    <2>10. t = [base |-> b, calls |-> c]
        BY <1>6, <1>8, <2>1
    <2>11. t.base = b /\ t.calls = c /\ b.frame = g /\ b.last_op = op
           /\ b.vec = (IF f.fin THEN <<>> ELSE vec)
      <3>1. t.base = b /\ t.calls = c
          BY <2>10
      <3>2. PICK v : v = IF f.fin THEN <<>> ELSE vec
          OBVIOUS
      <3>3. b = [frame |-> g, vec |-> v, last_op |-> op]
          BY <1>5, <2>1, <3>2
      <3>4. b.frame = g /\ b.last_op = op /\ b.vec = v
          BY <3>3
      <3> QED BY <3>1, <3>2, <3>4
    <2>12. BaseOK(b)
      <3>1. IsSeq(b.vec)
          BY <2>8, <2>11
      <3>2. b = [frame |-> b.frame, vec |-> b.vec, last_op |-> b.last_op]
          BY <1>5
      <3> QED BY <2>6, <2>7, <2>11, <3>1, <3>2 DEF BaseOK
    <2>13. RoundOK(t)
        BY <2>9, <2>10, <2>11, <2>12 DEF RoundOK
    <2>14. ~Stuck(s, junk)
        BY <1>1, <1>8 DEF Stuck
    <2> QED BY <1>3, <2>4, <2>6, <2>11, <2>13, <2>14
  <1> QED BY <1>7, <1>8

(* The length of the buffer is a number. *)
LEMMA RoundBuffer ==
    ASSUME NEW s, RoundOK(s)
    PROVE  /\ FrameOK(s.base.frame) /\ s.base.frame.buffer \in Seq(Cell)
           /\ Len(s.base.frame.buffer) \in Nat
  <1>1. FrameOK(s.base.frame)
      BY DEF RoundOK, BaseOK
  <1>2. s.base.frame.buffer \in Seq(Cell)
      BY <1>1 DEF FrameOK
  <1> QED BY <1>1, <1>2

(* After the loop the parser holds less than a frame: each round takes a    *)
(* cell or is the last that matters, and there are as many rounds as cells. *)
LEMMA LoopEnds ==
    ASSUME NEW start, RoundOK(start), NEW junk \in HeaderCell,
           NEW n, n = Len(start.base.frame.buffer), NEW t, t = Rounds(start, n, junk)[n]
    PROVE  RoundOK(t) /\ ~PayloadIsReady(t.base.frame)
  <1>0. n \in Nat
      BY RoundBuffer
  <1>1. PICK r : r = Rounds(start, n, junk)
      OBVIOUS
  <1>2. r[0] = start /\ \A i \in 1..n : r[i] = OneFrame(r[i - 1], junk)
      BY <1>0, <1>1, RoundsAre
  <1>3. PICK T : T = {i \in 0..n : /\ RoundOK(r[i])
                                   /\ Stuck(r[i], junk) \/ Len(r[i].base.frame.buffer) <= n - i}
      OBVIOUS
  <1>4. 0 \in T
      BY <1>0, <1>2, <1>3
  <1>5. \A i \in 1..n : i - 1 \in T => i \in T
    <2> SUFFICES ASSUME NEW i \in 1..n, i - 1 \in T PROVE i \in T
        OBVIOUS
    <2>1. PICK a, b : a = r[i - 1] /\ b = r[i]
        OBVIOUS
    <2>2. /\ i - 1 \in 0..n /\ RoundOK(a)
          /\ Stuck(a, junk) \/ Len(a.base.frame.buffer) <= n - (i - 1)
        BY <1>3, <2>1
    <2>3. b = OneFrame(a, junk)
        BY <1>2, <2>1
    <2>4. /\ RoundOK(b)
          /\ Stuck(a, junk) => b = a
          /\ Stuck(b, junk) \/ Len(b.base.frame.buffer) < Len(a.base.frame.buffer)
        BY <2>2, <2>3, RoundTakes
    <2>5. Len(a.base.frame.buffer) \in Nat /\ Len(b.base.frame.buffer) \in Nat
        BY <2>2, <2>4, RoundBuffer
    <2>6. Stuck(b, junk) \/ Len(b.base.frame.buffer) <= n - i
      <3>1. CASE Stuck(a, junk)
          BY <2>4, <3>1
      <3>2. CASE ~Stuck(a, junk)
        <4>1. \A x, y \in Nat : x < y /\ y <= n - (i - 1) => x <= n - i
            BY <1>0
        <4> QED BY <2>2, <2>4, <2>5, <3>2, <4>1
      <3> QED BY <3>1, <3>2
    <2>7. i \in 0..n
        OBVIOUS
    <2> QED BY <1>3, <2>1, <2>4, <2>6, <2>7
  <1>6. n \in T
    <2>1. \A i \in 0..n : i \in T
        BY ONLY <1>0, <1>4, <1>5, UpTo
    <2> QED BY <1>0, <2>1
  <1>7. RoundOK(t) /\ (Stuck(t, junk) \/ Len(t.base.frame.buffer) <= n - n)
      BY <1>1, <1>3, <1>6
  <1>8. CASE Stuck(t, junk)
      BY <1>7, <1>8 DEF Stuck
  <1>9. CASE Len(t.base.frame.buffer) <= n - n
    <2>1. PICK f : f = t.base.frame
        OBVIOUS
    <2>2. FrameOK(f) /\ Len(f.buffer) <= 0
      <3>1. n - n = 0
          BY <1>0
      <3> QED BY <1>7, <1>9, <2>1, <3>1, RoundBuffer
    <2>3. ~PayloadIsReady(f)
        BY <2>2 DEF FrameOK, PayloadIsReady
    <2> QED BY <1>7, <2>1, <2>3
  <1> QED BY <1>7, <1>8, <1>9

(* HandleFrame, for every split of the stream: what it leaves in the parser *)
(* is less than a frame.                                                    *)
LEMMA HandleFrameKeeps ==
    ASSUME NEW b, BaseOK(b), NEW data \in Seq(Cell), NEW junk \in HeaderCell,
           NEW h, h = HandleFrame(b, data, junk)
    PROVE  BaseOK(h.base) /\ ~PayloadIsReady(h.base.frame) /\ CallsOK(h.calls)
  <1>1. PICK c : c = [b EXCEPT !.frame.buffer = @ \o data]
      OBVIOUS
  <1>2. PICK q : q = b.frame.buffer \o data
      OBVIOUS
  <1>3. q \in Seq(Cell)
      BY <1>2, ConcatProperties DEF BaseOK, FrameOK
  <1>4. PICK f : f = [buffer |-> q, header_ready |-> b.frame.header_ready, start |-> b.frame.start,
                      len |-> b.frame.len, fin |-> b.frame.fin, op |-> b.frame.op, key |-> b.frame.key]
      OBVIOUS
  <1>5. FrameOK(f)
    <2>1. FrameOK(b.frame)
        BY DEF BaseOK
    <2> QED BY <1>3, <1>4, <2>1 DEF FrameOK
  <1>6. c = [frame |-> f, vec |-> b.vec, last_op |-> b.last_op]
    <2>1. b = [frame |-> b.frame, vec |-> b.vec, last_op |-> b.last_op]
        BY DEF BaseOK
    <2>2. [b.frame EXCEPT !.buffer = @ \o data] = f
      <3>1. PICK g : g = b.frame
          OBVIOUS
      <3>2. g = [buffer |-> g.buffer, header_ready |-> g.header_ready, start |-> g.start,
                 len |-> g.len, fin |-> g.fin, op |-> g.op, key |-> g.key]
          BY <3>1 DEF BaseOK, FrameOK
      <3>3. [g EXCEPT !.buffer = q] = f
          BY <1>4, <3>1, <3>2
      <3> QED BY <1>2, <3>1, <3>3
    <2>3. c = [b EXCEPT !.frame = [b.frame EXCEPT !.buffer = @ \o data]]
        BY <1>1, <2>1
    <2> QED BY <2>1, <2>2, <2>3
  <1>7. BaseOK(c)
      BY <1>5, <1>6 DEF BaseOK
  <1>8. PICK start : start = [base |-> c, calls |-> <<>>]
      OBVIOUS
  <1>9. CallsOK(<<>>)
    <2>1. <<>> \in Seq({}) /\ Len(<<>>) = 0
        OBVIOUS
    <2>2. IsSeq(<<>>)
        BY <2>1 DEF IsSeq
    <2> QED BY <2>1, <2>2 DEF CallsOK
  <1>10. start.base = c /\ start.calls = <<>>
      BY <1>8
  <1>11. RoundOK(start)
      BY <1>7, <1>8, <1>9, <1>10 DEF RoundOK
  <1>12. PICK n : n = Len(start.base.frame.buffer)
      OBVIOUS
  <1>13. h = Rounds(start, n, junk)[n]
      BY <1>1, <1>8, <1>10, <1>12 DEF HandleFrame
  <1>14. RoundOK(h) /\ ~PayloadIsReady(h.base.frame)
      BY <1>11, <1>12, <1>13, LoopEnds
  <1> QED BY <1>14 DEF RoundOK
------------------------------------------------------------------------------
(* What the calls of a read, the timers and the application change.         *)
(* EndsOK(r, u, e) says of it, for role r and upgrade u, how a connection   *)
(* may end: EndsCleanly without what belongs to the rest of the state.      *)
IsEffect(e) ==
    /\ e = [tcp |-> e.tcp, writes |-> e.writes, is_connected_ |-> e.is_connected_,
            close_ |-> e.close_, pong_age |-> e.pong_age, told |-> e.told, out |-> e.out,
            ub |-> e.ub]
    /\ e.tcp \in {"connecting", "open", "broken", "closed"} /\ e.writes \in 0..MaxWrites
    /\ e.is_connected_ \in BOOLEAN /\ e.close_ \in BOOLEAN
    /\ e.pong_age \in Unset..(PongLimit + 1)
    /\ e.ub \in {None, "PING", "PONG", "TEXT", "CLOSE", "late_write", "freed_timer", "destroyed"}
    /\ IsSeq(e.told) /\ IsSeq(e.out)

(* One CLOSE is sent, by the call that sets close_. *)
OneClose(out_, done) ==
    /\ \A i \in 1..Len(out_) : out_[i].op = "CLOSE" => done
    /\ \A i, j \in 1..Len(out_) : out_[i].op = "CLOSE" /\ out_[j].op = "CLOSE" => i = j

IsEnd(t) == t.what = "close"
Ended(ts) == \E i \in 1..Len(ts) : IsEnd(ts[i])
OneEnd(ts) == \A i, j \in 1..Len(ts) : IsEnd(ts[i]) /\ IsEnd(ts[j]) => i = j
ToldInOrder(ts, done) ==
    /\ \A i \in 1..Len(ts) : ts[i].what = "connection" => i = 1
    /\ \A i, j \in 1..Len(ts) : IsEnd(ts[i]) /\ ts[j].what = "data" /\ j > i => done

EndsOK(r, u, e) ==
    /\ IsEffect(e)
    /\ e.close_ => e.tcp = "closed"
    /\ OneClose(e.out, e.close_) /\ ToldInOrder(e.told, e.close_)
    /\ r = "server" => ~Ended(e.told)
    /\ e.tcp = "broken" => ~e.is_connected_ /\ (r = "client" => Ended(e.told))
    /\ r = "client" /\ e.ub # None => e.ub = "TEXT" /\ Ended(e.told)
    /\ u # "refused" => OneEnd(e.told)
    /\ e.ub \in {"PING", "PONG", "destroyed"} => e.close_
    /\ e.ub = "TEXT" => e.close_ \/ e.tcp = "broken"
    /\ e.ub # "CLOSE"

(* The same during a read: the socket is closed by a CLOSE frame only, and  *)
(* the application hears of an end for no other reason.                     *)
Reads(e) ==
    /\ EndsOK(role, upgrade, e)
    /\ e.tcp \in {"open", "closed"} /\ (e.tcp = "closed" => e.close_)
    /\ Ended(e.told) => e.close_
    /\ role = "client" /\ e.close_ => ~e.is_connected_

(* One more thing told. *)
LEMMA TellMore ==
    ASSUME NEW ts, IsSeq(ts), NEW x, NEW us, us = Append(ts, x)
    PROVE  /\ IsSeq(us)
           /\ Ended(us) <=> (Ended(ts) \/ IsEnd(x))
           /\ OneEnd(ts) /\ (IsEnd(x) => ~Ended(ts)) => OneEnd(us)
  <1>1. /\ IsSeq(us) /\ Len(us) = Len(ts) + 1 /\ us[Len(ts) + 1] = x
        /\ \A i \in 1..Len(ts) : us[i] = ts[i]
      BY SeqAppend
  <1>2. Len(ts) \in Nat /\ (ts = <<>> => Len(ts) = 0)
      BY SeqIs
  <1>3. PICK n : n = Len(ts)
      OBVIOUS
  <1>4. \A i \in 1..(n + 1) : i \in 1..n \/ i = n + 1
      BY <1>2, <1>3
  <1>5. \A i \in 1..n : i \in 1..(n + 1) /\ i # n + 1 /\ ~(i > n + 1)
      BY <1>2, <1>3
  <1>6. n + 1 \in 1..(n + 1)
      BY <1>2, <1>3
  <1>7. Len(us) = n + 1 /\ us[n + 1] = x /\ \A i \in 1..n : us[i] = ts[i]
      BY <1>1, <1>3
  <1>8. Ended(us) <=> (Ended(ts) \/ IsEnd(x))
    <2>1. Ended(us) => Ended(ts) \/ IsEnd(x)
        BY <1>3, <1>4, <1>7 DEF Ended
    <2>2. Ended(ts) => Ended(us)
        BY <1>3, <1>5, <1>7 DEF Ended
    <2>3. IsEnd(x) => Ended(us)
        BY <1>6, <1>7 DEF Ended
    <2> QED BY <2>1, <2>2, <2>3
  <1>9. OneEnd(ts) /\ (IsEnd(x) => ~Ended(ts)) => OneEnd(us)
    <2> SUFFICES ASSUME OneEnd(ts), IsEnd(x) => ~Ended(ts),
                        NEW i \in 1..(n + 1), NEW j \in 1..(n + 1), IsEnd(us[i]), IsEnd(us[j])
                 PROVE  i = j
        BY <1>7 DEF OneEnd
    <2>1. CASE i \in 1..n /\ j \in 1..n
        BY <1>3, <1>7, <2>1 DEF OneEnd
    <2>2. CASE i = n + 1 /\ j \in 1..n
        BY <1>3, <1>7, <2>2 DEF Ended
    <2>3. CASE j = n + 1 /\ i \in 1..n
        BY <1>3, <1>7, <2>3 DEF Ended
    <2> QED BY <1>4, <2>1, <2>2, <2>3
  <1> QED BY <1>1, <1>8, <1>9

(* The connection is told first, and data behind an end only after a CLOSE. *)
LEMMA TellInOrder ==
    ASSUME NEW ts, IsSeq(ts), NEW x, NEW us, us = Append(ts, x),
           NEW done \in BOOLEAN, NEW more \in BOOLEAN, ToldInOrder(ts, done), done => more,
           x.what = "connection" => ts = <<>>, x.what = "data" /\ Ended(ts) => more
    PROVE  ToldInOrder(us, more)
  <1>1. /\ IsSeq(us) /\ Len(us) = Len(ts) + 1 /\ us[Len(ts) + 1] = x
        /\ \A i \in 1..Len(ts) : us[i] = ts[i]
      BY SeqAppend
  <1>2. PICK n : n = Len(ts)
      OBVIOUS
  <1>3. n \in Nat /\ (ts = <<>> => n = 0)
      BY <1>2, SeqIs
  <1>4. \A i \in 1..(n + 1) : i \in 1..n \/ i = n + 1
      BY <1>3
  <1>5. Len(us) = n + 1 /\ us[n + 1] = x /\ \A i \in 1..n : us[i] = ts[i]
      BY <1>1, <1>2
  <1>6. ASSUME NEW i \in 1..(n + 1), us[i].what = "connection"
        PROVE  i = 1
    <2>1. CASE i \in 1..n
        BY <1>2, <1>5, <1>6, <2>1 DEF ToldInOrder
    <2>2. CASE i = n + 1
        BY <1>3, <1>5, <1>6, <2>2
    <2> QED BY <1>4, <2>1, <2>2
  <1>7. ASSUME NEW i \in 1..(n + 1), NEW j \in 1..(n + 1), IsEnd(us[i]), us[j].what = "data", j > i
        PROVE  more
    <2>1. CASE i \in 1..n /\ j \in 1..n
        BY <1>2, <1>5, <1>7, <2>1 DEF ToldInOrder
    <2>2. CASE i \in 1..n /\ j = n + 1
        BY <1>2, <1>5, <1>7, <2>2 DEF Ended
    <2>3. CASE i = n + 1
        BY <1>3, <1>7, <2>3
    <2> QED BY <1>4, <2>1, <2>2, <2>3
  <1> QED BY <1>5, <1>6, <1>7 DEF ToldInOrder

(* One more frame sent: a CLOSE only if none was. *)
LEMMA SendMore ==
    ASSUME NEW os, IsSeq(os), NEW x, NEW ps, ps = Append(os, x),
           NEW done \in BOOLEAN, NEW more \in BOOLEAN,
           OneClose(os, done), done => more, x.op = "CLOSE" => more /\ ~done
    PROVE  IsSeq(ps) /\ OneClose(ps, more)
  <1>1. /\ IsSeq(ps) /\ Len(ps) = Len(os) + 1 /\ ps[Len(os) + 1] = x
        /\ \A i \in 1..Len(os) : ps[i] = os[i]
      BY SeqAppend
  <1>2. PICK n : n = Len(os)
      OBVIOUS
  <1>3. n \in Nat
      BY <1>2, SeqIs
  <1>4. \A i \in 1..(n + 1) : i \in 1..n \/ i = n + 1
      BY <1>3
  <1>5. Len(ps) = n + 1 /\ ps[n + 1] = x /\ \A i \in 1..n : ps[i] = os[i]
      BY <1>1, <1>2
  <1>6. \A i \in 1..n : os[i].op = "CLOSE" => done
      BY <1>2 DEF OneClose
  <1>7. \A i, j \in 1..n : os[i].op = "CLOSE" /\ os[j].op = "CLOSE" => i = j
      BY <1>2 DEF OneClose
  <1>8. \A i \in 1..(n + 1) : ps[i].op = "CLOSE" => more
      BY <1>4, <1>5, <1>6
  <1>9. \A i, j \in 1..(n + 1) : ps[i].op = "CLOSE" /\ ps[j].op = "CLOSE" => i = j
      BY <1>4, <1>5, <1>6, <1>7
  <1> QED BY <1>1, <1>5, <1>8, <1>9 DEF OneClose

(* SendWsFrame of anything but a CLOSE: it throws only when the TcpSession  *)
(* is closed, or when the application writes after a read error.            *)
LEMMA SendKeeps ==
    ASSUME role \in {"server", "client"}, NEW u, NEW e, EndsOK(role, u, e), e.ub = None,
           role = "server" /\ e.tcp = "closed" => e.close_,
           NEW op \in {"PING", "PONG", "TEXT"}, e.tcp = "broken" => op = "TEXT",
           NEW item, NEW s, s = SendWsFrame(e, op, item)
    PROVE  /\ EndsOK(role, u, s)
           /\ s.tcp = e.tcp /\ s.told = e.told /\ s.close_ = e.close_
           /\ s.is_connected_ = e.is_connected_ /\ s.pong_age = e.pong_age
           /\ s.ub \in {e.ub, op}
  <1>1. IsEffect(e)
      BY DEF EndsOK
  <1>2. CASE ~Writable(e)
    <2>1. s = [tcp |-> e.tcp, writes |-> e.writes, is_connected_ |-> e.is_connected_,
               close_ |-> e.close_, pong_age |-> e.pong_age, told |-> e.told, out |-> e.out,
               ub |-> op]
        BY <1>1, <1>2 DEF SendWsFrame, IsEffect
    <2>2. /\ s.tcp = e.tcp /\ s.writes = e.writes /\ s.is_connected_ = e.is_connected_
          /\ s.close_ = e.close_ /\ s.pong_age = e.pong_age /\ s.told = e.told /\ s.out = e.out
          /\ s.ub = op
        BY <2>1
    <2>3. IsEffect(s)
        BY <1>1, <2>1, <2>2 DEF IsEffect
    <2>4. e.tcp = "broken" \/ (role = "server" /\ e.tcp = "closed")
        BY <1>2 DEF Writable
    <2> QED BY <2>2, <2>3, <2>4 DEF EndsOK
  <1>3. CASE Writable(e)
    <2>1. PICK w : w = AtMost(MaxWrites, e.writes + (IF role = "server" THEN 3 ELSE 1))
        OBVIOUS
    <2>2. PICK o : o = IF op = "PING" THEN e.out ELSE Append(e.out, [op |-> op, item |-> item])
        OBVIOUS
    <2>3. s = [tcp |-> e.tcp, writes |-> w, is_connected_ |-> e.is_connected_,
               close_ |-> e.close_, pong_age |-> e.pong_age, told |-> e.told, out |-> o,
               ub |-> e.ub]
        BY <1>1, <1>3, <2>1, <2>2 DEF SendWsFrame, IsEffect
    <2>4. /\ s.tcp = e.tcp /\ s.writes = w /\ s.is_connected_ = e.is_connected_
          /\ s.close_ = e.close_ /\ s.pong_age = e.pong_age /\ s.told = e.told /\ s.out = o
          /\ s.ub = e.ub
        BY <2>3
    <2>5. w \in 0..MaxWrites
      <3>1. e.writes \in 0..MaxWrites /\ MaxWrites \in Nat
          BY <1>1, ConnAssumption DEF IsEffect
      <3> QED BY <2>1, <3>1 DEF AtMost
    <2>6. IsSeq(o) /\ OneClose(o, e.close_)
      <3>1. IsSeq(e.out) /\ OneClose(e.out, e.close_)
          BY <1>1 DEF EndsOK, IsEffect
      <3>2. CASE op = "PING"
          BY <2>2, <3>1, <3>2
      <3>3. CASE op # "PING"
        <4>1. PICK x : x = [op |-> op, item |-> item]
            OBVIOUS
        <4>2. x.op # "CLOSE" /\ o = Append(e.out, x)
            BY <2>2, <3>3, <4>1
        <4>3. PICK os, done : os = e.out /\ done = e.close_
            OBVIOUS
        <4>4. done \in BOOLEAN /\ IsSeq(os) /\ OneClose(os, done) /\ o = Append(os, x)
            BY <1>1, <3>1, <4>2, <4>3 DEF IsEffect
        <4>5. IsSeq(o) /\ OneClose(o, done)
          <5>1. CASE done = TRUE
            <6>1. IsSeq(o) /\ OneClose(o, TRUE)
                BY <4>2, <4>4, <5>1, SendMore
            <6> QED BY <5>1, <6>1
          <5>2. CASE done = FALSE
            <6>1. IsSeq(o) /\ OneClose(o, FALSE)
                BY <4>2, <4>4, <5>2, SendMore
            <6> QED BY <5>2, <6>1
          <5> QED BY <4>4, <5>1, <5>2
        <4> QED BY <4>3, <4>5
      <3> QED BY <3>2, <3>3
    <2>7. IsEffect(s)
        BY <1>1, <2>3, <2>4, <2>5, <2>6 DEF IsEffect
    <2> QED BY <2>4, <2>6, <2>7 DEF EndsOK
  <1> QED BY <1>2, <1>3

(* HandleWsClose: the first CLOSE is answered, and closes the socket. *)
LEMMA CloseKeeps ==
    ASSUME role \in {"server", "client"}, upgrade # "refused" \/ role = "server",
           NEW e, Reads(e), e.ub = None, NEW item, NEW s, s = HandleWsClose(e, item)
    PROVE  Reads(s)
  <1>1. IsEffect(e) /\ EndsOK(role, upgrade, e)
      BY DEF EndsOK, Reads
  <1>2. CASE e.close_
      BY <1>2 DEF HandleWsClose, Closed
  <1>3. CASE ~e.close_
    <2>1. e.tcp = "open" /\ ~Ended(e.told)
        BY <1>1, <1>3 DEF Reads, IsEffect
    <2>2. PICK w : w = AtMost(MaxWrites, e.writes + (IF role = "server" THEN 3 ELSE 1))
        OBVIOUS
    <2>3. PICK x : x = [op |-> "CLOSE", item |-> CloseReply(item)]
        OBVIOUS
    <2>4. PICK o : o = Append(e.out, x)
        OBVIOUS
    <2>5. PICK g : g = SendWsFrame(e, "CLOSE", CloseReply(item))
        OBVIOUS
    <2>6. g = [tcp |-> e.tcp, writes |-> w, is_connected_ |-> e.is_connected_,
               close_ |-> e.close_, pong_age |-> e.pong_age, told |-> e.told, out |-> o,
               ub |-> e.ub]
      <3>1. g = [e EXCEPT !.writes = w, !.out = o]
          BY <2>1, <2>2, <2>3, <2>4, <2>5 DEF SendWsFrame, Writable
      <3> QED BY <1>1, <3>1 DEF IsEffect
    <2>7. w \in 0..MaxWrites
      <3>1. e.writes \in 0..MaxWrites /\ MaxWrites \in Nat
          BY <1>1, ConnAssumption DEF IsEffect
      <3> QED BY <2>2, <3>1 DEF AtMost
    <2>8. IsSeq(o) /\ OneClose(o, TRUE)
      <3>1. IsSeq(e.out) /\ OneClose(e.out, e.close_)
          BY <1>1 DEF EndsOK, IsEffect
      <3>2. PICK os : os = e.out
          OBVIOUS
      <3>3. e.close_ = FALSE
          BY <1>1, <1>3 DEF IsEffect
      <3>4. IsSeq(os) /\ OneClose(os, FALSE) /\ o = Append(os, x)
          BY <2>4, <3>1, <3>2, <3>3
      <3> QED BY <3>4, SendMore
    <2>9. CASE role = "server"
      <3>1. s = [tcp |-> "closed", writes |-> w, is_connected_ |-> e.is_connected_,
                 close_ |-> TRUE, pong_age |-> e.pong_age, told |-> e.told, out |-> o,
                 ub |-> e.ub]
        <4>1. s = [g EXCEPT !.close_ = TRUE, !.tcp = "closed"]
            BY <1>3, <2>5, <2>9 DEF HandleWsClose, Closed
        <4> QED BY <2>6, <4>1
      <3>2. /\ s.tcp = "closed" /\ s.writes = w /\ s.is_connected_ = e.is_connected_
            /\ s.close_ = TRUE /\ s.pong_age = e.pong_age /\ s.told = e.told /\ s.out = o
            /\ s.ub = e.ub
          BY <3>1
      <3>3. IsEffect(s)
          BY <1>1, <2>7, <2>8, <3>1, <3>2 DEF IsEffect
      <3>4. ToldInOrder(s.told, s.close_)
          BY <1>1, <3>2 DEF EndsOK, ToldInOrder
      <3>5. EndsOK(role, upgrade, s)
          BY <1>1, <2>8, <2>9, <3>2, <3>3, <3>4 DEF EndsOK
      <3> QED BY <2>9, <3>2, <3>5 DEF Reads
    <2>10. CASE role = "client"
      <3>0. PICK us : us = Append(e.told, OnClose(0))
          OBVIOUS
      <3>1. s = [tcp |-> "closed", writes |-> w, is_connected_ |-> FALSE,
                 close_ |-> TRUE, pong_age |-> e.pong_age, told |-> us, out |-> o,
                 ub |-> e.ub]
        <4>1. s = [g EXCEPT !.close_ = TRUE, !.tcp = "closed", !.is_connected_ = FALSE,
                            !.told = Append(g.told, OnClose(0))]
            BY <1>3, <2>5, <2>10 DEF HandleWsClose, Closed
        <4>2. g.told = e.told
            BY <2>6
        <4>3. s = [g EXCEPT !.close_ = TRUE, !.tcp = "closed", !.is_connected_ = FALSE, !.told = us]
            BY <3>0, <4>1, <4>2
        <4> QED BY <2>6, <4>3
      <3>2. /\ s.tcp = "closed" /\ s.writes = w /\ s.is_connected_ = FALSE
            /\ s.close_ = TRUE /\ s.pong_age = e.pong_age /\ s.told = us /\ s.out = o
            /\ s.ub = e.ub
          BY <3>1
      <3>3. OnClose(0).what = "close"
          BY DEF OnClose, Told
      <3>4. IsSeq(e.told) /\ ToldInOrder(e.told, e.close_) /\ OneEnd(e.told)
          BY <1>1, <2>10 DEF IsEffect, EndsOK
      <3>5. IsSeq(us) /\ ToldInOrder(us, TRUE) /\ OneEnd(us)
        <4>1. PICK ts, y : ts = e.told /\ y = OnClose(0)
            OBVIOUS
        <4>2. /\ IsSeq(ts) /\ us = Append(ts, y) /\ OneEnd(ts) /\ ~Ended(ts)
              /\ y.what = "close" /\ ToldInOrder(ts, FALSE)
          <5>1. e.close_ = FALSE
              BY <1>1, <1>3 DEF IsEffect
          <5> QED BY <2>1, <3>0, <3>3, <3>4, <4>1, <5>1
        <4>3. IsSeq(us) /\ OneEnd(us)
            BY <4>2, TellMore
        <4>4. ToldInOrder(us, TRUE)
            BY <4>2, TellInOrder
        <4> QED BY <4>3, <4>4
      <3>6. IsEffect(s)
          BY <1>1, <2>7, <2>8, <3>1, <3>2, <3>5 DEF IsEffect
      <3>7. EndsOK(role, upgrade, s)
          BY <1>1, <2>8, <2>10, <3>2, <3>5, <3>6 DEF EndsOK
      <3> QED BY <2>10, <3>2, <3>7 DEF Reads
    <2> QED BY <2>9, <2>10
  <1>4. e.close_ \in BOOLEAN
      BY <1>1 DEF IsEffect
  <1> QED BY <1>2, <1>3, <1>4

(* Each call of a read, and all of them. *)
LEMMA ApplyKeeps ==
    ASSUME role \in {"server", "client"}, upgrade # "refused" \/ role = "server",
           NEW e, Reads(e), NEW c, IsCall(c), NEW s, s = Apply(e, c)
    PROVE  Reads(s)
  <1>1. IsEffect(e) /\ EndsOK(role, upgrade, e)
      BY DEF EndsOK, Reads
  <1>2. CASE e.ub # None
    <2>1. s = e
        BY <1>2 DEF Apply
    <2> QED BY <2>1
  <1>3. CASE e.ub = None /\ c.do = "send"
    <2>1. s = SendWsFrame(e, "PONG", c.item)
        BY <1>3 DEF Apply, IsCall
    <2>2. (role = "server" /\ e.tcp = "closed" => e.close_) /\ e.tcp # "broken"
        BY DEF Reads
    <2>3. /\ EndsOK(role, upgrade, s)
          /\ s.tcp = e.tcp /\ s.told = e.told /\ s.close_ = e.close_
          /\ s.is_connected_ = e.is_connected_ /\ s.ub \in {e.ub, "PONG"}
        BY <1>1, <1>3, <2>1, <2>2, SendKeeps
    <2> QED BY <2>3 DEF Reads
  <1>4. CASE e.ub = None /\ c.do = "pong"
    <2>1. s = [tcp |-> e.tcp, writes |-> e.writes, is_connected_ |-> e.is_connected_,
               close_ |-> e.close_, pong_age |-> 0, told |-> e.told, out |-> e.out,
               ub |-> e.ub]
      <3>1. s = [e EXCEPT !.pong_age = 0]
          BY <1>4 DEF Apply, PongReceived
      <3> QED BY <1>1, <3>1 DEF IsEffect
    <2>2. /\ s.tcp = e.tcp /\ s.writes = e.writes /\ s.is_connected_ = e.is_connected_
          /\ s.close_ = e.close_ /\ s.pong_age = 0 /\ s.told = e.told /\ s.out = e.out
          /\ s.ub = e.ub
        BY <2>1
    <2>3. 0 \in Unset..(PongLimit + 1)
        BY ConnAssumption DEF Unset
    <2>4. IsEffect(s)
        BY <1>1, <2>1, <2>2, <2>3 DEF IsEffect
    <2>5. EndsOK(role, upgrade, s)
        BY <1>1, <2>2, <2>4 DEF EndsOK
    <2> QED BY <2>2, <2>5 DEF Reads
  <1>5. CASE e.ub = None /\ c.do = "close"
    <2>1. s = HandleWsClose(e, c.item)
        BY <1>5 DEF Apply
    <2> QED BY <1>5, <2>1, CloseKeeps
  <1>6. CASE e.ub = None /\ c.do = "data" /\ upgrade # "ok"
    <2>1. s = e
        BY <1>6 DEF Apply
    <2> QED BY <2>1
  <1>7. CASE e.ub = None /\ c.do = "data" /\ upgrade = "ok"
    <2>1. PICK x, us : x = Told("data", c.op, c.item) /\ us = Append(e.told, x)
        OBVIOUS
    <2>2. s = [tcp |-> e.tcp, writes |-> e.writes, is_connected_ |-> e.is_connected_,
               close_ |-> e.close_, pong_age |-> e.pong_age, told |-> us, out |-> e.out,
               ub |-> e.ub]
      <3>1. s = [e EXCEPT !.told = us]
          BY <1>7, <2>1 DEF Apply
      <3> QED BY <1>1, <3>1 DEF IsEffect
    <2>3. /\ s.tcp = e.tcp /\ s.writes = e.writes /\ s.is_connected_ = e.is_connected_
          /\ s.close_ = e.close_ /\ s.pong_age = e.pong_age /\ s.told = us /\ s.out = e.out
          /\ s.ub = e.ub
        BY <2>2
    <2>4. x.what = "data" /\ ~IsEnd(x)
        BY <2>1 DEF Told, IsEnd
    <2>5. IsSeq(e.told) /\ ToldInOrder(e.told, e.close_) /\ OneEnd(e.told) /\ (Ended(e.told) => e.close_)
        BY <1>1, <1>7 DEF IsEffect, EndsOK, Reads
    <2>6. IsSeq(us) /\ ToldInOrder(us, e.close_) /\ OneEnd(us) /\ (Ended(us) <=> Ended(e.told))
      <3>1. PICK ts, done : ts = e.told /\ done = e.close_
          OBVIOUS
      <3>2. /\ IsSeq(ts) /\ us = Append(ts, x) /\ OneEnd(ts) /\ done \in BOOLEAN
            /\ ToldInOrder(ts, done) /\ (Ended(ts) => done)
          BY <1>1, <2>1, <2>5, <3>1 DEF IsEffect
      <3>3. IsSeq(us) /\ OneEnd(us) /\ (Ended(us) <=> Ended(ts))
          BY <2>4, <3>2, TellMore
      <3>4. ToldInOrder(us, done)
        <4>1. CASE done = TRUE
          <5>1. ToldInOrder(us, TRUE)
              BY <2>4, <3>2, <4>1, TellInOrder
          <5> QED BY <4>1, <5>1 DEF ToldInOrder
        <4>2. CASE done = FALSE
          <5>1. ToldInOrder(us, FALSE)
              BY <2>4, <3>2, <4>2, TellInOrder
          <5> QED BY <4>2, <5>1 DEF ToldInOrder
        <4> QED BY <3>2, <4>1, <4>2
      <3> QED BY <3>1, <3>3, <3>4
    <2>7. IsEffect(s)
        BY <1>1, <2>2, <2>3, <2>6 DEF IsEffect
    <2>8. EndsOK(role, upgrade, s)
        BY <1>1, <2>3, <2>6, <2>7 DEF EndsOK
    <2> QED BY <2>3, <2>6, <2>8 DEF Reads
  <1> QED BY <1>2, <1>3, <1>4, <1>5, <1>6, <1>7 DEF IsCall

(* All the calls of a read, one after the other. *)
LEMMA CallsKeep ==
    ASSUME role \in {"server", "client"}, upgrade # "refused" \/ role = "server",
           NEW start, Reads(start), NEW calls, CallsOK(calls),
           NEW e, e = Applied(start, calls)[Len(calls)]
    PROVE  Reads(e)
  <1>1. PICK n, r : n = Len(calls) /\ r = Applied(start, calls)
      OBVIOUS
  <1>2. n \in Nat /\ \A i \in 1..n : IsCall(calls[i])
      BY <1>1, SeqIs DEF CallsOK
  <1>3. r[0] = start /\ \A i \in 1..n : r[i] = Apply(r[i - 1], calls[i])
      BY <1>1, <1>2, AppliedIs
  <1>4. PICK T : T = {i \in 0..n : Reads(r[i])}
      OBVIOUS
  <1>5. 0 \in T
      BY <1>2, <1>3, <1>4
  <1>6. \A i \in 1..n : i - 1 \in T => i \in T
    <2> SUFFICES ASSUME NEW i \in 1..n, i - 1 \in T PROVE i \in T
        OBVIOUS
    <2>1. PICK a, b, c : a = r[i - 1] /\ b = r[i] /\ c = calls[i]
        OBVIOUS
    <2>2. Reads(a) /\ IsCall(c) /\ b = Apply(a, c)
        BY <1>2, <1>3, <1>4, <2>1
    <2>3. Reads(b)
        BY <2>2, ApplyKeeps
    <2>4. i \in 0..n
        OBVIOUS
    <2> QED BY <1>4, <2>1, <2>3, <2>4
  <1>7. \A i \in 0..n : i \in T
      BY ONLY <1>2, <1>5, <1>6, UpTo
  <1>8. n \in T
      BY <1>2, <1>7
  <1> QED BY <1>1, <1>4, <1>8
------------------------------------------------------------------------------
(* The invariant.  At the server's end, the socket is closed by a CLOSE or  *)
(* with the session.                                                        *)
HereInv ==
    /\ role \in {"server", "client"} /\ peer \in {"here", "ended", "vanished"}
    /\ upgrade \in {"reading", "ok", "refused"} /\ reading \in BOOLEAN /\ held \in BOOLEAN
    /\ ping_age \in 0..(PingEvery + 1)
TypeInv ==
    /\ tcp \in {"connecting", "open", "broken", "closed"} /\ writes \in 0..MaxWrites
    /\ is_connected_ \in BOOLEAN /\ close_ \in BOOLEAN
    /\ pong_age \in Unset..(PongLimit + 1)
    /\ ub \in {None, "PING", "PONG", "TEXT", "CLOSE", "late_write", "freed_timer", "destroyed"}
    /\ IsSeq(told) /\ IsSeq(out)
EndInv ==
    /\ TypeInv
    /\ close_ => tcp = "closed"
    /\ OneClose(out, close_) /\ ToldInOrder(told, close_)
    /\ role = "server" => ~Ended(told)
    /\ tcp = "broken" => ~is_connected_ /\ (role = "client" => Ended(told))
    /\ role = "client" /\ ub # None => ub = "TEXT" /\ Ended(told)
    /\ upgrade # "refused" => OneEnd(told)
    /\ ub \in {"PING", "PONG", "destroyed"} => close_
    /\ ub = "TEXT" => close_ \/ tcp = "broken"
    /\ ub # "CLOSE"
ServerInv ==
    role = "server" =>
        /\ tcp # "connecting" /\ (tcp = "closed" => close_ \/ ~held)
        /\ ub = None /\ ~held => close_
        /\ upgrade = "reading" => told = <<>>

(* At the client's, an end that was told is the last thing to be told: the  *)
(* timer is off and nothing is read any more, nor will be when the write    *)
(* that starts the reading is called back.                                  *)
ClientInv ==
    role = "client" =>
        /\ ~held
        /\ tcp = "connecting" => ~reading /\ writes = 0 /\ told = <<>> /\ upgrade = "reading"
        /\ upgrade = "reading" =>
              /\ ~is_connected_ /\ writes <= 1 /\ (reading => writes = 0)
              /\ told = <<>> \/ Ended(told)
        /\ Ended(told) =>
              /\ ~is_connected_
              /\ \/ upgrade = "refused" \/ tcp = "closed"
                 \/ ~reading /\ (upgrade = "ok" \/ writes = 0)
ControlInv == HereInv /\ EndInv /\ ServerInv /\ ClientInv

(* The fields of This. *)
LEMMA ThisIs ==
    /\ This.tcp = tcp /\ This.writes = writes /\ This.is_connected_ = is_connected_
    /\ This.close_ = close_ /\ This.pong_age = pong_age /\ This.told = told /\ This.out = out
    /\ This.ub = ub
  BY DEF This

(* EndInv says of the state what EndsOK says of This, *)
LEMMA EndIs == EndInv => EndsOK(role, upgrade, This)
  <1>1. This = [tcp |-> This.tcp, writes |-> This.writes, is_connected_ |-> This.is_connected_,
                close_ |-> This.close_, pong_age |-> This.pong_age, told |-> This.told,
                out |-> This.out, ub |-> This.ub]
      BY ThisIs DEF This
  <1>2. TypeInv => IsEffect(This)
      BY <1>1, ThisIs DEF TypeInv, IsEffect
  <1> QED BY <1>2, ThisIs DEF EndInv, EndsOK

(* and of the state that This becomes. *)
LEMMA EndBecomes ==
    ASSUME NEW e, Becomes(e), EndsOK(role', upgrade', e)
    PROVE  EndInv'
  <1>1. TypeInv'
      BY DEF EndsOK, IsEffect, Becomes, TypeInv
  <1> QED BY <1>1 DEF EndsOK, Becomes, EndInv

(* Nothing told yet. *)
LEMMA NothingTold == IsSeq(<<>>) /\ Len(<<>>) = 0 /\ ~Ended(<<>>)
  <1>1. <<>> \in Seq({}) /\ Len(<<>>) = 0
      OBVIOUS
  <1>2. IsSeq(<<>>)
      BY <1>1 DEF IsSeq
  <1> QED BY <1>1, <1>2 DEF Ended

(* The invariant at the start. *)
LEMMA ControlInit == Init => ControlInv
  <1> SUFFICES ASSUME Init PROVE ControlInv
      OBVIOUS
  <1>1. HereInv
      BY DEF Init, HereInv, PingEvery
  <1>2. TypeInv
    <2>1. 0 \in 0..MaxWrites /\ pong_age \in Unset..(PongLimit + 1)
        BY ConnAssumption DEF Init, Unset
    <2> QED BY <2>1, NothingTold DEF Init, TypeInv
  <1>3. OneClose(<<>>, FALSE) /\ ToldInOrder(<<>>, FALSE) /\ OneEnd(<<>>)
      BY NothingTold DEF OneClose, ToldInOrder, OneEnd
  <1>4. EndInv
      BY <1>2, <1>3, NothingTold, ConnAssumption DEF EndInv, Init
  <1>5. ServerInv
      BY ConnAssumption DEF ServerInv, Init
  <1>6. ClientInv
    <2>1. ~Ended(told) /\ told = <<>>
        BY NothingTold DEF Init
    <2>2. SUFFICES ASSUME role = "client" PROVE ~held /\ ~reading /\ ~is_connected_ /\ writes = 0 /\ upgrade = "reading"
        BY <2>1 DEF ClientInv
    <2> QED BY <2>2 DEF Init
  <1> QED BY <1>1, <1>4, <1>5, <1>6 DEF ControlInv

(* What leaves this end alone. *)
LEMMA ControlStutters ==
    ASSUME ControlInv, peer' \in {"here", "ended", "vanished"},
           UNCHANGED <<role, tcp, reading, writes, upgrade, is_connected_, close_, ping_age,
                       pong_age, told, out, held, ub>>
    PROVE  ControlInv'
  <1>1. TypeInv'
      BY DEF ControlInv, EndInv, TypeInv
  <1>2. EndInv'
      BY <1>1 DEF ControlInv, EndInv
  <1>3. HereInv' /\ ServerInv' /\ ClientInv'
      BY DEF ControlInv, HereInv, ServerInv, ClientInv
  <1> QED BY <1>2, <1>3 DEF ControlInv

(* An end that is told to an application that has not heard of one. *)
LEMMA EndIsTold ==
    ASSUME NEW ts, IsSeq(ts), NEW done \in BOOLEAN, NEW code, ToldInOrder(ts, done),
           NEW us, us = Append(ts, OnClose(code))
    PROVE  /\ IsSeq(us) /\ Ended(us) /\ ToldInOrder(us, done)
           /\ OneEnd(ts) /\ ~Ended(ts) => OneEnd(us)
  <1>1. PICK x : x = OnClose(code)
      OBVIOUS
  <1>2. x.what = "close" /\ IsEnd(x)
      BY <1>1 DEF OnClose, Told, IsEnd
  <1>3. us = Append(ts, x)
      BY <1>1
  <1>4. IsSeq(us) /\ Ended(us) /\ (OneEnd(ts) /\ ~Ended(ts) => OneEnd(us))
      BY <1>2, <1>3, TellMore
  <1>5. x.what # "connection" /\ x.what # "data"
      BY <1>2
  <1>6. CASE done = TRUE
    <2>1. ToldInOrder(us, TRUE)
        BY <1>3, <1>5, <1>6, TellInOrder
    <2> QED BY <1>4, <1>6, <2>1
  <1>7. CASE done = FALSE
    <2>1. ToldInOrder(us, FALSE)
        BY <1>3, <1>5, <1>7, TellInOrder
    <2> QED BY <1>4, <1>7, <2>1
  <1> QED BY <1>6, <1>7

(* A connect that fails tells of an end, once; one that succeeds starts the *)
(* only write that is outstanding before the upgrade.                       *)
LEMMA ControlConnected == ControlInv /\ Connected => ControlInv'
  <1> SUFFICES ASSUME ControlInv, Connected PROVE ControlInv'
      OBVIOUS
  <1>1. role = "client" /\ told = <<>> /\ ~close_ /\ ub = None /\ writes = 0 /\ ~reading
        /\ upgrade = "reading" /\ ~is_connected_ /\ ~held
      BY DEF ControlInv, HereInv, EndInv, ServerInv, ClientInv, Connected, Up
  <1>2. HereInv'
      BY DEF ControlInv, HereInv, Connected, peerVars
  <1>3. CASE tcp' = "open" /\ writes' = 1 /\ UNCHANGED told
    <2>1. 1 \in 0..MaxWrites
        BY ConnAssumption
    <2>2. TypeInv'
        BY <1>3, <2>1 DEF ControlInv, EndInv, TypeInv, Connected
    <2>3. EndInv'
        BY <1>1, <1>3, <2>2 DEF ControlInv, EndInv, Connected
    <2>4. ServerInv' /\ ClientInv'
        BY <1>1, <1>3, NothingTold DEF ServerInv, ClientInv, Connected
    <2> QED BY <1>2, <2>3, <2>4 DEF ControlInv
  <1>4. CASE tcp' = "closed" /\ told' = <<OnClose(-1)>> /\ UNCHANGED writes
    <2>1. told' = Append(<<>>, OnClose(-1))
        BY <1>4
    <2>2. IsSeq(<<>>) /\ ToldInOrder(<<>>, FALSE) /\ OneEnd(<<>>) /\ ~Ended(<<>>)
        BY NothingTold DEF ToldInOrder, OneEnd
    <2>3. IsSeq(told') /\ Ended(told') /\ ToldInOrder(told', FALSE) /\ OneEnd(told')
        BY <2>1, <2>2, EndIsTold
    <2>4. TypeInv'
        BY <1>4, <2>3 DEF ControlInv, EndInv, TypeInv, Connected
    <2>5. close_' = FALSE
        BY <1>1, <2>4 DEF Connected, TypeInv
    <2>6. EndInv'
        BY <1>1, <1>4, <2>3, <2>4, <2>5 DEF ControlInv, EndInv, Connected
    <2>7. ServerInv' /\ ClientInv'
        BY <1>1, <1>4, <2>3 DEF ServerInv, ClientInv, Connected
    <2> QED BY <1>2, <2>6, <2>7 DEF ControlInv
  <1> QED BY <1>3, <1>4 DEF Connected

(* The end of the stream is told to an application that has not heard of an *)
(* end, and stops the reading for good.                                     *)
LEMMA ControlOnReadEnd == ControlInv /\ OnReadEnd => ControlInv'
  <1> SUFFICES ASSUME ControlInv, OnReadEnd PROVE ControlInv'
      OBVIOUS
  <1>1. EndInv /\ TypeInv /\ HereInv /\ ServerInv /\ ClientInv
      BY DEF ControlInv, EndInv
  <1>2. HereInv'
      BY <1>1 DEF HereInv, OnReadEnd, peerVars
  <1>3. CASE role = "server"
    <2>1. told' = told
        BY <1>3 DEF OnReadEnd
    <2>2. TypeInv'
        BY <1>1, <2>1 DEF TypeInv, OnReadEnd
    <2>3. EndInv'
        BY <1>1, <2>1, <2>2 DEF EndInv, OnReadEnd
    <2>4. ServerInv' /\ ClientInv'
        BY <1>1, <1>3, <2>1 DEF ServerInv, ClientInv, OnReadEnd
    <2> QED BY <1>2, <2>3, <2>4 DEF ControlInv
  <1>4. CASE role = "client"
    <2>1. told' = Append(told, OnClose(-1))
        BY <1>4 DEF OnReadEnd
    <2>2. ToldInOrder(told, close_) /\ close_ = FALSE /\ IsSeq(told)
        BY <1>1 DEF EndInv, TypeInv, OnReadEnd
    <2>3. upgrade # "refused" => ~Ended(told) /\ OneEnd(told)
        BY <1>1, <1>4 DEF ClientInv, EndInv, OnReadEnd
    <2>4. ToldInOrder(told, FALSE)
        BY <2>2 DEF ToldInOrder
    <2>5. /\ IsSeq(told') /\ Ended(told') /\ ToldInOrder(told', FALSE)
          /\ OneEnd(told) /\ ~Ended(told) => OneEnd(told')
        BY <2>1, <2>2, <2>4, EndIsTold
    <2>6. TypeInv'
        BY <1>1, <2>5 DEF TypeInv, OnReadEnd
    <2>7. EndInv'
        BY <1>1, <1>4, <2>2, <2>3, <2>5, <2>6 DEF EndInv, OnReadEnd
    <2>8. upgrade = "reading" => writes = 0
        BY <1>1, <1>4 DEF ClientInv, OnReadEnd
    <2>9. upgrade \in {"reading", "ok", "refused"}
        BY <1>1 DEF HereInv
    <2>10. ServerInv' /\ ClientInv'
        BY <1>1, <1>4, <2>5, <2>8, <2>9 DEF ServerInv, ClientInv, OnReadEnd
    <2> QED BY <1>2, <2>7, <2>10 DEF ControlInv
  <1> QED BY <1>1, <1>3, <1>4 DEF HereInv

(* A write called back starts the reading only where no end has been told. *)
LEMMA ControlOnWrite == ControlInv /\ OnWrite => ControlInv'
  <1> SUFFICES ASSUME ControlInv, OnWrite PROVE ControlInv'
      OBVIOUS
  <1>1. EndInv /\ TypeInv /\ HereInv /\ ServerInv /\ ClientInv
      BY DEF ControlInv, EndInv
  <1>2. writes \in Nat /\ writes > 0 /\ writes' = writes - 1 /\ writes' \in 0..MaxWrites
      BY <1>1, ConnAssumption DEF TypeInv, OnWrite
  <1>3. reading' \in BOOLEAN /\ is_connected_' \in BOOLEAN
      BY <1>1 DEF OnWrite, HereInv, TypeInv
  <1>4. HereInv' /\ TypeInv'
      BY <1>1, <1>2, <1>3 DEF HereInv, TypeInv, OnWrite, peerVars
  <1>5. EndInv'
    <2>1. is_connected_' => is_connected_
        BY DEF OnWrite
    <2> QED BY <1>1, <1>4, <2>1 DEF EndInv, OnWrite
  <1>6. ServerInv'
      BY <1>1 DEF ServerInv, OnWrite
  <1>7. ClientInv'
    <2> SUFFICES ASSUME role = "client" PROVE ClientInv'
        BY DEF ClientInv, OnWrite
    <2>1. is_connected_' => is_connected_
        BY DEF OnWrite
    <2>2. reading' => reading \/ (upgrade = "reading" /\ tcp = "open")
        BY DEF OnWrite
    <2>3. tcp # "connecting"
        BY <1>1, <1>2 DEF ClientInv
    <2>4. upgrade = "reading" => writes' = 0
        BY <1>1, <1>2 DEF ClientInv
    <2>5. Ended(told) /\ upgrade = "reading" => tcp = "closed"
        BY <1>1, <1>2 DEF ClientInv
    <2> QED BY <1>1, <1>3, <2>1, <2>2, <2>3, <2>4, <2>5 DEF ClientInv, OnWrite
  <1> QED BY <1>4, <1>5, <1>6, <1>7 DEF ControlInv

(* Time passes. *)
LEMMA ControlTick == ControlInv /\ Tick => ControlInv'
  <1> SUFFICES ASSUME ControlInv, Tick PROVE ControlInv'
      OBVIOUS
  <1>1. EndInv /\ TypeInv /\ HereInv /\ ServerInv /\ ClientInv
      BY DEF ControlInv, EndInv
  <1>2. ping_age' \in 0..(PingEvery + 1)
      BY <1>1 DEF HereInv, Tick, AtMost, PingEvery
  <1>3. pong_age' \in Unset..(PongLimit + 1)
    <2>1. CASE pong_age = Unset
        BY <1>1, <2>1, ConnAssumption DEF TypeInv, Tick, Unset
    <2>2. CASE pong_age # Unset
      <3>1. pong_age \in 0..(PongLimit + 1) /\ pong_age' = AtMost(PongLimit + 1, pong_age + 1)
          BY <1>1, <2>2, ConnAssumption DEF TypeInv, Tick, Unset
      <3> QED BY <3>1, ConnAssumption DEF AtMost, Unset
    <2> QED BY <2>1, <2>2
  <1>4. HereInv' /\ TypeInv'
      BY <1>1, <1>2, <1>3 DEF HereInv, TypeInv, Tick, peerVars
  <1>5. EndInv' /\ ServerInv' /\ ClientInv'
      BY <1>1, <1>4 DEF EndInv, ServerInv, ClientInv, Tick
  <1> QED BY <1>4, <1>5 DEF ControlInv

(* The session that is let go. *)
LEMMA ControlDestroyed ==
    ASSUME ControlInv, Up, held, Destroyed
    PROVE  ControlInv'
  <1>1. EndInv /\ TypeInv /\ HereInv /\ ServerInv /\ ClientInv
      BY DEF ControlInv, EndInv
  <1>2. role = "server"
      BY <1>1 DEF HereInv, ClientInv
  <1>3. 0 \in 0..MaxWrites
      BY ConnAssumption
  <1>4. ub' \in {None, "late_write", "freed_timer"} /\ (ub' = None => tcp = "closed")
    <2>1. writes \in Nat
        BY <1>1, ConnAssumption DEF TypeInv
    <2>2. CASE writes > 0
      <3>1. ub' = "late_write"
          BY <2>1, <2>2 DEF Destroyed
      <3> QED BY <3>1, ConnAssumption
    <2>3. CASE writes = 0 /\ tcp # "closed"
      <3>1. ub' = "freed_timer"
          BY <2>3 DEF Destroyed
      <3> QED BY <3>1, ConnAssumption
    <2>4. CASE writes = 0 /\ tcp = "closed"
      <3>1. ub' = ub
          BY <2>4 DEF Destroyed
      <3> QED BY <2>4, <3>1 DEF Up
    <2> QED BY <2>1, <2>2, <2>3, <2>4
  <1>5. HereInv' /\ TypeInv'
      BY <1>1, <1>3, <1>4 DEF HereInv, TypeInv, Destroyed, peerVars
  <1>6. EndInv'
      BY <1>1, <1>2, <1>4, <1>5, ConnAssumption DEF EndInv, Destroyed
  <1>7. ServerInv' /\ ClientInv'
      BY <1>1, <1>2, <1>4 DEF ServerInv, ClientInv, Destroyed
  <1> QED BY <1>5, <1>6, <1>7 DEF ControlInv

(* The timers: the PING, and the client's pong timeout. *)
LEMMA PingedKeeps ==
    ASSUME ControlInv, Up, is_connected_, role = "server" => held, NEW s, s = Pinged
    PROVE  /\ EndsOK(role, upgrade, s)
           /\ s.tcp = tcp /\ s.told = told /\ s.close_ = close_
           /\ s.is_connected_ = is_connected_ /\ s.pong_age = pong_age
  <1>1. EndInv /\ HereInv /\ ServerInv
      BY DEF ControlInv
  <1>2. PICK e : e = This
      OBVIOUS
  <1>3. EndsOK(role, upgrade, e) /\ e.ub = None /\ e.tcp = tcp /\ e.close_ = close_ /\ e.told = told
        /\ e.is_connected_ = is_connected_ /\ e.pong_age = pong_age
      BY <1>1, <1>2, EndIs, ThisIs DEF Up
  <1>4. CASE PingDue
    <2>1. s = SendWsFrame(e, "PING", <<>>)
        BY <1>2, <1>4 DEF Pinged
    <2>2. /\ role \in {"server", "client"} /\ (role = "server" /\ e.tcp = "closed" => e.close_)
          /\ e.tcp # "broken"
        BY <1>1, <1>3 DEF HereInv, ServerInv, EndInv
    <2>3. /\ EndsOK(role, upgrade, s)
          /\ s.tcp = e.tcp /\ s.told = e.told /\ s.close_ = e.close_
          /\ s.is_connected_ = e.is_connected_ /\ s.pong_age = e.pong_age
      <3>1. PICK op, item : op = "PING" /\ item = <<>>
          OBVIOUS
      <3>2. s = SendWsFrame(e, op, item) /\ op \in {"PING", "PONG", "TEXT"} /\ (e.tcp = "broken" => op = "TEXT")
          BY <2>1, <2>2, <3>1
      <3>3. EndsOK(role, upgrade, e) /\ e.ub = None /\ role \in {"server", "client"}
            /\ (role = "server" /\ e.tcp = "closed" => e.close_)
          BY <1>3, <2>2
      <3> QED BY ONLY <3>2, <3>3, SendKeeps
    <2> QED BY <1>3, <2>3
  <1>5. CASE ~PingDue
    <2>1. s = e
        BY <1>2, <1>5 DEF Pinged
    <2> QED BY <1>3, <2>1
  <1> QED BY <1>4, <1>5

(* The client's pong timeout: its timer runs only while no end has been told. *)
LEMMA TimerKeeps ==
    ASSUME NEW u, NEW e, EndsOK("client", u, e), ~Ended(e.told), e.pong_age = pong_age,
           NEW s, s = ClientTimer(e)
    PROVE  /\ EndsOK("client", u, s)
           /\ s.is_connected_ \in {e.is_connected_, FALSE} /\ s.tcp \in {e.tcp, "closed"}
           /\ Ended(s.told) => ~s.is_connected_ /\ s.tcp = "closed"
  <1>1. IsEffect(e) /\ e.pong_age \in Unset..(PongLimit + 1)
      BY DEF EndsOK, IsEffect
  <1>2. CASE pong_age = Unset
    <2>1. s = [tcp |-> e.tcp, writes |-> e.writes, is_connected_ |-> e.is_connected_,
               close_ |-> e.close_, pong_age |-> 0, told |-> e.told, out |-> e.out,
               ub |-> e.ub]
      <3>1. ~(pong_age > PongLimit) /\ pong_age \notin 0..PongLimit
          BY <1>2, ConnAssumption DEF Unset
      <3>2. s = [e EXCEPT !.pong_age = 0]
          BY <1>2, <3>1 DEF ClientTimer
      <3> QED BY <1>1, <3>2 DEF IsEffect
    <2>2. /\ s.tcp = e.tcp /\ s.writes = e.writes /\ s.is_connected_ = e.is_connected_
          /\ s.close_ = e.close_ /\ s.pong_age = 0 /\ s.told = e.told /\ s.out = e.out
          /\ s.ub = e.ub
        BY <2>1
    <2>3. 0 \in Unset..(PongLimit + 1)
        BY ConnAssumption DEF Unset
    <2>4. IsEffect(s)
        BY <1>1, <2>1, <2>2, <2>3 DEF IsEffect
    <2> QED BY <2>2, <2>4 DEF EndsOK
  <1>3. CASE pong_age # Unset /\ pong_age > PongLimit
    <2>1. PICK us : us = Append(e.told, OnClose(-1))
        OBVIOUS
    <2>2. s = [tcp |-> "closed", writes |-> e.writes, is_connected_ |-> FALSE,
               close_ |-> e.close_, pong_age |-> e.pong_age, told |-> us, out |-> e.out,
               ub |-> e.ub]
      <3>1. pong_age \notin 0..PongLimit
          BY <1>1, <1>3, ConnAssumption DEF Unset
      <3>2. s = [e EXCEPT !.is_connected_ = FALSE, !.tcp = "closed", !.told = us]
          BY <1>3, <2>1, <3>1 DEF ClientTimer
      <3> QED BY <1>1, <3>2 DEF IsEffect
    <2>3. /\ s.tcp = "closed" /\ s.writes = e.writes /\ s.is_connected_ = FALSE
          /\ s.close_ = e.close_ /\ s.pong_age = e.pong_age /\ s.told = us /\ s.out = e.out
          /\ s.ub = e.ub
        BY <2>2
    <2>4. PICK ts, done : ts = e.told /\ done = e.close_
        OBVIOUS
    <2>5. IsSeq(ts) /\ done \in BOOLEAN /\ ToldInOrder(ts, done) /\ us = Append(ts, OnClose(-1))
          /\ ~Ended(ts)
        BY <1>1, <2>1, <2>4 DEF EndsOK, IsEffect
    <2>6. IsSeq(us) /\ ToldInOrder(us, done) /\ (OneEnd(ts) => OneEnd(us))
        BY <2>5, EndIsTold
    <2>7. IsEffect(s)
        BY <1>1, <2>2, <2>3, <2>6 DEF IsEffect
    <2>8. EndsOK("client", u, s)
        BY <2>3, <2>4, <2>6, <2>7 DEF EndsOK
    <2> QED BY <2>3, <2>8
  <1>4. CASE pong_age # Unset /\ ~(pong_age > PongLimit)
    <2>1. pong_age \in 0..PongLimit
        BY <1>1, <1>4, ConnAssumption DEF Unset
    <2>2. s = e
        BY <1>4, <2>1 DEF ClientTimer
    <2> QED BY <2>2
  <1> QED BY <1>2, <1>3, <1>4

(* OnTimer at both ends. *)
LEMMA ControlOnTimer == ControlInv /\ OnTimer => ControlInv'
  <1> SUFFICES ASSUME ControlInv, OnTimer PROVE ControlInv'
      OBVIOUS
  <1>1. EndInv /\ TypeInv /\ HereInv /\ ServerInv /\ ClientInv
      BY DEF ControlInv, EndInv
  <1>2. PICK s : s = Pinged
      OBVIOUS
  <1>3. /\ EndsOK(role, upgrade, s)
        /\ s.tcp = tcp /\ s.told = told /\ s.close_ = close_
        /\ s.is_connected_ = is_connected_ /\ s.pong_age = pong_age
      BY <1>2, PingedKeeps DEF OnTimer
  <1>4. role' = role /\ upgrade' = upgrade /\ held' = held /\ reading' = reading /\ peer' = peer
      BY DEF OnTimer, peerVars
  <1>5. ping_age' \in 0..(PingEvery + 1)
      BY <1>1 DEF HereInv, OnTimer, PingEvery
  <1>6. HereInv'
      BY <1>1, <1>4, <1>5 DEF HereInv
  <1>7. CASE role = "server"
    <2>1. Becomes(s)
        BY <1>2, <1>7 DEF OnTimer
    <2>2. EndInv'
        BY <1>3, <1>4, <2>1, EndBecomes
    <2>3. held
        BY <1>7 DEF OnTimer
    <2>4. ServerInv' /\ ClientInv'
        BY <1>1, <1>3, <1>4, <1>7, <2>1, <2>3 DEF ServerInv, ClientInv, Becomes
    <2> QED BY <1>6, <2>2, <2>4 DEF ControlInv
  <1>8. CASE role = "client"
    <2>1. PICK e : e = ClientTimer(s)
        OBVIOUS
    <2>2. Becomes(e)
        BY <1>2, <1>8, <2>1 DEF OnTimer
    <2>3. is_connected_ /\ ~Ended(told) /\ upgrade # "reading" /\ tcp # "connecting"
        BY <1>1, <1>8 DEF ClientInv, OnTimer
    <2>4. EndsOK("client", upgrade, s)
        BY <1>3, <1>8
    <2>5. /\ EndsOK("client", upgrade, e)
          /\ e.is_connected_ \in {s.is_connected_, FALSE} /\ e.tcp \in {s.tcp, "closed"}
          /\ Ended(e.told) => ~e.is_connected_ /\ e.tcp = "closed"
        BY <1>3, <2>1, <2>3, <2>4, TimerKeeps
    <2>6. EndInv'
        BY <1>4, <1>8, <2>2, <2>5, EndBecomes
    <2>7. ServerInv' /\ ClientInv'
      <3>1. tcp' = e.tcp /\ told' = e.told /\ is_connected_' = e.is_connected_
          BY <2>2 DEF Becomes
      <3>2. tcp' # "connecting" /\ (Ended(told') => ~is_connected_' /\ tcp' = "closed")
          BY <1>3, <2>3, <2>5, <3>1
      <3> QED BY <1>1, <1>4, <1>8, <2>3, <3>2 DEF ServerInv, ClientInv
    <2> QED BY <1>6, <2>6, <2>7 DEF ControlInv
  <1> QED BY <1>1, <1>7, <1>8 DEF HereInv

(* The application's write: it throws only after a CLOSE or a read error,   *)
(* and reaches a destroyed session only if it was closed before.            *)
LEMMA ControlAppWrites == ControlInv /\ AppWrites => ControlInv'
  <1> SUFFICES ASSUME ControlInv, AppWrites PROVE ControlInv'
      OBVIOUS
  <1>1. EndInv /\ TypeInv /\ HereInv /\ ServerInv /\ ClientInv
      BY DEF ControlInv, EndInv
  <1>2. role' = role /\ upgrade' = upgrade /\ held' = held /\ reading' = reading /\ peer' = peer
        /\ ping_age' = ping_age /\ upgrade = "ok" /\ ub = None
      BY DEF AppWrites, peerVars, Up
  <1>3. HereInv'
      BY <1>1, <1>2 DEF HereInv
  <1>4. CASE role = "client" \/ held
    <2>1. PICK e : e = This
        OBVIOUS
    <2>2. EndsOK(role, upgrade, e) /\ e.ub = None /\ e.tcp = tcp /\ e.close_ = close_
          /\ e.told = told /\ e.out = out /\ e.is_connected_ = is_connected_
        BY <1>1, <1>2, <2>1, EndIs, ThisIs
    <2>3. PICK g : g = SendWsFrame(e, "TEXT", <<>>)
        OBVIOUS
    <2>4. role \in {"server", "client"} /\ (role = "server" /\ e.tcp = "closed" => e.close_)
        BY <1>1, <1>4, <2>2 DEF HereInv, ServerInv
    <2>5. /\ EndsOK(role, upgrade, g)
          /\ g.tcp = e.tcp /\ g.told = e.told /\ g.close_ = e.close_
          /\ g.is_connected_ = e.is_connected_
        BY <2>2, <2>3, <2>4, SendKeeps
    <2>7. PICK s : s = [g EXCEPT !.out = out]
        OBVIOUS
    <2>8. s = [tcp |-> g.tcp, writes |-> g.writes, is_connected_ |-> g.is_connected_,
               close_ |-> g.close_, pong_age |-> g.pong_age, told |-> g.told, out |-> out,
               ub |-> g.ub]
        BY <2>5, <2>7 DEF EndsOK, IsEffect
    <2>9. /\ s.tcp = g.tcp /\ s.writes = g.writes /\ s.is_connected_ = g.is_connected_
          /\ s.close_ = g.close_ /\ s.pong_age = g.pong_age /\ s.told = g.told /\ s.out = out
          /\ s.ub = g.ub
        BY <2>8
    <2>10. IsSeq(out) /\ OneClose(out, close_)
        BY <1>1 DEF EndInv, TypeInv
    <2>11. IsEffect(s)
        BY <2>5, <2>8, <2>9, <2>10 DEF EndsOK, IsEffect
    <2>12. EndsOK(role, upgrade, s)
        BY <2>2, <2>5, <2>9, <2>10, <2>11 DEF EndsOK
    <2>13. Becomes(s)
        BY <1>4, <2>1, <2>3, <2>7 DEF AppWrites
    <2>14. EndInv'
        BY <1>2, <2>12, <2>13, EndBecomes
    <2>15. /\ tcp' = tcp /\ told' = told /\ close_' = close_ /\ is_connected_' = is_connected_
        BY <2>2, <2>5, <2>9, <2>13 DEF Becomes
    <2>16. ServerInv' /\ ClientInv'
        BY <1>1, <1>2, <1>4, <2>15 DEF ServerInv, ClientInv
    <2> QED BY <1>3, <2>14, <2>16 DEF ControlInv
  <1>5. CASE role # "client" /\ ~held
    <2>1. ub' = "destroyed" /\ UNCHANGED <<tcp, writes, is_connected_, close_, pong_age, told, out>>
        BY <1>5 DEF AppWrites
    <2>2. TypeInv'
        BY <1>1, <2>1 DEF TypeInv
    <2>3. role = "server" /\ close_ /\ ub' # None
        BY <1>1, <1>2, <1>5, <2>1, ConnAssumption DEF HereInv, ServerInv
    <2>4. EndInv'
        BY <1>1, <1>2, <2>1, <2>2, <2>3 DEF EndInv
    <2>5. ServerInv' /\ ClientInv'
        BY <1>1, <1>2, <1>5, <2>1, <2>3 DEF ServerInv, ClientInv
    <2> QED BY <1>3, <2>4, <2>5 DEF ControlInv
  <1> QED BY <1>4, <1>5
------------------------------------------------------------------------------
(* The reads: of the request, of the response, and of frames. *)
LEMMA ControlReadRequest ==
    ASSUME ControlInv, NEW data, Up, tcp = "open", role = "server", upgrade = "reading",
           ReadRequest(data), UNCHANGED <<role, peerVars, reading, ping_age, held>>
    PROVE  ControlInv'
  <1>1. EndInv /\ TypeInv /\ HereInv /\ ServerInv /\ ClientInv
      BY DEF ControlInv, EndInv
  <1>2. UNCHANGED <<tcp, close_, pong_age, told, out, ub>>
      BY DEF ReadRequest
  <1>3. /\ upgrade' \in {"reading", "ok", "refused"}
        /\ writes' \in {writes, AtMost(MaxWrites, writes + 1)}
        /\ is_connected_' = is_connected_ \/ is_connected_' = FALSE
    <2>1. PICK all, e : all = http_recv_buffer_ \o data /\ e = Heads(all)
        OBVIOUS
    <2>2. CASE e = 0
        BY <2>1, <2>2 DEF ReadRequest
    <2>3. CASE e # 0 /\ all[e].ok
      <3>1. upgrade' = "ok" /\ writes' = AtMost(MaxWrites, writes + 1) /\ UNCHANGED is_connected_
          BY <2>1, <2>3 DEF ReadRequest
      <3> QED BY <3>1
    <2>4. CASE e # 0 /\ ~all[e].ok
      <3>1. upgrade' = "refused" /\ is_connected_' = FALSE /\ UNCHANGED writes
          BY <2>1, <2>4 DEF ReadRequest
      <3> QED BY <3>1
    <2> QED BY <2>2, <2>3, <2>4
  <1>4. writes' \in 0..MaxWrites
      BY <1>1, <1>3, ConnAssumption DEF TypeInv, AtMost
  <1>5. HereInv' /\ TypeInv'
      BY <1>1, <1>2, <1>3, <1>4 DEF HereInv, TypeInv, peerVars
  <1>6. ~Ended(told) /\ OneEnd(told)
      BY <1>1 DEF EndInv
  <1>7. EndInv'
      BY <1>1, <1>2, <1>5, <1>6 DEF EndInv
  <1>8. ServerInv' /\ ClientInv'
      BY <1>1, <1>2 DEF ServerInv, ClientInv
  <1> QED BY <1>5, <1>7, <1>8 DEF ControlInv

(* The response: the connection is told where nothing was, an end where the *)
(* upgrade is refused.                                                      *)
LEMMA ControlReadResponse ==
    ASSUME ControlInv, NEW data, Up, tcp = "open", reading, role = "client", upgrade # "ok",
           ReadResponse(data), UNCHANGED <<role, peerVars, reading, ping_age, held>>
    PROVE  ControlInv'
  <1>1. EndInv /\ TypeInv /\ HereInv /\ ServerInv /\ ClientInv
      BY DEF ControlInv, EndInv
  <1>2. UNCHANGED <<tcp, writes, close_, pong_age, out, ub>>
      BY DEF ReadResponse
  <1>3. close_ = FALSE /\ IsSeq(told) /\ ToldInOrder(told, FALSE)
      BY <1>1 DEF EndInv, TypeInv, ToldInOrder
  <1>4. CASE Refuse
    <2>1. told' = Append(told, OnClose(-1)) /\ is_connected_' = FALSE /\ upgrade' = "refused"
        BY <1>4 DEF Refuse
    <2>2. IsSeq(told') /\ Ended(told') /\ ToldInOrder(told', FALSE)
        BY <1>3, <2>1, EndIsTold
    <2>3. HereInv' /\ TypeInv'
        BY <1>1, <1>2, <2>1, <2>2 DEF HereInv, TypeInv, peerVars
    <2>4. EndInv'
        BY <1>1, <1>2, <1>3, <2>1, <2>2, <2>3 DEF EndInv
    <2>5. ServerInv' /\ ClientInv'
        BY <1>1, <1>2, <2>1 DEF ServerInv, ClientInv
    <2> QED BY <2>3, <2>4, <2>5 DEF ControlInv
  <1>5. CASE UNCHANGED <<upgrade, told, is_connected_>>
    <2>1. HereInv' /\ TypeInv'
        BY <1>1, <1>2, <1>5 DEF HereInv, TypeInv, peerVars
    <2>2. EndInv'
        BY <1>1, <1>2, <1>5, <2>1 DEF EndInv
    <2>3. ServerInv' /\ ClientInv'
        BY <1>1, <1>2, <1>5 DEF ServerInv, ClientInv
    <2> QED BY <2>1, <2>2, <2>3 DEF ControlInv
  <1>6. CASE /\ upgrade = "reading" /\ told' = Append(told, OnConnection)
             /\ is_connected_' = TRUE /\ upgrade' = "ok"
    <2>1. told = <<>> /\ ~Ended(told) /\ OneEnd(told)
        BY <1>1, <1>6 DEF ClientInv, EndInv
    <2>2. PICK x : x = OnConnection
        OBVIOUS
    <2>3. x.what = "connection" /\ ~IsEnd(x)
        BY <2>2 DEF OnConnection, Told, IsEnd
    <2>4. told' = Append(told, x)
        BY <1>6, <2>2
    <2>5. IsSeq(told') /\ ~Ended(told') /\ OneEnd(told')
        BY <1>3, <2>1, <2>3, <2>4, TellMore
    <2>6. ToldInOrder(told', FALSE)
        BY <1>3, <2>1, <2>3, <2>4, TellInOrder
    <2>7. HereInv' /\ TypeInv'
        BY <1>1, <1>2, <1>6, <2>5 DEF HereInv, TypeInv, peerVars
    <2>8. EndInv'
        BY <1>1, <1>2, <1>3, <1>6, <2>5, <2>6, <2>7 DEF EndInv
    <2>9. ServerInv' /\ ClientInv'
        BY <1>1, <1>2, <1>6, <2>5 DEF ServerInv, ClientInv
    <2> QED BY <2>7, <2>8, <2>9 DEF ControlInv
  <1> QED BY <1>4, <1>5, <1>6 DEF ReadResponse

(* Whatever a cell is taken for is a header. *)
LEMMA JunkIsHeader ==
    ASSUME NEW junk \in Junk \cup {NoJunk}
    PROVE  junk \in HeaderCell
  <1>1. MaxFrames * 3 \in Nat
      BY ConnAssumption
  <1>2. ASSUME NEW op \in Ops, NEW fin \in BOOLEAN, NEW n \in Nat
        PROVE  Header(op, fin, FALSE, n) \in HeaderCell
      BY DEF Header, HeaderCell
  <1>3. {"BIN", "PING", "CLOSE"} \subseteq Ops /\ TRUE \in BOOLEAN /\ FALSE \in BOOLEAN
        /\ 0 \in Nat /\ 1 \in Nat
      BY DEF Ops
  <1>4. /\ Header("BIN", TRUE, FALSE, 0) \in HeaderCell /\ Header("PING", TRUE, FALSE, 1) \in HeaderCell
        /\ Header("CLOSE", TRUE, FALSE, 0) \in HeaderCell
        /\ Header("BIN", FALSE, FALSE, MaxFrames * 3) \in HeaderCell
      BY <1>1, <1>2, <1>3
  <1> QED BY <1>4 DEF Junk, NoJunk

(* The frames of one read: the calls keep what EndsOK says. *)
LEMMA ControlReadFrames ==
    ASSUME ControlInv, BaseOK(base), NEW data \in Seq(Cell), Up, tcp = "open", reading,
           upgrade = "ok" \/ (role = "server" /\ upgrade = "refused"), ReadFrames(data),
           UNCHANGED <<role, peerVars, reading, ping_age, held>>
    PROVE  ControlInv'
  <1>1. EndInv /\ TypeInv /\ HereInv /\ ServerInv /\ ClientInv
      BY DEF ControlInv, EndInv
  <1>2. PICK junk, h :
           /\ junk \in Junk \cup {NoJunk} /\ h = HandleFrame(base, data, junk)
           /\ Becomes(Applied(This, h.calls)[Len(h.calls)])
      BY DEF ReadFrames
  <1>3. junk \in HeaderCell
      BY <1>2, JunkIsHeader
  <1>4. CallsOK(h.calls)
      BY <1>2, <1>3, HandleFrameKeeps
  <1>5. PICK start, calls, e : start = This /\ calls = h.calls /\ e = Applied(start, calls)[Len(calls)]
      OBVIOUS
  <1>6. Reads(start)
    <2>1. /\ EndsOK(role, upgrade, start) /\ start.tcp = tcp /\ start.close_ = close_
          /\ start.told = told /\ start.ub = None
        BY <1>1, <1>5, EndIs, ThisIs DEF Up
    <2>2. ~close_
        BY <1>1 DEF EndInv
    <2>3. ~Ended(told)
        BY <1>1 DEF HereInv, EndInv, ClientInv
    <2> QED BY <2>1, <2>2, <2>3, ConnAssumption DEF Reads
  <1>7. role \in {"server", "client"} /\ (upgrade # "refused" \/ role = "server")
      BY <1>1 DEF HereInv
  <1>8. Reads(e)
      BY <1>4, <1>5, <1>6, <1>7, CallsKeep
  <1>9. Becomes(e)
      BY <1>2, <1>5
  <1>10. upgrade' = upgrade
      BY DEF ReadFrames
  <1>11. EndInv'
      BY <1>8, <1>9, <1>10, EndBecomes DEF Reads
  <1>12. HereInv'
      BY <1>1, <1>10 DEF HereInv, peerVars
  <1>13. ServerInv' /\ ClientInv'
    <2>1. /\ tcp' = e.tcp /\ close_' = e.close_ /\ told' = e.told /\ ub' = e.ub
          /\ is_connected_' = e.is_connected_
        BY <1>9 DEF Becomes
    <2>2. role = "server" => held
        BY <1>1 DEF EndInv, ServerInv, Up
    <2> QED BY <1>1, <1>7, <1>8, <1>10, <2>1, <2>2 DEF ServerInv, ClientInv, Reads, EndsOK
  <1> QED BY <1>11, <1>12, <1>13 DEF ControlInv
------------------------------------------------------------------------------
(* The wire.  Behind(q) are the headers in q that lie behind the end of an  *)
(* HTTP head: those of the frames that would be dropped with the upgrade.   *)
WireInv ==
    /\ in \in Seq(Cell) /\ http_recv_buffer_ \in Seq(Cell) /\ IsSeq(sent)
    /\ BaseOK(base) /\ ~PayloadIsReady(base.frame)
Behind(q) == {i \in 1..Len(q) : q[i].k = "H" /\ \E j \in 1..i : q[j].k = "end"}
HeadInv ==
    /\ skipped \in 0..Len(sent)
    /\ ~peer_upgrade => in = <<>> /\ http_recv_buffer_ = <<>>
    /\ upgrade = "reading" => Cardinality(Behind(http_recv_buffer_ \o in)) <= Len(sent)

(* A frame is a header and cells that are neither headers nor HTTP. *)
LEMMA FrameIsCells ==
    ASSUME NEW op \in Ops, NEW fin \in BOOLEAN, NEW mask \in BOOLEAN, NEW vs \in Seq(Int),
           NEW q, q = FrameCells(op, fin, vs, mask)
    PROVE  /\ q \in Seq(Cell) /\ Len(q) >= 1
           /\ \A i \in 1..Len(q) : q[i].k # "end" /\ (q[i].k = "H" => i = 1)
  <1>1. PICK h : h = Header(op, fin, mask, Len(vs))
      OBVIOUS
  <1>2. PICK k : k = IF mask THEN <<Key(1)>> ELSE <<>>
      OBVIOUS
  <1>3. PICK bit : bit = IF mask THEN 1 ELSE 0
      OBVIOUS
  <1>4. PICK p : p = [i \in DOMAIN vs |-> Payload(vs[i], bit)]
      OBVIOUS
  <1>5. q = (<<h>> \o k) \o p
      BY <1>1, <1>2, <1>3, <1>4 DEF FrameCells
  <1>6. h \in Cell /\ h.k = "H"
    <2>1. h = [k |-> "H", op |-> op, fin |-> fin, mask |-> mask, n |-> Len(vs)]
        BY <1>1 DEF Header
    <2>2. h \in HeaderCell
        BY <2>1 DEF HeaderCell
    <2> QED BY <2>1, <2>2 DEF Cell
  <1>7. k \in Seq(Cell) /\ \A i \in 1..Len(k) : k[i].k = "K"
    <2>1. Key(1) \in Cell /\ Key(1).k = "K"
        BY DEF Key, Cell
    <2>2. CASE mask = TRUE
      <3>1. PICK c : c = Key(1)
          OBVIOUS
      <3>2. k = <<c>> /\ c \in Cell /\ c.k = "K"
          BY <1>2, <2>1, <2>2, <3>1
      <3> QED BY <3>2
    <2>3. CASE mask = FALSE
      <3>1. k = <<>>
          BY <1>2, <2>3
      <3> QED BY <3>1
    <2> QED BY <2>2, <2>3
  <1>8. p \in Seq(Cell) /\ \A i \in 1..Len(p) : p[i].k = "P"
    <2>1. Len(vs) \in Nat /\ DOMAIN vs = 1..Len(vs) /\ \A i \in 1..Len(vs) : vs[i] \in Int
        OBVIOUS
    <2>2. bit \in {0, 1}
        BY <1>3
    <2>3. ASSUME NEW v \in Int PROVE Payload(v, bit) \in Cell /\ Payload(v, bit).k = "P"
        BY <2>2 DEF Payload, Cell
    <2>4. p = [i \in 1..Len(vs) |-> Payload(vs[i], bit)]
        BY <1>4, <2>1
    <2>5. \A i \in 1..Len(vs) : p[i] = Payload(vs[i], bit) /\ p[i] \in Cell /\ p[i].k = "P"
        BY <2>1, <2>3, <2>4
    <2>6. p \in [1..Len(vs) -> Cell]
        BY <2>4, <2>5
    <2>7. p \in Seq(Cell) /\ Len(p) = Len(vs)
        BY <2>1, <2>6
    <2> QED BY <2>5, <2>7
  <1>9. PICK a, b : a = <<h>> /\ b = a \o k
      OBVIOUS
  <1>10. a \in Seq(Cell) /\ Len(a) = 1 /\ a[1] = h
      BY <1>6, <1>9
  <1>11. /\ b \in Seq(Cell) /\ Len(b) = 1 + Len(k)
         /\ \A i \in 1..Len(b) : b[i] = IF i <= 1 THEN a[i] ELSE k[i - 1]
      BY <1>7, <1>9, <1>10, ConcatProperties
  <1>12. /\ q \in Seq(Cell) /\ Len(q) = Len(b) + Len(p)
         /\ \A i \in 1..Len(q) : q[i] = IF i <= Len(b) THEN b[i] ELSE p[i - Len(b)]
      BY <1>5, <1>8, <1>9, <1>11, ConcatProperties
  <1>13. Len(k) \in Nat /\ Len(p) \in Nat
      BY <1>7, <1>8
  <1>14. ASSUME NEW i \in 1..Len(q)
         PROVE  q[i].k # "end" /\ (q[i].k = "H" => i = 1)
    <2>1. CASE i <= Len(b) /\ i = 1
      <3>1. q[i] = h
          BY <1>10, <1>11, <1>12, <1>13, <2>1
      <3> QED BY <1>6, <2>1, <3>1
    <2>2. CASE i <= Len(b) /\ i # 1
      <3>1. q[i] = k[i - 1] /\ i - 1 \in 1..Len(k)
          BY <1>11, <1>12, <1>13, <2>2
      <3> QED BY <1>7, <3>1
    <2>3. CASE ~(i <= Len(b))
      <3>1. q[i] = p[i - Len(b)] /\ i - Len(b) \in 1..Len(p)
          BY <1>11, <1>12, <1>13, <2>3
      <3> QED BY <1>8, <3>1
    <2> QED BY <2>1, <2>2, <2>3
  <1> QED BY <1>11, <1>12, <1>13, <1>14

(* An HTTP head is two cells. *)
LEMMA HeadIsCells ==
    ASSUME NEW ok \in BOOLEAN, NEW q, q = HttpHead(ok)
    PROVE  q \in Seq(Cell) /\ Len(q) = 2 /\ q[1].k = "start" /\ q[2].k = "end"
  <1>1. PICK a, b : a = [k |-> "start", ok |-> ok] /\ b = [k |-> "end", ok |-> ok]
      OBVIOUS
  <1>2. a \in Cell /\ b \in Cell /\ a.k = "start" /\ b.k = "end"
      BY <1>1 DEF Cell
  <1>3. q = <<a, b>>
      BY <1>1 DEF HttpHead
  <1> QED BY <1>2, <1>3

(* Behind is finite. *)
LEMMA BehindIsFinite ==
    ASSUME NEW q, IsSeq(q)
    PROVE  IsFiniteSet(Behind(q)) /\ Cardinality(Behind(q)) \in Nat
  <1>1. Len(q) \in Nat
      BY SeqIs
  <1>2. IsFiniteSet(1..Len(q))
      BY <1>1, FS_Interval
  <1>3. Behind(q) \in SUBSET (1..Len(q))
      BY DEF Behind
  <1>4. IsFiniteSet(Behind(q))
      BY <1>2, <1>3, FS_Subset
  <1> QED BY <1>4, FS_CardinalityType

(* The peer's upgrade: nothing is behind it yet. *)
LEMMA WirePeerUpgrades == WireInv /\ HeadInv /\ PeerUpgrades => WireInv' /\ HeadInv'
  <1> SUFFICES ASSUME WireInv, HeadInv, PeerUpgrades PROVE WireInv' /\ HeadInv'
      OBVIOUS
  <1>1. PICK ok \in BOOLEAN, early \in BOOLEAN :
           in' = (IF early THEN FrameCells("PING", TRUE, <<0>>, TRUE) ELSE <<>>) \o HttpHead(ok)
      BY DEF PeerUpgrades
  <1>2. PICK c, q : /\ c = IF early THEN FrameCells("PING", TRUE, <<0>>, TRUE) ELSE <<>>
                    /\ q = HttpHead(ok)
      OBVIOUS
  <1>3. c \in Seq(Cell) /\ \A i \in 1..Len(c) : c[i].k # "end"
    <2>1. CASE early = TRUE
      <3>1. "PING" \in Ops /\ TRUE \in BOOLEAN /\ <<0>> \in Seq(Int)
          BY DEF Ops
      <3>2. PICK op, t, vs : op = "PING" /\ t = TRUE /\ vs = <<0>>
          OBVIOUS
      <3>3. c = FrameCells(op, t, vs, t) /\ op \in Ops /\ t \in BOOLEAN /\ vs \in Seq(Int)
          BY <1>2, <2>1, <3>1, <3>2
      <3> QED BY <3>3, FrameIsCells
    <2>2. CASE early = FALSE
      <3>1. c = <<>>
          BY <1>2, <2>2
      <3> QED BY <3>1
    <2> QED BY <2>1, <2>2
  <1>4. q \in Seq(Cell) /\ Len(q) = 2 /\ q[1].k = "start" /\ q[2].k = "end"
      BY <1>2, HeadIsCells
  <1>5. in' = c \o q
      BY <1>1, <1>2
  <1>6. /\ in' \in Seq(Cell) /\ Len(in') = Len(c) + 2
        /\ \A i \in 1..Len(in') : in'[i] = IF i <= Len(c) THEN c[i] ELSE q[i - Len(c)]
    <2>1. /\ c \o q \in Seq(Cell) /\ Len(c \o q) = Len(c) + Len(q)
          /\ \A i \in 1..(Len(c) + Len(q)) :
                (c \o q)[i] = IF i <= Len(c) THEN c[i] ELSE q[i - Len(c)]
        BY <1>3, <1>4, ConcatProperties
    <2> QED BY <1>4, <1>5, <2>1
  <1>7. WireInv'
      BY <1>6 DEF WireInv, PeerUpgrades
  <1>8. http_recv_buffer_' = <<>>
      BY DEF HeadInv, PeerUpgrades
  <1>9. http_recv_buffer_' \o in' = in'
      BY <1>6, <1>8
  <1>10. Behind(in') = {}
    <2>1. Len(c) \in Nat
        BY <1>3
    <2>2. ASSUME NEW i \in 1..Len(in'), in'[i].k = "end"
          PROVE  i = Len(c) + 2
      <3>1. CASE i <= Len(c)
          BY <1>3, <1>6, <2>1, <2>2, <3>1
      <3>2. CASE i = Len(c) + 1
        <4>1. in'[i] = q[1]
            BY <1>6, <2>1, <3>2
        <4> QED BY <1>4, <2>2, <4>1
      <3> QED BY <1>6, <2>1, <3>1, <3>2
    <2>3. in'[Len(c) + 2].k = "end"
      <3>1. in'[Len(c) + 2] = q[2]
          BY <1>6, <2>1
      <3> QED BY <1>4, <3>1
    <2>4. ASSUME NEW i \in 1..Len(in'), in'[i].k = "H", NEW j \in 1..i, in'[j].k = "end"
          PROVE  FALSE
      <3>1. j = Len(c) + 2
          BY <1>6, <2>1, <2>2, <2>4
      <3>2. i = Len(c) + 2
          BY <1>6, <2>1, <3>1
      <3> QED BY <2>3, <2>4, <3>2
    <2> QED BY <2>4 DEF Behind
  <1>11. Cardinality(Behind(http_recv_buffer_' \o in')) = 0
      BY <1>9, <1>10, FS_EmptySet
  <1>12. HeadInv'
    <2>1. Len(sent) \in Nat /\ sent' = sent /\ skipped' = skipped /\ peer_upgrade' = TRUE
        BY SeqIs DEF WireInv, PeerUpgrades
    <2>2. Cardinality(Behind(http_recv_buffer_ \o in))' = 0
        BY <1>11 DEF Behind
    <2> QED BY <2>1, <2>2 DEF HeadInv
  <1> QED BY <1>7, <1>12

(* A frame more on the wire is a header more at most. *)
LEMMA OneMoreBehind ==
    ASSUME NEW a \in Seq(Cell), NEW q \in Seq(Cell), \A i \in 1..Len(q) : q[i].k = "H" => i = 1,
           \A i \in 1..Len(q) : q[i].k # "end"
    PROVE  Cardinality(Behind(a \o q)) <= Cardinality(Behind(a)) + 1
  <1>1. PICK b : b = a \o q
      OBVIOUS
  <1>2. /\ b \in Seq(Cell) /\ Len(b) = Len(a) + Len(q) /\ Len(a) \in Nat /\ Len(q) \in Nat
        /\ \A i \in 1..Len(b) : b[i] = IF i <= Len(a) THEN a[i] ELSE q[i - Len(a)]
      BY <1>1, ConcatProperties
  <1>3. PICK n : n = Len(a) + 1
      OBVIOUS
  <1>4. Behind(b) \subseteq Behind(a) \cup {n}
    <2> SUFFICES ASSUME NEW i \in 1..Len(b), b[i].k = "H", NEW j \in 1..i, b[j].k = "end", i # n
                 PROVE  i \in Behind(a)
        BY DEF Behind
    <2>1. CASE i <= Len(a)
      <3>1. i \in 1..Len(a) /\ b[i] = a[i] /\ b[j] = a[j]
          BY <1>2, <2>1
      <3> QED BY <3>1 DEF Behind
    <2>2. CASE ~(i <= Len(a))
      <3>1. b[i] = q[i - Len(a)] /\ i - Len(a) \in 1..Len(q) /\ i - Len(a) # 1
          BY <1>2, <1>3, <2>2
      <3> QED BY <3>1
    <2> QED BY <2>1, <2>2
  <1>5. IsSeq(a)
      BY DEF IsSeq
  <1>6. IsFiniteSet(Behind(a)) /\ Cardinality(Behind(a)) \in Nat
      BY <1>5, BehindIsFinite
  <1>7. PICK S, B : B = Behind(a) /\ S = B \cup {n}
      OBVIOUS
  <1>8. IsFiniteSet(S) /\ Cardinality(S) <= Cardinality(Behind(a)) + 1
    <2>1. IsFiniteSet(B) /\ Cardinality(B) \in Nat
        BY <1>6, <1>7
    <2>2. /\ IsFiniteSet(S)
          /\ Cardinality(S) = IF n \in B THEN Cardinality(B) ELSE Cardinality(B) + 1
        BY <1>7, <2>1, FS_AddElement
    <2> QED BY <1>7, <2>1, <2>2
  <1>9. Cardinality(Behind(b)) <= Cardinality(S) /\ Cardinality(S) \in Nat /\ Cardinality(Behind(b)) \in Nat
      BY <1>4, <1>7, <1>8, FS_Subset, FS_CardinalityType
  <1> QED BY <1>1, <1>6, <1>8, <1>9

(* The frames a peer sends. *)
LEMMA PeerFrameIs ==
    ASSUME IsSeq(sent), NEW f \in PeerFrames
    PROVE  f.op \in Ops /\ f.fin \in BOOLEAN /\ f.v \in Seq(Int)
  <1>1. Len(sent) \in Nat
      BY SeqIs
  <1>2. PICK w : w = <<Len(sent) + 1>>
      OBVIOUS
  <1>3. w \in Seq(Int) /\ <<>> \in Seq(Int) /\ <<ValidCode>> \in Seq(Int)
      BY <1>1, <1>2 DEF ValidCode
  <1>4. CASE \E o \in {"CONT"} \cup DataOps, b \in BOOLEAN : f = [op |-> o, fin |-> b, v |-> w]
      BY <1>3, <1>4 DEF Ops, DataOps
  <1>5. CASE f \in {[op |-> "PING", fin |-> TRUE, v |-> w], [op |-> "PONG", fin |-> TRUE, v |-> <<>>],
                    [op |-> "CLOSE", fin |-> TRUE, v |-> <<ValidCode>>],
                    [op |-> "CLOSE", fin |-> TRUE, v |-> <<>>]}
    <2>1. CASE f = [op |-> "PING", fin |-> TRUE, v |-> w]
        BY <1>3, <2>1 DEF Ops
    <2>2. CASE f = [op |-> "PONG", fin |-> TRUE, v |-> <<>>]
        BY <1>3, <2>2 DEF Ops
    <2>3. CASE f = [op |-> "CLOSE", fin |-> TRUE, v |-> <<ValidCode>>]
        BY <1>3, <2>3 DEF Ops
    <2>4. CASE f = [op |-> "CLOSE", fin |-> TRUE, v |-> <<>>]
        BY <1>3, <2>4 DEF Ops
    <2> QED BY <1>5, <2>1, <2>2, <2>3, <2>4
  <1> QED BY <1>2, <1>4, <1>5 DEF PeerFrames

(* A frame of the peer: one more was sent, one more at most is behind the   *)
(* upgrade.                                                                 *)
LEMMA WirePeerSends == WireInv /\ HeadInv /\ PeerSends => WireInv' /\ HeadInv'
  <1> SUFFICES ASSUME WireInv, HeadInv, PeerSends PROVE WireInv' /\ HeadInv'
      OBVIOUS
  <1>1. PICK f \in PeerFrames :
           sent' = Append(sent, f) /\ in' = in \o FrameCells(f.op, f.fin, f.v, role = "server")
      BY DEF PeerSends
  <1>2. PICK op, fin, v, mask, q : /\ op = f.op /\ fin = f.fin /\ v = f.v /\ mask = (role = "server")
                                   /\ q = FrameCells(op, fin, v, mask)
      OBVIOUS
  <1>3. in' = in \o q
      BY <1>1, <1>2
  <1>4. op \in Ops /\ fin \in BOOLEAN /\ v \in Seq(Int) /\ mask \in BOOLEAN
      BY <1>2, PeerFrameIs DEF WireInv
  <1>5. /\ q \in Seq(Cell)
        /\ \A i \in 1..Len(q) : q[i].k # "end" /\ (q[i].k = "H" => i = 1)
    <2>1. q = FrameCells(op, fin, v, mask)
        BY <1>2
    <2> QED BY <1>4, <2>1, FrameIsCells
  <1>6. IsSeq(sent') /\ Len(sent') = Len(sent) + 1 /\ Len(sent) \in Nat
      BY <1>1, SeqAppend, SeqIs DEF WireInv
  <1>7. in' \in Seq(Cell)
      BY <1>3, <1>5, ConcatProperties DEF WireInv
  <1>8. WireInv'
      BY <1>6, <1>7 DEF WireInv, PeerSends
  <1>9. skipped' \in 0..Len(sent') /\ peer_upgrade'
      BY <1>6 DEF HeadInv, PeerSends
  <1>10. ASSUME upgrade = "reading"
         PROVE  Cardinality(Behind(http_recv_buffer_' \o in')) <= Len(sent')
    <2>1. PICK b, a, c : b = http_recv_buffer_ /\ a = b \o in /\ c = b \o (in \o q)
        OBVIOUS
    <2>2. b \in Seq(Cell) /\ in \in Seq(Cell)
        BY <2>1 DEF WireInv
    <2>3. a \in Seq(Cell)
        BY <2>1, <2>2, ConcatProperties
    <2>4. c = a \o q
        BY <1>5, <2>1, <2>2, ConcatAssociative
    <2>5. Cardinality(Behind(c)) <= Cardinality(Behind(a)) + 1
        BY <1>5, <2>3, <2>4, OneMoreBehind
    <2>6. Cardinality(Behind(a)) <= Len(sent)
        BY <1>10, <2>1 DEF HeadInv
    <2>7. IsSeq(a) /\ IsSeq(c)
      <3>1. c \in Seq(Cell)
          BY <1>5, <2>3, <2>4, ConcatProperties
      <3> QED BY <2>3, <3>1 DEF IsSeq
    <2>8. Cardinality(Behind(a)) \in Nat /\ Cardinality(Behind(c)) \in Nat
        BY <2>7, BehindIsFinite
    <2>9. http_recv_buffer_' \o in' = c
        BY <1>3, <2>1 DEF PeerSends
    <2> QED BY <1>6, <2>5, <2>6, <2>8, <2>9
  <1>11. upgrade' = "reading" => Cardinality(Behind(http_recv_buffer_ \o in))' <= Len(sent')
    <2>1. upgrade' = upgrade
        BY DEF PeerSends
    <2> QED BY <1>10, <2>1 DEF Behind
  <1>12. HeadInv'
      BY <1>9, <1>11 DEF HeadInv
  <1> QED BY <1>8, <1>12

(* A read takes a part of what is on the way. *)
LEMMA ReadTakes ==
    ASSUME NEW b \in Seq(Cell), NEW w \in Seq(Cell), NEW n \in 1..Len(w),
           NEW data, data = SubSeq(w, 1, n), NEW rest, rest = SubSeq(w, n + 1, Len(w)),
           NEW all, all = b \o data, NEW v, v = b \o w
    PROVE  /\ data \in Seq(Cell) /\ rest \in Seq(Cell) /\ all \in Seq(Cell)
           /\ w = data \o rest /\ Len(all) <= Len(v)
           /\ \A i \in 1..Len(all) : all[i] = v[i]
  <1>1. Len(w) \in Nat /\ n \in Nat /\ n <= Len(w) /\ \A i \in 1..Len(w) : w[i] \in Cell
      OBVIOUS
  <1>2. /\ data \in Seq(Cell) /\ Len(data) = n
        /\ \A i \in 1..n : data[i] = w[i]
    <2>1. \A i \in 1..n : w[i] \in Cell
        BY <1>1
    <2>2. /\ data \in Seq(Cell) /\ Len(data) = IF 1 <= n THEN n - 1 + 1 ELSE 0
          /\ \A i \in 1..(n - 1 + 1) : data[i] = w[1 + i - 1]
        BY <1>1, <2>1, SubSeqProperties
    <2>3. n - 1 + 1 = n /\ 1 <= n /\ \A i \in 1..n : 1 + i - 1 = i
        BY <1>1
    <2> QED BY <2>2, <2>3
  <1>3. /\ rest \in Seq(Cell) /\ Len(rest) = Len(w) - n
        /\ \A i \in 1..(Len(w) - n) : rest[i] = w[n + i]
    <2>1. \A i \in (n + 1)..Len(w) : w[i] \in Cell
        BY <1>1
    <2>2. /\ rest \in Seq(Cell) /\ Len(rest) = IF n + 1 <= Len(w) THEN Len(w) - (n + 1) + 1 ELSE 0
          /\ \A i \in 1..(Len(w) - (n + 1) + 1) : rest[i] = w[n + 1 + i - 1]
        BY <1>1, <2>1, SubSeqProperties
    <2>3. Len(w) - (n + 1) + 1 = Len(w) - n /\ \A i \in 1..(Len(w) - n) : n + 1 + i - 1 = n + i
        BY <1>1
    <2>4. Len(rest) = Len(w) - n
        BY <1>1, <2>2
    <2>5. ASSUME NEW i \in 1..(Len(w) - n) PROVE rest[i] = w[n + i]
        BY <2>2, <2>3
    <2> QED BY <2>2, <2>4, <2>5
  <1>4. data \o rest = w
    <2>1. PICK d : d = data \o rest
        OBVIOUS
    <2>2. /\ d \in Seq(Cell) /\ Len(d) = Len(w)
          /\ \A i \in 1..Len(w) : d[i] = IF i <= n THEN data[i] ELSE rest[i - n]
        BY <1>1, <1>2, <1>3, <2>1, ConcatProperties
    <2>3. \A i \in 1..Len(w) : d[i] = w[i]
      <3> SUFFICES ASSUME NEW i \in 1..Len(w) PROVE d[i] = w[i]
          OBVIOUS
      <3>1. CASE i <= n
          BY <1>1, <1>2, <2>2, <3>1
      <3>2. CASE ~(i <= n)
        <4>1. i - n \in 1..(Len(w) - n) /\ n + (i - n) = i
            BY <1>1, <3>2
        <4>2. rest[i - n] = w[i]
            BY <1>3, <4>1
        <4> QED BY <2>2, <3>2, <4>2
      <3> QED BY <3>1, <3>2
    <2> QED BY <2>1, <2>2, <2>3, SeqEqual
  <1>5. /\ b \o data \in Seq(Cell) /\ Len(b \o data) = Len(b) + n
        /\ \A i \in 1..(Len(b) + n) : (b \o data)[i] = IF i <= Len(b) THEN b[i] ELSE data[i - Len(b)]
      BY <1>2, ConcatProperties
  <1>6. /\ Len(b \o w) = Len(b) + Len(w)
        /\ \A i \in 1..(Len(b) + Len(w)) : (b \o w)[i] = IF i <= Len(b) THEN b[i] ELSE w[i - Len(b)]
      BY ConcatProperties
  <1>7. Len(b) \in Nat
      OBVIOUS
  <1>8. ASSUME NEW i \in 1..(Len(b) + n)
        PROVE  (b \o data)[i] = (b \o w)[i]
    <2>1. i \in 1..(Len(b) + Len(w))
        BY <1>1, <1>7
    <2>2. CASE i <= Len(b)
        BY <1>5, <1>6, <2>1, <2>2
    <2>3. CASE ~(i <= Len(b))
      <3>1. i - Len(b) \in 1..n
          BY <1>1, <1>7, <2>3
      <3> QED BY <1>2, <1>5, <1>6, <2>1, <2>3, <3>1
    <2> QED BY <2>2, <2>3
  <1>9. \A i \in 1..Len(b \o data) : (b \o data)[i] = (b \o w)[i]
      BY <1>5, <1>8
  <1>10. Len(b \o data) <= Len(b \o w)
      BY <1>1, <1>5, <1>6, <1>7
  <1> QED BY <1>2, <1>3, <1>4, <1>5, <1>9, <1>10

(* The first end of an HTTP head. *)
LEMMA HeadsIs ==
    ASSUME NEW q \in Seq(Cell), NEW e, e = Heads(q), e # 0
    PROVE  e \in 1..Len(q) /\ q[e].k = "end"
  <1>1. PICK T : T = {i \in 1..Len(q) : q[i].k = "end"}
      OBVIOUS
  <1>2. e = IF T # {} THEN Min(T) ELSE 0
      BY <1>1 DEF Heads, SelectInSeq
  <1>3. T \in SUBSET Nat /\ T # {}
      BY <1>1, <1>2
  <1>4. \E x \in T : \A y \in T : x <= y
      BY <1>3, Least
  <1>5. e \in T
      BY <1>2, <1>3, <1>4 DEF Min
  <1> QED BY <1>1, <1>5

(* What is dropped with the upgrade lay behind its head. *)
HeadersIn(q) == {i \in DOMAIN q : q[i].k = "H"}
LEMMA DropSkips ==
    ASSUME NEW q \in Seq(Cell), NEW w \in Seq(Cell), Len(q) <= Len(w),
           \A i \in 1..Len(q) : q[i] = w[i], NEW e \in 1..Len(q), q[e].k = "end",
           NEW rest, rest = SubSeq(q, e + 1, Len(q)),
           NEW S, S = HeadersIn(rest)
    PROVE  Cardinality(S) \in Nat /\ Cardinality(S) <= Cardinality(Behind(w))
  <1>1. Len(q) \in Nat /\ Len(w) \in Nat /\ e \in Nat /\ \A i \in 1..Len(q) : q[i] \in Cell
      OBVIOUS
  <1>2. PICK m : m = Len(q) - e
      OBVIOUS
  <1>3. rest \in Seq(Cell) /\ Len(rest) = m /\ m \in Nat
    <2>1. \A i \in (e + 1)..Len(q) : q[i] \in Cell
        BY <1>1
    <2>2. /\ rest \in Seq(Cell) /\ Len(rest) = IF e + 1 <= Len(q) THEN Len(q) - (e + 1) + 1 ELSE 0
        BY <1>1, <2>1, SubSeqProperties
    <2> QED BY <1>1, <1>2, <2>2
  <1>4. ASSUME NEW i \in 1..m PROVE rest[i] = w[e + i] /\ e + i \in 1..Len(w) /\ w[e].k = "end"
    <2>1. \A j \in (e + 1)..Len(q) : q[j] \in Cell
        BY <1>1
    <2>2. \A j \in 1..(Len(q) - (e + 1) + 1) : rest[j] = q[e + 1 + j - 1]
        BY <1>1, <2>1, SubSeqProperties
    <2>3. i \in 1..(Len(q) - (e + 1) + 1) /\ e + 1 + i - 1 = e + i /\ e + i \in 1..Len(q)
        BY <1>1, <1>2, <1>3
    <2>4. rest[i] = q[e + i]
        BY <2>2, <2>3
    <2>5. w[e] = q[e] /\ w[e + i] = q[e + i]
        BY <2>3
    <2>6. e + i \in 1..Len(w)
        BY <1>1, <2>3
    <2> QED BY <2>4, <2>5, <2>6
  <1>5. S \subseteq 1..m /\ \A i \in S : rest[i].k = "H"
      BY <1>3 DEF HeadersIn
  <1>6. PICK g : g = [i \in S |-> e + i]
      OBVIOUS
  <1>7. g \in [S -> Behind(w)]
    <2> SUFFICES ASSUME NEW i \in S PROVE e + i \in Behind(w)
        BY <1>6
    <2>1. i \in 1..m /\ rest[i].k = "H"
        BY <1>5
    <2>2. w[e + i].k = "H" /\ e + i \in 1..Len(w) /\ w[e].k = "end"
        BY <1>4, <2>1
    <2>3. e \in 1..(e + i)
        BY <1>1, <1>3, <2>1
    <2> QED BY <2>2, <2>3 DEF Behind
  <1>8. g \in Injection(S, Behind(w))
    <2>1. \A i, j \in S : g[i] = g[j] => i = j
        BY <1>1, <1>5, <1>6
    <2>2. DOMAIN g = S
        BY <1>6
    <2> QED BY <1>7, <2>1, <2>2 DEF Injection, IsInjective
  <1>9. IsSeq(w)
      BY DEF IsSeq
  <1>10. IsFiniteSet(Behind(w))
      BY <1>9, BehindIsFinite
  <1>11. IsFiniteSet(S) /\ Cardinality(S) <= Cardinality(Behind(w))
      BY <1>8, <1>10, FS_Injection
  <1> QED BY <1>11, FS_CardinalityType

(* What leaves the wire alone. *)
LEMMA WireStutters ==
    ASSUME WireInv, HeadInv,
           UNCHANGED <<sent, in, http_recv_buffer_, base, upgrade, skipped, peer_upgrade>>
    PROVE  WireInv' /\ HeadInv'
  <1>1. WireInv'
      BY DEF WireInv
  <1>2. HeadInv'
    <2>1. Cardinality(Behind(http_recv_buffer_ \o in))' = Cardinality(Behind(http_recv_buffer_ \o in))
        BY DEF Behind
    <2> QED BY <2>1 DEF HeadInv
  <1> QED BY <1>1, <1>2

(* A read outside the frames: the head goes on, is refused, or is taken     *)
(* with all that this read has behind it.                                   *)
LEMMA WireReadHead ==
    ASSUME WireInv, HeadInv, upgrade # "ok", peer_upgrade, NEW n \in 1..Len(in),
           in' = SubSeq(in, n + 1, Len(in)), UNCHANGED <<peerVars, base>>,
           NEW all, all = http_recv_buffer_ \o SubSeq(in, 1, n),
           \/ /\ upgrade = "reading"
              /\ Heads(all) = 0 /\ http_recv_buffer_' = all /\ UNCHANGED <<upgrade, skipped>>
           \/ upgrade' = "refused" /\ UNCHANGED <<http_recv_buffer_, skipped>>
           \/ /\ upgrade = "reading" /\ Heads(all) # 0
              /\ Drop(SubSeq(all, Heads(all) + 1, Len(all))) /\ upgrade' \in {"ok", "refused"}
    PROVE  WireInv' /\ HeadInv'
  <1>1. PICK b, w, data, rest : /\ b = http_recv_buffer_ /\ w = in
                                /\ data = SubSeq(in, 1, n) /\ rest = SubSeq(in, n + 1, Len(in))
      OBVIOUS
  <1>2. b \in Seq(Cell) /\ w \in Seq(Cell) /\ n \in 1..Len(w) /\ data = SubSeq(w, 1, n)
        /\ rest = SubSeq(w, n + 1, Len(w)) /\ all = b \o data /\ in' = rest
      BY <1>1 DEF WireInv
  <1>3. /\ rest \in Seq(Cell) /\ all \in Seq(Cell) /\ all \o rest = b \o w
        /\ Len(all) <= Len(b \o w) /\ \A i \in 1..Len(all) : all[i] = (b \o w)[i]
    <2>1. PICK v : v = b \o w
        OBVIOUS
    <2>2. b \in Seq(Cell) /\ w \in Seq(Cell) /\ n \in 1..Len(w) /\ data = SubSeq(w, 1, n)
          /\ rest = SubSeq(w, n + 1, Len(w)) /\ all = b \o data
        BY <1>2
    <2>3. rest \in Seq(Cell) /\ all \in Seq(Cell)
        BY ONLY <2>1, <2>2, ReadTakes
    <2>4. all \o rest = v
      <3>1. w = data \o rest /\ data \in Seq(Cell)
          BY ONLY <2>2, ReadTakes
      <3>2. b \in Seq(Cell) /\ data \in Seq(Cell) /\ rest \in Seq(Cell)
          BY <2>2, <2>3, <3>1
      <3>3. (b \o data) \o rest = b \o (data \o rest)
          BY ONLY <3>2, ConcatAssociative, SMTT(30)
      <3> QED BY <2>1, <2>2, <3>1, <3>3
    <2>5. Len(all) <= Len(v)
        BY ONLY <2>1, <2>2, ReadTakes
    <2>6. \A i \in 1..Len(all) : all[i] = v[i]
        BY ONLY <2>1, <2>2, ReadTakes
    <2> QED BY ONLY <2>1, <2>3, <2>4, <2>5, <2>6
  <1>4. sent' = sent /\ peer_upgrade' = peer_upgrade /\ base' = base
      BY DEF peerVars
  <1>5. Len(sent) \in Nat
      BY SeqIs DEF WireInv
  <1>6. CASE /\ upgrade = "reading"
             /\ Heads(all) = 0 /\ http_recv_buffer_' = all /\ UNCHANGED <<upgrade, skipped>>
    <2>1. WireInv'
        BY <1>2, <1>3, <1>4, <1>6 DEF WireInv
    <2>2. http_recv_buffer_' \o in' = http_recv_buffer_ \o in
        BY <1>1, <1>2, <1>3, <1>6
    <2>3. Cardinality(Behind(http_recv_buffer_ \o in))' = Cardinality(Behind(http_recv_buffer_ \o in))
        BY <2>2 DEF Behind
    <2>4. HeadInv'
        BY <1>4, <1>6, <2>3 DEF HeadInv
    <2> QED BY <2>1, <2>4
  <1>7. CASE upgrade' = "refused" /\ UNCHANGED <<http_recv_buffer_, skipped>>
    <2>1. WireInv'
        BY <1>2, <1>3, <1>4, <1>7 DEF WireInv
    <2>2. HeadInv'
        BY <1>4, <1>7 DEF HeadInv
    <2> QED BY <2>1, <2>2
  <1>8. CASE /\ upgrade = "reading" /\ Heads(all) # 0
             /\ Drop(SubSeq(all, Heads(all) + 1, Len(all))) /\ upgrade' \in {"ok", "refused"}
    <2>1. PICK e, r : e = Heads(all) /\ r = SubSeq(all, e + 1, Len(all))
        OBVIOUS
    <2>2. e \in 1..Len(all) /\ all[e].k = "end"
        BY <1>3, <1>8, <2>1, HeadsIs
    <2>3. http_recv_buffer_' = <<>> /\ skipped' = Cardinality(HeadersIn(r))
        BY <1>8, <2>1 DEF Drop, HeadersIn
    <2>4. PICK v, S : v = b \o w /\ S = HeadersIn(r)
        OBVIOUS
    <2>5. v \in Seq(Cell)
        BY <1>2, <2>4, ConcatProperties
    <2>6. Len(all) <= Len(v) /\ \A i \in 1..Len(all) : all[i] = v[i]
        BY <1>3, <2>4
    <2>7. Cardinality(S) \in Nat /\ Cardinality(S) <= Cardinality(Behind(v))
      <3>1. all \in Seq(Cell) /\ r = SubSeq(all, e + 1, Len(all)) /\ S = HeadersIn(r)
          BY <1>3, <2>1, <2>4
      <3> QED BY ONLY <2>2, <2>5, <2>6, <3>1, DropSkips
    <2>8. Cardinality(Behind(v)) <= Len(sent)
        BY <1>1, <1>8, <2>4 DEF HeadInv
    <2>9. IsSeq(v)
        BY <2>5 DEF IsSeq
    <2>10. Cardinality(Behind(v)) \in Nat
        BY <2>9, BehindIsFinite
    <2>11. skipped' \in 0..Len(sent)
        BY <1>5, <2>3, <2>4, <2>7, <2>8, <2>10
    <2>12. HeadInv'
        BY <1>4, <1>8, <2>11 DEF HeadInv
    <2>13. WireInv'
      <3>1. http_recv_buffer_' \in Seq(Cell)
          BY <2>3
      <3> QED BY <1>2, <1>3, <1>4, <3>1 DEF WireInv
    <2> QED BY <2>12, <2>13
  <1> QED BY <1>6, <1>7, <1>8

(* A read of frames leaves less than a frame in the parser. *)
LEMMA WireReadFrames ==
    ASSUME WireInv, HeadInv, upgrade # "reading", peer_upgrade, NEW n \in 1..Len(in),
           in' = SubSeq(in, n + 1, Len(in)), UNCHANGED peerVars, ReadFrames(SubSeq(in, 1, n))
    PROVE  WireInv' /\ HeadInv'
  <1>1. PICK w, data, rest : /\ w = in /\ data = SubSeq(in, 1, n)
                             /\ rest = SubSeq(in, n + 1, Len(in))
      OBVIOUS
  <1>2. w \in Seq(Cell) /\ n \in 1..Len(w) /\ data = SubSeq(w, 1, n)
        /\ rest = SubSeq(w, n + 1, Len(w)) /\ in' = rest
      BY <1>1 DEF WireInv
  <1>3. data \in Seq(Cell) /\ rest \in Seq(Cell)
      BY <1>2, ReadTakes
  <1>4. PICK junk, h : /\ junk \in Junk \cup {NoJunk}
                       /\ h = HandleFrame(base, data, junk) /\ base' = h.base
      BY <1>1 DEF ReadFrames
  <1>5. junk \in HeaderCell
      BY <1>4, JunkIsHeader
  <1>6. BaseOK(base') /\ ~PayloadIsReady(base'.frame)
      BY <1>3, <1>4, <1>5, HandleFrameKeeps DEF WireInv
  <1>7. sent' = sent /\ peer_upgrade' = peer_upgrade
        /\ UNCHANGED <<upgrade, http_recv_buffer_, skipped>>
      BY DEF peerVars, ReadFrames
  <1>8. WireInv'
      BY <1>2, <1>3, <1>6, <1>7 DEF WireInv
  <1>9. HeadInv'
      BY <1>7 DEF HeadInv
  <1> QED BY <1>8, <1>9

(* A read keeps the whole invariant. *)
LEMMA WireOnRead == ControlInv /\ WireInv /\ HeadInv /\ OnRead => ControlInv' /\ WireInv' /\ HeadInv'
  <1> SUFFICES ASSUME ControlInv, WireInv, HeadInv, OnRead PROVE ControlInv' /\ WireInv' /\ HeadInv'
      OBVIOUS
  <1>1. Up /\ tcp = "open" /\ reading /\ peer_upgrade
        /\ UNCHANGED <<role, peerVars, reading, ping_age, held>>
      BY DEF OnRead, HeadInv
  <1>2. PICK n \in 1..Len(in) :
          /\ in' = SubSeq(in, n + 1, Len(in))
          /\ \/ role = "server" /\ upgrade = "reading" /\ ReadRequest(SubSeq(in, 1, n))
             \/ role = "client" /\ upgrade # "ok" /\ ReadResponse(SubSeq(in, 1, n))
             \/ /\ upgrade = "ok" \/ (role = "server" /\ upgrade = "refused")
                /\ ReadFrames(SubSeq(in, 1, n))
      BY DEF OnRead
  <1>3. PICK data, all : data = SubSeq(in, 1, n) /\ all = http_recv_buffer_ \o data
      OBVIOUS
  <1>4. CASE role = "server" /\ upgrade = "reading" /\ ReadRequest(data)
    <2>1. ControlInv'
        BY <1>1, <1>4, ControlReadRequest
    <2>2. \/ Heads(all) = 0 /\ http_recv_buffer_' = all /\ UNCHANGED <<upgrade, skipped>>
          \/ /\ Heads(all) # 0 /\ Drop(SubSeq(all, Heads(all) + 1, Len(all)))
             /\ upgrade' \in {"ok", "refused"}
        BY <1>3, <1>4 DEF ReadRequest
    <2>3. UNCHANGED <<peerVars, base>>
        BY <1>1, <1>4 DEF ReadRequest
    <2>4. WireInv' /\ HeadInv'
        BY <1>1, <1>2, <1>3, <1>4, <2>2, <2>3, WireReadHead
    <2> QED BY <2>1, <2>4
  <1>5. CASE role = "client" /\ upgrade # "ok" /\ ReadResponse(data)
    <2>1. ControlInv'
        BY <1>1, <1>5, ControlReadResponse
    <2>2. \/ /\ upgrade = "reading"
             /\ Heads(all) = 0 /\ http_recv_buffer_' = all /\ UNCHANGED <<upgrade, skipped>>
          \/ upgrade' = "refused" /\ UNCHANGED <<http_recv_buffer_, skipped>>
          \/ /\ upgrade = "reading" /\ Heads(all) # 0
             /\ Drop(SubSeq(all, Heads(all) + 1, Len(all))) /\ upgrade' \in {"ok", "refused"}
        BY <1>3, <1>5 DEF ReadResponse, Refuse
    <2>3. UNCHANGED <<peerVars, base>>
        BY <1>1, <1>5 DEF ReadResponse
    <2>4. WireInv' /\ HeadInv'
        BY <1>1, <1>2, <1>3, <1>5, <2>2, <2>3, WireReadHead
    <2> QED BY <2>1, <2>4
  <1>6. CASE /\ upgrade = "ok" \/ (role = "server" /\ upgrade = "refused")
             /\ ReadFrames(data)
    <2>1. data \in Seq(Cell)
      <3>1. PICK w, rest : w = in /\ rest = SubSeq(w, n + 1, Len(w))
          OBVIOUS
      <3>2. w \in Seq(Cell) /\ n \in 1..Len(w) /\ data = SubSeq(w, 1, n)
          BY <1>3, <3>1 DEF WireInv
      <3> QED BY ONLY <3>1, <3>2, ReadTakes
    <2>2. BaseOK(base)
        BY DEF WireInv
    <2>3. ControlInv'
        BY <1>1, <1>6, <2>1, <2>2, ControlReadFrames
    <2>4. WireInv' /\ HeadInv'
        BY <1>1, <1>2, <1>3, <1>6, WireReadFrames
    <2> QED BY <2>3, <2>4
  <1> QED BY <1>2, <1>3, <1>4, <1>5, <1>6

------------------------------------------------------------------------------
(* All of it. *)
Inv == ControlInv /\ WireInv /\ HeadInv

(* The invariant holds at the start, *)
LEMMA InvInit == Init => Inv
  <1> SUFFICES ASSUME Init PROVE Inv
      OBVIOUS
  <1>1. ControlInv
      BY ControlInit
  <1>2. PICK nil : nil = <<>>
      OBVIOUS
  <1>3. nil \in Seq(Cell) /\ Len(nil) = 0 /\ nil \o nil = nil /\ IsSeq(nil)
      BY <1>2, NothingTold
  <1>4. in = nil /\ http_recv_buffer_ = nil /\ sent = nil /\ skipped = 0 /\ base = NewBase
      BY <1>2 DEF Init
  <1>5. FrameOK(NewFrame) /\ ~PayloadIsReady(NewFrame)
      BY <1>2, <1>3 DEF NewFrame, FrameOK, PayloadIsReady
  <1>6. BaseOK(NewBase) /\ ~PayloadIsReady(NewBase.frame)
      BY <1>2, <1>3, <1>5 DEF NewBase, BaseOK, DataOps
  <1>7. WireInv
      BY <1>3, <1>4, <1>6 DEF WireInv
  <1>8. Behind(nil) = {}
      BY <1>3 DEF Behind
  <1>9. Cardinality(Behind(http_recv_buffer_ \o in)) = 0
      BY <1>3, <1>4, <1>8, FS_EmptySet
  <1>10. HeadInv
      BY <1>2, <1>3, <1>4, <1>9 DEF HeadInv
  <1> QED BY <1>1, <1>7, <1>10 DEF Inv

(* is kept by every step, *)
LEMMA InvNext == Inv /\ [Next]_vars => Inv'
  <1> SUFFICES ASSUME Inv, [Next]_vars PROVE Inv'
      OBVIOUS
  <1>1. ControlInv /\ WireInv /\ HeadInv /\ HereInv
      BY DEF Inv, ControlInv
  <1>2. CASE PeerUpgrades
    <2>1. ControlInv'
        BY <1>1, <1>2, ControlStutters DEF PeerUpgrades, HereInv
    <2> QED BY <1>1, <1>2, <2>1, WirePeerUpgrades DEF Inv
  <1>3. CASE PeerSends
    <2>1. ControlInv'
        BY <1>1, <1>3, ControlStutters DEF PeerSends, HereInv
    <2> QED BY <1>1, <1>3, <2>1, WirePeerSends DEF Inv
  <1>4. CASE PeerGoes
    <2>1. ControlInv'
        BY <1>1, <1>4, ControlStutters DEF PeerGoes
    <2>2. WireInv' /\ HeadInv'
        BY <1>1, <1>4, WireStutters DEF PeerGoes
    <2> QED BY <2>1, <2>2 DEF Inv
  <1>5. CASE Connected
    <2>1. WireInv' /\ HeadInv'
        BY <1>1, <1>5, WireStutters DEF Connected, peerVars
    <2> QED BY <1>1, <1>5, <2>1, ControlConnected DEF Inv
  <1>6. CASE OnRead
      BY <1>1, <1>6, WireOnRead DEF Inv
  <1>7. CASE OnReadEnd
    <2>1. WireInv' /\ HeadInv'
        BY <1>1, <1>7, WireStutters DEF OnReadEnd, peerVars
    <2> QED BY <1>1, <1>7, <2>1, ControlOnReadEnd DEF Inv
  <1>8. CASE OnWrite
    <2>1. WireInv' /\ HeadInv'
        BY <1>1, <1>8, WireStutters DEF OnWrite, peerVars
    <2> QED BY <1>1, <1>8, <2>1, ControlOnWrite DEF Inv
  <1>9. CASE Tick
    <2>1. WireInv' /\ HeadInv'
        BY <1>1, <1>9, WireStutters DEF Tick, peerVars
    <2> QED BY <1>1, <1>9, <2>1, ControlTick DEF Inv
  <1>10. CASE OnTimer
    <2>1. WireInv' /\ HeadInv'
        BY <1>1, <1>10, WireStutters DEF OnTimer, peerVars
    <2> QED BY <1>1, <1>10, <2>1, ControlOnTimer DEF Inv
  <1>11. CASE ServerOnTimer \/ OnAcceptAgain
    <2>1. Up /\ held /\ Destroyed
        BY <1>11 DEF ServerOnTimer, OnAcceptAgain
    <2>2. WireInv' /\ HeadInv'
        BY <1>1, <2>1, WireStutters DEF Destroyed, peerVars
    <2> QED BY <1>1, <2>1, <2>2, ControlDestroyed DEF Inv
  <1>12. CASE AppWrites
    <2>1. WireInv' /\ HeadInv'
        BY <1>1, <1>12, WireStutters DEF AppWrites, peerVars
    <2> QED BY <1>1, <1>12, <2>1, ControlAppWrites DEF Inv
  <1>13. CASE UNCHANGED vars
    <2>1. ControlInv'
        BY <1>1, <1>13, ControlStutters DEF vars, peerVars, HereInv
    <2>2. WireInv' /\ HeadInv'
        BY <1>1, <1>13, WireStutters DEF vars, peerVars
    <2> QED BY <2>1, <2>2 DEF Inv
  <1> QED BY <1>2, <1>3, <1>4, <1>5, <1>6, <1>7, <1>8, <1>9, <1>10, <1>11, <1>12, <1>13 DEF Next

(* and so holds always. *)
LEMMA Invariance == Spec => []Inv
  BY InvInit, InvNext, PTL DEF Spec

(* Types; what HandleFrame leaves in the parser (frame_, between two reads) *)
(* is always less than a frame, for every stream and every split of it; and *)
(* no more frames are dropped with the upgrade than the peer has sent.      *)
THEOREM TypeCorrect == Spec => []TypeOK
  <1>1. Inv => TypeOK
    <2> SUFFICES ASSUME Inv PROVE TypeOK
        OBVIOUS
    <2>1. HereInv /\ TypeInv /\ WireInv /\ HeadInv
        BY DEF Inv, ControlInv, EndInv
    <2>2. base.last_op \in DataOps /\ ~PayloadIsReady(base.frame) /\ skipped \in 0..Len(sent)
        BY <2>1 DEF WireInv, HeadInv, BaseOK
    <2> QED BY <2>1, <2>2 DEF TypeOK, HereInv, TypeInv
  <1> QED BY <1>1, Invariance, PTL

(* A set whose elements are all the same has one at most. *)
LEMMA AtMostOne ==
    ASSUME NEW T, \A i, j \in T : i = j
    PROVE  Cardinality(T) <= 1
  <1>1. CASE T = {}
      BY <1>1, FS_EmptySet
  <1>2. CASE T # {}
    <2>1. PICK x : x \in T
        BY <1>2
    <2>2. T = {x}
        BY <2>1
    <2>3. Cardinality({x}) = 1
        BY FS_Singleton
    <2> QED BY <2>2, <2>3
  <1> QED BY <1>1, <1>2

(* How a connection ends, at both ends and for any number of frames: one    *)
(* OnClose at the client (WebSocketClient::OnRead, OnTimer, HandleWsClose), *)
(* after the one OnConnection; one CLOSE in answer at the session           *)
(* (WebSocketSession::HandleWsClose); no frame of the client, and without a *)
(* CLOSE none of the session's own, that libuv refuses; and a write of the  *)
(* application refused only after a CLOSE or a read error, at the client    *)
(* only once it was told.                                                   *)
THEOREM EndsAreClean == Spec => []EndsCleanly
  <1>1. Inv => EndsCleanly
    <2> SUFFICES ASSUME Inv PROVE EndsCleanly
        OBVIOUS
    <2>1. EndInv /\ TypeInv /\ HereInv /\ ServerInv /\ ClientInv
        BY DEF Inv, ControlInv, EndInv
    <2>2. DOMAIN told = 1..Len(told) /\ DOMAIN out = 1..Len(out)
        BY <2>1, SeqIs DEF TypeInv
    <2>3. PICK closes : closes = {i \in DOMAIN told : told[i].what = "close"}
        OBVIOUS
    <2>4. upgrade # "refused" => Cardinality(closes) <= 1
      <3> SUFFICES ASSUME upgrade # "refused" PROVE Cardinality(closes) <= 1
          OBVIOUS
      <3>1. \A i, j \in closes : i = j
          BY <2>1, <2>2, <2>3 DEF EndInv, OneEnd, IsEnd
      <3> QED BY <3>1, AtMostOne
    <2>5. PICK replies : replies = {i \in DOMAIN out : out[i].op = "CLOSE"}
        OBVIOUS
    <2>6. Cardinality(replies) <= 1
      <3>1. \A i, j \in replies : i = j
          BY <2>1, <2>2, <2>5 DEF EndInv, OneClose
      <3> QED BY <3>1, AtMostOne
    <2>7. \A i \in DOMAIN told : told[i].what = "connection" => i = 1
        BY <2>1, <2>2 DEF EndInv, ToldInOrder
    <2>8. \A i \in closes, j \in DOMAIN told : told[j].what = "data" /\ j > i => close_
        BY <2>1, <2>2, <2>3 DEF EndInv, ToldInOrder, IsEnd
    <2>9. role = "client" /\ ub # None => ub = "TEXT" /\ closes # {}
      <3>1. Ended(told) => closes # {}
          BY <2>2, <2>3 DEF Ended, IsEnd
      <3> QED BY <2>1, <3>1 DEF EndInv
    <2>10. ub \in {"PING", "PONG", "destroyed"} => close_
        BY <2>1 DEF EndInv
    <2>11. ub = "TEXT" => close_ \/ (tcp = "broken" /\ ~is_connected_)
        BY <2>1 DEF EndInv
    <2>12. ub # "CLOSE"
        BY <2>1 DEF EndInv
    <2> QED BY <2>3, <2>4, <2>5, <2>6, <2>7, <2>8, <2>9, <2>10, <2>11, <2>12 DEF EndsCleanly
  <1> QED BY <1>1, Invariance, PTL
------------------------------------------------------------------------------
(* The recursion of Picks. *)
IsPicks(p, s, I, n) ==
    p = [i \in 0..n |-> IF i = 0 THEN <<>> ELSE IF i \in I THEN Append(p[i - 1], s[i]) ELSE p[i - 1]]

(* It has a solution. *)
LEMMA PicksExist ==
    ASSUME NEW s, NEW I, NEW n \in Nat
    PROVE  \E p : IsPicks(p, s, I, n)
  <1>1. PICK T : T = {m \in 0..n : \E p : IsPicks(p, s, I, m)}
      OBVIOUS
  <1>2. 0 \in T
    <2>1. PICK p : p = [i \in 0..0 |-> <<>>]
        OBVIOUS
    <2>2. \A i \in 0..0 : i = 0
        OBVIOUS
    <2>3. p = [i \in 0..0 |-> IF i = 0 THEN <<>> ELSE IF i \in I THEN Append(p[i - 1], s[i]) ELSE p[i - 1]]
        BY <2>1, <2>2
    <2> QED BY <1>1, <2>3 DEF IsPicks
  <1>3. \A m \in 1..n : m - 1 \in T => m \in T
    <2> SUFFICES ASSUME NEW m \in 1..n, m - 1 \in T PROVE m \in T
        OBVIOUS
    <2>1. PICK p : IsPicks(p, s, I, m - 1)
        BY <1>1
    <2>2. PICK x : x = IF m \in I THEN Append(p[m - 1], s[m]) ELSE p[m - 1]
        OBVIOUS
    <2>3. PICK r : r = [i \in 0..m |-> IF i = m THEN x ELSE p[i]]
        OBVIOUS
    <2>4. \A i \in 0..(m - 1) :
             p[i] = IF i = 0 THEN <<>> ELSE IF i \in I THEN Append(p[i - 1], s[i]) ELSE p[i - 1]
        BY <2>1 DEF IsPicks
    <2>5. ASSUME NEW i \in 0..m
          PROVE  r[i] = IF i = 0 THEN <<>> ELSE IF i \in I THEN Append(r[i - 1], s[i]) ELSE r[i - 1]
      <3>1. CASE i = m
        <4>1. m - 1 \in 0..m /\ m - 1 # m /\ i # 0
            BY <3>1
        <4>2. r[m - 1] = p[m - 1] /\ r[m] = x
            BY <2>3, <4>1
        <4> QED BY <2>2, <3>1, <4>1, <4>2
      <3>2. CASE i # m
        <4>1. i \in 0..(m - 1) /\ r[i] = p[i]
            BY <2>3, <3>2
        <4>2. i # 0 => i - 1 \in 0..m /\ i - 1 # m
            BY <4>1
        <4>3. i # 0 => r[i - 1] = p[i - 1]
            BY <2>3, <4>2
        <4> QED BY <2>4, <4>1, <4>3
      <3> QED BY <3>1, <3>2
    <2>6. r = [i \in 0..m |-> r[i]]
        BY <2>3
    <2>7. IsPicks(r, s, I, m)
        BY <2>5, <2>6 DEF IsPicks
    <2> QED BY <1>1, <2>7
  <1>4. n \in T
      BY <1>2, <1>3, UpTo
  <1> QED BY <1>1, <1>4

(* So Picks goes through s from member to member; each part is a sequence. *)
LEMMA PicksAre ==
    ASSUME NEW s, NEW I, NEW n \in Nat, n = Len(s)
    PROVE  /\ Picks(s, I)[0] = <<>>
           /\ \A i \in 1..n : Picks(s, I)[i] = IF i \in I THEN Append(Picks(s, I)[i - 1], s[i])
                                               ELSE Picks(s, I)[i - 1]
           /\ \A i \in 0..n : IsSeq(Picks(s, I)[i])
  <1>1. PICK p : IsPicks(p, s, I, n)
      BY PicksExist
  <1>2. PICK r : r = Picks(s, I)
      OBVIOUS
  <1>3. r = [i \in 0..n |-> IF i = 0 THEN <<>> ELSE IF i \in I THEN Append(r[i - 1], s[i]) ELSE r[i - 1]]
      BY <1>1, <1>2 DEF IsPicks, Picks
  <1>4. r[0] = <<>>
      BY <1>3
  <1>5. \A i \in 1..n : r[i] = IF i \in I THEN Append(r[i - 1], s[i]) ELSE r[i - 1]
    <2> SUFFICES ASSUME NEW i \in 1..n
                 PROVE  r[i] = IF i \in I THEN Append(r[i - 1], s[i]) ELSE r[i - 1]
        OBVIOUS
    <2>1. i \in 0..n /\ i # 0
        OBVIOUS
    <2> QED BY <1>3, <2>1, Zenon
  <1>6. PICK T : T = {i \in 0..n : IsSeq(r[i])}
      OBVIOUS
  <1>7. 0 \in T
      BY <1>4, <1>6, NothingTold
  <1>8. \A i \in 1..n : i - 1 \in T => i \in T
    <2> SUFFICES ASSUME NEW i \in 1..n, i - 1 \in T PROVE i \in T
        OBVIOUS
    <2>1. IsSeq(r[i - 1])
        BY <1>6
    <2>2. IsSeq(Append(r[i - 1], s[i]))
        BY <2>1, SeqAppend
    <2>3. IsSeq(r[i])
        BY <1>5, <2>1, <2>2
    <2> QED BY <1>6, <2>3
  <1>9. \A i \in 0..n : i \in T
      BY ONLY <1>7, <1>8, UpTo
  <1>10. \A i \in 0..n : IsSeq(r[i])
      BY <1>6, <1>9
  <1> QED BY <1>2, <1>4, <1>5, <1>10

(* What is picked among the first m depends on no others. *)
LEMMA PicksAgree ==
    ASSUME NEW s, NEW I, NEW t, NEW J, Len(s) \in Nat, Len(t) \in Nat, NEW m \in Nat,
           m <= Len(s), m <= Len(t),
           \A i \in 1..m : (i \in I <=> i \in J) /\ (i \in I => s[i] = t[i])
    PROVE  Picks(s, I)[m] = Picks(t, J)[m]
  <1>1. PICK p, q, k, l : p = Picks(s, I) /\ q = Picks(t, J) /\ k = Len(s) /\ l = Len(t)
      OBVIOUS
  <1>2. /\ p[0] = <<>> /\ k \in Nat
        /\ \A i \in 1..k : p[i] = IF i \in I THEN Append(p[i - 1], s[i]) ELSE p[i - 1]
      BY <1>1, PicksAre
  <1>3. /\ q[0] = <<>> /\ l \in Nat
        /\ \A i \in 1..l : q[i] = IF i \in J THEN Append(q[i - 1], t[i]) ELSE q[i - 1]
      BY <1>1, PicksAre
  <1>4. PICK T : T = {i \in 0..m : p[i] = q[i]}
      OBVIOUS
  <1>5. 0 \in T
      BY <1>2, <1>3, <1>4
  <1>6. \A i \in 1..m : i - 1 \in T => i \in T
    <2> SUFFICES ASSUME NEW i \in 1..m, i - 1 \in T PROVE i \in T
        OBVIOUS
    <2>1. i \in 1..k /\ i \in 1..l /\ i \in 0..m
        BY <1>1, <1>2, <1>3
    <2>2. p[i - 1] = q[i - 1]
        BY <1>4
    <2>3. p[i] = IF i \in I THEN Append(p[i - 1], s[i]) ELSE p[i - 1]
        BY <1>2, <2>1
    <2>4. q[i] = IF i \in J THEN Append(q[i - 1], t[i]) ELSE q[i - 1]
        BY <1>3, <2>1
    <2>5. p[i] = q[i]
        BY <2>2, <2>3, <2>4
    <2> QED BY <1>4, <2>1, <2>5
  <1>7. \A i \in 0..m : i \in T
      BY ONLY <1>5, <1>6, UpTo
  <1> QED BY <1>1, <1>4, <1>7

(* Where nothing is picked nothing is added. *)
LEMMA PicksSame ==
    ASSUME NEW s, NEW I, NEW n \in Nat, n = Len(s), NEW a \in 0..n, NEW b \in 0..n, a <= b,
           \A i \in (a + 1)..b : i \notin I
    PROVE  Picks(s, I)[b] = Picks(s, I)[a]
  <1>1. PICK p, m : p = Picks(s, I) /\ m = b - a
      OBVIOUS
  <1>2. \A i \in 1..n : p[i] = IF i \in I THEN Append(p[i - 1], s[i]) ELSE p[i - 1]
      BY <1>1, PicksAre
  <1>3. m \in Nat /\ a \in Nat /\ a + m = b
      BY <1>1
  <1>4. PICK T : T = {i \in 0..m : p[a + i] = p[a]}
      OBVIOUS
  <1>5. 0 \in T
      BY <1>3, <1>4
  <1>6. \A i \in 1..m : i - 1 \in T => i \in T
    <2> SUFFICES ASSUME NEW i \in 1..m, i - 1 \in T PROVE i \in T
        OBVIOUS
    <2>1. /\ a + i \in 1..n /\ a + i \in (a + 1)..b /\ a + (i - 1) = (a + i) - 1 /\ i \in 0..m
        BY <1>3
    <2>2. p[(a + i) - 1] = p[a]
        BY <1>4, <2>1
    <2>3. p[a + i] = p[(a + i) - 1]
        BY <1>2, <2>1
    <2> QED BY <1>4, <2>1, <2>2, <2>3
  <1>7. \A i \in 0..m : i \in T
      BY ONLY <1>3, <1>5, <1>6, UpTo
  <1>8. p[a + m] = p[a]
    <2>1. m \in 0..m
        BY <1>3
    <2>2. m \in T
        BY <1>7, <2>1
    <2> QED BY <1>4, <2>2
  <1> QED BY <1>1, <1>3, <1>8

(* What is picked among fewer comes first. *)
LEMMA PicksPrefix ==
    ASSUME NEW s, NEW I, NEW n \in Nat, n = Len(s), NEW a \in 0..n
    PROVE  IsPrefix(Picks(s, I)[a], Picks(s, I)[n])
  <1>1. PICK p, m : p = Picks(s, I) /\ m = n - a
      OBVIOUS
  <1>2. \A i \in 1..n : p[i] = IF i \in I THEN Append(p[i - 1], s[i]) ELSE p[i - 1]
      BY <1>1, PicksAre
  <1>3. \A i \in 0..n : IsSeq(p[i])
      BY <1>1, PicksAre
  <1>4. m \in Nat /\ a \in Nat /\ a + m = n
      BY <1>1
  <1>5. PICK x : x = p[a]
      OBVIOUS
  <1>6. IsSeq(x) /\ Len(x) \in Nat
      BY <1>3, <1>5, SeqIs
  <1>7. PICK T : T = {i \in 0..m : Len(x) <= Len(p[a + i]) /\ \A j \in 1..Len(x) : p[a + i][j] = x[j]}
      OBVIOUS
  <1>8. 0 \in T
    <2>1. a + 0 = a /\ 0 \in 0..m
        BY <1>4
    <2> QED BY <1>5, <1>6, <1>7, <2>1
  <1>9. \A i \in 1..m : i - 1 \in T => i \in T
    <2> SUFFICES ASSUME NEW i \in 1..m, i - 1 \in T PROVE i \in T
        OBVIOUS
    <2>1. a + i \in 1..n /\ a + (i - 1) = (a + i) - 1 /\ i \in 0..m /\ (a + i) - 1 \in 0..n
        BY <1>4
    <2>2. PICK y : y = p[(a + i) - 1]
        OBVIOUS
    <2>3. Len(x) <= Len(y) /\ \A j \in 1..Len(x) : y[j] = x[j]
        BY <1>7, <2>1, <2>2
    <2>4. IsSeq(y) /\ Len(y) \in Nat
        BY <1>3, <2>1, <2>2, SeqIs
    <2>5. CASE p[a + i] = y
        BY <1>7, <2>1, <2>3, <2>5
    <2>6. CASE p[a + i] = Append(y, s[a + i])
      <3>1. PICK z : z = p[a + i]
          OBVIOUS
      <3>2. Len(z) = Len(y) + 1 /\ \A j \in 1..Len(y) : z[j] = y[j]
          BY <2>4, <2>6, <3>1, SeqAppend
      <3>3. Len(x) <= Len(z) /\ \A j \in 1..Len(x) : z[j] = x[j]
          BY <1>6, <2>3, <2>4, <3>2
      <3> QED BY <1>7, <2>1, <3>1, <3>3
    <2>7. p[a + i] = y \/ p[a + i] = Append(y, s[a + i])
        BY <1>2, <2>1, <2>2
    <2> QED BY <2>5, <2>6, <2>7
  <1>10. \A i \in 0..m : i \in T
      BY ONLY <1>4, <1>8, <1>9, UpTo
  <1>11. PICK z : z = p[n]
      OBVIOUS
  <1>12. Len(x) <= Len(z) /\ \A j \in 1..Len(x) : z[j] = x[j]
      BY <1>4, <1>7, <1>10, <1>11
  <1>13. IsSeq(z)
      BY <1>3, <1>11
  <1>14. IsPrefix(x, z)
    <2>1. PICK S : x \in Seq(S)
        BY <1>6 DEF IsSeq
    <2>2. PICK R : z \in Seq(R)
        BY <1>13 DEF IsSeq
    <2>3. SubSeq(x, 1, Len(x)) = [j \in 1..Len(x) |-> x[j]]
        BY <1>6, <2>1
    <2>4. SubSeq(z, 1, Len(x)) = [j \in 1..Len(x) |-> z[j]]
        BY <1>6, <1>12, <2>2
    <2> QED BY <1>12, <2>3, <2>4 DEF IsPrefix
  <1> QED BY <1>1, <1>5, <1>11, <1>14

(* What the application was handed over, and the PONGs that were sent. *)
DataOf(ts) == Picked(ts, {i \in DOMAIN ts : ts[i].what = "data"})
PongsOf(os) == Picked(os, {i \in DOMAIN os : os[i].op = "PONG"})

(* One thing more told. *)
LEMMA DataAppend ==
    ASSUME NEW ts, IsSeq(ts), NEW x, NEW us, us = Append(ts, x)
    PROVE  DataOf(us) = IF x.what = "data" THEN Append(DataOf(ts), x) ELSE DataOf(ts)
  <1>1. PICK n, I, J : /\ n = Len(ts) /\ I = {i \in DOMAIN ts : ts[i].what = "data"}
                       /\ J = {i \in DOMAIN us : us[i].what = "data"}
      OBVIOUS
  <1>2. n \in Nat /\ DOMAIN ts = 1..n
      BY <1>1, SeqIs
  <1>3. /\ IsSeq(us) /\ Len(us) = n + 1 /\ us[n + 1] = x
        /\ \A i \in 1..n : us[i] = ts[i]
      BY <1>1, SeqAppend
  <1>4. DOMAIN us = 1..(n + 1)
      BY <1>3, SeqIs
  <1>5. n + 1 \in Nat /\ n + 1 = Len(us) /\ n + 1 \in 1..(n + 1) /\ (n + 1) - 1 = n
      BY <1>2, <1>3
  <1>6. Picks(us, J)[n + 1] = IF n + 1 \in J THEN Append(Picks(us, J)[(n + 1) - 1], us[n + 1])
                              ELSE Picks(us, J)[(n + 1) - 1]
    <2>1. PICK m : m = n + 1
        OBVIOUS
    <2>2. m \in Nat /\ m = Len(us) /\ m \in 1..m
        BY <1>5, <2>1
    <2>3. \A i \in 1..m : Picks(us, J)[i] = IF i \in J THEN Append(Picks(us, J)[i - 1], us[i])
                                             ELSE Picks(us, J)[i - 1]
        BY ONLY <2>2, PicksAre
    <2> QED BY <2>1, <2>2, <2>3
  <1>7. \A i \in 1..n : (i \in I <=> i \in J) /\ (i \in I => ts[i] = us[i])
      BY <1>1, <1>2, <1>3, <1>4
  <1>8. Picks(ts, I)[n] = Picks(us, J)[n]
    <2>1. Len(ts) \in Nat /\ Len(us) \in Nat /\ n <= Len(ts) /\ n <= Len(us)
        BY <1>1, <1>2, <1>3
    <2> QED BY ONLY <1>2, <1>7, <2>1, PicksAgree
  <1>9. n + 1 \in J <=> x.what = "data"
      BY <1>1, <1>3, <1>4, <1>5
  <1>10. DataOf(us) = Picks(us, J)[n + 1] /\ DataOf(ts) = Picks(ts, I)[n]
      BY <1>1, <1>3 DEF DataOf, Picked
  <1> QED BY <1>3, <1>5, <1>6, <1>8, <1>9, <1>10

(* One answer more. *)
LEMMA PongsAppend ==
    ASSUME NEW ts, IsSeq(ts), NEW x, NEW us, us = Append(ts, x)
    PROVE  PongsOf(us) = IF x.op = "PONG" THEN Append(PongsOf(ts), x) ELSE PongsOf(ts)
  <1>1. PICK n, I, J : /\ n = Len(ts) /\ I = {i \in DOMAIN ts : ts[i].op = "PONG"}
                       /\ J = {i \in DOMAIN us : us[i].op = "PONG"}
      OBVIOUS
  <1>2. n \in Nat /\ DOMAIN ts = 1..n
      BY <1>1, SeqIs
  <1>3. /\ IsSeq(us) /\ Len(us) = n + 1 /\ us[n + 1] = x
        /\ \A i \in 1..n : us[i] = ts[i]
      BY <1>1, SeqAppend
  <1>4. DOMAIN us = 1..(n + 1)
      BY <1>3, SeqIs
  <1>5. n + 1 \in Nat /\ n + 1 = Len(us) /\ n + 1 \in 1..(n + 1) /\ (n + 1) - 1 = n
      BY <1>2, <1>3
  <1>6. Picks(us, J)[n + 1] = IF n + 1 \in J THEN Append(Picks(us, J)[(n + 1) - 1], us[n + 1])
                              ELSE Picks(us, J)[(n + 1) - 1]
    <2>1. PICK m : m = n + 1
        OBVIOUS
    <2>2. m \in Nat /\ m = Len(us) /\ m \in 1..m
        BY <1>5, <2>1
    <2>3. \A i \in 1..m : Picks(us, J)[i] = IF i \in J THEN Append(Picks(us, J)[i - 1], us[i])
                                             ELSE Picks(us, J)[i - 1]
        BY ONLY <2>2, PicksAre
    <2> QED BY <2>1, <2>2, <2>3
  <1>7. \A i \in 1..n : (i \in I <=> i \in J) /\ (i \in I => ts[i] = us[i])
      BY <1>1, <1>2, <1>3, <1>4
  <1>8. Picks(ts, I)[n] = Picks(us, J)[n]
    <2>1. Len(ts) \in Nat /\ Len(us) \in Nat /\ n <= Len(ts) /\ n <= Len(us)
        BY <1>1, <1>2, <1>3
    <2> QED BY ONLY <1>2, <1>7, <2>1, PicksAgree
  <1>9. n + 1 \in J <=> x.op = "PONG"
      BY <1>1, <1>3, <1>4, <1>5
  <1>10. PongsOf(us) = Picks(us, J)[n + 1] /\ PongsOf(ts) = Picks(ts, I)[n]
      BY <1>1, <1>3 DEF PongsOf, Picked
  <1> QED BY <1>3, <1>5, <1>6, <1>8, <1>9, <1>10

(* Nothing yet. *)
LEMMA NothingPicked == DataOf(<<>>) = <<>> /\ PongsOf(<<>>) = <<>>
  <1>1. PICK nil : nil = <<>>
      OBVIOUS
  <1>2. 0 \in Nat /\ 0 = Len(nil)
      BY <1>1
  <1>3. \A I : Picks(nil, I)[0] = <<>>
      BY <1>2, PicksAre
  <1> QED BY <1>1, <1>2, <1>3 DEF DataOf, PongsOf, Picked
------------------------------------------------------------------------------
(* Frames as a peer sends them: behind one that is not the last of its      *)
(* message no message begins.                                               *)
Frame == [op : Ops, fin : BOOLEAN, v : Seq(Int)]
FramesOK(fs) ==
    /\ fs \in Seq(Frame)
    /\ \A i \in 1..(Len(fs) - 1) : ~fs[i].fin => fs[i + 1].op \notin DataOps

(* What is due once the first m frames are settled. *)
DataFates == DataOps \union {"CONT"}
DataTo(fs, m) == Picks(AsData(fs), With(fs, DataFates))[m]
PongsTo(fs, m) == Picks(AsPongs(fs), With(fs, {"PING"}))[m]

(* The next frame with fin ends the wait. *)
LEMMA FateIs ==
    ASSUME NEW fs, Len(fs) \in Nat, NEW i \in 1..Len(fs), NEW e \in i..Len(fs), fs[e].fin,
           \A j \in i..(e - 1) : ~fs[j].fin
    PROVE  Fate(fs, i) = fs[e].op
  <1>1. PICK T : T = {j \in i..Len(fs) : fs[j].fin}
      OBVIOUS
  <1>2. e \in T /\ \A y \in T : e <= y
    <2>1. e \in T
        BY <1>1
    <2>2. ASSUME NEW y \in T PROVE e <= y
      <3>1. y \in i..Len(fs) /\ fs[y].fin
          BY <1>1
      <3>2. y \notin i..(e - 1)
          BY <3>1
      <3> QED BY <3>1, <3>2
    <2> QED BY <2>1, <2>2
  <1>3. \A x \in T : x \in Int
      BY <1>1
  <1>4. Min(T) = e
    <2>1. \A x \in T : (\A y \in T : x <= y) => x = e
        BY <1>2, <1>3
    <2> QED BY <1>2, <2>1 DEF Min
  <1>5. T # {}
      BY <1>2
  <1> QED BY <1>1, <1>4, <1>5 DEF Fate

(* Without one it lasts. *)
LEMMA FateWaits ==
    ASSUME NEW fs, NEW i, \A j \in i..Len(fs) : ~fs[j].fin
    PROVE  Fate(fs, i) = "waits"
  <1>1. {j \in i..Len(fs) : fs[j].fin} = {}
      OBVIOUS
  <1> QED BY <1>1 DEF Fate

(* A frame that begins a message has its type, *)
LEMMA OpOfStart ==
    ASSUME NEW fs, NEW i \in Nat, i >= 1, fs[i].op \in DataOps
    PROVE  OpOf(fs, i) = fs[i].op
  <1>1. PICK T : T = {j \in 1..i : fs[j].op \in DataOps}
      OBVIOUS
  <1>2. i \in T /\ \A y \in T : y \in Int /\ i >= y
      BY <1>1
  <1>3. Max(T) = i
    <2>1. \A x \in T : (\A y \in T : x >= y) => x = i
        BY <1>2
    <2> QED BY <1>2, <2>1 DEF Max
  <1>4. T # {}
      BY <1>2
  <1> QED BY <1>1, <1>3, <1>4 DEF OpOf

(* any other that of the frames before it. *)
LEMMA OpOfSame ==
    ASSUME NEW fs, NEW i \in Nat, NEW j \in Nat, i <= j, \A k \in (i + 1)..j : fs[k].op \notin DataOps
    PROVE  OpOf(fs, j) = OpOf(fs, i)
  <1>1. {k \in 1..i : fs[k].op \in DataOps} = {k \in 1..j : fs[k].op \in DataOps}
    <2>1. ASSUME NEW k \in 1..j, fs[k].op \in DataOps PROVE k \in 1..i
      <3>1. k \notin (i + 1)..j
          BY <2>1
      <3> QED BY <3>1
    <2>2. \A k \in 1..i : k \in 1..j
        OBVIOUS
    <2> QED BY <2>1, <2>2
  <1> QED BY <1>1 DEF OpOf

(* The same in frames that agree so far. *)
LEMMA OpOfAgree ==
    ASSUME NEW fs, NEW gs, NEW i \in Nat, \A k \in 1..i : fs[k] = gs[k]
    PROVE  OpOf(fs, i) = OpOf(gs, i)
  <1>1. PICK T : T = {k \in 1..i : fs[k].op \in DataOps}
      OBVIOUS
  <1>2. T = {k \in 1..i : gs[k].op \in DataOps}
      BY <1>1
  <1>3. CASE T = {}
      BY <1>1, <1>2, <1>3 DEF OpOf
  <1>4. CASE T # {}
    <2>1. PICK D : D = {d \in 0..i : i - d \in T}
        OBVIOUS
    <2>2. PICK k : k \in T
        BY <1>4
    <2>3. i - k \in 0..i /\ i - (i - k) = k
        BY <1>1, <2>2
    <2>4. D \in SUBSET Nat /\ D # {}
        BY <2>1, <2>2, <2>3
    <2>5. PICK d \in D : \A y \in D : d <= y
        BY <2>4, Least
    <2>6. i - d \in T /\ d \in Nat
        BY <2>1, <2>5
    <2>7. ASSUME NEW y \in T PROVE i - d >= y
      <3>1. y \in 1..i
          BY <1>1
      <3>2. i - y \in 0..i /\ i - (i - y) = y
          BY <3>1
      <3>3. i - y \in D
          BY <2>1, <3>2
      <3>4. d <= i - y
          BY <2>5, <3>3
      <3> QED BY <2>6, <3>1, <3>4
    <2>8. Max(T) \in T
      <3>1. \E x \in T : \A y \in T : x >= y
          BY <2>6, <2>7
      <3> QED BY <3>1 DEF Max
    <2>9. fs[Max(T)] = gs[Max(T)]
        BY <1>1, <2>8
    <2> QED BY <1>1, <1>2, <1>4, <2>9 DEF OpOf
  <1> QED BY <1>3, <1>4

(* A frame more that is settled. *)
LEMMA DueGrows ==
    ASSUME NEW fs, fs \in Seq(Frame), NEW i \in 1..Len(fs)
    PROVE  /\ DataTo(fs, i) = IF Fate(fs, i) \in DataFates
                              THEN Append(DataTo(fs, i - 1), Told("data", OpOf(fs, i), Item(fs[i])))
                              ELSE DataTo(fs, i - 1)
           /\ PongsTo(fs, i) = IF Fate(fs, i) = "PING"
                               THEN Append(PongsTo(fs, i - 1), [op |-> "PONG", item |-> Item(fs[i])])
                               ELSE PongsTo(fs, i - 1)
  <1>1. PICK s, I, t, J : /\ s = AsData(fs) /\ I = With(fs, DataFates)
                          /\ t = AsPongs(fs) /\ J = With(fs, {"PING"})
      OBVIOUS
  <1>2. PICK n : n = Len(fs)
      OBVIOUS
  <1>3. n \in Nat /\ DOMAIN fs = 1..n /\ i \in 1..n
      BY <1>2
  <1>4. s = [k \in 1..n |-> Told("data", OpOf(fs, k), Item(fs[k]))]
      BY <1>1, <1>3 DEF AsData
  <1>5. t = [k \in 1..n |-> [op |-> "PONG", item |-> Item(fs[k])]]
      BY <1>1, <1>3 DEF AsPongs
  <1>6. Len(s) = n /\ Len(t) = n
    <2>1. s = [k \in 1..n |-> s[k]] /\ t = [k \in 1..n |-> t[k]]
        BY <1>4, <1>5
    <2> QED BY ONLY <1>3, <2>1, FunctionIsSeq
  <1>7. \A k \in 1..n : Picks(s, I)[k] = IF k \in I THEN Append(Picks(s, I)[k - 1], s[k])
                                         ELSE Picks(s, I)[k - 1]
      BY ONLY <1>3, <1>6, PicksAre
  <1>8. \A k \in 1..n : Picks(t, J)[k] = IF k \in J THEN Append(Picks(t, J)[k - 1], t[k])
                                         ELSE Picks(t, J)[k - 1]
      BY ONLY <1>3, <1>6, PicksAre
  <1>9. (i \in I <=> Fate(fs, i) \in DataFates) /\ (i \in J <=> Fate(fs, i) = "PING")
      BY <1>1, <1>3 DEF With
  <1>10. s[i] = Told("data", OpOf(fs, i), Item(fs[i])) /\ t[i] = [op |-> "PONG", item |-> Item(fs[i])]
      BY <1>3, <1>4, <1>5
  <1>11. DataTo(fs, i) = IF Fate(fs, i) \in DataFates
                         THEN Append(DataTo(fs, i - 1), Told("data", OpOf(fs, i), Item(fs[i])))
                         ELSE DataTo(fs, i - 1)
      BY <1>1, <1>3, <1>7, <1>9, <1>10 DEF DataTo
  <1>12. PongsTo(fs, i) = IF Fate(fs, i) = "PING"
                          THEN Append(PongsTo(fs, i - 1), [op |-> "PONG", item |-> Item(fs[i])])
                          ELSE PongsTo(fs, i - 1)
      BY <1>1, <1>3, <1>8, <1>9, <1>10 DEF PongsTo
  <1> QED BY <1>11, <1>12

(* The sequences that what is due is picked from. *)
LEMMA DueLength ==
    ASSUME NEW fs, fs \in Seq(Frame)
    PROVE  Len(AsData(fs)) = Len(fs) /\ Len(AsPongs(fs)) = Len(fs)
  <1>1. PICK s, t, n : s = AsData(fs) /\ t = AsPongs(fs) /\ n = Len(fs)
      OBVIOUS
  <1>2. n \in Nat /\ DOMAIN fs = 1..n
      BY <1>1
  <1>3. s = [k \in 1..n |-> s[k]] /\ t = [k \in 1..n |-> t[k]]
      BY <1>1, <1>2 DEF AsData, AsPongs
  <1>4. Len(s) = n /\ Len(t) = n
      BY ONLY <1>2, <1>3, FunctionIsSeq
  <1> QED BY <1>1, <1>4

(* Nothing is due of no frames; of some, what comes first of all. *)
LEMMA DueIs ==
    ASSUME NEW fs, fs \in Seq(Frame)
    PROVE  /\ DataTo(fs, 0) = <<>> /\ PongsTo(fs, 0) = <<>>
           /\ DataTo(fs, Len(fs)) = DataDue(fs) /\ PongsTo(fs, Len(fs)) = PongsDue(fs)
           /\ \A m \in 0..Len(fs) : /\ IsPrefix(DataTo(fs, m), DataDue(fs))
                                    /\ IsPrefix(PongsTo(fs, m), PongsDue(fs))
  <1>1. PICK s, I, t, J, n : /\ s = AsData(fs) /\ I = With(fs, DataFates)
                             /\ t = AsPongs(fs) /\ J = With(fs, {"PING"}) /\ n = Len(fs)
      OBVIOUS
  <1>2. n \in Nat /\ n = Len(s) /\ n = Len(t)
      BY <1>1, DueLength
  <1>3. Picks(s, I)[0] = <<>> /\ Picks(t, J)[0] = <<>>
      BY ONLY <1>2, PicksAre
  <1>4. DataDue(fs) = Picks(s, I)[n] /\ PongsDue(fs) = Picks(t, J)[n]
      BY <1>1, <1>2 DEF DataDue, PongsDue, Picked, DataFates
  <1>5. \A m : DataTo(fs, m) = Picks(s, I)[m] /\ PongsTo(fs, m) = Picks(t, J)[m]
      BY <1>1 DEF DataTo, PongsTo
  <1>6. ASSUME NEW m \in 0..n
        PROVE  IsPrefix(Picks(s, I)[m], Picks(s, I)[n]) /\ IsPrefix(Picks(t, J)[m], Picks(t, J)[n])
      BY ONLY <1>2, m \in 0..n, PicksPrefix
  <1> QED BY <1>1, <1>3, <1>4, <1>5, <1>6

(* Where the fates are neither data nor PING, nothing is due. *)
LEMMA DueSame ==
    ASSUME NEW fs, fs \in Seq(Frame), NEW a \in 0..Len(fs), NEW b \in 0..Len(fs), a <= b,
           \A i \in (a + 1)..b : Fate(fs, i) \notin DataFates \cup {"PING"}
    PROVE  DataTo(fs, b) = DataTo(fs, a) /\ PongsTo(fs, b) = PongsTo(fs, a)
  <1>1. PICK s, I, t, J, n : /\ s = AsData(fs) /\ I = With(fs, DataFates)
                             /\ t = AsPongs(fs) /\ J = With(fs, {"PING"}) /\ n = Len(fs)
      OBVIOUS
  <1>2. n \in Nat /\ n = Len(s) /\ n = Len(t) /\ a \in 0..n /\ b \in 0..n /\ a <= b
      BY <1>1, DueLength
  <1>3. \A i \in (a + 1)..b : i \notin I /\ i \notin J
    <2>1. \A i \in I : Fate(fs, i) \in DataFates
        BY <1>1 DEF With
    <2>2. \A i \in J : Fate(fs, i) = "PING"
        BY <1>1 DEF With
    <2> SUFFICES ASSUME NEW i \in (a + 1)..b PROVE i \notin I /\ i \notin J
        OBVIOUS
    <2>3. Fate(fs, i) \notin DataFates \cup {"PING"}
        OBVIOUS
    <2> QED BY <2>1, <2>2, <2>3
  <1>4. Picks(s, I)[b] = Picks(s, I)[a]
    <2>1. \A i \in (a + 1)..b : i \notin I
        BY <1>3
    <2>2. n \in Nat /\ n = Len(s) /\ a \in 0..n /\ b \in 0..n /\ a <= b
        BY <1>2
    <2> QED BY ONLY <2>1, <2>2, PicksSame
  <1>5. Picks(t, J)[b] = Picks(t, J)[a]
    <2>1. \A i \in (a + 1)..b : i \notin J
        BY <1>3
    <2>2. n \in Nat /\ n = Len(t) /\ a \in 0..n /\ b \in 0..n /\ a <= b
        BY <1>2
    <2> QED BY ONLY <2>1, <2>2, PicksSame
  <1> QED BY <1>1, <1>4, <1>5 DEF DataTo, PongsTo

(* Frames that wait change nothing. *)
LEMMA DueWaits ==
    ASSUME NEW fs, fs \in Seq(Frame), NEW d \in 0..Len(fs), \A i \in (d + 1)..Len(fs) : ~fs[i].fin
    PROVE  DataTo(fs, d) = DataDue(fs) /\ PongsTo(fs, d) = PongsDue(fs)
  <1>1. Len(fs) \in Nat
      OBVIOUS
  <1>2. ASSUME NEW i \in (d + 1)..Len(fs) PROVE Fate(fs, i) \notin DataFates \cup {"PING"}
    <2>1. \A j \in i..Len(fs) : ~fs[j].fin
        BY <1>1
    <2>2. Fate(fs, i) = "waits"
        BY <2>1, FateWaits
    <2> QED BY <2>2 DEF DataFates, DataOps
  <1>3. Len(fs) \in 0..Len(fs) /\ d <= Len(fs)
      BY <1>1
  <1>4. DataTo(fs, Len(fs)) = DataTo(fs, d) /\ PongsTo(fs, Len(fs)) = PongsTo(fs, d)
      BY <1>2, <1>3, DueSame
  <1> QED BY <1>4, DueIs

(* What is due of settled frames does not depend on what is sent later. *)
LEMMA DueStays ==
    ASSUME NEW fs, fs \in Seq(Frame), NEW f \in Frame, NEW gs, gs = Append(fs, f),
           NEW d \in 0..Len(fs), d = 0 \/ fs[d].fin
    PROVE  DataTo(gs, d) = DataTo(fs, d) /\ PongsTo(gs, d) = PongsTo(fs, d)
  <1>1. /\ gs \in Seq(Frame) /\ Len(gs) = Len(fs) + 1 /\ Len(fs) \in Nat
        /\ \A i \in 1..Len(fs) : gs[i] = fs[i]
      BY AppendProperties
  <1>2. ASSUME NEW i \in 1..d PROVE Fate(gs, i) = Fate(fs, i)
    <2>1. PICK T : T = {j \in i..d : fs[j].fin}
        OBVIOUS
    <2>2. d \in T /\ T \in SUBSET Nat
        BY <2>1
    <2>3. PICK e \in T : \A y \in T : e <= y
        BY <2>2, Least
    <2>4. e \in i..d /\ fs[e].fin
        BY <2>1
    <2>5. \A j \in i..(e - 1) : ~fs[j].fin
      <3> SUFFICES ASSUME NEW j \in i..(e - 1), fs[j].fin PROVE FALSE
          OBVIOUS
      <3>1. j \in i..d /\ ~(e <= j)
          BY <2>4
      <3> QED BY <2>1, <2>3, <3>1
    <2>6. Len(fs) \in Nat /\ i \in 1..Len(fs) /\ e \in i..Len(fs)
        BY <1>1, <2>4
    <2>7. Fate(fs, i) = fs[e].op
        BY ONLY <2>4, <2>5, <2>6, FateIs
    <2>8. Len(gs) \in Nat /\ i \in 1..Len(gs) /\ e \in i..Len(gs)
        BY <1>1, <2>6
    <2>9. gs[e] = fs[e] /\ \A j \in i..(e - 1) : gs[j] = fs[j]
        BY <1>1, <2>6
    <2>10. gs[e].fin /\ \A j \in i..(e - 1) : ~gs[j].fin
        BY <2>4, <2>5, <2>9
    <2>11. Fate(gs, i) = gs[e].op
        BY ONLY <2>8, <2>10, FateIs
    <2> QED BY <2>7, <2>9, <2>11
  <1>3. ASSUME NEW i \in 1..d PROVE OpOf(gs, i) = OpOf(fs, i) /\ gs[i] = fs[i]
    <2>1. i \in Nat /\ \A k \in 1..i : fs[k] = gs[k]
        BY <1>1
    <2>2. OpOf(fs, i) = OpOf(gs, i)
        BY ONLY <2>1, OpOfAgree
    <2>3. i \in 1..Len(fs)
        BY <1>1
    <2> QED BY <1>1, <2>2, <2>3
  <1>4. PICK s, I, t, J : /\ s = AsData(fs) /\ I = With(fs, DataFates)
                          /\ t = AsPongs(fs) /\ J = With(fs, {"PING"})
      OBVIOUS
  <1>5. PICK s2, I2, t2, J2 : /\ s2 = AsData(gs) /\ I2 = With(gs, DataFates)
                              /\ t2 = AsPongs(gs) /\ J2 = With(gs, {"PING"})
      OBVIOUS
  <1>6. /\ Len(s) \in Nat /\ Len(t) \in Nat /\ Len(s2) \in Nat /\ Len(t2) \in Nat /\ d \in Nat
        /\ d <= Len(s) /\ d <= Len(t) /\ d <= Len(s2) /\ d <= Len(t2)
    <2>1. Len(s) = Len(fs) /\ Len(t) = Len(fs)
        BY <1>4, DueLength
    <2>2. Len(s2) = Len(gs) /\ Len(t2) = Len(gs)
        BY <1>1, <1>5, DueLength
    <2> QED BY <1>1, <2>1, <2>2
  <1>7. DOMAIN fs = 1..Len(fs) /\ DOMAIN gs = 1..Len(gs)
      BY <1>1
  <1>8. ASSUME NEW i \in 1..d
        PROVE  (i \in I <=> i \in I2) /\ s[i] = s2[i] /\ (i \in J <=> i \in J2) /\ t[i] = t2[i]
    <2>1. i \in DOMAIN fs /\ i \in DOMAIN gs
        BY <1>1, <1>7
    <2>2. Fate(gs, i) = Fate(fs, i) /\ OpOf(gs, i) = OpOf(fs, i) /\ gs[i] = fs[i]
        BY <1>2, <1>3
    <2>3. s[i] = Told("data", OpOf(fs, i), Item(fs[i])) /\ t[i] = [op |-> "PONG", item |-> Item(fs[i])]
        BY <1>4, <2>1 DEF AsData, AsPongs
    <2>4. s2[i] = Told("data", OpOf(gs, i), Item(gs[i])) /\ t2[i] = [op |-> "PONG", item |-> Item(gs[i])]
        BY <1>5, <2>1 DEF AsData, AsPongs
    <2> QED BY <1>4, <1>5, <2>1, <2>2, <2>3, <2>4 DEF With
  <1>9. Picks(s, I)[d] = Picks(s2, I2)[d]
      BY ONLY <1>6, <1>8, PicksAgree
  <1>10. Picks(t, J)[d] = Picks(t2, J2)[d]
      BY ONLY <1>6, <1>8, PicksAgree
  <1> QED BY <1>4, <1>5, <1>9, <1>10 DEF DataTo, PongsTo

(* The frames that one with fin settles, from the one behind the last       *)
(* before it.                                                               *)
LEMMA SettledTogether ==
    ASSUME NEW fs, FramesOK(fs), NEW d \in 0..Len(fs), NEW e \in (d + 1)..Len(fs), fs[e].fin,
           \A j \in (d + 1)..(e - 1) : ~fs[j].fin
    PROVE  /\ \A i \in (d + 1)..e : Fate(fs, i) = fs[e].op /\ OpOf(fs, i) = OpOf(fs, e)
           /\ fs[e].op \in DataOps => OpOf(fs, e) = fs[e].op
  <1>1. Len(fs) \in Nat /\ fs \in Seq(Frame) /\ d \in Nat /\ e \in Nat /\ e >= 1
      BY DEF FramesOK
  <1>2. ASSUME NEW i \in (d + 1)..e PROVE Fate(fs, i) = fs[e].op
    <2>1. i \in 1..Len(fs) /\ e \in i..Len(fs) /\ \A j \in i..(e - 1) : ~fs[j].fin
        BY <1>1
    <2> QED BY <1>1, <2>1, FateIs
  <1>3. ASSUME NEW i \in (d + 1)..e PROVE OpOf(fs, i) = OpOf(fs, e)
    <2>1. ASSUME NEW k \in (i + 1)..e PROVE fs[k].op \notin DataOps
      <3>1. k - 1 \in (d + 1)..(e - 1) /\ k - 1 \in 1..(Len(fs) - 1) /\ (k - 1) + 1 = k
          BY <1>1
      <3>2. ~fs[k - 1].fin
          BY <3>1
      <3> QED BY <3>1, <3>2 DEF FramesOK
    <2>2. i \in Nat /\ i <= e
        BY <1>1
    <2> QED BY <1>1, <2>1, <2>2, OpOfSame
  <1>4. ASSUME fs[e].op \in DataOps PROVE OpOf(fs, e) = fs[e].op
      BY <1>1, <1>4, OpOfStart
  <1> QED BY <1>2, <1>3, <1>4
------------------------------------------------------------------------------
(* The cells of a frame, by their place. *)
Start(mask) == IF mask THEN 2 ELSE 1
KeyBit(mask) == IF mask THEN 1 ELSE 0
Size(f, mask) == Start(mask) + Len(f.v)
CellOf(f, mask, j) ==
    IF j = 1 THEN Header(f.op, f.fin, mask, Len(f.v))
    ELSE IF j <= Start(mask) THEN Key(1)
    ELSE Payload(f.v[j - Start(mask)], KeyBit(mask))

(* That is what FrameCells makes. *)
LEMMA CellsAre ==
    ASSUME NEW f \in Frame, NEW mask \in BOOLEAN, NEW q, q = FrameCells(f.op, f.fin, f.v, mask)
    PROVE  /\ IsSeq(q) /\ Len(q) = Size(f, mask) /\ Size(f, mask) \in Nat /\ Size(f, mask) >= 1
           /\ \A j \in 1..Len(q) : q[j] = CellOf(f, mask, j)
  <1>1. PICK v, n : v = f.v /\ n = Len(v)
      OBVIOUS
  <1>2. v \in Seq(Int) /\ n \in Nat /\ DOMAIN v = 1..n
      BY <1>1 DEF Frame
  <1>3. PICK h, k, b : h = Header(f.op, f.fin, mask, Len(v)) /\ b = KeyBit(mask)
                       /\ k = IF mask THEN <<Key(1)>> ELSE <<>>
      OBVIOUS
  <1>4. PICK a : a = [i \in 1..n |-> Payload(v[i], b)]
      OBVIOUS
  <1>5. q = (<<h>> \o k) \o a
      BY <1>1, <1>2, <1>3, <1>4 DEF FrameCells, KeyBit
  <1>6. IsSeq(a) /\ Len(a) = n
    <2>1. a = [i \in 1..n |-> a[i]]
        BY <1>4
    <2> QED BY <1>2, <2>1, FunctionIsSeq
  <1>7. IsSeq(<<h>>) /\ Len(<<h>>) = 1 /\ <<h>>[1] = h
    <2>1. <<h>> \in Seq({h}) /\ Len(<<h>>) = 1 /\ <<h>>[1] = h
        OBVIOUS
    <2> QED BY <2>1 DEF IsSeq
  <1>8. IsSeq(k) /\ Len(k) = Start(mask) - 1 /\ (mask => k[1] = Key(1)) /\ Start(mask) \in {1, 2}
    <2>1. PICK x : x = Key(1)
        OBVIOUS
    <2>2. <<x>> \in Seq({x}) /\ Len(<<x>>) = 1 /\ <<x>>[1] = x
        OBVIOUS
    <2>3. IsSeq(<<x>>)
        BY <2>2 DEF IsSeq
    <2>4. CASE mask = TRUE
        BY <1>3, <2>1, <2>2, <2>3, <2>4 DEF Start
    <2>5. CASE mask = FALSE
        BY <1>3, <2>5, NothingTold DEF Start
    <2> QED BY <2>4, <2>5
  <1>9. PICK c, st : c = <<h>> \o k /\ st = Start(mask)
      OBVIOUS
  <1>10. /\ IsSeq(c) /\ Len(c) = st /\ st \in {1, 2} /\ c[1] = h
         /\ st = 2 => c[2] = Key(1)
    <2>1. PICK a1 : a1 = <<h>>
        OBVIOUS
    <2>2. IsSeq(a1) /\ IsSeq(k) /\ Len(a1) = 1 /\ a1[1] = h /\ c = a1 \o k
        BY <1>7, <1>8, <1>9, <2>1
    <2>3. /\ IsSeq(c) /\ Len(c) = Len(a1) + Len(k)
          /\ \A i \in 1..(Len(a1) + Len(k)) : c[i] = IF i <= Len(a1) THEN a1[i] ELSE k[i - Len(a1)]
        BY ONLY <2>2, SeqConcat
    <2>4. Len(c) = st /\ st \in {1, 2}
        BY <1>8, <1>9, <2>2, <2>3
    <2>5. c[1] = h
        BY <2>2, <2>3, <2>4
    <2>6. ASSUME st = 2 PROVE c[2] = Key(1)
      <3>1. mask
          BY <1>9, <2>6 DEF Start
      <3>2. c[2] = k[1]
          BY <2>2, <2>3, <2>4, <2>6
      <3> QED BY <1>8, <3>1, <3>2
    <2> QED BY <2>3, <2>4, <2>5, <2>6
  <1>11. /\ IsSeq(q) /\ Len(q) = st + n
         /\ \A j \in 1..(st + n) : q[j] = IF j <= st THEN c[j] ELSE a[j - st]
    <2>1. IsSeq(c) /\ IsSeq(a) /\ q = c \o a /\ Len(c) = st /\ Len(a) = n
        BY <1>5, <1>6, <1>9, <1>10
    <2> QED BY ONLY <2>1, SeqConcat
  <1>12. Len(q) = Size(f, mask) /\ Size(f, mask) \in Nat /\ Size(f, mask) >= 1
      BY <1>1, <1>2, <1>9, <1>10, <1>11 DEF Size
  <1>13. ASSUME NEW j \in 1..(st + n) PROVE q[j] = CellOf(f, mask, j)
    <2>1. CASE j = 1
      <3>1. q[j] = h
          BY <1>10, <1>11, <2>1
      <3> QED BY <1>1, <1>3, <2>1, <3>1 DEF CellOf
    <2>2. CASE j # 1 /\ j <= st
      <3>1. j = 2 /\ st = 2
          BY <1>2, <1>10, <2>2
      <3>2. q[j] = Key(1)
          BY <1>10, <1>11, <2>2, <3>1
      <3> QED BY <1>9, <2>2, <3>2 DEF CellOf
    <2>3. CASE ~(j <= st)
      <3>1. j - st \in 1..n /\ j # 1
          BY <1>2, <1>10, <2>3
      <3>2. q[j] = Payload(v[j - st], b)
          BY <1>4, <1>11, <2>3, <3>1
      <3> QED BY <1>1, <1>3, <1>9, <2>3, <3>1, <3>2 DEF CellOf
    <2> QED BY <2>1, <2>2, <2>3
  <1> QED BY <1>11, <1>12, <1>13
------------------------------------------------------------------------------
(* q has the cells of the frames of fs behind the c-th, one frame after the *)
(* other: p tells where each ends.                                          *)
EndsAt(p, q, fs, mask, c) ==
    /\ p \in [c..Len(fs) -> Nat] /\ p[c] = 0 /\ p[Len(fs)] = Len(q)
    /\ \A i \in (c + 1)..Len(fs) : p[i] = p[i - 1] + Size(fs[i], mask)
    /\ \A i \in (c + 1)..Len(fs) : \A j \in 1..Size(fs[i], mask) : q[p[i - 1] + j] = CellOf(fs[i], mask, j)
Carries(q, fs, mask, c) == \E p : EndsAt(p, q, fs, mask, c)

(* Frames end one behind the other. *)
LEMMA EndsRise ==
    ASSUME NEW c \in Nat, NEW n \in Nat, NEW p \in [c..n -> Nat],
           \A i \in (c + 1)..n : p[i - 1] <= p[i], NEW a \in c..n, NEW b \in c..n, a <= b
    PROVE  p[a] <= p[b]
  <1>1. PICK m : m = b - a
      OBVIOUS
  <1>2. m \in Nat /\ a + m = b /\ a \in Nat
      BY <1>1
  <1>3. PICK T : T = {i \in 0..m : p[a] <= p[a + i]}
      OBVIOUS
  <1>4. 0 \in T
    <2>1. a + 0 = a /\ 0 \in 0..m /\ p[a] \in Nat
        BY <1>2
    <2>2. p[a] <= p[a + 0]
        BY <2>1
    <2> QED BY <1>3, <2>1, <2>2
  <1>5. \A i \in 1..m : i - 1 \in T => i \in T
    <2> SUFFICES ASSUME NEW i \in 1..m, i - 1 \in T PROVE i \in T
        OBVIOUS
    <2>1. a + i \in (c + 1)..n /\ a + (i - 1) = (a + i) - 1 /\ i \in 0..m /\ (a + i) - 1 \in c..n /\ a + i \in c..n
        BY <1>2
    <2>2. p[a] <= p[(a + i) - 1]
        BY <1>3, <2>1
    <2>3. p[(a + i) - 1] <= p[a + i]
        BY <2>1
    <2>4. p[a] \in Nat /\ p[(a + i) - 1] \in Nat /\ p[a + i] \in Nat
        BY <2>1
    <2>5. p[a] <= p[a + i]
        BY <2>2, <2>3, <2>4
    <2> QED BY <1>3, <2>1, <2>5
  <1>6. \A i \in 0..m : i \in T
      BY ONLY <1>2, <1>4, <1>5, UpTo
  <1>7. m \in 0..m
      BY <1>2
  <1>8. p[a] <= p[a + m]
      BY <1>3, <1>6, <1>7
  <1> QED BY <1>2, <1>8

(* The size of a frame. *)
LEMMA SizeIs ==
    ASSUME NEW fs \in Seq(Frame), NEW mask \in BOOLEAN, NEW i \in 1..Len(fs)
    PROVE  Size(fs[i], mask) \in Nat /\ Size(fs[i], mask) >= Start(mask) /\ Start(mask) \in {1, 2}
  <1>1. fs[i] \in Frame
      OBVIOUS
  <1>2. fs[i].v \in Seq(Int)
      BY <1>1 DEF Frame
  <1>3. Len(fs[i].v) \in Nat
      BY <1>2
  <1>4. Start(mask) \in {1, 2}
      BY DEF Start
  <1> QED BY <1>3, <1>4 DEF Size

(* The first of the frames, and the rest. *)
LEMMA CarriesNext ==
    ASSUME NEW fs \in Seq(Frame), NEW mask \in BOOLEAN, NEW c \in Nat, c < Len(fs),
           NEW q \in Seq(Cell), Carries(q, fs, mask, c),
           NEW z, z = Size(fs[c + 1], mask), NEW r, r = SubSeq(q, z + 1, Len(q))
    PROVE  /\ z <= Len(q) /\ \A j \in 1..z : q[j] = CellOf(fs[c + 1], mask, j)
           /\ Carries(r, fs, mask, c + 1)
  <1>1. PICK p : EndsAt(p, q, fs, mask, c)
      BY DEF Carries
  <1>2. PICK n : n = Len(fs)
      OBVIOUS
  <1>3. n \in Nat /\ c + 1 \in (c + 1)..n /\ c + 1 \in 1..n /\ c \in c..n /\ c + 1 \in c..n /\ n \in c..n
      BY <1>2
  <1>4. /\ p \in [c..n -> Nat] /\ p[c] = 0 /\ p[n] = Len(q)
        /\ \A i \in (c + 1)..n : p[i] = p[i - 1] + Size(fs[i], mask)
        /\ \A i \in (c + 1)..n : \A j \in 1..Size(fs[i], mask) : q[p[i - 1] + j] = CellOf(fs[i], mask, j)
      BY <1>1, <1>2 DEF EndsAt
  <1>5. ASSUME NEW i \in (c + 1)..n
        PROVE  /\ Size(fs[i], mask) \in Nat /\ i - 1 \in c..n /\ i \in c..n
               /\ p[i] \in Nat /\ p[i - 1] \in Nat /\ p[i - 1] <= p[i]
    <2>1. i \in 1..Len(fs) /\ i - 1 \in c..n /\ i \in c..n
        BY <1>2, <1>3
    <2>2. Size(fs[i], mask) \in Nat
        BY <2>1, SizeIs
    <2>3. p[i] \in Nat /\ p[i - 1] \in Nat
        BY <1>4, <2>1
    <2>4. p[i] = p[i - 1] + Size(fs[i], mask)
        BY <1>4
    <2> QED BY <2>1, <2>2, <2>3, <2>4
  <1>6. ASSUME NEW a \in c..n, NEW b \in c..n, a <= b PROVE p[a] <= p[b]
    <2>1. \A i \in (c + 1)..n : p[i - 1] <= p[i]
        BY <1>5
    <2> QED BY <1>3, <1>4, <1>6, <2>1, EndsRise
  <1>7. z \in Nat /\ p[c + 1] = z
    <2>1. p[c + 1] = p[(c + 1) - 1] + Size(fs[c + 1], mask)
        BY <1>3, <1>4
    <2>2. (c + 1) - 1 = c /\ z \in Nat
        BY <1>3, <1>5
    <2> QED BY <1>4, <2>1, <2>2
  <1>8. z <= Len(q) /\ Len(q) \in Nat
    <2>1. p[c + 1] <= p[n]
        BY <1>3, <1>6
    <2> QED BY <1>4, <1>7, <2>1
  <1>9. ASSUME NEW j \in 1..z PROVE q[j] = CellOf(fs[c + 1], mask, j)
    <2>1. q[p[(c + 1) - 1] + j] = CellOf(fs[c + 1], mask, j)
        BY <1>3, <1>4
    <2>2. (c + 1) - 1 = c /\ 0 + j = j
        BY <1>7
    <2> QED BY <1>4, <2>1, <2>2
  <1>10. Len(r) = Len(q) - z /\ \A k \in 1..(Len(q) - z) : r[k] = q[z + k]
    <2>1. r = SubSeq(q, z + 1, Len(q))
        OBVIOUS
    <2>2. Len(q) \in Nat /\ z \in Nat /\ z <= Len(q) /\ q \in Seq(Cell)
        BY <1>7, <1>8
    <2> QED BY ONLY <2>1, <2>2
  <1>11. PICK s : s = [i \in (c + 1)..n |-> p[i] - z]
      OBVIOUS
  <1>12. ASSUME NEW i \in (c + 1)..n PROVE s[i] \in Nat /\ s[i] = p[i] - z /\ z <= p[i]
    <2>1. p[c + 1] <= p[i] /\ p[i] \in Nat
        BY <1>3, <1>5, <1>6
    <2> QED BY <1>7, <1>11, <2>1
  <1>13. s \in [(c + 1)..n -> Nat]
      BY <1>11, <1>12
  <1>14. s[c + 1] = 0 /\ s[n] = Len(r)
    <2>1. n \in (c + 1)..n
        BY <1>2, <1>3
    <2>2. s[c + 1] = p[c + 1] - z /\ s[n] = p[n] - z
        BY <1>3, <1>11, <2>1
    <2> QED BY <1>4, <1>7, <1>10, <2>2
  <1>15. ASSUME NEW i \in ((c + 1) + 1)..n
         PROVE  /\ s[i] = s[i - 1] + Size(fs[i], mask)
                /\ \A j \in 1..Size(fs[i], mask) : r[s[i - 1] + j] = CellOf(fs[i], mask, j)
    <2>1. i \in (c + 1)..n /\ i - 1 \in (c + 1)..n
        BY <1>3
    <2>2. /\ s[i] = p[i] - z /\ s[i - 1] = p[i - 1] - z /\ s[i - 1] \in Nat /\ z <= p[i - 1]
          /\ p[i] \in Nat /\ p[i - 1] \in Nat /\ Size(fs[i], mask) \in Nat
        BY <1>5, <1>12, <2>1
    <2>3. p[i] = p[i - 1] + Size(fs[i], mask)
        BY <1>4, <2>1
    <2>4. ASSUME NEW j \in 1..Size(fs[i], mask) PROVE r[s[i - 1] + j] = CellOf(fs[i], mask, j)
      <3>1. q[p[i - 1] + j] = CellOf(fs[i], mask, j)
          BY <1>4, <2>1
      <3>2. p[i] <= Len(q)
          BY <1>3, <1>4, <1>5, <1>6, <2>1
      <3>3. s[i - 1] + j \in 1..(Len(q) - z) /\ z + (s[i - 1] + j) = p[i - 1] + j
        <4>1. PICK x, y, u, w, l : /\ x = p[i - 1] /\ y = p[i] /\ u = s[i - 1] /\ w = Size(fs[i], mask)
                                   /\ l = Len(q)
            OBVIOUS
        <4>2. /\ x \in Nat /\ y \in Nat /\ u \in Nat /\ w \in Nat /\ l \in Nat /\ z \in Nat /\ j \in 1..w
              /\ u = x - z /\ z <= x /\ y = x + w /\ y <= l
            BY <1>7, <1>8, <2>2, <2>3, <3>2, <4>1
        <4>3. u + j \in 1..(l - z) /\ z + (u + j) = x + j
            BY ONLY <4>2
        <4> QED BY <4>1, <4>3
      <3>4. r[s[i - 1] + j] = q[z + (s[i - 1] + j)]
          BY <1>10, <3>3
      <3> QED BY <3>1, <3>3, <3>4
    <2>5. s[i] = s[i - 1] + Size(fs[i], mask)
      <3>1. PICK x, y, u, w, l : /\ x = p[i - 1] /\ y = p[i] /\ u = s[i - 1] /\ w = Size(fs[i], mask)
                                 /\ l = s[i]
          OBVIOUS
      <3>2. x \in Nat /\ y \in Nat /\ w \in Nat /\ z \in Nat /\ u = x - z /\ y = x + w /\ l = y - z
          BY <1>7, <2>2, <2>3, <3>1
      <3>3. l = u + w
          BY ONLY <3>2
      <3> QED BY <3>1, <3>3
    <2> QED BY <2>4, <2>5
  <1>16. EndsAt(s, r, fs, mask, c + 1)
      BY <1>2, <1>13, <1>14, <1>15 DEF EndsAt
  <1> QED BY <1>8, <1>9, <1>16 DEF Carries

(* Behind the last frame there is nothing, *)
LEMMA CarriesNone ==
    ASSUME NEW fs \in Seq(Frame), NEW mask \in BOOLEAN
    PROVE  /\ Carries(<<>>, fs, mask, Len(fs))
           /\ \A q : Carries(q, fs, mask, Len(fs)) => Len(q) = 0
  <1>1. PICK n, nil : n = Len(fs) /\ nil = <<>>
      OBVIOUS
  <1>2. n \in Nat /\ Len(nil) = 0
      BY <1>1
  <1>3. \A i \in (n + 1)..n : FALSE
      BY <1>2
  <1>4. Carries(nil, fs, mask, n)
    <2>1. PICK p : p = [i \in n..n |-> 0]
        OBVIOUS
    <2>2. n \in n..n
        BY <1>2
    <2>3. p \in [n..n -> Nat] /\ p[n] = 0
        BY <2>1, <2>2
    <2>4. EndsAt(p, nil, fs, mask, n)
        BY <1>1, <1>2, <1>3, <2>3 DEF EndsAt
    <2> QED BY <2>4 DEF Carries
  <1>5. ASSUME NEW q, Carries(q, fs, mask, n) PROVE Len(q) = 0
    <2>1. PICK p : EndsAt(p, q, fs, mask, n)
        BY <1>5 DEF Carries
    <2> QED BY <1>1, <2>1 DEF EndsAt
  <1> QED BY <1>1, <1>4, <1>5

(* and where there is nothing there is no frame. *)
LEMMA CarriesNothing ==
    ASSUME NEW fs \in Seq(Frame), NEW mask \in BOOLEAN, NEW c \in 0..Len(fs),
           NEW q \in Seq(Cell), Len(q) = 0, Carries(q, fs, mask, c)
    PROVE  c = Len(fs)
  <1> SUFFICES ASSUME c # Len(fs) PROVE FALSE
      OBVIOUS
  <1>1. PICK z, r : z = Size(fs[c + 1], mask) /\ r = SubSeq(q, z + 1, Len(q))
      OBVIOUS
  <1>2. Len(fs) \in Nat /\ c \in Nat /\ c < Len(fs) /\ c + 1 \in 1..Len(fs)
      OBVIOUS
  <1>3. z <= Len(q)
      BY <1>1, <1>2, CarriesNext
  <1>4. z \in Nat /\ z >= 1
      BY <1>1, <1>2, SizeIs
  <1> QED BY <1>3, <1>4

(* A frame more. *)
LEMMA CarriesMore ==
    ASSUME NEW fs \in Seq(Frame), NEW mask \in BOOLEAN, NEW c \in 0..Len(fs),
           NEW q, IsSeq(q), Carries(q, fs, mask, c), NEW f \in Frame, NEW gs, gs = Append(fs, f),
           NEW w, w = FrameCells(f.op, f.fin, f.v, mask), NEW r, r = q \o w
    PROVE  Carries(r, gs, mask, c)
  <1>1. PICK n, l, z : n = Len(fs) /\ l = Len(q) /\ z = Size(f, mask)
      OBVIOUS
  <1>2. n \in Nat /\ l \in Nat /\ c \in Nat /\ c <= n
      BY <1>1, SeqIs
  <1>3. PICK p : EndsAt(p, q, fs, mask, c)
      BY DEF Carries
  <1>4. /\ p \in [c..n -> Nat] /\ p[c] = 0 /\ p[n] = l
        /\ \A i \in (c + 1)..n : p[i] = p[i - 1] + Size(fs[i], mask)
        /\ \A i \in (c + 1)..n : \A j \in 1..Size(fs[i], mask) : q[p[i - 1] + j] = CellOf(fs[i], mask, j)
      BY <1>1, <1>3 DEF EndsAt
  <1>5. IsSeq(w) /\ Len(w) = z /\ z \in Nat /\ \A j \in 1..z : w[j] = CellOf(f, mask, j)
      BY <1>1, CellsAre
  <1>6. /\ IsSeq(r) /\ Len(r) = l + z
        /\ \A i \in 1..(l + z) : r[i] = IF i <= l THEN q[i] ELSE w[i - l]
    <2>1. IsSeq(q) /\ IsSeq(w) /\ r = q \o w /\ Len(q) = l /\ Len(w) = z
        BY <1>1, <1>5
    <2> QED BY ONLY <2>1, SeqConcat
  <1>7. gs \in Seq(Frame) /\ Len(gs) = n + 1 /\ gs[n + 1] = f /\ \A i \in 1..n : gs[i] = fs[i]
      BY <1>1, AppendProperties
  <1>8. PICK s : s = [i \in c..(n + 1) |-> IF i = n + 1 THEN l + z ELSE p[i]]
      OBVIOUS
  <1>9. \A i \in c..n : s[i] = p[i]
      BY <1>2, <1>8
  <1>10. s[n + 1] = l + z /\ s[c] = 0
      BY <1>2, <1>4, <1>8
  <1>11. s \in [c..(n + 1) -> Nat]
    <2>1. ASSUME NEW i \in c..(n + 1) PROVE (IF i = n + 1 THEN l + z ELSE p[i]) \in Nat
      <3>1. CASE i = n + 1
          BY <1>2, <1>5, <3>1
      <3>2. CASE i # n + 1
        <4>1. i \in c..n
            BY <1>2, <3>2
        <4> QED BY <1>4, <3>2, <4>1
      <3> QED BY <3>1, <3>2
    <2> QED BY <1>8, <2>1
  <1>12. \A i \in (c + 1)..n : p[i - 1] <= p[i]
    <2> SUFFICES ASSUME NEW i \in (c + 1)..n PROVE p[i - 1] <= p[i]
        OBVIOUS
    <2>1. i \in 1..Len(fs) /\ i - 1 \in c..n /\ i \in c..n
        BY <1>1, <1>2
    <2>2. Size(fs[i], mask) \in Nat
        BY <2>1, SizeIs
    <2>3. p[i] = p[i - 1] + Size(fs[i], mask) /\ p[i - 1] \in Nat /\ p[i] \in Nat
        BY <1>4, <2>1
    <2> QED BY <2>2, <2>3
  <1>13. ASSUME NEW i \in (c + 1)..(n + 1)
         PROVE  /\ s[i] = s[i - 1] + Size(gs[i], mask)
                /\ \A j \in 1..Size(gs[i], mask) : r[s[i - 1] + j] = CellOf(gs[i], mask, j)
    <2>1. CASE i = n + 1
      <3>1. gs[i] = f /\ s[i] = l + z /\ i - 1 = n /\ n \in c..n
          BY <1>2, <1>7, <1>10, <2>1
      <3>2. s[i - 1] = l
          BY <1>4, <1>9, <3>1
      <3>3. ASSUME NEW j \in 1..z PROVE r[l + j] = CellOf(f, mask, j)
        <4>1. l + j \in 1..(l + z) /\ ~(l + j <= l) /\ (l + j) - l = j
            BY <1>2, <1>5
        <4> QED BY <1>5, <1>6, <4>1
      <3> QED BY <1>1, <3>1, <3>2, <3>3
    <2>2. CASE i # n + 1
      <3>1. i \in (c + 1)..n /\ i \in c..n /\ i - 1 \in c..n /\ i \in 1..n /\ n \in c..n /\ i <= n
          BY <1>2, <2>2
      <3>2. gs[i] = fs[i] /\ s[i] = p[i] /\ s[i - 1] = p[i - 1]
          BY <1>7, <1>9, <3>1
      <3>3. p[i] = p[i - 1] + Size(fs[i], mask)
          BY <1>4, <3>1
      <3>4. ASSUME NEW j \in 1..Size(fs[i], mask) PROVE r[p[i - 1] + j] = CellOf(fs[i], mask, j)
        <4>1. q[p[i - 1] + j] = CellOf(fs[i], mask, j)
            BY <1>4, <3>1
        <4>2. p[i] <= p[n]
            BY ONLY <1>2, <1>4, <1>12, <3>1, EndsRise
        <4>3. p[i - 1] + j \in 1..l
          <5>1. PICK x, y, u : x = p[i - 1] /\ y = p[i] /\ u = Size(fs[i], mask)
              OBVIOUS
          <5>2. x \in Nat /\ y \in Nat /\ y = x + u /\ y <= l /\ j \in 1..u
              BY <1>4, <3>1, <3>3, <4>2, <5>1
          <5>3. u \in Nat
              BY <1>1, <3>1, <5>1, SizeIs
          <5>4. x + j \in 1..l
              BY ONLY <1>2, <5>2, <5>3
          <5> QED BY <5>1, <5>4
        <4>4. PICK k : k = p[i - 1] + j
            OBVIOUS
        <4>5. k \in 1..l /\ k \in 1..(l + z) /\ k <= l
            BY <1>2, <1>5, <4>3, <4>4
        <4>6. r[k] = q[k]
            BY <1>6, <4>5
        <4> QED BY <4>1, <4>4, <4>6
      <3> QED BY <3>2, <3>3, <3>4
    <2> QED BY <2>1, <2>2
  <1>14. EndsAt(s, r, gs, mask, c)
      BY <1>6, <1>7, <1>10, <1>11, <1>13 DEF EndsAt
  <1> QED BY <1>14 DEF Carries

(* The frames behind the c-th are all the frames of the rest. *)
LEMMA CarriesRest ==
    ASSUME NEW fs \in Seq(Frame), NEW mask \in BOOLEAN, NEW c \in 0..Len(fs),
           NEW q, Carries(q, fs, mask, c), NEW gs, gs = SubSeq(fs, c + 1, Len(fs))
    PROVE  Carries(q, gs, mask, 0)
  <1>1. PICK n, m : n = Len(fs) /\ m = n - c
      OBVIOUS
  <1>2. n \in Nat /\ c \in Nat /\ c <= n /\ m \in Nat /\ c + m = n
      BY <1>1
  <1>3. PICK p : EndsAt(p, q, fs, mask, c)
      BY DEF Carries
  <1>4. /\ p \in [c..n -> Nat] /\ p[c] = 0 /\ p[n] = Len(q)
        /\ \A i \in (c + 1)..n : p[i] = p[i - 1] + Size(fs[i], mask)
        /\ \A i \in (c + 1)..n : \A j \in 1..Size(fs[i], mask) : q[p[i - 1] + j] = CellOf(fs[i], mask, j)
      BY <1>1, <1>3 DEF EndsAt
  <1>5. Len(gs) = m /\ \A i \in 1..m : gs[i] = fs[c + i]
    <2>1. gs = SubSeq(fs, c + 1, n) /\ fs \in Seq(Frame) /\ n = Len(fs)
        BY <1>1
    <2> QED BY ONLY <1>1, <1>2, <2>1
  <1>6. PICK s : s = [i \in 0..m |-> p[c + i]]
      OBVIOUS
  <1>7. \A i \in 0..m : c + i \in c..n
      BY <1>2
  <1>8. s \in [0..m -> Nat]
      BY <1>4, <1>6, <1>7
  <1>9. s[0] = 0 /\ s[m] = Len(q)
    <2>1. 0 \in 0..m /\ m \in 0..m /\ c + 0 = c
        BY <1>2
    <2> QED BY <1>2, <1>4, <1>6, <2>1
  <1>10. ASSUME NEW i \in (0 + 1)..m
         PROVE  /\ s[i] = s[i - 1] + Size(gs[i], mask)
                /\ \A j \in 1..Size(gs[i], mask) : q[s[i - 1] + j] = CellOf(gs[i], mask, j)
    <2>1. c + i \in (c + 1)..n /\ c + (i - 1) = (c + i) - 1 /\ i \in 1..m /\ i \in 0..m /\ i - 1 \in 0..m
        BY <1>2
    <2>2. gs[i] = fs[c + i] /\ s[i] = p[c + i] /\ s[i - 1] = p[(c + i) - 1]
        BY <1>5, <1>6, <2>1
    <2> QED BY <1>4, <2>1, <2>2
  <1>11. EndsAt(s, q, gs, mask, 0)
      BY <1>5, <1>8, <1>9, <1>10 DEF EndsAt
  <1> QED BY <1>11 DEF Carries
------------------------------------------------------------------------------
(* A call settles the frames behind the a-th up to the b-th, *)
Moves(fs, call, a, b) ==
    /\ call.do = "data" => /\ DataTo(fs, b) = Append(DataTo(fs, a), Told("data", call.op, call.item))
                           /\ PongsTo(fs, b) = PongsTo(fs, a)
    /\ call.do = "send" => /\ DataTo(fs, b) = DataTo(fs, a)
                           /\ PongsTo(fs, b) = Append(PongsTo(fs, a), [op |-> "PONG", item |-> call.item])
    /\ call.do \in {"pong", "close"} => DataTo(fs, b) = DataTo(fs, a) /\ PongsTo(fs, b) = PongsTo(fs, a)

(* and calls, one after the other: pos tells how far each gets. *)
Gets(pos, fs, calls, a, b) ==
    /\ pos \in [0..Len(calls) -> 0..Len(fs)] /\ pos[0] = a /\ pos[Len(calls)] = b
    /\ \A i \in 1..Len(calls) : Moves(fs, calls[i], pos[i - 1], pos[i])
Covers(fs, calls, a, b) == \E pos : Gets(pos, fs, calls, a, b)

(* No calls settle nothing. *)
LEMMA CoversNothing ==
    ASSUME NEW fs \in Seq(Frame), NEW a \in 0..Len(fs)
    PROVE  Covers(fs, <<>>, a, a)
  <1>1. PICK nil, pos : nil = <<>> /\ pos = [i \in 0..0 |-> a]
      OBVIOUS
  <1>2. Len(nil) = 0
      BY <1>1
  <1>3. 0 \in 0..0
      OBVIOUS
  <1>4. pos \in [0..0 -> 0..Len(fs)] /\ pos[0] = a
      BY <1>1, <1>3
  <1>5. \A i \in 1..0 : FALSE
      OBVIOUS
  <1>6. Gets(pos, fs, nil, a, a)
      BY <1>2, <1>4, <1>5 DEF Gets
  <1> QED BY <1>1, <1>6 DEF Covers

(* Calls after calls. *)
LEMMA CoversConcat ==
    ASSUME NEW fs \in Seq(Frame), NEW x, NEW y, IsSeq(x), IsSeq(y), NEW a, NEW b, NEW c,
           Covers(fs, x, a, b), Covers(fs, y, b, c), NEW q, q = x \o y
    PROVE  Covers(fs, q, a, c)
  <1>1. PICK n, m : n = Len(x) /\ m = Len(y)
      OBVIOUS
  <1>2. n \in Nat /\ m \in Nat
      BY <1>1, SeqIs
  <1>3. PICK p : Gets(p, fs, x, a, b)
      BY DEF Covers
  <1>4. PICK r : Gets(r, fs, y, b, c)
      BY DEF Covers
  <1>5. /\ p \in [0..n -> 0..Len(fs)] /\ p[0] = a /\ p[n] = b
        /\ \A i \in 1..n : Moves(fs, x[i], p[i - 1], p[i])
      BY <1>1, <1>3 DEF Gets
  <1>6. /\ r \in [0..m -> 0..Len(fs)] /\ r[0] = b /\ r[m] = c
        /\ \A i \in 1..m : Moves(fs, y[i], r[i - 1], r[i])
      BY <1>1, <1>4 DEF Gets
  <1>7. Len(q) = n + m /\ \A i \in 1..(n + m) : q[i] = IF i <= n THEN x[i] ELSE y[i - n]
      BY <1>1, SeqConcat
  <1>8. PICK s : s = [i \in 0..(n + m) |-> IF i <= n THEN p[i] ELSE r[i - n]]
      OBVIOUS
  <1>9. \A i \in 0..n : s[i] = p[i]
      BY <1>2, <1>8
  <1>10. \A i \in n..(n + m) : s[i] = r[i - n]
    <2> SUFFICES ASSUME NEW i \in n..(n + m) PROVE s[i] = r[i - n]
        OBVIOUS
    <2>1. CASE i = n
      <3>1. i \in 0..n /\ i - n = 0
          BY <1>2, <2>1
      <3> QED BY <1>5, <1>6, <1>9, <2>1, <3>1
    <2>2. CASE i # n
      <3>1. i \in 0..(n + m) /\ ~(i <= n)
          BY <1>2, <2>2
      <3> QED BY <1>8, <3>1
    <2> QED BY <2>1, <2>2
  <1>11. s \in [0..(n + m) -> 0..Len(fs)]
    <2>1. ASSUME NEW i \in 0..(n + m) PROVE s[i] \in 0..Len(fs)
      <3>1. CASE i <= n
        <4>1. i \in 0..n
            BY <1>2, <3>1
        <4> QED BY <1>5, <1>9, <4>1
      <3>2. CASE ~(i <= n)
        <4>1. i \in n..(n + m) /\ i - n \in 0..m
            BY <1>2, <3>2
        <4> QED BY <1>6, <1>10, <4>1
      <3> QED BY <3>1, <3>2
    <2> QED BY <1>8, <2>1
  <1>12. s[0] = a /\ s[n + m] = c
    <2>1. 0 \in 0..n /\ n + m \in n..(n + m) /\ (n + m) - n = m
        BY <1>2
    <2> QED BY <1>5, <1>6, <1>9, <1>10, <2>1
  <1>13. ASSUME NEW i \in 1..(n + m) PROVE Moves(fs, q[i], s[i - 1], s[i])
    <2>1. CASE i <= n
      <3>1. i \in 1..n /\ i \in 0..n /\ i - 1 \in 0..n
          BY <1>2, <2>1
      <3>2. q[i] = x[i] /\ s[i] = p[i] /\ s[i - 1] = p[i - 1]
          BY <1>7, <1>9, <2>1, <3>1
      <3> QED BY <1>5, <3>1, <3>2
    <2>2. CASE ~(i <= n)
      <3>1. i - n \in 1..m /\ i \in n..(n + m) /\ i - 1 \in n..(n + m) /\ (i - 1) - n = (i - n) - 1
          BY <1>2, <2>2
      <3>2. q[i] = y[i - n] /\ s[i] = r[i - n] /\ s[i - 1] = r[(i - n) - 1]
          BY <1>7, <1>10, <2>2, <3>1
      <3> QED BY <1>6, <3>1, <3>2
    <2> QED BY <2>1, <2>2
  <1>14. Gets(s, fs, q, a, c)
      BY <1>7, <1>11, <1>12, <1>13 DEF Gets
  <1> QED BY <1>14 DEF Covers

(* The calls of a frame with fin settle all the frames that waited for it. *)
LEMMA CallsCover ==
    ASSUME NEW fs, FramesOK(fs), NEW d \in 0..Len(fs), NEW e \in (d + 1)..Len(fs), fs[e].fin,
           \A j \in (d + 1)..(e - 1) : ~fs[j].fin,
           NEW vec, IsSeq(vec), Len(vec) = e - d, \A i \in 1..(e - d) : vec[i] = Item(fs[d + i]),
           NEW calls, calls = Calls(fs[e].op, vec, OpOf(fs, e))
    PROVE  Covers(fs, calls, d, e)
  <1>1. PICK op, n : op = fs[e].op /\ n = e - d
      OBVIOUS
  <1>2. /\ Len(fs) \in Nat /\ fs \in Seq(Frame) /\ d \in Nat /\ e \in Nat /\ n \in Nat /\ n >= 1
        /\ d + n = e /\ e <= Len(fs)
      BY <1>1 DEF FramesOK
  <1>3. op \in Ops
    <2>1. e \in 1..Len(fs)
        BY <1>2
    <2>2. fs[e] \in Frame
        BY <1>2, <2>1
    <2> QED BY <1>1, <2>2 DEF Frame
  <1>4. /\ \A i \in (d + 1)..e : Fate(fs, i) = op /\ OpOf(fs, i) = OpOf(fs, e)
        /\ op \in DataOps => OpOf(fs, e) = op
    <2>1. /\ \A i \in (d + 1)..e : Fate(fs, i) = fs[e].op /\ OpOf(fs, i) = OpOf(fs, e)
          /\ fs[e].op \in DataOps => OpOf(fs, e) = fs[e].op
        BY SettledTogether
    <2> QED BY <1>1, <2>1
  <1>5. Len(vec) = n /\ DOMAIN vec = 1..n /\ \A i \in 1..n : vec[i] = Item(fs[d + i])
      BY <1>1, SeqIs
  <1>6. ASSUME NEW i \in 1..n
        PROVE  /\ d + i \in 1..Len(fs) /\ (d + i) - 1 = d + (i - 1)
               /\ DataTo(fs, d + i) = IF op \in DataFates
                                      THEN Append(DataTo(fs, d + (i - 1)), Told("data", OpOf(fs, e), vec[i]))
                                      ELSE DataTo(fs, d + (i - 1))
               /\ PongsTo(fs, d + i) = IF op = "PING"
                                       THEN Append(PongsTo(fs, d + (i - 1)), [op |-> "PONG", item |-> vec[i]])
                                       ELSE PongsTo(fs, d + (i - 1))
    <2>1. PICK k : k = d + i
        OBVIOUS
    <2>2. k \in 1..Len(fs) /\ k \in (d + 1)..e /\ k - 1 = d + (i - 1)
        BY <1>2, <2>1
    <2>3. /\ DataTo(fs, k) = IF Fate(fs, k) \in DataFates
                             THEN Append(DataTo(fs, k - 1), Told("data", OpOf(fs, k), Item(fs[k])))
                             ELSE DataTo(fs, k - 1)
          /\ PongsTo(fs, k) = IF Fate(fs, k) = "PING"
                              THEN Append(PongsTo(fs, k - 1), [op |-> "PONG", item |-> Item(fs[k])])
                              ELSE PongsTo(fs, k - 1)
        BY ONLY <1>2, <2>2, DueGrows
    <2>4. Fate(fs, k) = op /\ OpOf(fs, k) = OpOf(fs, e) /\ Item(fs[k]) = vec[i]
        BY <1>4, <1>5, <2>1, <2>2
    <2> QED BY <2>1, <2>2, <2>3, <2>4
  <1>7. ASSUME op # "PONG", NEW do, NEW o, calls = [i \in 1..n |-> Call(do, o, vec[i])],
               (do = "data" /\ op \in DataFates /\ o = OpOf(fs, e)) \/ (do = "send" /\ op = "PING")
               \/ (do = "close" /\ op = "CLOSE")
        PROVE  Covers(fs, calls, d, e)
    <2>1. Len(calls) = n
      <3>1. calls = [i \in 1..n |-> calls[i]]
          BY <1>7
      <3> QED BY ONLY <1>2, <3>1, FunctionIsSeq
    <2>2. PICK pos : pos = [i \in 0..n |-> d + i]
        OBVIOUS
    <2>3. pos \in [0..n -> 0..Len(fs)] /\ pos[0] = d /\ pos[n] = e
        BY <1>2, <2>2
    <2>4. ASSUME NEW i \in 1..n PROVE Moves(fs, calls[i], pos[i - 1], pos[i])
      <3>1. calls[i] = Call(do, o, vec[i])
          BY <1>7
      <3>2. PICK x : x = calls[i]
          OBVIOUS
      <3>3. x.do = do /\ x.op = o /\ x.item = vec[i]
          BY <3>1, <3>2 DEF Call
      <3>4. pos[i - 1] = d + (i - 1) /\ pos[i] = d + i
          BY <1>2, <2>2
      <3>5. CASE do = "data" /\ op \in DataFates /\ o = OpOf(fs, e)
        <4>1. op # "PING"
            BY <3>5 DEF DataFates, DataOps
        <4> QED BY <1>6, <3>2, <3>3, <3>4, <3>5, <4>1 DEF Moves
      <3>6. CASE do = "send" /\ op = "PING"
        <4>1. op \notin DataFates
            BY <3>6 DEF DataFates, DataOps
        <4> QED BY <1>6, <3>2, <3>3, <3>4, <3>6, <4>1 DEF Moves
      <3>7. CASE do = "close" /\ op = "CLOSE"
        <4>1. op \notin DataFates /\ op # "PING"
            BY <3>7 DEF DataFates, DataOps
        <4> QED BY <1>6, <3>2, <3>3, <3>4, <3>7, <4>1 DEF Moves
      <3> QED BY <1>7, <3>5, <3>6, <3>7
    <2>5. Gets(pos, fs, calls, d, e)
        BY <2>1, <2>3, <2>4 DEF Gets
    <2> QED BY <2>5 DEF Covers
  <1>8. CASE op = "PONG"
    <2>1. PICK x : x = Call("pong", "PONG", <<>>)
        OBVIOUS
    <2>2. calls = <<x>>
        BY <1>1, <1>8, <2>1 DEF Calls
    <2>3. Len(calls) = 1 /\ calls[1] = x
        BY <2>2
    <2>4. x.do = "pong"
        BY <2>1 DEF Call
    <2>5. DataTo(fs, e) = DataTo(fs, d) /\ PongsTo(fs, e) = PongsTo(fs, d)
      <3>1. \A i \in (d + 1)..e : Fate(fs, i) \notin DataFates \cup {"PING"}
          BY <1>4, <1>8 DEF DataFates, DataOps
      <3>2. e \in 0..Len(fs) /\ d <= e
          BY <1>2
      <3> QED BY <1>2, <3>1, <3>2, DueSame
    <2>6. PICK pos : pos = [i \in 0..1 |-> IF i = 0 THEN d ELSE e]
        OBVIOUS
    <2>7. pos \in [0..1 -> 0..Len(fs)] /\ pos[0] = d /\ pos[1] = e
        BY <1>2, <2>6
    <2>8. Moves(fs, x, d, e)
        BY <2>4, <2>5 DEF Moves
    <2>9. \A i \in 1..1 : i = 1 /\ i - 1 = 0
        OBVIOUS
    <2>10. Gets(pos, fs, calls, d, e)
        BY <2>3, <2>7, <2>8, <2>9 DEF Gets
    <2> QED BY <2>10 DEF Covers
  <1>9. CASE op = "PING"
    <2>1. calls = [i \in 1..n |-> Call("send", "PONG", vec[i])]
        BY <1>1, <1>5, <1>9 DEF Calls
    <2> QED BY <1>7, <1>9, <2>1
  <1>10. CASE op = "CLOSE"
    <2>1. calls = [i \in 1..n |-> Call("close", "CLOSE", vec[i])]
        BY <1>1, <1>5, <1>10 DEF Calls
    <2> QED BY <1>7, <1>10, <2>1
  <1>11. CASE op = "CONT"
    <2>1. calls = [i \in 1..n |-> Call("data", OpOf(fs, e), vec[i])]
        BY <1>1, <1>5, <1>11 DEF Calls
    <2>2. op \in DataFates
        BY <1>11 DEF DataFates
    <2> QED BY <1>7, <1>11, <2>1, <2>2
  <1>12. CASE op \in DataOps
    <2>1. calls = [i \in 1..n |-> Call("data", op, vec[i])]
        BY <1>1, <1>5, <1>12 DEF Calls, DataOps
    <2>2. op \in DataFates /\ op # "PONG" /\ op = OpOf(fs, e)
        BY <1>4, <1>12 DEF DataFates, DataOps
    <2> QED BY <1>7, <2>1, <2>2
  <1> QED BY <1>3, <1>8, <1>9, <1>10, <1>11, <1>12 DEF Ops, DataOps
------------------------------------------------------------------------------
(* The parser has the header of frame f; *)
HeaderOf(fr, f, mask) ==
    /\ fr.fin = f.fin /\ fr.op = f.op /\ fr.len = Len(f.v)
    /\ fr.start = Start(mask) /\ fr.key = KeyBit(mask)

(* vec has the payloads of the frames up to the c-th that wait for a fin;   *)
Waiting(vec, fs, c) ==
    /\ Len(vec) <= c /\ (c = Len(vec) \/ fs[c - Len(vec)].fin)
    /\ \A i \in 1..Len(vec) : /\ vec[i] = Item(fs[(c - Len(vec)) + i])
                              /\ ~fs[(c - Len(vec)) + i].fin

(* and the parser has handled c of the frames, what it holds and what is    *)
(* still on the way (w) being the others.                                   *)
ParserAt(b, w, fs, mask, c) ==
    /\ c \in 0..Len(fs) /\ Carries(b.frame.buffer \o w, fs, mask, c)
    /\ b.frame.header_ready => c < Len(fs) /\ HeaderOf(b.frame, fs[c + 1], mask)
    /\ Waiting(b.vec, fs, c) /\ b.last_op = OpOf(fs, c)

(* The cells that the parser holds are the first of those to come. *)
LEMMA BufferFirst ==
    ASSUME NEW b \in Seq(Cell), NEW w \in Seq(Cell), NEW q, q = b \o w
    PROVE  /\ q \in Seq(Cell) /\ Len(q) = Len(b) + Len(w) /\ Len(b) \in Nat /\ Len(w) \in Nat
           /\ \A i \in 1..Len(b) : q[i] = b[i]
           /\ \A i \in 1..Len(w) : q[Len(b) + i] = w[i]
  <1>1. /\ q \in Seq(Cell) /\ Len(q) = Len(b) + Len(w) /\ Len(b) \in Nat /\ Len(w) \in Nat
        /\ \A i \in 1..(Len(b) + Len(w)) : q[i] = IF i <= Len(b) THEN b[i] ELSE w[i - Len(b)]
      BY ConcatProperties
  <1>2. ASSUME NEW i \in 1..Len(b) PROVE q[i] = b[i]
    <2>1. i \in 1..(Len(b) + Len(w)) /\ i <= Len(b)
        BY <1>1
    <2> QED BY <1>1, <2>1
  <1>3. ASSUME NEW i \in 1..Len(w) PROVE q[Len(b) + i] = w[i]
    <2>1. Len(b) + i \in 1..(Len(b) + Len(w)) /\ ~(Len(b) + i <= Len(b)) /\ (Len(b) + i) - Len(b) = i
        BY <1>1
    <2> QED BY <1>1, <2>1
  <1> QED BY <1>1, <1>2, <1>3

(* The cells behind the first z. *)
After(q, z) == SubSeq(q, z + 1, Len(q))

(* The cells of the next frame come first. *)
LEMMA CarriesFirst ==
    ASSUME NEW fs \in Seq(Frame), NEW mask \in BOOLEAN, NEW c \in Nat, c < Len(fs),
           NEW q \in Seq(Cell), Carries(q, fs, mask, c)
    PROVE  /\ Size(fs[c + 1], mask) <= Len(q)
           /\ \A j \in 1..Size(fs[c + 1], mask) : q[j] = CellOf(fs[c + 1], mask, j)
           /\ Carries(After(q, Size(fs[c + 1], mask)), fs, mask, c + 1)
  <1>1. PICK z, r : z = Size(fs[c + 1], mask) /\ r = SubSeq(q, z + 1, Len(q))
      OBVIOUS
  <1>2. /\ z <= Len(q) /\ \A j \in 1..z : q[j] = CellOf(fs[c + 1], mask, j)
        /\ Carries(r, fs, mask, c + 1)
    <2>1. z <= Len(q)
        BY <1>1, CarriesNext
    <2>2. ASSUME NEW j \in 1..z PROVE q[j] = CellOf(fs[c + 1], mask, j)
      <3>1. PICK p : EndsAt(p, q, fs, mask, c)
          BY DEF Carries
      <3>2. /\ p[c] = 0
            /\ \A i \in (c + 1)..Len(fs) : \A k \in 1..Size(fs[i], mask) :
                   q[p[i - 1] + k] = CellOf(fs[i], mask, k)
          BY <3>1 DEF EndsAt
      <3>3. c + 1 \in (c + 1)..Len(fs) /\ j \in 1..Size(fs[c + 1], mask)
          BY <1>1
      <3>4. q[p[(c + 1) - 1] + j] = CellOf(fs[c + 1], mask, j)
          BY ONLY <3>2, <3>3
      <3>5. (c + 1) - 1 = c /\ 0 + j = j
          OBVIOUS
      <3> QED BY ONLY <3>2, <3>4, <3>5
    <2>3. Carries(r, fs, mask, c + 1)
        BY <1>1, CarriesNext
    <2> QED BY <2>1, <2>2, <2>3
  <1>3. r = After(q, z)
      BY <1>1 DEF After
  <1> QED BY <1>1, <1>2, <1>3

(* Parse reads the header of the next frame, whatever junk there might be.  *)
LEMMA HeaderIsRead ==
    ASSUME NEW fs \in Seq(Frame), NEW mask \in BOOLEAN, NEW c \in 0..Len(fs),
           NEW f, FrameOK(f), NEW w \in Seq(Cell), Carries(f.buffer \o w, fs, mask, c),
           f.header_ready => c < Len(fs) /\ HeaderOf(f, fs[c + 1], mask),
           NEW junk, NEW g, g = ReadHeader(f, junk), g.header_ready
    PROVE  c < Len(fs) /\ HeaderOf(g, fs[c + 1], mask)
  <1>1. PICK h : h = IF f.buffer[1].k = "H" THEN f.buffer[1] ELSE junk
      OBVIOUS
  <1>2. g = IF f.header_ready \/ f.buffer = <<>> \/ (h.mask /\ Len(f.buffer) < 2) THEN f
            ELSE [f EXCEPT !.header_ready = TRUE, !.fin = h.fin, !.op = h.op, !.len = h.n,
                           !.start = IF h.mask THEN 2 ELSE 1,
                           !.key = IF h.mask THEN f.buffer[2].key ELSE 0]
      BY <1>1 DEF ReadHeader
  <1>3. CASE f.header_ready \/ f.buffer = <<>> \/ (h.mask /\ Len(f.buffer) < 2)
    <2>1. g = f
        BY <1>2, <1>3
    <2> QED BY <2>1
  <1>4. CASE ~(f.header_ready \/ f.buffer = <<>> \/ (h.mask /\ Len(f.buffer) < 2))
    <2>1. PICK b, q : b = f.buffer /\ q = b \o w
        OBVIOUS
    <2>2. b \in Seq(Cell) /\ b # <<>>
        BY <1>4, <2>1 DEF FrameOK
    <2>3. q \in Seq(Cell) /\ Len(q) = Len(b) + Len(w) /\ Len(b) \in Nat /\ Len(w) \in Nat
          /\ \A i \in 1..Len(b) : q[i] = b[i]
        BY <2>1, <2>2, BufferFirst
    <2>4. Len(b) >= 1
        BY <2>2
    <2>5. Len(fs) \in Nat /\ c # Len(fs)
      <3>1. Len(q) # 0
          BY <2>3, <2>4
      <3>2. c = Len(fs) => Len(q) = 0
          BY <2>1, CarriesNone
      <3> QED BY <3>1, <3>2
    <2>6. c \in Nat /\ c < Len(fs) /\ c + 1 \in 1..Len(fs)
        BY <2>5
    <2>7. PICK n, z, r : n = fs[c + 1] /\ z = Size(n, mask) /\ r = SubSeq(q, z + 1, Len(q))
        OBVIOUS
    <2>8. \A j \in 1..z : q[j] = CellOf(n, mask, j)
      <3>1. Carries(q, fs, mask, c)
          BY <2>1
      <3>2. \A j \in 1..Size(fs[c + 1], mask) : q[j] = CellOf(fs[c + 1], mask, j)
          BY <2>3, <2>6, <3>1, CarriesFirst
      <3> QED BY <2>7, <3>2
    <2>9. z \in Nat /\ z >= Start(mask) /\ Start(mask) \in {1, 2}
        BY <2>6, <2>7, SizeIs
    <2>10. b[1] = Header(n.op, n.fin, mask, Len(n.v))
      <3>1. 1 \in 1..z /\ 1 \in 1..Len(b)
          BY <2>3, <2>4, <2>9
      <3>2. q[1] = CellOf(n, mask, 1)
          BY <2>8, <3>1
      <3>3. CellOf(n, mask, 1) = Header(n.op, n.fin, mask, Len(n.v))
          BY DEF CellOf
      <3> QED BY <2>3, <3>1, <3>2, <3>3
    <2>11. h = b[1]
      <3>1. b[1].k = "H"
          BY <2>10 DEF Header
      <3> QED BY <1>1, <2>1, <3>1
    <2>12. h.op = n.op /\ h.fin = n.fin /\ h.mask = mask /\ h.n = Len(n.v)
        BY <2>10, <2>11 DEF Header
    <2>13. PICK key, start : key = (IF h.mask THEN f.buffer[2].key ELSE 0)
                             /\ start = (IF h.mask THEN 2 ELSE 1)
        OBVIOUS
    <2>14. start = Start(mask) /\ key = KeyBit(mask)
      <3>1. CASE mask = TRUE
        <4>1. Len(b) >= 2
            BY <1>4, <2>1, <2>3, <2>12, <3>1
        <4>2. 2 \in 1..z /\ 2 \in 1..Len(b) /\ Start(mask) = 2
            BY <2>3, <2>9, <3>1, <4>1 DEF Start
        <4>3. q[2] = CellOf(n, mask, 2)
            BY <2>8, <4>2
        <4>4. CellOf(n, mask, 2) = Key(1)
            BY <4>2 DEF CellOf
        <4>5. b[2] = Key(1)
            BY <2>3, <4>2, <4>3, <4>4
        <4>6. b[2].key = 1
            BY <4>5 DEF Key
        <4> QED BY <2>1, <2>12, <2>13, <3>1, <4>2, <4>6 DEF KeyBit
      <3>2. CASE mask = FALSE
          BY <2>12, <2>13, <3>2 DEF Start, KeyBit
      <3> QED BY <3>1, <3>2
    <2>15. g = [buffer |-> f.buffer, header_ready |-> TRUE, start |-> start,
                len |-> h.n, fin |-> h.fin, op |-> h.op, key |-> key]
        BY <1>2, <1>4, <2>13 DEF FrameOK
    <2>16. HeaderOf(g, n, mask)
        BY <2>12, <2>14, <2>15 DEF HeaderOf
    <2> QED BY <2>6, <2>7, <2>16
  <1> QED BY <1>3, <1>4

(* What is left of the cells when the first z of them are taken. *)
LEMMA RestFollows ==
    ASSUME NEW b \in Seq(Cell), NEW w \in Seq(Cell), NEW z \in Nat, z <= Len(b)
    PROVE  After(b \o w, z) = After(b, z) \o w
  <1>0. PICK q, rest : q = b \o w /\ rest = After(b, z)
      OBVIOUS
  <1>1. q \in Seq(Cell) /\ Len(q) = Len(b) + Len(w) /\ Len(b) \in Nat /\ Len(w) \in Nat
        /\ (\A i \in 1..Len(b) : q[i] = b[i]) /\ \A i \in 1..Len(w) : q[Len(b) + i] = w[i]
      BY <1>0, BufferFirst
  <1>2. PICK l, m : l = Len(b) /\ m = Len(w)
      OBVIOUS
  <1>3. l \in Nat /\ m \in Nat /\ z <= l /\ Len(q) = l + m
      BY <1>1, <1>2
  <1>4. rest \in Seq(Cell) /\ Len(rest) = l - z /\ \A i \in 1..(l - z) : rest[i] = b[z + i]
    <2>1. rest = SubSeq(b, z + 1, l) /\ b \in Seq(Cell) /\ l = Len(b) /\ l \in Nat /\ z \in Nat /\ z <= l
        BY <1>0, <1>2, <1>3 DEF After
    <2>2. rest \in Seq(Cell)
        BY ONLY <2>1
    <2>3. Len(rest) = l - z /\ \A i \in 1..(l - z) : rest[i] = b[z + i]
        BY ONLY <2>1
    <2> QED BY <2>2, <2>3
  <1>5. PICK r, s : r = SubSeq(q, z + 1, Len(q)) /\ s = rest \o w
      OBVIOUS
  <1>6. r \in Seq(Cell) /\ Len(r) = (l + m) - z /\ \A i \in 1..((l + m) - z) : r[i] = q[z + i]
    <2>0. l + m \in Nat /\ z <= l + m
        BY <1>3
    <2>1. r = SubSeq(q, z + 1, l + m) /\ q \in Seq(Cell) /\ l + m = Len(q) /\ l + m \in Nat /\ z \in Nat /\ z <= l + m
      <3>1. r = SubSeq(q, z + 1, Len(q)) /\ l + m = Len(q)
          BY <1>3, <1>5
      <3>2. r = SubSeq(q, z + 1, l + m)
          BY ONLY <3>1
      <3> QED BY <1>1, <2>0, <3>1, <3>2
    <2>2. r \in Seq(Cell)
        BY ONLY <2>1
    <2>3. Len(r) = (l + m) - z /\ \A i \in 1..((l + m) - z) : r[i] = q[z + i]
        BY ONLY <2>1
    <2> QED BY <2>2, <2>3
  <1>7. /\ s \in Seq(Cell) /\ Len(s) = (l - z) + m
        /\ (\A i \in 1..(l - z) : s[i] = rest[i]) /\ \A i \in 1..m : s[(l - z) + i] = w[i]
    <2>1. rest \in Seq(Cell) /\ w \in Seq(Cell) /\ s = rest \o w
        BY <1>4, <1>5
    <2>2. s \in Seq(Cell) /\ Len(s) = Len(rest) + Len(w)
          /\ (\A i \in 1..Len(rest) : s[i] = rest[i]) /\ \A i \in 1..Len(w) : s[Len(rest) + i] = w[i]
        BY ONLY <2>1, BufferFirst
    <2> QED BY <1>2, <1>4, <2>2
  <1>8. Len(r) = Len(s)
      BY <1>3, <1>6, <1>7
  <1>9. ASSUME NEW i \in 1..Len(r) PROVE r[i] = s[i]
    <2>1. i \in 1..((l + m) - z)
        BY <1>6
    <2>2. CASE i <= l - z
      <3>1. i \in 1..(l - z) /\ z + i \in 1..l
          BY <1>3, <2>1, <2>2
      <3> QED BY <1>1, <1>2, <1>4, <1>6, <1>7, <2>1, <3>1
    <2>3. CASE ~(i <= l - z)
      <3>1. PICK k : k = i - (l - z)
          OBVIOUS
      <3>2. k \in 1..m /\ z + i = l + k /\ i = (l - z) + k
          BY <1>3, <2>1, <2>3, <3>1
      <3>3. r[i] = q[l + k] /\ s[i] = w[k]
          BY <1>6, <1>7, <2>1, <3>2
      <3> QED BY <1>1, <1>2, <3>2, <3>3
    <2> QED BY <2>2, <2>3
  <1>10. r = s
      BY <1>6, <1>7, <1>8, <1>9, SeqEqual
  <1>11. After(q, z) = r
      BY <1>5 DEF After
  <1> QED BY <1>0, <1>5, <1>10, <1>11

(* A header less when the first frame is taken. *)
LEMMA HeadersLess ==
    ASSUME NEW b \in Seq(Cell), NEW z \in 1..Len(b), NEW rest, rest = After(b, z),
           b[1].k = "H", \A j \in 2..z : b[j].k # "H"
    PROVE  /\ IsFiniteSet(HeadersIn(b)) /\ IsFiniteSet(HeadersIn(rest))
           /\ Cardinality(HeadersIn(rest)) \in Nat
           /\ Cardinality(HeadersIn(b)) = Cardinality(HeadersIn(rest)) + 1
  <1>1. PICK m, l : l = Len(b) /\ m = l - z
      OBVIOUS
  <1>2. l \in Nat /\ z \in Nat /\ 1 <= z /\ z <= l /\ m \in Nat /\ l = z + m /\ DOMAIN b = 1..l
      BY <1>1
  <1>3. rest \in Seq(Cell) /\ Len(rest) = m /\ \A i \in 1..m : rest[i] = b[z + i]
    <2>1. rest = SubSeq(b, z + 1, l) /\ b \in Seq(Cell) /\ l = Len(b) /\ l \in Nat /\ z \in Nat /\ z <= l
        BY <1>1, <1>2 DEF After
    <2>2. rest \in Seq(Cell)
        BY ONLY <2>1
    <2>3. Len(rest) = l - z /\ \A i \in 1..(l - z) : rest[i] = b[z + i]
        BY ONLY <2>1
    <2> QED BY <1>1, <2>2, <2>3
  <1>4. PICK G, H, K : G = HeadersIn(rest) /\ H = HeadersIn(b) /\ K = H \ {1}
      OBVIOUS
  <1>5. G = {i \in 1..m : rest[i].k = "H"}
    <2>1. DOMAIN rest = 1..m
        BY <1>3
    <2> QED BY <1>4, <2>1 DEF HeadersIn
  <1>6. H = {i \in 1..l : b[i].k = "H"}
      BY <1>2, <1>4 DEF HeadersIn
  <1>7. IsFiniteSet(G)
    <2>1. G \in SUBSET (1..m)
        BY <1>5
    <2>2. IsFiniteSet(1..m)
        BY <1>2, FS_Interval
    <2> QED BY <2>1, <2>2, FS_Subset
  <1>8. PICK g : g = [i \in G |-> z + i]
      OBVIOUS
  <1>9. g \in [G -> K]
    <2> SUFFICES ASSUME NEW i \in G PROVE z + i \in K
        BY <1>8
    <2>1. i \in 1..m /\ rest[i].k = "H"
        BY <1>5
    <2>2. z + i \in 1..l /\ z + i # 1
        BY <1>2, <2>1
    <2>3. b[z + i].k = "H"
        BY <1>3, <2>1
    <2> QED BY <1>4, <1>6, <2>2, <2>3
  <1>10. \A i, j \in G : g[i] = g[j] => i = j
    <2>1. \A i \in G : i \in Int
        BY <1>5
    <2> QED BY <1>2, <1>8, <2>1
  <1>11. ASSUME NEW t \in K PROVE \E i \in G : g[i] = t
    <2>1. t \in 1..l /\ b[t].k = "H" /\ t # 1
        BY <1>4, <1>6
    <2>2. t \notin 2..z
        BY <2>1
    <2>3. t - z \in 1..m /\ z + (t - z) = t
        BY <1>2, <2>1, <2>2
    <2>4. rest[t - z].k = "H"
        BY <1>3, <2>1, <2>3
    <2>5. t - z \in G
        BY <1>5, <2>3, <2>4
    <2> QED BY <1>8, <2>3, <2>5
  <1>12. g \in Bijection(G, K)
    <2>1. DOMAIN g = G
        BY <1>8
    <2>2. g \in Injection(G, K)
        BY <1>9, <1>10, <2>1 DEF Injection, IsInjective
    <2>3. g \in Surjection(G, K)
        BY <1>9, <1>11 DEF Surjection
    <2> QED BY <2>2, <2>3 DEF Bijection
  <1>13. IsFiniteSet(K) /\ Cardinality(K) = Cardinality(G)
    <2>1. ExistsBijection(G, K)
        BY <1>12 DEF ExistsBijection
    <2> QED BY <1>7, <2>1, FS_Bijection
  <1>14. H = K \cup {1} /\ 1 \notin K
      BY <1>2, <1>4, <1>6
  <1>15. IsFiniteSet(H) /\ Cardinality(H) = Cardinality(K) + 1
      BY <1>13, <1>14, FS_AddElement
  <1>16. Cardinality(G) \in Nat
      BY <1>7, FS_CardinalityType
  <1> QED BY <1>4, <1>7, <1>13, <1>15, <1>16

(* The payload that was masked with the key is back. *)
LEMMA UnmaskedIs ==
    ASSUME NEW n \in Frame, NEW mask \in BOOLEAN, NEW f, HeaderOf(f, n, mask),
           \A j \in 1..Size(n, mask) : f.buffer[j] = CellOf(n, mask, j)
    PROVE  Unmasked(f) = Item(n)
  <1>1. PICK v, l, st, k : v = n.v /\ l = Len(v) /\ st = Start(mask) /\ k = KeyBit(mask)
      OBVIOUS
  <1>2. v \in Seq(Int)
      BY <1>1 DEF Frame
  <1>3. l \in Nat /\ DOMAIN v = 1..l
      BY <1>1, <1>2
  <1>4. st \in {1, 2} /\ k \in {0, 1} /\ Size(n, mask) = st + l
      BY <1>1 DEF Start, KeyBit, Size
  <1>5. f.len = l /\ f.start = st /\ f.key = k
      BY <1>1 DEF HeaderOf
  <1>6. ASSUME NEW i \in 1..l
        PROVE  (LET c == f.buffer[f.start + i]
                IN  IF c.k = "P" THEN Payload(c.v, (c.key + f.key) % 2) ELSE Payload(0, 1)) = Payload(v[i], 0)
    <2>1. PICK c : c = f.buffer[f.start + i]
        OBVIOUS
    <2>2. PICK j : j = st + i
        OBVIOUS
    <2>3. j \in 1..(st + l) /\ j # 1 /\ ~(j <= st) /\ j - st = i
        BY <1>3, <1>4, <2>2
    <2>4. c = CellOf(n, mask, j)
        BY <1>4, <1>5, <2>1, <2>2, <2>3
    <2>5. c = Payload(v[i], k)
        BY <1>1, <2>3, <2>4 DEF CellOf
    <2>6. c.k = "P" /\ c.v = v[i] /\ c.key = k
        BY <2>5 DEF Payload
    <2>7. (k + k) % 2 = 0
      <3>1. CASE k = 0
          BY <3>1
      <3>2. CASE k = 1
          BY <3>2
      <3> QED BY <1>4, <3>1, <3>2
    <2>8. Payload(c.v, (c.key + f.key) % 2) = Payload(v[i], 0)
        BY <1>5, <2>6, <2>7
    <2> QED BY <2>1, <2>6, <2>8
  <1>7. Item(n) = [i \in 1..l |-> Payload(v[i], 0)]
      BY <1>1, <1>3 DEF Item
  <1>8. Unmasked(f) = [i \in 1..l |-> LET c == f.buffer[f.start + i]
                IN  IF c.k = "P" THEN Payload(c.v, (c.key + f.key) % 2) ELSE Payload(0, 1)]
      BY <1>5 DEF Unmasked
  <1> QED BY <1>6, <1>7, <1>8
------------------------------------------------------------------------------
(* In the middle of a read: so many of the frames are handled, and their    *)
(* calls settle what was not settled before (a); k frames begin in the      *)
(* cells of the read and before.                                            *)
ParsedTo(s, w, fs, mask, a, k, c) ==
    /\ ParserAt(s.base, w, fs, mask, c)
    /\ Covers(fs, s.calls, a, c - Len(s.base.vec))
    /\ Cardinality(HeadersIn(s.base.frame.buffer)) + c = k
Parsed(s, w, fs, mask, a, k) == \E c : ParsedTo(s, w, fs, mask, a, k, c)

(* The type that the parser keeps for the continuations. *)
LEMMA LastOpIs ==
    ASSUME NEW fs \in Seq(Frame), NEW c \in Nat, c < Len(fs), NEW f, f.op = fs[c + 1].op,
           NEW last, last = OpOf(fs, c)
    PROVE  LastOp(f, last) = OpOf(fs, c + 1)
  <1>1. CASE fs[c + 1].op \in DataOps
    <2>1. OpOf(fs, c + 1) = fs[c + 1].op
        BY <1>1, OpOfStart
    <2> QED BY <1>1, <2>1 DEF LastOp
  <1>2. CASE fs[c + 1].op \notin DataOps
    <2>1. \A k \in (c + 1)..(c + 1) : fs[k].op \notin DataOps
        BY <1>2
    <2>2. c <= c + 1 /\ c + 1 \in Nat
        OBVIOUS
    <2>3. OpOf(fs, c + 1) = OpOf(fs, c)
        BY <2>1, <2>2, OpOfSame
    <2> QED BY <1>2, <2>3 DEF LastOp
  <1> QED BY <1>1, <1>2

(* One payload more waits. *)
LEMMA WaitsLonger ==
    ASSUME NEW fs \in Seq(Frame), NEW c \in Nat, c < Len(fs), NEW vec, IsSeq(vec),
           Waiting(vec, fs, c)
    PROVE  /\ \A i \in 1..(Len(vec) + 1) :
                 Append(vec, Item(fs[c + 1]))[i] = Item(fs[(c - Len(vec)) + i])
           /\ \A i \in 1..Len(vec) : ~fs[(c - Len(vec)) + i].fin
           /\ ~fs[c + 1].fin => Waiting(Append(vec, Item(fs[c + 1])), fs, c + 1)
  <1>0. PICK x, more : x = Item(fs[c + 1]) /\ more = Append(vec, x)
      OBVIOUS
  <1>1. PICK l, d : l = Len(vec) /\ d = c - l
      OBVIOUS
  <1>2. l \in Nat /\ l <= c /\ d \in Nat /\ d + l = c /\ d + (l + 1) = c + 1 /\ (c + 1) - (l + 1) = d
        /\ (c = l <=> c + 1 = l + 1)
      BY <1>1, SeqIs DEF Waiting
  <1>3. /\ c = l \/ fs[d].fin
        /\ \A i \in 1..l : vec[i] = Item(fs[d + i]) /\ ~fs[d + i].fin
      BY <1>1 DEF Waiting
  <1>4. /\ Len(more) = l + 1 /\ more[l + 1] = Item(fs[c + 1])
        /\ \A i \in 1..l : more[i] = vec[i]
      BY <1>0, <1>1, SeqAppend
  <1>5. ASSUME NEW i \in 1..(l + 1) PROVE more[i] = Item(fs[d + i])
    <2>1. CASE i = l + 1
        BY <1>2, <1>4, <2>1
    <2>2. CASE i # l + 1
      <3>1. i \in 1..l
          BY <1>2, <2>2
      <3> QED BY <1>3, <1>4, <3>1
    <2> QED BY <2>1, <2>2
  <1>6. ASSUME ~fs[c + 1].fin PROVE Waiting(more, fs, c + 1)
    <2>1. ASSUME NEW i \in 1..(l + 1) PROVE ~fs[d + i].fin
      <3>1. CASE i = l + 1
          BY <1>2, <1>6, <3>1
      <3>2. CASE i # l + 1
        <4>1. i \in 1..l
            BY <1>2, <3>2
        <4> QED BY <1>3, <4>1
      <3> QED BY <3>1, <3>2
    <2>2. Len(more) <= c + 1 /\ (c + 1) - Len(more) = d
        BY <1>2, <1>4
    <2>3. c + 1 = Len(more) \/ fs[(c + 1) - Len(more)].fin
        BY <1>2, <1>3, <1>4
    <2>4. \A i \in 1..Len(more) : more[i] = Item(fs[((c + 1) - Len(more)) + i])
        BY <1>4, <1>5, <2>2
    <2>5. \A i \in 1..Len(more) : ~fs[((c + 1) - Len(more)) + i].fin
        BY <1>4, <2>1, <2>2
    <2> QED BY <2>2, <2>3, <2>4, <2>5 DEF Waiting
  <1> QED BY <1>0, <1>1, <1>3, <1>5, <1>6

(* A round that has no whole frame leaves all that as it was, but for the   *)
(* header.                                                                  *)
LEMMA RoundWaits ==
    ASSUME NEW fs, FramesOK(fs), NEW mask \in BOOLEAN, NEW w \in Seq(Cell), NEW a, NEW k,
           NEW s, RoundOK(s), NEW c, ParsedTo(s, w, fs, mask, a, k, c), NEW junk \in HeaderCell,
           NEW f, f = ReadHeader(s.base.frame, junk), ~PayloadIsReady(f),
           NEW t, t = OneFrame(s, junk)
    PROVE  ParsedTo(t, w, fs, mask, a, k, c)
  <1>1. /\ s = [base |-> s.base, calls |-> s.calls]
        /\ s.base = [frame |-> s.base.frame, vec |-> s.base.vec, last_op |-> s.base.last_op]
        /\ FrameOK(s.base.frame)
      BY DEF RoundOK, BaseOK
  <1>2. t = [s EXCEPT !.base.frame = f]
      BY DEF OneFrame
  <1>3. t = [base |-> [frame |-> f, vec |-> s.base.vec, last_op |-> s.base.last_op], calls |-> s.calls]
      BY <1>1, <1>2
  <1>4. t.base.frame = f /\ t.base.vec = s.base.vec /\ t.base.last_op = s.base.last_op /\ t.calls = s.calls
      BY <1>3
  <1>5. f.buffer = s.base.frame.buffer
      BY <1>1, HeaderOnce
  <1>6. ParserAt(s.base, w, fs, mask, c) /\ Covers(fs, s.calls, a, c - Len(s.base.vec))
        /\ Cardinality(HeadersIn(s.base.frame.buffer)) + c = k
      BY DEF ParsedTo
  <1>7. /\ c \in 0..Len(fs) /\ Carries(s.base.frame.buffer \o w, fs, mask, c)
        /\ s.base.frame.header_ready => c < Len(fs) /\ HeaderOf(s.base.frame, fs[c + 1], mask)
        /\ Waiting(s.base.vec, fs, c) /\ s.base.last_op = OpOf(fs, c)
      BY <1>6 DEF ParserAt
  <1>8. f.header_ready => c < Len(fs) /\ HeaderOf(f, fs[c + 1], mask)
    <2>1. fs \in Seq(Frame)
        BY DEF FramesOK
    <2> QED BY <1>1, <1>7, <2>1, HeaderIsRead
  <1>9. ParserAt(t.base, w, fs, mask, c)
      BY <1>4, <1>5, <1>7, <1>8 DEF ParserAt
  <1> QED BY <1>4, <1>5, <1>6, <1>9 DEF ParsedTo

(* The next frame is whole: it is the next that the peer sent, and what is  *)
(* left in the buffer is one frame less.                                    *)
LEMMA NextFrame ==
    ASSUME NEW fs \in Seq(Frame), NEW mask \in BOOLEAN, NEW w \in Seq(Cell), NEW c \in Nat,
           c < Len(fs), NEW f, FrameOK(f), Carries(f.buffer \o w, fs, mask, c),
           HeaderOf(f, fs[c + 1], mask), PayloadIsReady(f),
           NEW rest, rest = After(f.buffer, f.start + f.len)
    PROVE  /\ Unmasked(f) = Item(fs[c + 1])
           /\ rest \in Seq(Cell) /\ Carries(rest \o w, fs, mask, c + 1)
           /\ Cardinality(HeadersIn(rest)) \in Nat
           /\ Cardinality(HeadersIn(f.buffer)) = Cardinality(HeadersIn(rest)) + 1
  <1>1. PICK b, q, n, z : b = f.buffer /\ q = b \o w /\ n = fs[c + 1] /\ z = Size(n, mask)
      OBVIOUS
  <1>2. b \in Seq(Cell) /\ Len(b) \in Nat
      BY <1>1 DEF FrameOK
  <1>3. c + 1 \in 1..Len(fs) /\ n \in Frame
      BY <1>1
  <1>4. z \in Nat /\ z >= Start(mask) /\ Start(mask) \in {1, 2}
      BY <1>1, <1>3, SizeIs
  <1>5. z = f.start + f.len /\ z <= Len(b)
    <2>1. f.start = Start(mask) /\ f.len = Len(n.v)
        BY <1>1 DEF HeaderOf
    <2>2. z = f.start + f.len
        BY <1>1, <2>1 DEF Size
    <2>3. Len(b) >= f.start + f.len
        BY <1>1 DEF PayloadIsReady
    <2> QED BY <1>2, <1>4, <2>2, <2>3
  <1>6. /\ q \in Seq(Cell) /\ Len(q) = Len(b) + Len(w) /\ \A i \in 1..Len(b) : q[i] = b[i]
      BY <1>1, <1>2, BufferFirst
  <1>7. /\ \A j \in 1..z : q[j] = CellOf(n, mask, j)
        /\ Carries(After(q, z), fs, mask, c + 1)
    <2>1. Carries(q, fs, mask, c)
        BY <1>1
    <2>2. /\ \A j \in 1..Size(fs[c + 1], mask) : q[j] = CellOf(fs[c + 1], mask, j)
          /\ Carries(After(q, Size(fs[c + 1], mask)), fs, mask, c + 1)
        BY <1>6, <2>1, CarriesFirst
    <2>3. /\ \A j \in 1..Size(n, mask) : q[j] = CellOf(n, mask, j)
          /\ Carries(After(q, Size(n, mask)), fs, mask, c + 1)
        BY <1>1, <2>2
    <2> QED BY <1>1, <2>3
  <1>8. ASSUME NEW j \in 1..z PROVE b[j] = CellOf(n, mask, j)
    <2>1. j \in 1..Len(b)
        BY <1>2, <1>4, <1>5
    <2> QED BY <1>6, <1>7, <2>1
  <1>9. Unmasked(f) = Item(n)
    <2>1. HeaderOf(f, n, mask) /\ \A j \in 1..Size(n, mask) : f.buffer[j] = CellOf(n, mask, j)
        BY <1>1, <1>8
    <2> QED BY <1>3, <2>1, UnmaskedIs
  <1>10. rest = After(b, z)
      BY <1>1, <1>5
  <1>11. rest \in Seq(Cell) /\ After(q, z) = rest \o w
    <2>1. b \in Seq(Cell) /\ w \in Seq(Cell) /\ z \in Nat /\ z <= Len(b) /\ q = b \o w
          /\ rest = After(b, z)
        BY <1>1, <1>2, <1>4, <1>5, <1>10
    <2>2. rest \in Seq(Cell)
      <3>1. Len(b) \in Nat /\ rest = SubSeq(b, z + 1, Len(b))
          BY <1>2, <2>1 DEF After
      <3> QED BY ONLY <2>1, <3>1
    <2>3. After(q, z) = rest \o w
        BY ONLY <2>1, RestFollows
    <2> QED BY <2>2, <2>3
  <1>12. b[1].k = "H" /\ \A j \in 2..z : b[j].k # "H"
    <2>1. 1 \in 1..z
        BY <1>4
    <2>2. b[1] = Header(n.op, n.fin, mask, Len(n.v))
        BY <1>8, <2>1 DEF CellOf
    <2>3. ASSUME NEW j \in 2..z PROVE b[j].k # "H"
      <3>1. j \in 1..z /\ j # 1
          BY <1>4
      <3>2. b[j] = CellOf(n, mask, j)
          BY <1>8, <3>1
      <3>3. CASE j <= Start(mask)
        <4>1. b[j] = Key(1)
            BY <3>1, <3>2, <3>3 DEF CellOf
        <4> QED BY <4>1 DEF Key
      <3>4. CASE ~(j <= Start(mask))
        <4>1. b[j] = Payload(n.v[j - Start(mask)], KeyBit(mask))
            BY <3>1, <3>2, <3>4 DEF CellOf
        <4> QED BY <4>1 DEF Payload
      <3> QED BY <3>3, <3>4
    <2>4. b[1].k = "H"
        BY <2>2 DEF Header
    <2> QED BY <2>3, <2>4
  <1>13. z \in 1..Len(b)
      BY <1>2, <1>4, <1>5
  <1>14. /\ Cardinality(HeadersIn(rest)) \in Nat
         /\ Cardinality(HeadersIn(b)) = Cardinality(HeadersIn(rest)) + 1
      BY <1>2, <1>10, <1>12, <1>13, HeadersLess
  <1> QED BY <1>1, <1>7, <1>9, <1>11, <1>14

(* A round that has one makes the calls that settle what it ends. *)
LEMMA RoundHandles ==
    ASSUME NEW fs, FramesOK(fs), NEW mask \in BOOLEAN, NEW w \in Seq(Cell), NEW a, NEW k,
           NEW s, RoundOK(s), NEW c, ParsedTo(s, w, fs, mask, a, k, c), NEW junk \in HeaderCell,
           NEW f, f = ReadHeader(s.base.frame, junk), PayloadIsReady(f),
           NEW t, t = OneFrame(s, junk)
    PROVE  ParsedTo(t, w, fs, mask, a, k, c + 1)
  <1>1. /\ s = [base |-> s.base, calls |-> s.calls] /\ IsSeq(s.calls) /\ IsSeq(s.base.vec)
        /\ FrameOK(s.base.frame)
      BY DEF RoundOK, BaseOK, CallsOK
  <1>2. FrameOK(f) /\ f.buffer = s.base.frame.buffer
      BY <1>1, HeaderOnce
  <1>3. ParserAt(s.base, w, fs, mask, c) /\ Covers(fs, s.calls, a, c - Len(s.base.vec))
        /\ Cardinality(HeadersIn(s.base.frame.buffer)) + c = k
      BY DEF ParsedTo
  <1>4. /\ c \in 0..Len(fs) /\ Carries(s.base.frame.buffer \o w, fs, mask, c)
        /\ s.base.frame.header_ready => c < Len(fs) /\ HeaderOf(s.base.frame, fs[c + 1], mask)
        /\ Waiting(s.base.vec, fs, c) /\ s.base.last_op = OpOf(fs, c)
      BY <1>3 DEF ParserAt
  <1>5. fs \in Seq(Frame)
      BY DEF FramesOK
  <1>6. c < Len(fs) /\ HeaderOf(f, fs[c + 1], mask)
    <2>1. f.header_ready
        BY DEF PayloadIsReady
    <2> QED BY <1>1, <1>4, <1>5, <2>1, HeaderIsRead
  <1>7. c \in Nat /\ Len(fs) \in Nat /\ c + 1 \in 0..Len(fs)
      BY <1>4, <1>5, <1>6
  <1>8. PICK rest : rest = After(f.buffer, f.start + f.len)
      OBVIOUS
  <1>9. /\ Unmasked(f) = Item(fs[c + 1])
        /\ rest \in Seq(Cell) /\ Carries(rest \o w, fs, mask, c + 1)
        /\ Cardinality(HeadersIn(rest)) \in Nat
        /\ Cardinality(HeadersIn(f.buffer)) = Cardinality(HeadersIn(rest)) + 1
    <2>1. Carries(f.buffer \o w, fs, mask, c)
        BY <1>2, <1>4
    <2>2. /\ fs \in Seq(Frame) /\ mask \in BOOLEAN /\ w \in Seq(Cell) /\ c \in Nat /\ c < Len(fs)
          /\ FrameOK(f) /\ HeaderOf(f, fs[c + 1], mask) /\ PayloadIsReady(f)
          /\ rest = After(f.buffer, f.start + f.len)
        BY <1>2, <1>5, <1>6, <1>7, <1>8
    <2>3. Unmasked(f) = Item(fs[c + 1])
        BY ONLY <2>1, <2>2, NextFrame
    <2>4. rest \in Seq(Cell) /\ Carries(rest \o w, fs, mask, c + 1)
        BY ONLY <2>1, <2>2, NextFrame
    <2>5. /\ Cardinality(HeadersIn(rest)) \in Nat
          /\ Cardinality(HeadersIn(f.buffer)) = Cardinality(HeadersIn(rest)) + 1
        BY ONLY <2>1, <2>2, NextFrame
    <2> QED BY <2>3, <2>4, <2>5
  <1>10. PICK op, vec, v : op = LastOp(f, s.base.last_op) /\ vec = Append(s.base.vec, Unmasked(f))
                           /\ v = IF f.fin THEN <<>> ELSE vec
      OBVIOUS
  <1>11. PICK g, calls, more : g = Reset(Consume(f)) /\ calls = s.calls \o more
                               /\ more = (IF f.fin THEN Calls(f.op, vec, op) ELSE <<>>)
      OBVIOUS
  <1>12. t = [base |-> [frame |-> g, vec |-> v, last_op |-> op], calls |-> calls]
      BY <1>10, <1>11 DEF OneFrame
  <1>13. t.base.frame = g /\ t.base.vec = v /\ t.base.last_op = op /\ t.calls = calls
      BY <1>12
  <1>14. g = [buffer |-> rest, header_ready |-> FALSE, start |-> 0, len |-> 0,
              fin |-> f.fin, op |-> f.op, key |-> f.key]
      BY <1>2, <1>8, <1>11 DEF FrameOK, Reset, Consume, After
  <1>15. g.buffer = rest /\ ~g.header_ready
      BY <1>14
  <1>16. op = OpOf(fs, c + 1) /\ f.op = fs[c + 1].op /\ f.fin = fs[c + 1].fin
    <2>1. f.op = fs[c + 1].op /\ f.fin = fs[c + 1].fin
        BY <1>6 DEF HeaderOf
    <2>2. LastOp(f, s.base.last_op) = OpOf(fs, c + 1)
        BY <1>4, <1>5, <1>6, <1>7, <2>1, LastOpIs
    <2> QED BY <1>10, <2>1, <2>2
  <1>17. PICK l, d : l = Len(s.base.vec) /\ d = c - l
      OBVIOUS
  <1>18. /\ IsSeq(vec) /\ Len(vec) = l + 1 /\ l \in Nat
         /\ \A i \in 1..Len(vec) : vec[i] = Item(fs[d + i])
         /\ \A i \in 1..l : ~fs[d + i].fin
         /\ ~fs[c + 1].fin => Waiting(vec, fs, c + 1)
    <2>1. vec = Append(s.base.vec, Item(fs[c + 1]))
        BY <1>9, <1>10
    <2>2. /\ fs \in Seq(Frame) /\ c \in Nat /\ c < Len(fs) /\ IsSeq(s.base.vec)
          /\ Waiting(s.base.vec, fs, c)
        BY <1>1, <1>4, <1>5, <1>6, <1>7
    <2>3. /\ IsSeq(vec) /\ Len(vec) = Len(s.base.vec) + 1 /\ vec[Len(s.base.vec) + 1] = Item(fs[c + 1])
          /\ \A i \in 1..Len(s.base.vec) : vec[i] = s.base.vec[i]
      <3>1. PICK x, u : x = Item(fs[c + 1]) /\ u = s.base.vec
          OBVIOUS
      <3>2. vec = Append(u, x) /\ IsSeq(u)
          BY <2>1, <2>2, <3>1
      <3>3. IsSeq(vec) /\ Len(vec) = Len(u) + 1 /\ vec[Len(u) + 1] = x /\ \A i \in 1..Len(u) : vec[i] = u[i]
          BY ONLY <3>2, SeqAppend
      <3> QED BY ONLY <3>1, <3>3
    <2>4. ASSUME NEW i \in 1..Len(vec) PROVE vec[i] = Item(fs[(c - Len(s.base.vec)) + i])
      <3>1. PICK u : u = s.base.vec
          OBVIOUS
      <3>2. /\ fs \in Seq(Frame) /\ c \in Nat /\ c < Len(fs) /\ IsSeq(u) /\ Waiting(u, fs, c)
            /\ vec = Append(u, Item(fs[c + 1])) /\ i \in 1..(Len(u) + 1)
          BY <2>1, <2>2, <2>3, <3>1
      <3>3. vec[i] = Item(fs[(c - Len(u)) + i])
          BY ONLY <3>2, WaitsLonger
      <3> QED BY <3>1, <3>3
    <2>5. ASSUME NEW i \in 1..Len(s.base.vec) PROVE ~fs[(c - Len(s.base.vec)) + i].fin
        BY ONLY <2>2, WaitsLonger, i \in 1..Len(s.base.vec)
    <2>7. Len(s.base.vec) \in Nat
        BY ONLY <2>2, SeqIs
    <2>6. ~fs[c + 1].fin => Waiting(vec, fs, c + 1)
        BY ONLY <2>1, <2>2, WaitsLonger
    <2> QED BY <1>17, <2>3, <2>4, <2>5, <2>6, <2>7
  <1>19. l <= c /\ d \in Nat /\ d <= c /\ (c + 1) - d = l + 1 /\ (c + 1) - (l + 1) = d /\ (c + 1) - 0 = c + 1
    <2>1. l <= c
        BY <1>4, <1>17 DEF Waiting
    <2>2. l \in Nat
        BY <1>18
    <2>3. \A x, y \in Nat : y <= x => /\ x - y \in Nat /\ x - y <= x /\ (x + 1) - (x - y) = y + 1
                                       /\ (x + 1) - (y + 1) = x - y /\ (x + 1) - 0 = x + 1
        OBVIOUS
    <2>4. c \in Nat
        BY <1>7
    <2> QED BY ONLY <1>17, <2>1, <2>2, <2>3, <2>4
  <1>20. Covers(fs, s.calls, a, d)
      BY <1>3, <1>17
  <1>21. Waiting(v, fs, c + 1) /\ Covers(fs, calls, a, (c + 1) - Len(v))
    <2>1. CASE f.fin
      <3>1. v = <<>> /\ more = Calls(fs[c + 1].op, vec, OpOf(fs, c + 1)) /\ Len(v) = 0
          BY <1>10, <1>11, <1>16, <2>1
      <3>2. fs[c + 1].fin
          BY <1>16, <2>1
      <3>3. Waiting(v, fs, c + 1)
        <4>1. Len(v) <= c + 1 /\ (c + 1) - Len(v) = c + 1 /\ 1..Len(v) = {}
            BY <1>7, <3>1
        <4> QED BY <3>2, <4>1 DEF Waiting
      <3>4. Covers(fs, more, d, c + 1)
        <4>1. d \in 0..Len(fs) /\ c + 1 \in (d + 1)..Len(fs)
            BY <1>7, <1>19
        <4>2. ASSUME NEW j \in (d + 1)..((c + 1) - 1) PROVE ~fs[j].fin
          <5>1. j - d \in 1..l /\ d + (j - d) = j
            <6>1. l \in Nat
                BY <1>18
            <6>2. d \in Nat /\ c \in Nat /\ (c + 1) - d = l + 1 /\ d <= c
                BY <1>7, <1>19
            <6> QED BY ONLY <6>1, <6>2, j \in (d + 1)..((c + 1) - 1)
          <5> QED BY <1>18, <5>1
        <4>3. Len(vec) = (c + 1) - d /\ \A i \in 1..((c + 1) - d) : vec[i] = Item(fs[d + i])
            BY <1>18, <1>19
        <4> QED BY <1>18, <3>1, <3>2, <4>1, <4>2, <4>3, CallsCover
      <3>5. IsSeq(more)
          BY <1>18, <3>1, CallsAre DEF CallsOK
      <3>6. Covers(fs, calls, a, c + 1)
          BY <1>1, <1>5, <1>11, <1>20, <3>4, <3>5, CoversConcat
      <3> QED BY <1>19, <3>1, <3>3, <3>6
    <2>2. CASE ~f.fin
      <3>1. v = vec /\ more = <<>>
          BY <1>10, <1>11, <2>2
      <3>2. Waiting(v, fs, c + 1) /\ (c + 1) - Len(v) = d
          BY <1>16, <1>18, <1>19, <2>2, <3>1
      <3>3. d \in 0..Len(fs) /\ IsSeq(more)
        <4>1. <<>> \in Seq({})
            OBVIOUS
        <4> QED BY <1>7, <1>19, <3>1, <4>1 DEF IsSeq
      <3>4. Covers(fs, more, d, d)
          BY <1>5, <3>1, <3>3, CoversNothing
      <3>5. Covers(fs, calls, a, d)
          BY <1>1, <1>5, <1>11, <1>20, <3>3, <3>4, CoversConcat
      <3> QED BY <3>2, <3>5
    <2> QED BY <2>1, <2>2
  <1>22. ParserAt(t.base, w, fs, mask, c + 1)
      BY <1>7, <1>9, <1>13, <1>15, <1>16, <1>21 DEF ParserAt
  <1>23. Cardinality(HeadersIn(rest)) + (c + 1) = k
    <2>1. PICK x : x = Cardinality(HeadersIn(rest))
        OBVIOUS
    <2>2. x \in Nat /\ (x + 1) + c = k
        BY <1>2, <1>3, <1>9, <2>1
    <2> QED BY <1>7, <2>1, <2>2
  <1> QED BY <1>13, <1>15, <1>21, <1>22, <1>23 DEF ParsedTo

(* A round of the loop keeps it. *)
LEMMA RoundParses ==
    ASSUME NEW fs, FramesOK(fs), NEW mask \in BOOLEAN, NEW w \in Seq(Cell), NEW a, NEW k,
           NEW s, RoundOK(s), Parsed(s, w, fs, mask, a, k), NEW junk \in HeaderCell,
           NEW t, t = OneFrame(s, junk)
    PROVE  Parsed(t, w, fs, mask, a, k)
  <1>1. PICK c : ParsedTo(s, w, fs, mask, a, k, c)
      BY DEF Parsed
  <1>2. PICK f : f = ReadHeader(s.base.frame, junk)
      OBVIOUS
  <1>3. CASE PayloadIsReady(f)
    <2>1. ParsedTo(t, w, fs, mask, a, k, c + 1)
        BY <1>1, <1>2, <1>3, RoundHandles
    <2> QED BY <2>1 DEF Parsed
  <1>4. CASE ~PayloadIsReady(f)
    <2>1. ParsedTo(t, w, fs, mask, a, k, c)
        BY <1>1, <1>2, <1>4, RoundWaits
    <2> QED BY <2>1 DEF Parsed
  <1> QED BY <1>3, <1>4

(* All the rounds of the loop keep it. *)
LEMMA LoopParses ==
    ASSUME NEW fs, FramesOK(fs), NEW mask \in BOOLEAN, NEW w \in Seq(Cell), NEW a, NEW k,
           NEW start, RoundOK(start), Parsed(start, w, fs, mask, a, k), NEW junk \in HeaderCell,
           NEW n \in Nat
    PROVE  Parsed(Rounds(start, n, junk)[n], w, fs, mask, a, k)
  <1>1. PICK r : r = Rounds(start, n, junk)
      OBVIOUS
  <1>2. r[0] = start /\ \A i \in 1..n : r[i] = OneFrame(r[i - 1], junk)
      BY <1>1, RoundsAre
  <1>3. PICK T : T = {i \in 0..n : RoundOK(r[i]) /\ Parsed(r[i], w, fs, mask, a, k)}
      OBVIOUS
  <1>4. 0 \in T
      BY <1>2, <1>3
  <1>5. \A i \in 1..n : i - 1 \in T => i \in T
    <2> SUFFICES ASSUME NEW i \in 1..n, i - 1 \in T PROVE i \in T
        OBVIOUS
    <2>1. PICK x, y : x = r[i - 1] /\ y = r[i]
        OBVIOUS
    <2>2. RoundOK(x) /\ Parsed(x, w, fs, mask, a, k)
        BY <1>3, <2>1
    <2>3. y = OneFrame(x, junk)
        BY <1>2, <2>1
    <2>4. RoundOK(y)
        BY <2>2, <2>3, RoundTakes
    <2>5. Parsed(y, w, fs, mask, a, k)
        BY <2>2, <2>3, RoundParses
    <2>6. i \in 0..n
        OBVIOUS
    <2> QED BY <1>3, <2>1, <2>4, <2>5, <2>6
  <1>6. n \in T
    <2>1. \A i \in 0..n : i \in T
        BY ONLY <1>4, <1>5, UpTo, n \in Nat
    <2> QED BY <2>1
  <1> QED BY <1>1, <1>3, <1>6

(* HandleFrame: the frames of one read, and the calls that settle them. *)
LEMMA HandleFrameParses ==
    ASSUME NEW fs, FramesOK(fs), NEW mask \in BOOLEAN, NEW b, BaseOK(b), NEW data \in Seq(Cell),
           NEW w \in Seq(Cell), NEW c, ParserAt(b, data \o w, fs, mask, c), NEW junk \in HeaderCell
    PROVE  Parsed(HandleFrame(b, data, junk), w, fs, mask, c - Len(b.vec),
                  Cardinality(HeadersIn(b.frame.buffer \o data)) + c)
  <1>1. PICK e : e = [b EXCEPT !.frame.buffer = @ \o data]
      OBVIOUS
  <1>2. PICK q : q = b.frame.buffer \o data
      OBVIOUS
  <1>3. q \in Seq(Cell) /\ b.frame.buffer \in Seq(Cell)
      BY <1>2, ConcatProperties DEF BaseOK, FrameOK
  <1>4. PICK f : f = [buffer |-> q, header_ready |-> b.frame.header_ready, start |-> b.frame.start,
                      len |-> b.frame.len, fin |-> b.frame.fin, op |-> b.frame.op, key |-> b.frame.key]
      OBVIOUS
  <1>5. FrameOK(f)
    <2>1. FrameOK(b.frame)
        BY DEF BaseOK
    <2> QED BY <1>3, <1>4, <2>1 DEF FrameOK
  <1>6. e = [frame |-> f, vec |-> b.vec, last_op |-> b.last_op]
    <2>1. b = [frame |-> b.frame, vec |-> b.vec, last_op |-> b.last_op]
        BY DEF BaseOK
    <2>2. [b.frame EXCEPT !.buffer = @ \o data] = f
      <3>1. PICK g : g = b.frame
          OBVIOUS
      <3>2. g = [buffer |-> g.buffer, header_ready |-> g.header_ready, start |-> g.start,
                 len |-> g.len, fin |-> g.fin, op |-> g.op, key |-> g.key]
          BY <3>1 DEF BaseOK, FrameOK
      <3>3. [g EXCEPT !.buffer = q] = f
          BY <1>4, <3>1, <3>2
      <3> QED BY <1>2, <3>1, <3>3
    <2>3. e = [b EXCEPT !.frame = [b.frame EXCEPT !.buffer = @ \o data]]
        BY <1>1, <2>1
    <2> QED BY <2>1, <2>2, <2>3
  <1>7. BaseOK(e) /\ e.frame = f /\ e.vec = b.vec /\ e.last_op = b.last_op
      BY <1>5, <1>6 DEF BaseOK
  <1>8. PICK start, n : start = [base |-> e, calls |-> <<>>] /\ n = Len(e.frame.buffer)
      OBVIOUS
  <1>9. start.base = e /\ start.calls = <<>>
      BY <1>8
  <1>10. RoundOK(start)
    <2>1. <<>> \in Seq({}) /\ Len(<<>>) = 0
        OBVIOUS
    <2>2. IsSeq(<<>>)
        BY <2>1 DEF IsSeq
    <2>3. CallsOK(<<>>)
        BY <2>1, <2>2 DEF CallsOK
    <2> QED BY <1>7, <1>8, <1>9, <2>3 DEF RoundOK
  <1>11. /\ c \in 0..Len(fs) /\ Carries(b.frame.buffer \o (data \o w), fs, mask, c)
         /\ b.frame.header_ready => c < Len(fs) /\ HeaderOf(b.frame, fs[c + 1], mask)
         /\ Waiting(b.vec, fs, c) /\ b.last_op = OpOf(fs, c)
      BY DEF ParserAt
  <1>12. f.buffer \o w = b.frame.buffer \o (data \o w)
    <2>1. f.buffer = q
        BY <1>4
    <2>2. PICK x : x = b.frame.buffer
        OBVIOUS
    <2>3. x \in Seq(Cell)
        BY <1>3, <2>2
    <2>4. (x \o data) \o w = x \o (data \o w)
        BY ONLY <2>3, ConcatAssociative, data \in Seq(Cell), w \in Seq(Cell)
    <2>5. q \o w = x \o (data \o w)
        BY <1>2, <2>2, <2>4, Zenon
    <2> QED BY <2>1, <2>2, <2>5, Zenon
  <1>13. f.header_ready => c < Len(fs) /\ HeaderOf(f, fs[c + 1], mask)
      BY <1>4, <1>11 DEF HeaderOf
  <1>14. ParserAt(e, w, fs, mask, c)
      BY <1>7, <1>11, <1>12, <1>13 DEF ParserAt
  <1>15. PICK a, k : a = c - Len(b.vec) /\ k = Cardinality(HeadersIn(b.frame.buffer \o data)) + c
      OBVIOUS
  <1>16. Covers(fs, <<>>, a, a)
    <2>1. IsSeq(b.vec) /\ fs \in Seq(Frame) /\ Len(b.vec) <= c
        BY <1>11 DEF BaseOK, FramesOK, Waiting
    <2>2. Len(b.vec) \in Nat /\ Len(fs) \in Nat
        BY <2>1, SeqIs
    <2>3. a \in 0..Len(fs)
        BY <1>11, <1>15, <2>1, <2>2
    <2> QED BY <2>1, <2>3, CoversNothing
  <1>17. ParsedTo(start, w, fs, mask, a, k, c)
    <2>1. HeadersIn(start.base.frame.buffer) = HeadersIn(b.frame.buffer \o data)
      <3>1. f.buffer = q /\ start.base.frame = f
          BY <1>4, <1>7, <1>9
      <3> QED BY <1>2, <3>1, Zenon
    <2> QED BY <1>7, <1>9, <1>14, <1>15, <1>16, <2>1 DEF ParsedTo
  <1>18. Parsed(start, w, fs, mask, a, k)
      BY <1>17 DEF Parsed
  <1>19. HandleFrame(b, data, junk) = Rounds(start, n, junk)[n]
      BY <1>1, <1>8, <1>9 DEF HandleFrame
  <1>20. n \in Nat
      BY <1>3, <1>4, <1>7, <1>8
  <1>21. Parsed(Rounds(start, n, junk)[n], w, fs, mask, a, k)
      BY <1>10, <1>18, <1>20, LoopParses
  <1> QED BY <1>15, <1>19, <1>21
------------------------------------------------------------------------------
(* What was told (to an application that could be told, upgrade u) and      *)
(* answered is what is due of the first m frames.                           *)
Delivered(u, ts, os, fs, m) ==
    /\ DataOf(ts) = IF u = "ok" THEN DataTo(fs, m) ELSE <<>>
    /\ PongsOf(os) = PongsTo(fs, m)

(* An end is no data, and a CLOSE no PONG. *)
LEMMA EndIsNoData ==
    ASSUME NEW ts, IsSeq(ts), NEW code
    PROVE  DataOf(Append(ts, OnClose(code))) = DataOf(ts)
  <1>1. PICK x, us : x = OnClose(code) /\ us = Append(ts, x)
      OBVIOUS
  <1>2. x.what # "data"
      BY <1>1 DEF OnClose, Told
  <1>3. DataOf(us) = DataOf(ts)
      BY <1>1, <1>2, DataAppend
  <1> QED BY <1>1, <1>3

(* What SendWsFrame changes, if it does not throw. *)
LEMMA SendAdds ==
    ASSUME NEW e, IsEffect(e), NEW op, NEW item
    PROVE  /\ SendWsFrame(e, op, item).told = e.told
           /\ SendWsFrame(e, op, item).close_ = e.close_
           /\ \/ ~Writable(e) /\ SendWsFrame(e, op, item).ub = op
                 /\ SendWsFrame(e, op, item).out = e.out
              \/ /\ SendWsFrame(e, op, item).ub = e.ub
                 /\ SendWsFrame(e, op, item).out
                       = IF op = "PING" THEN e.out ELSE Append(e.out, [op |-> op, item |-> item])
  <1>0. PICK s : s = SendWsFrame(e, op, item)
      OBVIOUS
  <1>1. CASE ~Writable(e)
    <2>1. s = [e EXCEPT !.ub = op]
        BY <1>0, <1>1 DEF SendWsFrame
    <2>2. s.told = e.told /\ s.out = e.out /\ s.ub = op /\ s.close_ = e.close_
        BY <2>1 DEF IsEffect
    <2> QED BY <1>0, <1>1, <2>2
  <1>2. CASE Writable(e)
    <2>1. PICK w : w = AtMost(MaxWrites, e.writes + (IF role = "server" THEN 3 ELSE 1))
        OBVIOUS
    <2>2. PICK o : o = IF op = "PING" THEN e.out ELSE Append(e.out, [op |-> op, item |-> item])
        OBVIOUS
    <2>3. s = [tcp |-> e.tcp, writes |-> w, is_connected_ |-> e.is_connected_,
               close_ |-> e.close_, pong_age |-> e.pong_age, told |-> e.told, out |-> o,
               ub |-> e.ub]
        BY <1>0, <1>2, <2>1, <2>2 DEF SendWsFrame, IsEffect
    <2>4. s.told = e.told /\ s.out = o /\ s.ub = e.ub /\ s.close_ = e.close_
        BY <2>3
    <2> QED BY <1>0, <2>2, <2>4
  <1> QED BY <1>1, <1>2

(* A CLOSE that is handled leaves data and PONGs as they were. *)
LEMMA CloseIsNoData ==
    ASSUME role \in {"server", "client"}, NEW e, Reads(e), NEW item
    PROVE  /\ DataOf(HandleWsClose(e, item).told) = DataOf(e.told)
           /\ PongsOf(HandleWsClose(e, item).out) = PongsOf(e.out)
  <1>0. PICK s : s = HandleWsClose(e, item)
      OBVIOUS
  <1>1. IsEffect(e)
      BY DEF EndsOK, Reads
  <1>2. CASE e.close_
    <2>1. s = e
        BY <1>0, <1>2 DEF HandleWsClose, Closed
    <2> QED BY <1>0, <2>1
  <1>3. CASE ~e.close_
    <2>1. e.tcp = "open"
        BY <1>1, <1>3 DEF Reads, IsEffect
    <2>2. PICK w : w = AtMost(MaxWrites, e.writes + (IF role = "server" THEN 3 ELSE 1))
        OBVIOUS
    <2>3. PICK x, os : x = [op |-> "CLOSE", item |-> CloseReply(item)] /\ os = e.out
        OBVIOUS
    <2>4. PICK o : o = Append(os, x)
        OBVIOUS
    <2>5. PICK g : g = SendWsFrame(e, "CLOSE", CloseReply(item))
        OBVIOUS
    <2>6. g = [tcp |-> e.tcp, writes |-> w, is_connected_ |-> e.is_connected_,
               close_ |-> e.close_, pong_age |-> e.pong_age, told |-> e.told, out |-> o,
               ub |-> e.ub]
      <3>1. g = [e EXCEPT !.writes = w, !.out = o]
          BY <2>1, <2>2, <2>3, <2>4, <2>5 DEF SendWsFrame, Writable
      <3> QED BY <1>1, <3>1 DEF IsEffect
    <2>7. PongsOf(o) = PongsOf(os)
      <3>1. x.op # "PONG"
          BY <2>3
      <3>2. IsSeq(os)
          BY <1>1, <2>3 DEF IsEffect
      <3> QED BY <2>4, <3>1, <3>2, PongsAppend
    <2>8. CASE role = "server"
      <3>1. s = [g EXCEPT !.close_ = TRUE, !.tcp = "closed"]
          BY <1>0, <1>3, <2>5, <2>8 DEF HandleWsClose, Closed
      <3>2. s.told = e.told /\ s.out = o
          BY <2>6, <3>1
      <3> QED BY <1>0, <2>3, <2>7, <3>2
    <2>9. CASE role = "client"
      <3>0. PICK us : us = Append(e.told, OnClose(0))
          OBVIOUS
      <3>1. s = [g EXCEPT !.close_ = TRUE, !.tcp = "closed", !.is_connected_ = FALSE,
                          !.told = Append(g.told, OnClose(0))]
          BY <1>0, <1>3, <2>5, <2>9 DEF HandleWsClose, Closed
      <3>2. g.told = e.told
          BY <2>6
      <3>3. s = [g EXCEPT !.close_ = TRUE, !.tcp = "closed", !.is_connected_ = FALSE, !.told = us]
          BY <3>0, <3>1, <3>2
      <3>4. s.told = us /\ s.out = o
          BY <2>6, <3>3
      <3>5. IsSeq(e.told)
          BY <1>1 DEF IsEffect
      <3>6. DataOf(us) = DataOf(e.told)
          BY <3>0, <3>5, EndIsNoData
      <3> QED BY <1>0, <2>3, <2>7, <3>4, <3>6
    <2> QED BY <2>8, <2>9
  <1>4. e.close_ \in BOOLEAN
      BY <1>1 DEF IsEffect
  <1> QED BY <1>2, <1>3, <1>4

(* A call that settles frames a to b does so, or throws and does nothing. *)
LEMMA ApplyDelivers ==
    ASSUME role \in {"server", "client"}, NEW fs, NEW e, Reads(e), e.ub = None, NEW c, IsCall(c),
           NEW a, NEW b, Moves(fs, c, a, b), Delivered(upgrade, e.told, e.out, fs, a),
           NEW s, s = Apply(e, c)
    PROVE  \/ Delivered(upgrade, s.told, s.out, fs, b)
           \/ s.ub # None /\ s.told = e.told /\ s.out = e.out
  <1>1. IsEffect(e)
      BY DEF EndsOK, Reads
  <1>2. IsSeq(e.told) /\ IsSeq(e.out)
      BY <1>1 DEF IsEffect
  <1>3. CASE c.do = "send"
    <2>1. s = SendWsFrame(e, "PONG", c.item)
        BY <1>3 DEF Apply, IsCall
    <2>2. PICK x : x = [op |-> "PONG", item |-> c.item]
        OBVIOUS
    <2>3. /\ s.told = e.told
          /\ (s.ub = "PONG" /\ s.out = e.out) \/ s.out = Append(e.out, x)
      <3>1. /\ SendWsFrame(e, "PONG", c.item).told = e.told
            /\ \/ SendWsFrame(e, "PONG", c.item).ub = "PONG" /\ SendWsFrame(e, "PONG", c.item).out = e.out
               \/ SendWsFrame(e, "PONG", c.item).out = Append(e.out, [op |-> "PONG", item |-> c.item])
        <4>1. PICK op, item : op = "PONG" /\ item = c.item
            OBVIOUS
        <4>2. /\ SendWsFrame(e, op, item).told = e.told
              /\ \/ SendWsFrame(e, op, item).ub = op /\ SendWsFrame(e, op, item).out = e.out
                 \/ SendWsFrame(e, op, item).out
                       = IF op = "PING" THEN e.out ELSE Append(e.out, [op |-> op, item |-> item])
            BY ONLY <1>1, SendAdds
        <4> QED BY <4>1, <4>2
      <3> QED BY <2>1, <2>2, <3>1
    <2>4. CASE s.ub = "PONG" /\ s.out = e.out
      <3>1. "PONG" # None
          BY ConnAssumption
      <3> QED BY <2>3, <2>4, <3>1
    <2>5. CASE s.out = Append(e.out, x)
      <3>1. x.op = "PONG"
          BY <2>2
      <3>2. PongsOf(s.out) = Append(PongsOf(e.out), x)
        <4>1. PICK os, ps : os = e.out /\ ps = s.out
            OBVIOUS
        <4>2. IsSeq(os) /\ ps = Append(os, x)
            BY <1>2, <2>5, <4>1
        <4>3. PongsOf(ps) = Append(PongsOf(os), x)
            BY ONLY <3>1, <4>2, PongsAppend
        <4> QED BY <4>1, <4>3
      <3>3. DataTo(fs, b) = DataTo(fs, a) /\ PongsTo(fs, b) = Append(PongsTo(fs, a), x)
          BY <1>3, <2>2 DEF Moves
      <3> QED BY <2>3, <3>2, <3>3 DEF Delivered
    <2> QED BY <2>3, <2>4, <2>5
  <1>4. CASE c.do = "pong"
    <2>1. s = [e EXCEPT !.pong_age = 0]
        BY <1>4 DEF Apply, PongReceived
    <2>2. s.told = e.told /\ s.out = e.out
        BY <1>1, <2>1 DEF IsEffect
    <2>3. DataTo(fs, b) = DataTo(fs, a) /\ PongsTo(fs, b) = PongsTo(fs, a)
        BY <1>4 DEF Moves
    <2> QED BY <2>2, <2>3 DEF Delivered
  <1>5. CASE c.do = "close"
    <2>1. s = HandleWsClose(e, c.item)
        BY <1>5 DEF Apply
    <2>2. DataOf(s.told) = DataOf(e.told) /\ PongsOf(s.out) = PongsOf(e.out)
        BY <2>1, CloseIsNoData
    <2>3. DataTo(fs, b) = DataTo(fs, a) /\ PongsTo(fs, b) = PongsTo(fs, a)
        BY <1>5 DEF Moves
    <2> QED BY <2>2, <2>3 DEF Delivered
  <1>6. CASE c.do = "data" /\ upgrade # "ok"
    <2>1. s = e
        BY <1>6 DEF Apply
    <2>2. PongsTo(fs, b) = PongsTo(fs, a)
        BY <1>6 DEF Moves
    <2> QED BY <1>6, <2>1, <2>2 DEF Delivered
  <1>7. CASE c.do = "data" /\ upgrade = "ok"
    <2>1. PICK x, ts, us : x = Told("data", c.op, c.item) /\ ts = e.told /\ us = Append(ts, x)
        OBVIOUS
    <2>2. s = [e EXCEPT !.told = us]
        BY <1>7, <2>1 DEF Apply
    <2>3. s.told = us /\ s.out = e.out
        BY <1>1, <2>2 DEF IsEffect
    <2>4. x.what = "data"
        BY <2>1 DEF Told
    <2>5. DataOf(us) = Append(DataOf(ts), x)
      <3>1. IsSeq(ts) /\ us = Append(ts, x)
          BY <1>2, <2>1
      <3> QED BY ONLY <2>4, <3>1, DataAppend
    <2>6. DataTo(fs, b) = Append(DataTo(fs, a), x) /\ PongsTo(fs, b) = PongsTo(fs, a)
        BY <1>7, <2>1 DEF Moves
    <2>7. DataOf(ts) = DataTo(fs, a) /\ PongsOf(e.out) = PongsTo(fs, a)
        BY <1>7, <2>1 DEF Delivered
    <2>8. DataOf(s.told) = DataTo(fs, b) /\ PongsOf(s.out) = PongsTo(fs, b)
        BY <2>3, <2>5, <2>6, <2>7, Zenon
    <2> QED BY <1>7, <2>8 DEF Delivered
  <1> QED BY <1>3, <1>4, <1>5, <1>6, <1>7 DEF IsCall

(* All the calls of a read: after them all is settled that they are for,    *)
(* unless one threw; and what has been told and answered is a part of what  *)
(* is due in any case.                                                      *)
LEMMA CallsDeliver ==
    ASSUME role \in {"server", "client"}, upgrade # "refused" \/ role = "server",
           NEW fs, NEW start, Reads(start), start.ub = None, NEW calls, CallsOK(calls),
           NEW a, NEW b, Covers(fs, calls, a, b), Delivered(upgrade, start.told, start.out, fs, a),
           NEW e, e = Applied(start, calls)[Len(calls)]
    PROVE  /\ e.ub = None => Delivered(upgrade, e.told, e.out, fs, b)
           /\ \E m \in 0..Len(fs) : Delivered(upgrade, e.told, e.out, fs, m)
  <1>1. PICK n, r : n = Len(calls) /\ r = Applied(start, calls)
      OBVIOUS
  <1>2. n \in Nat /\ \A i \in 1..n : IsCall(calls[i])
      BY <1>1, SeqIs DEF CallsOK
  <1>3. r[0] = start /\ \A i \in 1..n : r[i] = Apply(r[i - 1], calls[i])
      BY <1>1, <1>2, AppliedIs
  <1>4. PICK pos : Gets(pos, fs, calls, a, b)
      BY DEF Covers
  <1>5. /\ pos \in [0..n -> 0..Len(fs)] /\ pos[0] = a /\ pos[n] = b
        /\ \A i \in 1..n : Moves(fs, calls[i], pos[i - 1], pos[i])
      BY <1>1, <1>4 DEF Gets
  <1>6. PICK T : T = {i \in 0..n : /\ Reads(r[i])
                                   /\ r[i].ub = None => Delivered(upgrade, r[i].told, r[i].out, fs, pos[i])
                                   /\ \E m \in 0..Len(fs) : Delivered(upgrade, r[i].told, r[i].out, fs, m)}
      OBVIOUS
  <1>7. 0 \in T
    <2>1. 0 \in 0..n /\ pos[0] \in 0..Len(fs)
        BY <1>2, <1>5
    <2> QED BY <1>3, <1>5, <1>6, <2>1
  <1>8. \A i \in 1..n : i - 1 \in T => i \in T
    <2> SUFFICES ASSUME NEW i \in 1..n, i - 1 \in T PROVE i \in T
        OBVIOUS
    <2>1. PICK x, y, c : x = r[i - 1] /\ y = r[i] /\ c = calls[i]
        OBVIOUS
    <2>2. /\ Reads(x) /\ (x.ub = None => Delivered(upgrade, x.told, x.out, fs, pos[i - 1]))
          /\ \E m \in 0..Len(fs) : Delivered(upgrade, x.told, x.out, fs, m)
        BY <1>6, <2>1
    <2>3. IsCall(c) /\ y = Apply(x, c) /\ Moves(fs, c, pos[i - 1], pos[i])
        BY <1>2, <1>3, <1>5, <2>1
    <2>4. Reads(y)
        BY <2>2, <2>3, ApplyKeeps
    <2>5. i \in 0..n /\ pos[i] \in 0..Len(fs)
        BY <1>2, <1>5
    <2>6. CASE x.ub # None
      <3>1. y = x
          BY <2>3, <2>6 DEF Apply
      <3> QED BY <1>6, <2>1, <2>2, <2>4, <2>5, <2>6, <3>1
    <2>7. CASE x.ub = None
      <3>1. \/ Delivered(upgrade, y.told, y.out, fs, pos[i])
            \/ y.ub # None /\ y.told = x.told /\ y.out = x.out
          BY <2>2, <2>3, <2>7, ApplyDelivers
      <3>2. y.ub = None => Delivered(upgrade, y.told, y.out, fs, pos[i])
          BY <3>1
      <3>3. \E m \in 0..Len(fs) : Delivered(upgrade, y.told, y.out, fs, m)
          BY <2>2, <2>5, <3>1
      <3> QED BY <1>6, <2>1, <2>4, <2>5, <3>2, <3>3
    <2> QED BY <2>6, <2>7
  <1>9. \A i \in 0..n : i \in T
      BY ONLY <1>2, <1>7, <1>8, UpTo
  <1>10. n \in T
      BY <1>2, <1>9
  <1> QED BY <1>1, <1>5, <1>6, <1>10
------------------------------------------------------------------------------
(* The invariant behind DeliveredInOrder.  The peer's frames; *)
Masked == role = "server"
SentInv ==
    /\ FramesOK(sent)
    /\ ~peer_upgrade => sent = <<>> /\ upgrade = "reading"

(* before the upgrade, all of them lie behind the end of the HTTP head;     *)
HeadBehind(q, fs, mask, e) ==
    /\ e \in 1..Len(q) /\ q[e].k = "end" /\ \A i \in 1..(e - 1) : q[i].k # "end"
    /\ Carries(After(q, e), fs, mask, 0)
StartInv ==
    upgrade = "reading" =>
        /\ base = NewBase /\ skipped = 0 /\ ~garbled
        /\ peer_upgrade => \E e : HeadBehind(http_recv_buffer_ \o in, sent, Masked, e)

(* until it is accepted there is nothing to tell or to answer;              *)
QuietInv ==
    upgrade = "reading" \/ (upgrade = "refused" /\ role = "client") =>
        DataOf(told) = <<>> /\ PongsOf(out) = <<>>

(* and after it the parser and the wire hold the frames that have not been  *)
(* handled, while those that have are told and answered, as far as they do  *)
(* not wait for a fin.                                                      *)
Serving == upgrade = "ok" \/ (role = "server" /\ upgrade = "refused")
FlowsAt(c) ==
    /\ ParserAt(base, in, Frames, Masked, c)
    /\ Delivered(upgrade, told, out, Frames, c - Len(base.vec))
GoingInv ==
    ~garbled /\ Serving =>
        /\ \E m \in 0..Len(Frames) : Delivered(upgrade, told, out, Frames, m)
        /\ Up /\ tcp = "open" => \E c : FlowsAt(c)
FlowInv == SentInv /\ StartInv /\ QuietInv /\ GoingInv

(* A sequence that is empty carries no frames. *)
LEMMA FlowInit == Init => FlowInv
  <1> SUFFICES ASSUME Init PROVE FlowInv
      OBVIOUS
  <1>1. sent = <<>> /\ upgrade = "reading" /\ peer_upgrade = FALSE /\ base = NewBase /\ skipped = 0
        /\ garbled = FALSE /\ told = <<>> /\ out = <<>>
      BY DEF Init
  <1>2. FramesOK(<<>>)
    <2>1. <<>> \in Seq(Frame) /\ Len(<<>>) = 0
        OBVIOUS
    <2>2. 1..(0 - 1) = {}
        OBVIOUS
    <2> QED BY <2>1, <2>2 DEF FramesOK
  <1>3. SentInv
      BY <1>1, <1>2 DEF SentInv
  <1>4. StartInv
      BY <1>1 DEF StartInv
  <1>5. QuietInv
      BY <1>1, NothingPicked DEF QuietInv
  <1>6. GoingInv
      BY <1>1 DEF GoingInv, Serving
  <1> QED BY <1>3, <1>4, <1>5, <1>6 DEF FlowInv

(* A step that leaves the wire, the parser and the data alone. *)
LEMMA FlowStays ==
    ASSUME FlowInv,
           UNCHANGED <<role, peer_upgrade, sent, in, upgrade, http_recv_buffer_, base, skipped, garbled>>,
           DataOf(told') = DataOf(told), PongsOf(out') = PongsOf(out), Up' => Up,
           tcp' = "open" => tcp = "open" \/ upgrade = "reading"
    PROVE  FlowInv'
  <1>1. SentInv'
      BY DEF FlowInv, SentInv
  <1>2. Masked' = Masked /\ Serving' = Serving /\ Frames' = Frames
      BY DEF Masked, Serving, Frames
  <1>3. StartInv'
      BY <1>2 DEF FlowInv, StartInv
  <1>4. QuietInv'
      BY DEF FlowInv, QuietInv
  <1>5. ASSUME NEW m PROVE Delivered(upgrade, told, out, Frames, m) => Delivered(upgrade, told, out, Frames, m)'
      BY <1>2 DEF Delivered
  <1>6. GoingInv'
    <2> SUFFICES ASSUME ~garbled, Serving
                 PROVE  /\ \E m \in 0..Len(Frames) : Delivered(upgrade, told, out, Frames, m)'
                        /\ Up' /\ tcp' = "open" => \E c : FlowsAt(c)'
        BY <1>2 DEF GoingInv
    <2>1. \E m \in 0..Len(Frames) : Delivered(upgrade, told, out, Frames, m)'
        BY <1>5 DEF FlowInv, GoingInv
    <2>2. ASSUME Up', tcp' = "open" PROVE \E c : FlowsAt(c)'
      <3>1. upgrade # "reading"
          BY DEF Serving
      <3>2. PICK c : FlowsAt(c)
          BY <2>2, <3>1 DEF FlowInv, GoingInv
      <3>3. FlowsAt(c)'
        <4>1. Delivered(upgrade, told, out, Frames, c - Len(base.vec))'
            BY <3>2, <1>5, base' = base DEF FlowsAt
        <4>2. ParserAt(base, in, Frames, Masked, c)'
            BY <1>2, <3>2 DEF FlowsAt
        <4> QED BY <4>1, <4>2 DEF FlowsAt
      <3> QED BY <3>3
    <2> QED BY <2>1, <2>2
  <1> QED BY <1>1, <1>3, <1>4, <1>6 DEF FlowInv

(* A connect that fails tells of an end; *)
LEMMA FlowConnected == Inv /\ FlowInv /\ Connected => FlowInv'
  <1> SUFFICES ASSUME Inv, FlowInv, Connected PROVE FlowInv'
      OBVIOUS
  <1>1. ClientInv /\ ServerInv /\ HereInv
      BY DEF Inv, ControlInv
  <1>2. upgrade = "reading" /\ told = <<>>
      BY <1>1 DEF Connected, ClientInv, ServerInv, HereInv
  <1>3. DataOf(told') = DataOf(told)
    <2>1. CASE told' = told
        BY <2>1
    <2>2. CASE told' = <<OnClose(-1)>>
      <3>1. told' = Append(told, OnClose(-1)) /\ IsSeq(told)
          BY <1>2, <2>2, NothingTold
      <3> QED BY <3>1, EndIsNoData
    <2> QED BY <2>1, <2>2 DEF Connected
  <1>4. UNCHANGED <<role, peer_upgrade, sent, in, upgrade, http_recv_buffer_, base, skipped, garbled, out, ub>>
      BY DEF Connected, peerVars
  <1> QED BY <1>2, <1>3, <1>4, FlowStays DEF Up

(* so does the end of the stream. *)
LEMMA FlowOnReadEnd == Inv /\ FlowInv /\ OnReadEnd => FlowInv'
  <1> SUFFICES ASSUME Inv, FlowInv, OnReadEnd PROVE FlowInv'
      OBVIOUS
  <1>1. IsSeq(told)
      BY DEF Inv, ControlInv, EndInv, TypeInv
  <1>2. DataOf(told') = DataOf(told)
    <2>1. told' = told \/ told' = Append(told, OnClose(-1))
        BY DEF OnReadEnd
    <2> QED BY <1>1, <2>1, EndIsNoData
  <1>3. UNCHANGED <<role, peer_upgrade, sent, in, upgrade, http_recv_buffer_, base, skipped, garbled, out, ub>>
        /\ tcp = "open"
      BY DEF OnReadEnd, peerVars
  <1> QED BY <1>2, <1>3, FlowStays DEF Up

(* The timers send a PING or tell of an end. *)
LEMMA FlowOnTimer == Inv /\ FlowInv /\ OnTimer => FlowInv'
  <1> SUFFICES ASSUME Inv, FlowInv, OnTimer PROVE FlowInv'
      OBVIOUS
  <1>1. ControlInv /\ EndInv /\ TypeInv /\ HereInv
      BY DEF Inv, ControlInv, EndInv
  <1>2. PICK e, s : e = This /\ s = Pinged
      OBVIOUS
  <1>3. IsEffect(e) /\ e.told = told /\ e.out = out /\ e.ub = ub /\ e.tcp = tcp
      BY <1>1, <1>2, EndIs, ThisIs DEF EndsOK
  <1>4. /\ EndsOK(role, upgrade, s) /\ s.tcp = tcp /\ s.told = told /\ s.pong_age = pong_age
      BY <1>1, <1>2, PingedKeeps DEF OnTimer
  <1>5. s.out = out
    <2>1. CASE PingDue
      <3>1. s = SendWsFrame(e, "PING", <<>>)
          BY <1>2, <2>1 DEF Pinged
      <3>2. PICK op, item : op = "PING" /\ item = <<>>
          OBVIOUS
      <3>3. \/ SendWsFrame(e, op, item).out = e.out
            \/ SendWsFrame(e, op, item).out
                  = IF op = "PING" THEN e.out ELSE Append(e.out, [op |-> op, item |-> item])
          BY ONLY <1>3, SendAdds
      <3> QED BY <1>3, <3>1, <3>2, <3>3
    <2>2. CASE ~PingDue
        BY <1>2, <1>3, <2>2 DEF Pinged
    <2> QED BY <2>1, <2>2
  <1>6. UNCHANGED <<role, peer_upgrade, sent, in, upgrade, http_recv_buffer_, base, skipped, garbled>>
      BY DEF OnTimer, peerVars
  <1>7. Up
      BY DEF OnTimer
  <1>8. CASE role = "server"
    <2>1. Becomes(s)
        BY <1>2, <1>8 DEF OnTimer
    <2>2. told' = told /\ out' = out /\ tcp' = tcp
        BY <1>4, <1>5, <2>1 DEF Becomes
    <2> QED BY <1>6, <1>7, <2>2, FlowStays
  <1>9. CASE role = "client"
    <2>1. PICK g : g = ClientTimer(s)
        OBVIOUS
    <2>2. Becomes(g)
        BY <1>2, <1>9, <2>1 DEF OnTimer
    <2>3. IsEffect(s) /\ pong_age \in Unset..(PongLimit + 1)
        BY <1>1, <1>4 DEF EndsOK, TypeInv
    <2>4. (g.told = told \/ g.told = Append(told, OnClose(-1))) /\ g.out = out /\ (g.tcp = tcp \/ g.tcp = "closed")
      <3>1. CASE pong_age = Unset
        <4>0. ~(pong_age > PongLimit) /\ pong_age \notin 0..PongLimit
            BY <3>1, ConnAssumption DEF Unset
        <4>1. g = [s EXCEPT !.pong_age = 0]
            BY <2>1, <3>1, <4>0 DEF ClientTimer
        <4>2. g.told = s.told /\ g.out = s.out /\ g.tcp = s.tcp
            BY <2>3, <4>1 DEF IsEffect
        <4> QED BY <1>4, <1>5, <4>2
      <3>2. CASE pong_age # Unset /\ pong_age > PongLimit
        <4>0. pong_age \notin 0..PongLimit
            BY <2>3, <3>2, ConnAssumption DEF Unset
        <4>1. PICK us : us = Append(s.told, OnClose(-1))
            OBVIOUS
        <4>2. g = [s EXCEPT !.is_connected_ = FALSE, !.tcp = "closed", !.told = us]
            BY <2>1, <3>2, <4>0, <4>1 DEF ClientTimer
        <4>3. g.told = us /\ g.out = s.out /\ g.tcp = "closed"
            BY <2>3, <4>2 DEF IsEffect
        <4> QED BY <1>4, <1>5, <4>1, <4>3
      <3>3. CASE pong_age # Unset /\ ~(pong_age > PongLimit)
        <4>1. pong_age \in 0..PongLimit
            BY <2>3, <3>3, ConnAssumption DEF Unset
        <4>2. g = s
            BY <2>1, <3>3, <4>1 DEF ClientTimer
        <4> QED BY <1>4, <1>5, <4>2
      <3> QED BY <3>1, <3>2, <3>3
    <2>5. told' = g.told /\ out' = g.out /\ tcp' = g.tcp
        BY <2>2 DEF Becomes
    <2>6. DataOf(told') = DataOf(told)
      <3>1. IsSeq(told)
          BY <1>1 DEF TypeInv
      <3> QED BY <2>4, <2>5, <3>1, EndIsNoData
    <2>7. PongsOf(out') = PongsOf(out) /\ (tcp' = "open" => tcp = "open")
        BY <2>4, <2>5
    <2> QED BY <1>6, <1>7, <2>6, <2>7, FlowStays
  <1> QED BY <1>1, <1>8, <1>9 DEF HereInv

(* What the application writes is neither data for it nor a PONG. *)
LEMMA FlowAppWrites == Inv /\ FlowInv /\ AppWrites => FlowInv'
  <1> SUFFICES ASSUME Inv, FlowInv, AppWrites PROVE FlowInv'
      OBVIOUS
  <1>1. EndInv /\ Up
      BY DEF Inv, ControlInv, AppWrites
  <1>2. UNCHANGED <<role, peer_upgrade, sent, in, upgrade, http_recv_buffer_, base, skipped, garbled>>
      BY DEF AppWrites, peerVars
  <1>3. told' = told /\ out' = out /\ tcp' = tcp
    <2>1. CASE role # "client" /\ ~held
        BY <2>1 DEF AppWrites
    <2>2. CASE role = "client" \/ held
      <3>1. PICK e, g : e = This /\ g = SendWsFrame(e, "TEXT", <<>>)
          OBVIOUS
      <3>2. EndsOK(role, upgrade, e) /\ IsEffect(e) /\ e.told = told /\ e.tcp = tcp /\ e.ub = None
          BY <1>1, <3>1, EndIs, ThisIs DEF EndsOK, Up
      <3>3. role \in {"server", "client"} /\ (role = "server" /\ e.tcp = "closed" => e.close_)
          BY <2>2, <3>1, <3>2, ThisIs DEF Inv, ControlInv, HereInv, ServerInv
      <3>4. EndsOK(role, upgrade, g) /\ g.tcp = e.tcp /\ g.told = e.told
          BY <3>1, <3>2, <3>3, SendKeeps
      <3>5. PICK s : s = [g EXCEPT !.out = out]
          OBVIOUS
      <3>6. s.told = g.told /\ s.tcp = g.tcp /\ s.out = out
          BY <3>4, <3>5 DEF EndsOK, IsEffect
      <3>7. Becomes(s)
          BY <2>2, <3>1, <3>5 DEF AppWrites
      <3> QED BY <3>2, <3>4, <3>6, <3>7 DEF Becomes
    <2> QED BY <2>1, <2>2
  <1> QED BY <1>1, <1>2, <1>3, FlowStays

(* The steps that touch nothing of it. *)
LEMMA FlowUntouched ==
    ASSUME FlowInv, PeerGoes \/ OnWrite \/ Tick \/ ServerOnTimer \/ OnAcceptAgain \/ UNCHANGED vars
    PROVE  FlowInv'
  <1>1. UNCHANGED <<role, peer_upgrade, sent, in, upgrade, http_recv_buffer_, base, skipped, garbled, told, out>>
      BY DEF PeerGoes, OnWrite, Tick, ServerOnTimer, OnAcceptAgain, Destroyed, vars, peerVars
  <1>2. (tcp' = tcp /\ ub' = ub) \/ (Up /\ tcp' = "closed")
      BY DEF PeerGoes, OnWrite, Tick, ServerOnTimer, OnAcceptAgain, Destroyed, vars
  <1>3. (Up' => Up) /\ (tcp' = "open" => tcp = "open")
      BY <1>2 DEF Up
  <1> QED BY <1>1, <1>3, FlowStays

(* The HTTP head comes first, with nothing behind it yet. *)
LEMMA FlowPeerUpgrades == Inv /\ FlowInv /\ PeerUpgrades => FlowInv'
  <1> SUFFICES ASSUME Inv, FlowInv, PeerUpgrades PROVE FlowInv'
      OBVIOUS
  <1>0. WireInv /\ HeadInv /\ SentInv /\ StartInv /\ QuietInv
      BY DEF Inv, FlowInv
  <1>1. PICK ok \in BOOLEAN, early \in BOOLEAN :
           in' = (IF early THEN FrameCells("PING", TRUE, <<0>>, TRUE) ELSE <<>>) \o HttpHead(ok)
      BY DEF PeerUpgrades
  <1>2. PICK c, q : /\ c = IF early THEN FrameCells("PING", TRUE, <<0>>, TRUE) ELSE <<>>
                    /\ q = HttpHead(ok)
      OBVIOUS
  <1>3. c \in Seq(Cell) /\ \A i \in 1..Len(c) : c[i].k # "end"
    <2>1. CASE early = TRUE
      <3>1. "PING" \in Ops /\ TRUE \in BOOLEAN /\ <<0>> \in Seq(Int)
          BY DEF Ops
      <3>2. PICK op, t, vs : op = "PING" /\ t = TRUE /\ vs = <<0>>
          OBVIOUS
      <3>3. c = FrameCells(op, t, vs, t) /\ op \in Ops /\ t \in BOOLEAN /\ vs \in Seq(Int)
          BY <1>2, <2>1, <3>1, <3>2
      <3> QED BY <3>3, FrameIsCells
    <2>2. CASE early = FALSE
      <3>1. c = <<>>
          BY <1>2, <2>2
      <3> QED BY <3>1
    <2> QED BY <2>1, <2>2
  <1>4. q \in Seq(Cell) /\ Len(q) = 2 /\ q[1].k = "start" /\ q[2].k = "end"
      BY <1>2, HeadIsCells
  <1>5. PICK w, l : w = c \o q /\ l = Len(c)
      OBVIOUS
  <1>6. /\ w \in Seq(Cell) /\ Len(w) = l + 2 /\ l \in Nat /\ (\A i \in 1..l : w[i] = c[i])
        /\ w[l + 1] = q[1] /\ w[l + 2] = q[2]
    <2>0. c \in Seq(Cell) /\ q \in Seq(Cell) /\ w = c \o q
        BY <1>3, <1>4, <1>5
    <2>3. w \in Seq(Cell) /\ Len(w) = Len(c) + Len(q) /\ Len(c) \in Nat
        BY ONLY <2>0, BufferFirst
    <2>4. ASSUME NEW i \in 1..Len(c) PROVE w[i] = c[i]
        BY ONLY <2>0, BufferFirst, i \in 1..Len(c)
    <2>5. ASSUME NEW i \in 1..Len(q) PROVE w[Len(c) + i] = q[i]
        BY ONLY <2>0, BufferFirst, i \in 1..Len(q)
    <2>2. 1 \in 1..Len(q) /\ 2 \in 1..Len(q)
        BY <1>4
    <2> QED BY <1>4, <1>5, <2>2, <2>3, <2>4, <2>5
  <1>7. upgrade = "reading" /\ sent = <<>> /\ http_recv_buffer_ = <<>>
      BY <1>0 DEF PeerUpgrades, SentInv, HeadInv
  <1>8. PICK e, mask : e = l + 2 /\ mask = Masked
      OBVIOUS
  <1>9. After(w, e) = <<>>
    <2>1. e \in Nat /\ Len(w) = e
        BY <1>6, <1>8
    <2> QED BY <1>6, <2>1 DEF After
  <1>10. Carries(<<>>, <<>>, mask, 0)
    <2>1. PICK nil : nil = <<>>
        OBVIOUS
    <2>2. nil \in Seq(Frame) /\ Len(nil) = 0 /\ mask \in BOOLEAN
        BY <1>8, <2>1 DEF Masked
    <2>3. Carries(<<>>, nil, mask, Len(nil))
        BY <2>2, CarriesNone
    <2> QED BY <2>1, <2>2, <2>3
  <1>11. ASSUME NEW i \in 1..(e - 1) PROVE w[i].k # "end"
    <2>1. CASE i \in 1..l
        BY <1>3, <1>5, <1>6, <2>1
    <2>2. CASE i \notin 1..l
      <3>1. i = l + 1
          BY <1>6, <1>8, <2>2
      <3> QED BY <1>4, <1>6, <3>1
    <2> QED BY <2>1, <2>2
  <1>12. e \in 1..Len(w) /\ w[e].k = "end"
      BY <1>4, <1>6, <1>8
  <1>13. HeadBehind(w, <<>>, mask, e)
      BY <1>9, <1>10, <1>11, <1>12 DEF HeadBehind
  <1>14. /\ in' = w /\ http_recv_buffer_' = <<>> /\ sent' = <<>> /\ upgrade' = "reading"
         /\ peer_upgrade' = TRUE /\ role' = role /\ base' = base /\ skipped' = skipped
         /\ garbled' = garbled /\ told' = told /\ out' = out
    <2>1. in' = w
        BY <1>1, <1>2, <1>5
    <2> QED BY <1>7, <2>1 DEF PeerUpgrades
  <1>15. HeadBehind(http_recv_buffer_ \o in, sent, Masked, e)'
    <2>1. <<>> \o w = w
        BY <1>6
    <2>2. Masked' = mask
        BY <1>8, <1>14 DEF Masked
    <2> QED BY <1>13, <1>14, <2>1, <2>2
  <1>16. StartInv'
      BY <1>0, <1>7, <1>14, <1>15 DEF StartInv
  <1>17. SentInv'
      BY <1>0, <1>7, <1>14 DEF SentInv
  <1>18. QuietInv' /\ GoingInv'
      BY <1>0, <1>7, <1>14 DEF QuietInv, GoingInv, Serving
  <1> QED BY <1>16, <1>17, <1>18 DEF FlowInv

(* A frame of the peer begins a message only where none has begun. *)
LEMMA PeerFrameFits ==
    ASSUME FramesOK(sent), NEW f \in PeerFrames
    PROVE  f \in Frame /\ FramesOK(Append(sent, f))
  <1>1. sent \in Seq(Frame) /\ Len(sent) \in Nat /\ IsSeq(sent)
      BY DEF FramesOK, IsSeq
  <1>2. PICK w : w = <<Len(sent) + 1>>
      OBVIOUS
  <1>3. \/ \E o \in IF Fragmented THEN {"CONT"} ELSE PeerOps \intersect DataOps, b \in BOOLEAN :
              f = [op |-> o, fin |-> b, v |-> w]
        \/ f \in {[op |-> "PING", fin |-> TRUE, v |-> w], [op |-> "PONG", fin |-> TRUE, v |-> <<>>],
                  [op |-> "CLOSE", fin |-> TRUE, v |-> <<ValidCode>>],
                  [op |-> "CLOSE", fin |-> TRUE, v |-> <<>>]}
      BY <1>2 DEF PeerFrames
  <1>4. f = [op |-> f.op, fin |-> f.fin, v |-> f.v] /\ (f.op \in DataOps => ~Fragmented)
    <2>1. CASE \E o \in IF Fragmented THEN {"CONT"} ELSE PeerOps \intersect DataOps, b \in BOOLEAN :
                  f = [op |-> o, fin |-> b, v |-> w]
      <3>1. PICK o, b : /\ o \in IF Fragmented THEN {"CONT"} ELSE PeerOps \intersect DataOps
                        /\ f = [op |-> o, fin |-> b, v |-> w]
          BY <2>1
      <3>2. f.op = o /\ f = [op |-> f.op, fin |-> f.fin, v |-> f.v]
          BY <3>1
      <3> QED BY <3>1, <3>2 DEF DataOps
    <2>2. CASE f = [op |-> "PING", fin |-> TRUE, v |-> w]
        BY <2>2 DEF DataOps
    <2>3. CASE f = [op |-> "PONG", fin |-> TRUE, v |-> <<>>]
        BY <2>3 DEF DataOps
    <2>4. CASE f = [op |-> "CLOSE", fin |-> TRUE, v |-> <<ValidCode>>]
        BY <2>4 DEF DataOps
    <2>5. CASE f = [op |-> "CLOSE", fin |-> TRUE, v |-> <<>>]
        BY <2>5 DEF DataOps
    <2> QED BY <1>3, <2>1, <2>2, <2>3, <2>4, <2>5
  <1>5. f.op \in Ops /\ f.fin \in BOOLEAN /\ f.v \in Seq(Int)
      BY <1>1, PeerFrameIs
  <1>6. f \in Frame
      BY <1>4, <1>5 DEF Frame
  <1>7. PICK gs, n : gs = Append(sent, f) /\ n = Len(sent)
      OBVIOUS
  <1>8. gs \in Seq(Frame) /\ Len(gs) = n + 1 /\ gs[n + 1] = f /\ n \in Nat /\ \A i \in 1..n : gs[i] = sent[i]
      BY <1>1, <1>6, <1>7
  <1>9. ASSUME NEW i \in 1..(Len(gs) - 1), ~gs[i].fin PROVE gs[i + 1].op \notin DataOps
    <2>1. i \in 1..n /\ gs[i] = sent[i]
        BY <1>8
    <2>2. CASE i = n
      <3>1. i \in DOMAIN sent /\ ~sent[i].fin /\ \A j \in i + 1..Len(sent) : FALSE
          BY <1>1, <1>7, <1>9, <2>1, <2>2
      <3>2. Fragmented
          BY <3>1 DEF Fragmented
      <3> QED BY <1>4, <1>8, <2>2, <3>2
    <2>3. CASE i # n
      <3>1. i \in 1..(Len(sent) - 1) /\ i + 1 \in 1..n
          BY <1>7, <1>8, <2>1, <2>3
      <3>2. sent[i + 1].op \notin DataOps
          BY <1>9, <2>1, <3>1 DEF FramesOK
      <3> QED BY <1>8, <3>1, <3>2
    <2> QED BY <2>2, <2>3
  <1>10. FramesOK(gs)
      BY <1>8, <1>9 DEF FramesOK
  <1> QED BY <1>6, <1>7, <1>10

(* The frames that were not dropped, and one more. *)
LEMMA FramesGrow ==
    ASSUME NEW fs \in Seq(Frame), NEW k \in 0..Len(fs), NEW f \in Frame
    PROVE  /\ SubSeq(fs, k + 1, Len(fs)) \in Seq(Frame)
           /\ SubSeq(Append(fs, f), k + 1, Len(Append(fs, f))) = Append(SubSeq(fs, k + 1, Len(fs)), f)
  <1>1. PICK gs, n, x, y : gs = Append(fs, f) /\ n = Len(fs) /\ x = SubSeq(gs, k + 1, n + 1)
                           /\ y = SubSeq(fs, k + 1, n)
      OBVIOUS
  <1>2. n \in Nat /\ k \in Nat /\ k <= n
      BY <1>1
  <1>3. gs \in Seq(Frame) /\ Len(gs) = n + 1 /\ gs[n + 1] = f /\ \A i \in 1..n : gs[i] = fs[i]
      BY <1>1, <1>2
  <1>4. y \in Seq(Frame) /\ Len(y) = n - k /\ \A i \in 1..(n - k) : y[i] = fs[k + i]
    <2>1. y = SubSeq(fs, k + 1, n) /\ fs \in Seq(Frame) /\ n = Len(fs) /\ n \in Nat /\ k \in Nat /\ k <= n
        BY <1>1, <1>2
    <2>2. y \in Seq(Frame)
        BY ONLY <2>1
    <2>3. Len(y) = n - k /\ \A i \in 1..(n - k) : y[i] = fs[k + i]
        BY ONLY <2>1
    <2> QED BY <2>2, <2>3
  <1>5. x \in Seq(Frame) /\ Len(x) = (n + 1) - k /\ \A i \in 1..((n + 1) - k) : x[i] = gs[k + i]
    <2>1. PICK m : m = n + 1
        OBVIOUS
    <2>2. x = SubSeq(gs, k + 1, m) /\ gs \in Seq(Frame) /\ m = Len(gs) /\ m \in Nat /\ k \in Nat /\ k <= m
        BY <1>1, <1>2, <1>3, <2>1
    <2>3. x \in Seq(Frame)
        BY ONLY <2>2
    <2>4. Len(x) = m - k /\ \A i \in 1..(m - k) : x[i] = gs[k + i]
        BY ONLY <2>2
    <2> QED BY <2>1, <2>3, <2>4
  <1>6. PICK z, l : z = Append(y, f) /\ l = n - k
      OBVIOUS
  <1>7. l \in Nat /\ l + 1 = (n + 1) - k /\ k + (l + 1) = n + 1
      BY <1>2, <1>6
  <1>8. z \in Seq(Frame) /\ Len(z) = l + 1 /\ z[l + 1] = f /\ \A i \in 1..l : z[i] = y[i]
    <2>1. y \in Seq(Frame) /\ Len(y) = l /\ l \in Nat /\ z = Append(y, f)
        BY <1>4, <1>6, <1>7
    <2> QED BY ONLY <2>1, f \in Frame
  <1>9. Len(x) = Len(z)
      BY <1>5, <1>7, <1>8
  <1>10. ASSUME NEW i \in 1..Len(x) PROVE x[i] = z[i]
    <2>1. i \in 1..(l + 1)
        BY <1>5, <1>7
    <2>2. x[i] = gs[k + i]
        BY <1>5, <1>7, <2>1
    <2>3. CASE i = l + 1
        BY <1>3, <1>7, <1>8, <2>2, <2>3
    <2>4. CASE i # l + 1
      <3>1. i \in 1..l /\ k + i \in 1..n
          BY <1>2, <1>7, <2>1, <2>4
      <3>2. z[i] = fs[k + i]
          BY <1>4, <1>6, <1>8, <3>1
      <3> QED BY <1>3, <2>2, <3>1, <3>2
    <2> QED BY <2>3, <2>4
  <1>11. x = z
      BY <1>5, <1>8, <1>9, <1>10, SeqEqual
  <1> QED BY <1>1, <1>3, <1>4, <1>6, <1>11

(* A frame more on the way is a frame more to be handled. *)
LEMMA ParserMore ==
    ASSUME NEW fs \in Seq(Frame), NEW mask \in BOOLEAN, NEW f \in Frame, NEW b, BaseOK(b),
           NEW w \in Seq(Cell), NEW c, ParserAt(b, w, fs, mask, c)
    PROVE  ParserAt(b, w \o FrameCells(f.op, f.fin, f.v, mask), Append(fs, f), mask, c)
  <1>1. PICK q, r, gs, n, vec, l : /\ q = FrameCells(f.op, f.fin, f.v, mask) /\ r = b.frame.buffer
                              /\ gs = Append(fs, f) /\ n = Len(fs) /\ vec = b.vec /\ l = Len(vec)
      OBVIOUS
  <1>2. n \in Nat /\ gs \in Seq(Frame) /\ Len(gs) = n + 1 /\ \A i \in 1..n : gs[i] = fs[i]
      BY <1>1
  <1>3. r \in Seq(Cell) /\ IsSeq(vec) /\ l \in Nat
      BY <1>1, SeqIs DEF BaseOK, FrameOK
  <1>4. q \in Seq(Cell)
    <2>1. PICK op, fin, v : op = f.op /\ fin = f.fin /\ v = f.v
        OBVIOUS
    <2>2. op \in Ops /\ fin \in BOOLEAN /\ v \in Seq(Int) /\ q = FrameCells(op, fin, v, mask)
        BY <1>1, <2>1 DEF Frame
    <2> QED BY <2>2, FrameIsCells
  <1>5. /\ c \in 0..n /\ Carries(r \o w, fs, mask, c) /\ Waiting(vec, fs, c) /\ b.last_op = OpOf(fs, c)
        /\ b.frame.header_ready => c < n /\ HeaderOf(b.frame, fs[c + 1], mask)
      BY <1>1 DEF ParserAt
  <1>6. Carries(r \o (w \o q), gs, mask, c)
    <2>1. PICK x, y : x = r \o w /\ y = x \o q
        OBVIOUS
    <2>2. x \in Seq(Cell)
        BY <1>3, <2>1, ConcatProperties
    <2>3. IsSeq(x) /\ Carries(x, fs, mask, c) /\ c \in 0..Len(fs)
        BY <1>1, <1>5, <2>1, <2>2 DEF IsSeq
    <2>4. gs = Append(fs, f) /\ q = FrameCells(f.op, f.fin, f.v, mask) /\ y = x \o q
        BY <1>1, <2>1
    <2>5. Carries(y, gs, mask, c)
        BY <2>3, <2>4, CarriesMore
    <2>6. y = r \o (w \o q)
      <3>1. r \in Seq(Cell) /\ w \in Seq(Cell) /\ q \in Seq(Cell)
          BY <1>3, <1>4
      <3>2. (r \o w) \o q = r \o (w \o q)
          BY ONLY <3>1, ConcatAssociative, SMTT(30)
      <3> QED BY <2>1, <3>2
    <2> QED BY <2>5, <2>6
  <1>7. b.frame.header_ready => c < Len(gs) /\ HeaderOf(b.frame, gs[c + 1], mask)
    <2> SUFFICES ASSUME b.frame.header_ready PROVE c < Len(gs) /\ HeaderOf(b.frame, gs[c + 1], mask)
        OBVIOUS
    <2>1. c < n /\ HeaderOf(b.frame, fs[c + 1], mask)
        BY <1>5
    <2>2. c + 1 \in 1..n /\ c < Len(gs)
        BY <1>2, <1>5, <2>1
    <2> QED BY <1>2, <2>1, <2>2
  <1>8. Waiting(vec, gs, c)
    <2>1. l <= c /\ (c = l \/ fs[c - l].fin)
          /\ \A i \in 1..l : vec[i] = Item(fs[(c - l) + i]) /\ ~fs[(c - l) + i].fin
        BY <1>1, <1>5 DEF Waiting
    <2>2. ASSUME NEW i \in 1..l PROVE gs[(c - l) + i] = fs[(c - l) + i]
      <3>1. (c - l) + i \in 1..n
          BY <1>2, <1>3, <1>5, <2>1
      <3> QED BY <1>2, <3>1
    <2>3. c # l => gs[c - l] = fs[c - l]
      <3> SUFFICES ASSUME c # l PROVE gs[c - l] = fs[c - l]
          OBVIOUS
      <3>1. c - l \in 1..n
          BY <1>2, <1>3, <1>5, <2>1
      <3> QED BY <1>2, <3>1
    <2>4. c = l \/ gs[c - l].fin
        BY <2>1, <2>3
    <2>5. \A i \in 1..l : vec[i] = Item(gs[(c - l) + i]) /\ ~gs[(c - l) + i].fin
        BY <2>1, <2>2
    <2> QED BY <1>1, <2>1, <2>4, <2>5 DEF Waiting
  <1>9. OpOf(gs, c) = OpOf(fs, c)
    <2>1. c \in Nat /\ \A k \in 1..c : fs[k] = gs[k]
        BY <1>2, <1>5
    <2> QED BY <2>1, OpOfAgree
  <1>10. c \in 0..Len(gs)
      BY <1>2, <1>5
  <1>11. ParserAt(b, w \o q, gs, mask, c)
      BY <1>1, <1>5, <1>6, <1>7, <1>8, <1>9, <1>10 DEF ParserAt
  <1> QED BY <1>1, <1>11

(* What has been delivered is due then too. *)
LEMMA DeliveredMore ==
    ASSUME NEW fs \in Seq(Frame), NEW f \in Frame, NEW m \in 0..Len(fs), m = 0 \/ fs[m].fin,
           NEW u, NEW ts, NEW os, Delivered(u, ts, os, fs, m)
    PROVE  Delivered(u, ts, os, Append(fs, f), m)
  <1>1. PICK gs : gs = Append(fs, f)
      OBVIOUS
  <1>2. DataTo(gs, m) = DataTo(fs, m) /\ PongsTo(gs, m) = PongsTo(fs, m)
      BY <1>1, DueStays
  <1> QED BY <1>1, <1>2 DEF Delivered

(* The head stays where it is. *)
LEMMA HeadMore ==
    ASSUME NEW fs \in Seq(Frame), NEW mask \in BOOLEAN, NEW f \in Frame, NEW w \in Seq(Cell),
           NEW e, HeadBehind(w, fs, mask, e)
    PROVE  HeadBehind(w \o FrameCells(f.op, f.fin, f.v, mask), Append(fs, f), mask, e)
  <1>1. PICK q, x, gs : q = FrameCells(f.op, f.fin, f.v, mask) /\ x = w \o q /\ gs = Append(fs, f)
      OBVIOUS
  <1>2. q \in Seq(Cell)
    <2>1. PICK op, fin, v : op = f.op /\ fin = f.fin /\ v = f.v
        OBVIOUS
    <2>2. op \in Ops /\ fin \in BOOLEAN /\ v \in Seq(Int) /\ q = FrameCells(op, fin, v, mask)
        BY <1>1, <2>1 DEF Frame
    <2> QED BY <2>2, FrameIsCells
  <1>3. /\ e \in 1..Len(w) /\ w[e].k = "end" /\ (\A i \in 1..(e - 1) : w[i].k # "end")
        /\ Carries(After(w, e), fs, mask, 0)
      BY DEF HeadBehind
  <1>4. w \in Seq(Cell) /\ q \in Seq(Cell) /\ x = w \o q
      BY <1>1, <1>2
  <1>5. Len(x) = Len(w) + Len(q) /\ Len(w) \in Nat /\ Len(q) \in Nat
      BY ONLY <1>4, BufferFirst
  <1>6. ASSUME NEW i \in 1..Len(w) PROVE x[i] = w[i]
      BY ONLY <1>4, BufferFirst, i \in 1..Len(w)
  <1>7. e \in 1..Len(x) /\ x[e].k = "end"
      BY <1>3, <1>5, <1>6
  <1>8. ASSUME NEW i \in 1..(e - 1) PROVE x[i].k # "end"
    <2>1. i \in 1..Len(w)
        BY <1>3, <1>5
    <2> QED BY <1>3, <1>6, <2>1
  <1>9. Carries(After(x, e), gs, mask, 0)
    <2>1. e \in Nat /\ e <= Len(w)
        BY <1>3, <1>5
    <2>2. After(w \o q, e) = After(w, e) \o q
        BY <1>4, <2>1, RestFollows
    <2>3. PICK y, z : y = After(w, e) /\ z = y \o q
        OBVIOUS
    <2>4. y \in Seq(Cell)
      <3>1. y = SubSeq(w, e + 1, Len(w)) /\ e \in Nat /\ e <= Len(w) /\ w \in Seq(Cell)
          BY <2>1, <2>3 DEF After
      <3> QED BY ONLY <3>1
    <2>5. IsSeq(y) /\ Carries(y, fs, mask, 0) /\ 0 \in 0..Len(fs)
        BY <1>3, <2>3, <2>4 DEF IsSeq
    <2>6. gs = Append(fs, f) /\ q = FrameCells(f.op, f.fin, f.v, mask) /\ z = y \o q
        BY <1>1, <2>3
    <2>7. Carries(z, gs, mask, 0)
        BY <2>5, <2>6, CarriesMore
    <2> QED BY <1>1, <2>2, <2>3, <2>7
  <1>10. HeadBehind(x, gs, mask, e)
      BY <1>7, <1>8, <1>9 DEF HeadBehind
  <1> QED BY <1>1, <1>10

(* The peer sends a frame. *)
LEMMA FlowPeerSends == Inv /\ FlowInv /\ PeerSends => FlowInv'
  <1> SUFFICES ASSUME Inv, FlowInv, PeerSends PROVE FlowInv'
      OBVIOUS
  <1>0. WireInv /\ HeadInv /\ SentInv /\ StartInv /\ QuietInv /\ GoingInv
      BY DEF Inv, FlowInv
  <1>1. PICK f \in PeerFrames :
           sent' = Append(sent, f) /\ in' = in \o FrameCells(f.op, f.fin, f.v, role = "server")
      BY DEF PeerSends
  <1>2. PICK mask : mask = Masked
      OBVIOUS
  <1>3. mask \in BOOLEAN /\ Masked' = mask /\ in' = in \o FrameCells(f.op, f.fin, f.v, mask)
      BY <1>1, <1>2 DEF Masked, PeerSends
  <1>4. Up /\ tcp = "open" /\ peer_upgrade
        /\ UNCHANGED <<role, peer_upgrade, tcp, upgrade, http_recv_buffer_, base, told, out, skipped,
                       garbled, ub>>
      BY DEF PeerSends
  <1>5. FramesOK(sent) /\ f \in Frame /\ FramesOK(Append(sent, f)) /\ sent \in Seq(Frame)
      BY <1>0, PeerFrameFits DEF SentInv, FramesOK
  <1>6. SentInv'
      BY <1>0, <1>1, <1>4, <1>5 DEF SentInv
  <1>7. QuietInv'
      BY <1>0, <1>4 DEF QuietInv
  <1>8. StartInv'
    <2> SUFFICES ASSUME upgrade = "reading"
                 PROVE  /\ base = NewBase /\ skipped = 0 /\ ~garbled
                        /\ \E e : HeadBehind(http_recv_buffer_ \o in, sent, Masked, e)'
        BY <1>4 DEF StartInv
    <2>1. base = NewBase /\ skipped = 0 /\ ~garbled
        BY <1>0 DEF StartInv
    <2>2. PICK e : HeadBehind(http_recv_buffer_ \o in, sent, mask, e)
        BY <1>0, <1>2, <1>4 DEF StartInv
    <2>3. PICK r, w, q, x : /\ r = http_recv_buffer_ /\ w = r \o in
                            /\ q = FrameCells(f.op, f.fin, f.v, mask) /\ x = in
        OBVIOUS
    <2>4. r \in Seq(Cell) /\ x \in Seq(Cell)
        BY <1>0, <2>3 DEF WireInv
    <2>5. w \in Seq(Cell)
        BY <2>3, <2>4, ConcatProperties
    <2>6. HeadBehind(w \o q, Append(sent, f), mask, e)
        BY <1>3, <1>5, <2>2, <2>3, <2>5, HeadMore
    <2>7. q \in Seq(Cell)
      <3>1. PICK op, fin, v : op = f.op /\ fin = f.fin /\ v = f.v
          OBVIOUS
      <3>2. op \in Ops /\ fin \in BOOLEAN /\ v \in Seq(Int) /\ q = FrameCells(op, fin, v, mask)
          BY <1>5, <2>3, <3>1 DEF Frame
      <3> QED BY <1>3, <3>2, FrameIsCells
    <2>8. (r \o x) \o q = r \o (x \o q)
        BY ONLY <2>4, <2>7, ConcatAssociative, SMTT(30)
    <2>9. http_recv_buffer_' \o in' = w \o q
        BY <1>3, <1>4, <2>3, <2>8
    <2>10. HeadBehind(http_recv_buffer_ \o in, sent, Masked, e)'
        BY <1>1, <1>3, <2>6, <2>9
    <2> QED BY <2>1, <2>10
  <1>9. GoingInv'
    <2> SUFFICES ASSUME ~garbled, Serving
                 PROVE  /\ \E m \in 0..Len(Frames') : Delivered(upgrade, told, out, Frames', m)
                        /\ \E c : FlowsAt(c)'
        BY <1>4 DEF GoingInv, Serving, Delivered
    <2>1. PICK c : FlowsAt(c)
        BY <1>0, <1>4 DEF GoingInv
    <2>2. PICK fs, l, w : fs = Frames /\ l = Len(base.vec) /\ w = in
        OBVIOUS
    <2>3. fs \in Seq(Frame) /\ Frames' = Append(fs, f)
      <3>1. skipped \in 0..Len(sent)
          BY <1>0 DEF HeadInv
      <3> QED BY <1>1, <1>4, <1>5, <2>2, <3>1, FramesGrow DEF Frames
    <2>4. BaseOK(base) /\ w \in Seq(Cell) /\ ParserAt(base, w, fs, mask, c)
        BY <1>0, <1>2, <2>1, <2>2 DEF WireInv, FlowsAt
    <2>5. ParserAt(base, w \o FrameCells(f.op, f.fin, f.v, mask), Append(fs, f), mask, c)
        BY <1>3, <1>5, <2>3, <2>4, ParserMore
    <2>6. PICK m : m = c - l
        OBVIOUS
    <2>7. m \in 0..Len(fs) /\ (m = 0 \/ fs[m].fin)
      <3>1. c \in 0..Len(fs) /\ l <= c /\ (c = l \/ fs[c - l].fin)
          BY <2>2, <2>4 DEF ParserAt, Waiting
      <3>2. l \in Nat
          BY <2>2, <2>4, SeqIs DEF BaseOK
      <3> QED BY <2>3, <2>6, <3>1, <3>2
    <2>8. Delivered(upgrade, told, out, Append(fs, f), m)
      <3>1. Delivered(upgrade, told, out, fs, m)
          BY <2>1, <2>2, <2>6 DEF FlowsAt
      <3> QED BY <1>5, <2>3, <2>7, <3>1, DeliveredMore
    <2>9. m \in 0..Len(Append(fs, f))
        BY <1>5, <2>3, <2>7
    <2>10. ParserAt(base, in, Frames, Masked, c)'
        BY <1>3, <1>4, <2>2, <2>3, <2>5
    <2>11. Delivered(upgrade, told, out, Frames, c - Len(base.vec))'
        BY <1>4, <2>2, <2>3, <2>6, <2>8
    <2> QED BY <2>3, <2>8, <2>9, <2>10, <2>11 DEF FlowsAt
  <1> QED BY <1>6, <1>7, <1>8, <1>9 DEF FlowInv

(* The head that a read completes is the one that the frames follow. *)
LEMMA HeadIsFound ==
    ASSUME NEW q \in Seq(Cell), NEW w, Len(q) <= Len(w), Len(w) \in Nat,
           \A i \in 1..Len(q) : q[i] = w[i], NEW fs, NEW mask, NEW e, HeadBehind(w, fs, mask, e),
           Heads(q) # 0
    PROVE  Heads(q) = e
  <1>1. PICK T, x : T = {i \in 1..Len(q) : q[i].k = "end"} /\ x = Heads(q)
      OBVIOUS
  <1>2. x = IF T # {} THEN Min(T) ELSE 0
      BY <1>1 DEF Heads, SelectInSeq
  <1>3. T \in SUBSET Nat /\ T # {}
      BY <1>1, <1>2
  <1>4. \E y \in T : \A z \in T : y <= z
      BY <1>3, Least
  <1>5. x \in T /\ \A z \in T : x <= z
      BY <1>2, <1>3, <1>4 DEF Min
  <1>6. e \in 1..Len(w) /\ w[e].k = "end" /\ \A i \in 1..(e - 1) : w[i].k # "end"
      BY DEF HeadBehind
  <1>7. x \in 1..Len(q) /\ w[x].k = "end" /\ Len(q) \in Nat
      BY <1>1, <1>5
  <1>8. ~(x < e)
    <2> SUFFICES ASSUME x < e PROVE FALSE
        OBVIOUS
    <2>1. x \in 1..(e - 1)
        BY <1>6, <1>7
    <2> QED BY <1>6, <1>7, <2>1
  <1>9. ~(e < x)
    <2> SUFFICES ASSUME e < x PROVE FALSE
        OBVIOUS
    <2>1. e \in 1..Len(q)
        BY <1>6, <1>7
    <2>2. e \in T
        BY <1>1, <1>6, <2>1
    <2> QED BY <1>5, <1>6, <1>7, <2>2
  <1> QED BY <1>1, <1>6, <1>7, <1>8, <1>9

(* What follows the first k frames. *)
LEMMA FramesRest ==
    ASSUME NEW fs, FramesOK(fs), NEW k \in 0..Len(fs)
    PROVE  FramesOK(SubSeq(fs, k + 1, Len(fs)))
  <1>1. PICK gs, n : gs = SubSeq(fs, k + 1, Len(fs)) /\ n = Len(fs)
      OBVIOUS
  <1>2. fs \in Seq(Frame) /\ n \in Nat /\ k \in Nat /\ k <= n /\ n = Len(fs) /\ gs = SubSeq(fs, k + 1, n)
      BY <1>1 DEF FramesOK
  <1>3. gs \in Seq(Frame)
      BY ONLY <1>2
  <1>4. Len(gs) = n - k /\ \A i \in 1..(n - k) : gs[i] = fs[k + i]
      BY ONLY <1>2
  <1>5. ASSUME NEW i \in 1..(Len(gs) - 1), ~gs[i].fin PROVE gs[i + 1].op \notin DataOps
    <2>1. i \in 1..(n - k) /\ i + 1 \in 1..(n - k) /\ k + i \in 1..(n - 1) /\ k + (i + 1) = (k + i) + 1
        BY <1>2, <1>4
    <2>2. gs[i] = fs[k + i] /\ gs[i + 1] = fs[(k + i) + 1]
        BY <1>4, <2>1
    <2>3. fs[(k + i) + 1].op \notin DataOps
        BY <1>2, <1>5, <2>1, <2>2 DEF FramesOK
    <2> QED BY <2>2, <2>3
  <1> QED BY <1>1, <1>3, <1>5 DEF FramesOK

(* A parser that is new has all its frames before it. *)
LEMMA ParserIsNew ==
    ASSUME NEW fs \in Seq(Frame), NEW mask \in BOOLEAN, NEW w \in Seq(Cell), Carries(w, fs, mask, 0)
    PROVE  BaseOK(NewBase) /\ Len(NewBase.vec) = 0 /\ NewBase.frame.buffer = <<>>
           /\ ParserAt(NewBase, w, fs, mask, 0)
  <1>1. PICK b, f, nil : b = NewBase /\ f = NewFrame /\ nil = <<>>
      OBVIOUS
  <1>2. nil \in Seq(Cell) /\ Len(nil) = 0 /\ IsSeq(nil) /\ nil \o w = w
      BY <1>1, NothingTold
  <1>3. f.buffer = nil /\ ~f.header_ready /\ FrameOK(f)
      BY <1>1, <1>2 DEF NewFrame, FrameOK
  <1>4. b.frame = f /\ b.vec = nil /\ b.last_op = "TEXT"
      BY <1>1 DEF NewBase
  <1>5. BaseOK(b)
      BY <1>1, <1>2, <1>3, <1>4 DEF NewBase, BaseOK, DataOps
  <1>6. Waiting(nil, fs, 0)
    <2>1. 1..0 = {}
        OBVIOUS
    <2> QED BY <1>2, <2>1 DEF Waiting
  <1>7. OpOf(fs, 0) = "TEXT"
    <2>1. {j \in 1..0 : fs[j].op \in DataOps} = {}
        OBVIOUS
    <2> QED BY <2>1 DEF OpOf
  <1>8. 0 \in 0..Len(fs)
      OBVIOUS
  <1>9. Carries(f.buffer \o w, fs, mask, 0)
      BY <1>2, <1>3
  <1>10. ParserAt(b, w, fs, mask, 0)
      BY <1>3, <1>4, <1>6, <1>7, <1>8, <1>9 DEF ParserAt
  <1> QED BY <1>1, <1>2, <1>3, <1>4, <1>5, <1>10

(* What is dropped with the upgrade, if it ends with a frame, is the first  *)
(* frames: as many as there are headers in it.                              *)
LEMMA DropLeaves ==
    ASSUME NEW fs, FramesOK(fs), NEW mask \in BOOLEAN, NEW rest \in Seq(Cell), NEW w \in Seq(Cell),
           Carries(rest \o w, fs, mask, 0),
           HandleFrame(NewBase, rest, NoJunk).base.frame.buffer = <<>>,
           NEW k, k = Cardinality(HeadersIn(rest)), k \in Nat
    PROVE  k \in 0..Len(fs) /\ Carries(w, SubSeq(fs, k + 1, Len(fs)), mask, 0)
  <1>1. fs \in Seq(Frame)
      BY DEF FramesOK
  <1>2. PICK b, q, junk, h : /\ b = NewBase /\ q = rest \o w /\ junk = NoJunk
                             /\ h = HandleFrame(b, rest, junk)
      OBVIOUS
  <1>3. q \in Seq(Cell)
      BY <1>2, ConcatProperties
  <1>4. Carries(q, fs, mask, 0)
      BY <1>2
  <1>5. BaseOK(b) /\ Len(b.vec) = 0 /\ b.frame.buffer = <<>> /\ ParserAt(b, q, fs, mask, 0)
      BY <1>1, <1>2, <1>3, <1>4, ParserIsNew
  <1>6. junk \in HeaderCell
      BY <1>2, JunkIsHeader
  <1>7. PICK z : z = 0
      OBVIOUS
  <1>8. ParserAt(b, rest \o w, fs, mask, z)
      BY <1>2, <1>5, <1>7
  <1>9. Parsed(HandleFrame(b, rest, junk), w, fs, mask, z - Len(b.vec),
               Cardinality(HeadersIn(b.frame.buffer \o rest)) + z)
      BY <1>5, <1>6, <1>8, HandleFrameParses
  <1>10. PICK a, m : a = z - Len(b.vec) /\ m = Cardinality(HeadersIn(b.frame.buffer \o rest)) + z
      OBVIOUS
  <1>11. m = k
    <2>1. <<>> \o rest = rest
        OBVIOUS
    <2> QED BY <1>5, <1>7, <1>10, <2>1
  <1>12. PICK c : ParsedTo(h, w, fs, mask, a, m, c)
      BY <1>2, <1>9, <1>10 DEF Parsed
  <1>13. h.base.frame.buffer = <<>>
      BY <1>2
  <1>14. c \in 0..Len(fs) /\ Carries(<<>> \o w, fs, mask, c) /\ Cardinality(HeadersIn(<<>>)) + c = m
      BY <1>12, <1>13 DEF ParsedTo, ParserAt
  <1>15. Cardinality(HeadersIn(<<>>)) = 0
    <2>1. HeadersIn(<<>>) = {}
        BY DEF HeadersIn
    <2> QED BY <2>1, FS_EmptySet
  <1>16. c = k
      BY <1>11, <1>14, <1>15
  <1>17. Carries(w, fs, mask, k) /\ k \in 0..Len(fs)
    <2>1. <<>> \o w = w
        OBVIOUS
    <2> QED BY <1>14, <1>16, <2>1
  <1>18. PICK gs : gs = SubSeq(fs, k + 1, Len(fs))
      OBVIOUS
  <1>19. Carries(w, gs, mask, 0)
      BY <1>1, <1>17, <1>18, CarriesRest
  <1> QED BY <1>17, <1>18, <1>19

(* Nothing told is nothing delivered. *)
LEMMA NothingDelivered ==
    ASSUME NEW fs \in Seq(Frame), NEW u, NEW ts, NEW os, DataOf(ts) = <<>>, PongsOf(os) = <<>>
    PROVE  Delivered(u, ts, os, fs, 0)
  <1>1. DataTo(fs, 0) = <<>> /\ PongsTo(fs, 0) = <<>>
      BY DueIs
  <1> QED BY <1>1 DEF Delivered

(* The cells of a read, and those that are left. *)
LEMMA ReadSplits ==
    ASSUME NEW b \in Seq(Cell), NEW w \in Seq(Cell), NEW n \in 1..Len(w)
    PROVE  /\ SubSeq(w, 1, n) \in Seq(Cell) /\ SubSeq(w, n + 1, Len(w)) \in Seq(Cell)
           /\ w = SubSeq(w, 1, n) \o SubSeq(w, n + 1, Len(w))
           /\ b \o SubSeq(w, 1, n) \in Seq(Cell)
           /\ (b \o SubSeq(w, 1, n)) \o SubSeq(w, n + 1, Len(w)) = b \o w
           /\ Len(b \o SubSeq(w, 1, n)) <= Len(b \o w)
           /\ \A i \in 1..Len(b \o SubSeq(w, 1, n)) : (b \o SubSeq(w, 1, n))[i] = (b \o w)[i]
  <1>1. PICK data, rest, all, v : /\ data = SubSeq(w, 1, n) /\ rest = SubSeq(w, n + 1, Len(w))
                                  /\ all = b \o data /\ v = b \o w
      OBVIOUS
  <1>2. data \in Seq(Cell) /\ rest \in Seq(Cell) /\ all \in Seq(Cell)
      BY ONLY <1>1, ReadTakes, b \in Seq(Cell), w \in Seq(Cell), n \in 1..Len(w)
  <1>3. w = data \o rest
      BY ONLY <1>1, ReadTakes, b \in Seq(Cell), w \in Seq(Cell), n \in 1..Len(w)
  <1>4. Len(all) <= Len(v)
      BY ONLY <1>1, ReadTakes, b \in Seq(Cell), w \in Seq(Cell), n \in 1..Len(w)
  <1>5. \A i \in 1..Len(all) : all[i] = v[i]
      BY ONLY <1>1, ReadTakes, b \in Seq(Cell), w \in Seq(Cell), n \in 1..Len(w)
  <1>6. (b \o data) \o rest = b \o (data \o rest)
      BY ONLY <1>2, ConcatAssociative, b \in Seq(Cell), SMTT(30)
  <1>7. all \o rest = v
      BY <1>1, <1>3, <1>6
  <1> QED BY <1>1, <1>2, <1>3, <1>4, <1>5, <1>7

(* The head goes on, is refused, or is taken with what follows it. *)
LEMMA FlowReadHead ==
    ASSUME HereInv, WireInv, HeadInv', FlowInv, upgrade # "ok", peer_upgrade, NEW n \in 1..Len(in),
           in' = SubSeq(in, n + 1, Len(in)), UNCHANGED <<role, peerVars, base, out>>,
           DataOf(told') = DataOf(told), NEW all, all = http_recv_buffer_ \o SubSeq(in, 1, n),
           \/ /\ upgrade = "reading"
              /\ Heads(all) = 0 /\ http_recv_buffer_' = all /\ UNCHANGED <<upgrade, skipped, garbled>>
           \/ upgrade' = "refused" /\ role = "client"
           \/ /\ upgrade = "reading" /\ Heads(all) # 0
              /\ Drop(SubSeq(all, Heads(all) + 1, Len(all))) /\ upgrade' \in {"ok", "refused"}
    PROVE  FlowInv'
  <1>0. SentInv /\ StartInv /\ QuietInv /\ sent' = sent /\ peer_upgrade' = peer_upgrade
        /\ role' = role /\ base' = base /\ out' = out
      BY DEF FlowInv, peerVars
  <1>1. PICK b, w, data, rest, mask : /\ b = http_recv_buffer_ /\ w = in /\ mask = Masked
                                      /\ data = SubSeq(w, 1, n) /\ rest = SubSeq(w, n + 1, Len(w))
      OBVIOUS
  <1>2. b \in Seq(Cell) /\ w \in Seq(Cell) /\ n \in 1..Len(w) /\ data = SubSeq(w, 1, n)
        /\ rest = SubSeq(w, n + 1, Len(w)) /\ all = b \o data /\ in' = rest
      BY <1>1 DEF WireInv
  <1>3. rest \in Seq(Cell) /\ all \in Seq(Cell) /\ all \o rest = b \o w
      BY ONLY <1>2, ReadSplits
  <1>4. Len(all) <= Len(b \o w) /\ \A i \in 1..Len(all) : all[i] = (b \o w)[i]
      BY ONLY <1>2, ReadSplits
  <1>5. mask \in BOOLEAN /\ Masked' = mask
      BY <1>0, <1>1 DEF Masked
  <1>6. SentInv'
      BY <1>0 DEF SentInv
  <1>7. CASE /\ upgrade = "reading"
             /\ Heads(all) = 0 /\ http_recv_buffer_' = all /\ UNCHANGED <<upgrade, skipped, garbled>>
    <2>1. http_recv_buffer_' \o in' = http_recv_buffer_ \o in
        BY <1>1, <1>2, <1>3, <1>7
    <2>2. StartInv'
        BY <1>0, <1>1, <1>5, <1>7, <2>1 DEF StartInv
    <2>3. QuietInv'
        BY <1>0, <1>7 DEF QuietInv
    <2>4. GoingInv'
        BY <1>7 DEF GoingInv, Serving
    <2> QED BY <1>6, <2>2, <2>3, <2>4 DEF FlowInv
  <1>8. CASE upgrade' = "refused" /\ role = "client"
    <2>1. upgrade \in {"reading", "refused"} => QuietInv'
        BY <1>0, <1>8 DEF QuietInv
    <2>2. StartInv'
        BY <1>8 DEF StartInv
    <2>3. GoingInv'
        BY <1>0, <1>8 DEF GoingInv, Serving
    <2>4. upgrade \in {"reading", "refused"}
        BY DEF HereInv
    <2> QED BY <1>6, <2>1, <2>2, <2>3, <2>4 DEF FlowInv
  <1>9. CASE /\ upgrade = "reading" /\ Heads(all) # 0
             /\ Drop(SubSeq(all, Heads(all) + 1, Len(all))) /\ upgrade' \in {"ok", "refused"}
    <2>1. StartInv'
        BY <1>9 DEF StartInv
    <2>2. DataOf(told') = <<>> /\ PongsOf(out') = <<>> /\ base' = NewBase
        BY <1>0, <1>9 DEF QuietInv, StartInv
    <2>3. QuietInv'
        BY <2>2 DEF QuietInv
    <2>4. PICK e : HeadBehind(b \o w, sent, mask, e)
        BY <1>0, <1>1, <1>9 DEF StartInv
    <2>5. PICK v : v = b \o w
        OBVIOUS
    <2>6. v \in Seq(Cell) /\ Len(v) \in Nat
      <3>1. v \in Seq(Cell)
          BY <1>2, <2>5, ConcatProperties
      <3> QED BY <3>1
    <2>7. Heads(all) = e
      <3>1. Len(all) <= Len(v) /\ (\A i \in 1..Len(all) : all[i] = v[i]) /\ HeadBehind(v, sent, mask, e)
          BY <1>4, <2>4, <2>5
      <3> QED BY <1>3, <1>9, <2>6, <3>1, HeadIsFound
    <2>8. PICK r, k : r = After(all, e) /\ k = Cardinality(HeadersIn(r))
        OBVIOUS
    <2>9. skipped' = k /\ garbled' = (HandleFrame(NewBase, r, NoJunk).base.frame.buffer # <<>>)
        BY <1>9, <2>7, <2>8 DEF Drop, HeadersIn, After
    <2>10. k \in 0..Len(sent)
        BY <1>0, <2>9 DEF HeadInv
    <2>11. sent \in Seq(Frame) /\ FramesOK(sent)
        BY <1>0 DEF SentInv, FramesOK
    <2>12. e \in Nat /\ e <= Len(all)
      <3>1. e \in 1..Len(all)
          BY <1>3, <1>9, <2>7, HeadsIs
      <3>2. Len(all) \in Nat
          BY <1>3
      <3> QED BY <3>1, <3>2
    <2>13. r \in Seq(Cell)
      <3>1. r = SubSeq(all, e + 1, Len(all)) /\ all \in Seq(Cell)
          BY <1>3, <2>8 DEF After
      <3> QED BY ONLY <2>12, <3>1
    <2>14. Carries(r \o rest, sent, mask, 0)
      <3>1. After(all \o rest, e) = After(all, e) \o rest
          BY <1>3, <2>12, RestFollows
      <3>2. Carries(After(b \o w, e), sent, mask, 0)
          BY <2>4 DEF HeadBehind
      <3> QED BY <1>3, <2>8, <3>1, <3>2
    <2>15. Serving' /\ ~garbled' => (\E m \in 0..Len(Frames') : Delivered(upgrade, told, out, Frames, m)')
                                 /\ \E c : FlowsAt(c)'
      <3> SUFFICES ASSUME ~garbled'
                   PROVE  (\E m \in 0..Len(Frames') : Delivered(upgrade, told, out, Frames, m)')
                          /\ \E c : FlowsAt(c)'
          OBVIOUS
      <3>1. PICK gs : gs = SubSeq(sent, k + 1, Len(sent))
          OBVIOUS
      <3>2. Carries(rest, gs, mask, 0)
        <4>1. HandleFrame(NewBase, r, NoJunk).base.frame.buffer = <<>>
            BY <2>9
        <4>2. k \in Nat
            BY <2>10, <2>11
        <4> QED BY <1>3, <1>5, <2>8, <2>11, <2>13, <2>14, <3>1, <4>1, <4>2, DropLeaves
      <3>3. gs \in Seq(Frame) /\ Len(gs) \in Nat
        <4>1. FramesOK(gs)
            BY <2>10, <2>11, <3>1, FramesRest
        <4> QED BY <4>1 DEF FramesOK
      <3>4. Len(NewBase.vec) = 0 /\ ParserAt(NewBase, rest, gs, mask, 0)
          BY <1>3, <1>5, <3>2, <3>3, ParserIsNew
      <3>5. Frames' = gs
          BY <1>0, <2>9, <3>1 DEF Frames
      <3>6. Delivered(upgrade', told', out', gs, 0)
          BY <2>2, <3>3, NothingDelivered
      <3>7. ParserAt(base, in, Frames, Masked, 0)'
          BY <1>2, <1>5, <2>2, <3>4, <3>5
      <3>8. 0 - Len(base'.vec) = 0 /\ 0 \in 0..Len(gs)
          BY <2>2, <3>3, <3>4
      <3>9. Delivered(upgrade, told, out, Frames, 0 - Len(base.vec))'
          BY <3>5, <3>6, <3>8
      <3> QED BY <3>5, <3>6, <3>7, <3>8, <3>9 DEF FlowsAt
    <2>16. GoingInv'
        BY <2>15 DEF GoingInv
    <2> QED BY <1>6, <2>1, <2>3, <2>16 DEF FlowInv
  <1> QED BY <1>7, <1>8, <1>9

(* The frames of a read are handled and their calls made, up to one that    *)
(* throws.                                                                  *)
LEMMA FlowReadFrames ==
    ASSUME Inv, FlowInv, Up, tcp = "open", reading, peer_upgrade, Serving, NEW n \in 1..Len(in),
           in' = SubSeq(in, n + 1, Len(in)), UNCHANGED <<role, peerVars>>, ReadFrames(SubSeq(in, 1, n))
    PROVE  FlowInv'
  <1>0. WireInv /\ HeadInv /\ EndInv /\ HereInv /\ ServerInv /\ ClientInv /\ SentInv /\ GoingInv
      BY DEF Inv, ControlInv, FlowInv
  <1>1. role' = role /\ sent' = sent /\ peer_upgrade' = peer_upgrade
        /\ UNCHANGED <<upgrade, http_recv_buffer_, skipped, garbled>>
      BY DEF peerVars, ReadFrames
  <1>2. SentInv' /\ StartInv' /\ QuietInv'
      BY <1>0, <1>1 DEF SentInv, StartInv, QuietInv, Serving
  <1>3. GoingInv'
    <2> SUFFICES ASSUME ~garbled
                 PROVE  /\ \E m \in 0..Len(Frames') : Delivered(upgrade, told, out, Frames, m)'
                        /\ Up' => \E c : FlowsAt(c)'
        BY <1>1 DEF GoingInv
    <2>1. PICK c : FlowsAt(c)
        BY <1>0 DEF GoingInv
    <2>2. PICK fs, mask, w, data, rest, junk, h, e :
             /\ fs = Frames /\ mask = Masked /\ w = in
             /\ data = SubSeq(w, 1, n) /\ rest = SubSeq(w, n + 1, Len(w)) /\ junk = NoJunk
             /\ h = HandleFrame(base, data, junk) /\ e = Applied(This, h.calls)[Len(h.calls)]
        OBVIOUS
    <2>3. base' = h.base /\ Becomes(e)
      <3>1. ReadFrames(data)
          BY <2>2
      <3> QED BY <2>2, <3>1 DEF ReadFrames
    <2>4. data \in Seq(Cell) /\ rest \in Seq(Cell) /\ w = data \o rest /\ in' = rest
      <3>1. w \in Seq(Cell) /\ n \in 1..Len(w) /\ data = SubSeq(w, 1, n) /\ rest = SubSeq(w, n + 1, Len(w))
          BY <1>0, <2>2 DEF WireInv
      <3>2. in' = rest
          BY <2>2
      <3> QED BY ONLY <3>1, <3>2, ReadSplits
    <2>5. FramesOK(fs)
        BY <1>0, <2>2, FramesRest DEF SentInv, HeadInv, Frames
    <2>6. Frames' = fs /\ Masked' = mask /\ mask \in BOOLEAN /\ BaseOK(base) /\ junk \in HeaderCell
        BY <1>0, <1>1, <2>2, JunkIsHeader DEF Frames, Masked, WireInv
    <2>7. ParserAt(base, data \o rest, fs, mask, c)
        BY <2>1, <2>2, <2>4 DEF FlowsAt
    <2>8. Parsed(HandleFrame(base, data, junk), rest, fs, mask, c - Len(base.vec),
                 Cardinality(HeadersIn(base.frame.buffer \o data)) + c)
        BY <2>4, <2>5, <2>6, <2>7, HandleFrameParses
    <2>9. PICK a, k : a = c - Len(base.vec) /\ k = Cardinality(HeadersIn(base.frame.buffer \o data)) + c
        OBVIOUS
    <2>10. PICK d : ParsedTo(h, rest, fs, mask, a, k, d)
        BY <2>2, <2>8, <2>9 DEF Parsed
    <2>11. PICK b : b = d - Len(h.base.vec)
        OBVIOUS
    <2>12. ParserAt(h.base, rest, fs, mask, d) /\ Covers(fs, h.calls, a, b)
        BY <2>10, <2>11 DEF ParsedTo
    <2>13. PICK start, calls : start = This /\ calls = h.calls
        OBVIOUS
    <2>14. CallsOK(calls)
        BY <2>2, <2>4, <2>6, <2>13, HandleFrameKeeps
    <2>15. Reads(start) /\ start.ub = None /\ start.told = told /\ start.out = out
      <3>1. /\ EndsOK(role, upgrade, start) /\ start.tcp = tcp /\ start.close_ = close_
            /\ start.told = told /\ start.out = out /\ start.ub = None
          BY <1>0, <2>13, EndIs, ThisIs DEF Up
      <3>2. ~close_
          BY <1>0 DEF EndInv
      <3>3. ~Ended(told)
          BY <1>0 DEF HereInv, EndInv, ClientInv, Serving
      <3> QED BY <3>1, <3>2, <3>3, ConnAssumption DEF Reads
    <2>16. role \in {"server", "client"} /\ (upgrade # "refused" \/ role = "server")
        BY <1>0 DEF HereInv, Serving
    <2>17. Delivered(upgrade, start.told, start.out, fs, a)
        BY <2>1, <2>2, <2>9, <2>15 DEF FlowsAt
    <2>18. Covers(fs, calls, a, b) /\ e = Applied(start, calls)[Len(calls)]
        BY <2>2, <2>12, <2>13
    <2>19. e.ub = None => Delivered(upgrade, e.told, e.out, fs, b)
        BY ONLY <2>14, <2>15, <2>16, <2>17, <2>18, CallsDeliver
    <2>20. \E m \in 0..Len(fs) : Delivered(upgrade, e.told, e.out, fs, m)
        BY ONLY <2>14, <2>15, <2>16, <2>17, <2>18, CallsDeliver
    <2>21. told' = e.told /\ out' = e.out /\ ub' = e.ub
        BY <2>3 DEF Becomes
    <2>22. \E m \in 0..Len(Frames') : Delivered(upgrade, told, out, Frames, m)'
        BY <1>1, <2>6, <2>20, <2>21
    <2>23. ASSUME Up' PROVE FlowsAt(d)'
      <3>1. Delivered(upgrade, e.told, e.out, fs, b)
          BY <2>19, <2>21, <2>23 DEF Up
      <3>2. Delivered(upgrade, told, out, Frames, d - Len(base.vec))'
          BY <1>1, <2>3, <2>6, <2>11, <2>21, <3>1
      <3>3. ParserAt(base, in, Frames, Masked, d)'
          BY <2>3, <2>4, <2>6, <2>12
      <3> QED BY <3>2, <3>3 DEF FlowsAt
    <2> QED BY <2>22, <2>23
  <1> QED BY <1>2, <1>3 DEF FlowInv

(* A read keeps the invariant. *)
LEMMA FlowOnRead == Inv /\ Inv' /\ FlowInv /\ OnRead => FlowInv'
  <1> SUFFICES ASSUME Inv, Inv', FlowInv, OnRead PROVE FlowInv'
      OBVIOUS
  <1>0. WireInv /\ HeadInv /\ HereInv /\ HeadInv' /\ IsSeq(told)
      BY DEF Inv, ControlInv, EndInv, TypeInv
  <1>1. Up /\ tcp = "open" /\ reading /\ peer_upgrade /\ UNCHANGED <<role, peerVars>>
      BY <1>0 DEF OnRead, HeadInv
  <1>2. PICK n \in 1..Len(in) :
          /\ in' = SubSeq(in, n + 1, Len(in))
          /\ \/ role = "server" /\ upgrade = "reading" /\ ReadRequest(SubSeq(in, 1, n))
             \/ role = "client" /\ upgrade # "ok" /\ ReadResponse(SubSeq(in, 1, n))
             \/ /\ upgrade = "ok" \/ (role = "server" /\ upgrade = "refused")
                /\ ReadFrames(SubSeq(in, 1, n))
      BY DEF OnRead
  <1>3. PICK data, all : data = SubSeq(in, 1, n) /\ all = http_recv_buffer_ \o data
      OBVIOUS
  <1>4. CASE role = "server" /\ upgrade = "reading" /\ ReadRequest(data)
    <2>1. \/ Heads(all) = 0 /\ http_recv_buffer_' = all /\ UNCHANGED <<upgrade, skipped, garbled>>
          \/ /\ Heads(all) # 0 /\ Drop(SubSeq(all, Heads(all) + 1, Len(all)))
             /\ upgrade' \in {"ok", "refused"}
        BY <1>3, <1>4 DEF ReadRequest
    <2>2. UNCHANGED <<role, peerVars, base, out>> /\ DataOf(told') = DataOf(told)
        BY <1>1, <1>4 DEF ReadRequest
    <2> QED BY <1>0, <1>1, <1>2, <1>3, <1>4, <2>1, <2>2, FlowReadHead
  <1>5. CASE role = "client" /\ upgrade # "ok" /\ ReadResponse(data)
    <2>1. \/ /\ upgrade = "reading"
             /\ Heads(all) = 0 /\ http_recv_buffer_' = all /\ UNCHANGED <<upgrade, skipped, garbled>>
          \/ upgrade' = "refused" /\ role = "client"
          \/ /\ upgrade = "reading" /\ Heads(all) # 0
             /\ Drop(SubSeq(all, Heads(all) + 1, Len(all))) /\ upgrade' \in {"ok", "refused"}
        BY <1>3, <1>5 DEF ReadResponse, Refuse
    <2>2. UNCHANGED <<role, peerVars, base, out>>
        BY <1>1, <1>5 DEF ReadResponse
    <2>3. told' = told \/ told' = Append(told, OnClose(-1)) \/ told' = Append(told, OnConnection)
        BY <1>5 DEF ReadResponse, Refuse
    <2>4. DataOf(told') = DataOf(told)
      <3>1. CASE told' = told
          BY <3>1
      <3>2. CASE told' = Append(told, OnClose(-1))
          BY <1>0, <3>2, EndIsNoData
      <3>3. CASE told' = Append(told, OnConnection)
        <4>1. PICK x, us, ts : x = OnConnection /\ us = told' /\ ts = told
            OBVIOUS
        <4>2. x.what # "data"
            BY <4>1 DEF OnConnection, Told
        <4>3. us = Append(ts, x) /\ IsSeq(ts)
            BY <1>0, <3>3, <4>1
        <4>4. DataOf(us) = DataOf(ts)
            BY ONLY <4>2, <4>3, DataAppend
        <4> QED BY <4>1, <4>4
      <3> QED BY <2>3, <3>1, <3>2, <3>3
    <2> QED BY <1>0, <1>1, <1>2, <1>3, <1>5, <2>1, <2>2, <2>4, FlowReadHead
  <1>6. CASE /\ upgrade = "ok" \/ (role = "server" /\ upgrade = "refused")
             /\ ReadFrames(data)
    <2>1. Serving
        BY <1>6 DEF Serving
    <2> QED BY <1>1, <1>2, <1>3, <1>6, <2>1, FlowReadFrames
  <1> QED BY <1>2, <1>3, <1>4, <1>5, <1>6

(* Every step keeps the invariant. *)
LEMMA FlowNext == Inv /\ FlowInv /\ [Next]_vars => FlowInv'
  <1> SUFFICES ASSUME Inv, FlowInv, [Next]_vars PROVE FlowInv'
      OBVIOUS
  <1>1. Inv'
      BY InvNext
  <1>2. CASE PeerUpgrades
      BY <1>2, FlowPeerUpgrades
  <1>3. CASE PeerSends
      BY <1>3, FlowPeerSends
  <1>4. CASE Connected
      BY <1>4, FlowConnected
  <1>5. CASE OnRead
      BY <1>1, <1>5, FlowOnRead
  <1>6. CASE OnReadEnd
      BY <1>6, FlowOnReadEnd
  <1>7. CASE OnTimer
      BY <1>7, FlowOnTimer
  <1>8. CASE AppWrites
      BY <1>8, FlowAppWrites
  <1>9. CASE PeerGoes \/ OnWrite \/ Tick \/ ServerOnTimer \/ OnAcceptAgain \/ UNCHANGED vars
      BY <1>9, FlowUntouched
  <1> QED BY <1>2, <1>3, <1>4, <1>5, <1>6, <1>7, <1>8, <1>9 DEF Next

(* When all that was sent is read, all of it is due and delivered, but for  *)
(* what waits for a fin.                                                    *)
LEMMA AllDelivered ==
    ASSUME NEW fs \in Seq(Frame), NEW mask \in BOOLEAN, NEW b, BaseOK(b), b.frame.buffer = <<>>,
           NEW c, ParserAt(b, <<>>, fs, mask, c)
    PROVE  /\ DataTo(fs, c - Len(b.vec)) = DataDue(fs)
           /\ PongsTo(fs, c - Len(b.vec)) = PongsDue(fs)
  <1>1. PICK l, d, n, q : l = Len(b.vec) /\ d = c - l /\ n = Len(fs) /\ q = <<>> \o <<>>
      OBVIOUS
  <1>2. l \in Nat /\ n \in Nat
      BY <1>1, SeqIs DEF BaseOK
  <1>3. c \in 0..n /\ Carries(q, fs, mask, c) /\ Waiting(b.vec, fs, c)
      BY <1>1 DEF ParserAt
  <1>4. q \in Seq(Cell) /\ Len(q) = 0
      BY <1>1
  <1>5. c = n
      BY <1>1, <1>3, <1>4, CarriesNothing
  <1>6. l <= c /\ \A i \in 1..l : ~fs[(c - l) + i].fin
      BY <1>1, <1>3 DEF Waiting
  <1>7. d \in 0..Len(fs)
      BY <1>1, <1>2, <1>3, <1>6
  <1>8. ASSUME NEW i \in (d + 1)..Len(fs) PROVE ~fs[i].fin
    <2>1. d = c - l /\ c \in Nat /\ l \in Nat /\ l <= c /\ i \in (d + 1)..c
        BY <1>1, <1>2, <1>3, <1>5, <1>6
    <2>2. i - d \in 1..l /\ (c - l) + (i - d) = i
        BY ONLY <2>1
    <2> QED BY <1>6, <2>2
  <1>9. DataTo(fs, d) = DataDue(fs) /\ PongsTo(fs, d) = PongsDue(fs)
      BY <1>7, <1>8, DueWaits
  <1> QED BY <1>1, <1>9

(* What the invariant says of the application. *)
LEMMA FlowDelivers == Inv /\ FlowInv => DeliveredInOrder
  <1> SUFFICES ASSUME Inv, FlowInv, ~garbled
               PROVE  /\ IsPrefix(DataOf(told), DataDue(Frames)) /\ IsPrefix(PongsOf(out), PongsDue(Frames))
                      /\ (Up /\ tcp = "open" /\ upgrade = "ok" /\ in = <<>> /\ base.frame.buffer = <<>>)
                            => DataOf(told) = DataDue(Frames) /\ PongsOf(out) = PongsDue(Frames)
      BY DEF DeliveredInOrder, DataOf, PongsOf
  <1>1. HeadInv /\ WireInv /\ HereInv /\ SentInv /\ QuietInv /\ GoingInv
      BY DEF Inv, ControlInv, FlowInv
  <1>2. PICK fs : fs = Frames
      OBVIOUS
  <1>3. fs \in Seq(Frame)
    <2>1. FramesOK(fs)
        BY <1>1, <1>2, FramesRest DEF SentInv, HeadInv, Frames
    <2> QED BY <2>1 DEF FramesOK
  <1>4. /\ DataTo(fs, 0) = <<>> /\ PongsTo(fs, 0) = <<>>
        /\ \A m \in 0..Len(fs) : IsPrefix(DataTo(fs, m), DataDue(fs)) /\ IsPrefix(PongsTo(fs, m), PongsDue(fs))
      BY <1>3, DueIs
  <1>5. IsPrefix(<<>>, DataDue(fs)) /\ IsPrefix(<<>>, PongsDue(fs))
    <2>1. 0 \in 0..Len(fs)
        BY <1>3
    <2> QED BY <1>4, <2>1
  <1>6. CASE ~Serving
    <2>1. DataOf(told) = <<>> /\ PongsOf(out) = <<>> /\ upgrade # "ok"
        BY <1>1, <1>6 DEF Serving, QuietInv, HereInv
    <2> QED BY <1>2, <1>5, <2>1
  <1>7. CASE Serving
    <2>1. PICK m \in 0..Len(fs) : Delivered(upgrade, told, out, fs, m)
        BY <1>1, <1>2, <1>7 DEF GoingInv
    <2>2. IsPrefix(DataOf(told), DataDue(fs)) /\ IsPrefix(PongsOf(out), PongsDue(fs))
        BY <1>4, <1>5, <2>1 DEF Delivered
    <2>3. ASSUME Up, tcp = "open", upgrade = "ok", in = <<>>, base.frame.buffer = <<>>
          PROVE  DataOf(told) = DataDue(fs) /\ PongsOf(out) = PongsDue(fs)
      <3>1. PICK c : FlowsAt(c)
          BY <1>1, <1>7, <2>3 DEF GoingInv
      <3>2. PICK mask : mask = Masked
          OBVIOUS
      <3>3. mask \in BOOLEAN /\ BaseOK(base) /\ ParserAt(base, <<>>, fs, mask, c)
          BY <1>1, <1>2, <2>3, <3>1, <3>2 DEF Masked, WireInv, FlowsAt
      <3>4. DataTo(fs, c - Len(base.vec)) = DataDue(fs) /\ PongsTo(fs, c - Len(base.vec)) = PongsDue(fs)
          BY <1>3, <2>3, <3>3, AllDelivered
      <3> QED BY <1>2, <2>3, <3>1, <3>4 DEF FlowsAt, Delivered
    <2> QED BY <1>2, <2>2, <2>3
  <1> QED BY <1>6, <1>7

(* The application is given the fragments of every message unmasked, once,  *)
(* in order and with the message's type, and every PING is answered with    *)
(* its payload (HandleFrame, HandleWsData, HandleWsPing), for every stream  *)
(* of frames and every split of it into reads.                              *)
THEOREM InOrderDelivery == Spec => []DeliveredInOrder
  <1>1. Init => FlowInv
      BY FlowInit
  <1>2. Inv /\ FlowInv /\ [Next]_vars => FlowInv'
      BY FlowNext
  <1>3. Inv /\ FlowInv => DeliveredInOrder
      BY FlowDelivers
  <1> QED BY <1>1, <1>2, <1>3, Invariance, PTL DEF Spec
==============================================================================
