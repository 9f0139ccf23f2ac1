-------------------------- MODULE WebSocketFrames --------------------------
(***************************************************************************)
(* WebSocketFrame and WebSocketSessionBase: the frame parser and the loop   *)
(* that turns the frames of one read into calls, as both ends of a          *)
(* connection (WebSocketSession, WebSocketClient) inherit them.             *)
(*                                                                         *)
(* A frame is a header cell (with its extended length), a masking key cell  *)
(* if it is masked, and payload cells; the key is one bit, so that to mask  *)
(* twice with the same key is to have the payload back.                     *)
(*                                                                         *)
(* Operators named Op_Slip are mutated forms of Op, each a plausible slip   *)
(* in the lines Op models, used only to see that a property notices it.     *)
(***************************************************************************)
EXTENDS Integers, Sequences, FiniteSets, SequencesExt

DataOps == {"TEXT", "BIN"}
Header(op, fin, mask, n) == [k |-> "H", op |-> op, fin |-> fin, mask |-> mask, n |-> n]
Key(bit) == [k |-> "K", key |-> bit]
Payload(v, bit) == [k |-> "P", v |-> v, key |-> bit]

(* SendWsFrame: fin is always set, and both ends mask. *)
FrameCells(op, fin, vs, mask) ==
    <<Header(op, fin, mask, Len(vs))>> \o (IF mask THEN <<Key(1)>> ELSE <<>>)
        \o [i \in DOMAIN vs |-> Payload(vs[i], IF mask THEN 1 ELSE 0)]

NewFrame == [buffer |-> <<>>, header_ready |-> FALSE, start |-> 0, len |-> 0,
             fin |-> FALSE, op |-> "CONT", key |-> 0]
NewBase == [frame |-> NewFrame, vec |-> <<>>, last_op |-> "TEXT"]

(* WebSocketFrame::Parse.  junk is the header that a cell which is none is  *)
(* taken for.                                                               *)
ReadHeader(f, junk) ==
    LET h == IF f.buffer[1].k = "H" THEN f.buffer[1] ELSE junk
    IN  IF f.header_ready \/ f.buffer = <<>> \/ (h.mask /\ Len(f.buffer) < 2) THEN f
        ELSE [f EXCEPT !.header_ready = TRUE, !.fin = h.fin, !.op = h.op, !.len = h.n,
                       !.start = IF h.mask THEN 2 ELSE 1,
                       !.key = IF h.mask THEN f.buffer[2].key ELSE 0]
PayloadIsReady(f) == f.header_ready /\ Len(f.buffer) >= f.start + f.len
Unmasked(f) ==
    [i \in 1..f.len |->
        LET c == f.buffer[f.start + i]
        IN  IF c.k = "P" THEN Payload(c.v, (c.key + f.key) % 2) ELSE Payload(0, 1)]
Consume(f) == [f EXCEPT !.buffer = SubSeq(@, f.start + f.len + 1, Len(@))]
Reset_KeepsHeader(f) == [f EXCEPT !.start = 0, !.len = 0]
Reset(f) == [f EXCEPT !.header_ready = FALSE, !.start = 0, !.len = 0]

(* WebSocketSessionBase::HandleFrame: what one complete frame calls for,    *)
(* with the items of recv_buffer_vec_, its own payload the last of them.    *)
Call(do, op, item) == [do |-> do, op |-> op, item |-> item]
Calls(op, vec, last_op) ==
    CASE op = "PING"  -> [i \in DOMAIN vec |-> Call("send", "PONG", vec[i])]
      [] op = "PONG"  -> <<Call("pong", "PONG", <<>>)>>
      [] op = "CLOSE" -> [i \in DOMAIN vec |-> Call("close", "CLOSE", vec[i])]
      [] op = "CONT"  -> [i \in DOMAIN vec |-> Call("data", last_op, vec[i])]
      [] OTHER        -> [i \in DOMAIN vec |-> Call("data", op, vec[i])]
LastOp_Kept(f, last) == last
LastOp(f, last) == IF f.op \in DataOps THEN f.op ELSE last

OneFrame(s, junk) ==
    LET f   == ReadHeader(s.base.frame, junk)
        op  == LastOp(f, s.base.last_op)
        vec == Append(s.base.vec, Unmasked(f))
        b   == [frame |-> Reset(Consume(f)), vec |-> IF f.fin THEN <<>> ELSE vec, last_op |-> op]
    IN  IF ~PayloadIsReady(f) THEN [s EXCEPT !.base.frame = f]
        ELSE [base |-> b, calls |-> s.calls \o IF f.fin THEN Calls(f.op, vec, op) ELSE <<>>]

(* The loop over the frames of one read: the new state and the calls.  A    *)
(* round that finds no complete frame changes nothing, and there are at     *)
(* most as many frames as cells.  (The set of one element makes TLC         *)
(* evaluate each round once.)                                               *)
Round(s, junk) == CHOOSE t \in {OneFrame(u, junk) : u \in {s}} : TRUE
Rounds(start, n, junk) ==
    LET s[i \in 0..n] == IF i = 0 THEN start ELSE Round(s[i - 1], junk) IN s
HandleFrame(base, data, junk) ==
    LET start == [base EXCEPT !.frame.buffer = @ \o data]
        n     == Len(start.frame.buffer)
    IN  Rounds([base |-> start, calls |-> <<>>], n, junk)[n]
==============================================================================
