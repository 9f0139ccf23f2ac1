------------------------------ MODULE ByteQueue ------------------------------
(***************************************************************************)
(* What a DataBuffer promises its users: a first-in first-out queue of     *)
(* bytes.  AppendData adds at the back, ConsumeData(n) with n >= 0 removes  *)
(* n bytes from the front, ConsumeData(-n) gives n unspecified bytes back   *)
(* at the front (callers fill them in), Reset empties the queue.            *)
(***************************************************************************)
EXTENDS Integers, Sequences

CONSTANTS
    Byte,          \* the values of a char
    Inputs,        \* the byte sequences a user may append
    ConsumeLens    \* the numbers of bytes a user may ask to consume

VARIABLE q         \* the bytes a reader of Data()/DataLen() sees

TypeOK == q \in Seq(Byte)

Init == q = <<>>

Push(d) == q' = q \o d

Pop(n) ==
    /\ n <= Len(q)
    /\ q' = SubSeq(q, n + 1, Len(q))

GiveBack(n) == \E p \in [1..n -> Byte] : q' = p \o q

Clear == q' = <<>>

Next ==
    \/ \E d \in Inputs : Push(d)
    \/ \E n \in ConsumeLens : IF n >= 0 THEN Pop(n) ELSE GiveBack(-n)
    \/ Clear

Spec == Init /\ [][Next]_q
==============================================================================
