----------------------------- MODULE DataBuffer -----------------------------
(***************************************************************************)
(* utils/data_buffer.hpp: the growable byte buffer every connection uses.  *)
(*                                                                         *)
(*   buffer_  0 ......... start_ ....... end_ ............ alloc            *)
(*            | reserved  |  data_len_   |                |                *)
(*                                                                         *)
(* The heap block is a function from offsets to bytes, so that AppendData's *)
(* three cases (append in place, compact, grow) are the memcpy calls of the *)
(* code.  A write past the block and a memcpy between overlapping areas are *)
(* undefined behaviour in C++: the first is recorded in "overrun" and ends  *)
(* the behaviour, the second is recorded in "overlap" and leaves one of the *)
(* results that a bytewise or blockwise memcpy produces.                    *)
(*                                                                         *)
(* Operators named Op_Slip are mutated forms of Op, each a plausible slip   *)
(* in the lines Op models, used only to see that a property notices it.     *)
(***************************************************************************)
EXTENDS Integers, Sequences

CONSTANTS
    Byte,                     \* the values of a char
    Blank,                    \* the byte new memory holds (memset to 0)
    Uninit,                   \* what a never written byte of a copy holds
    PRE_RESERVE_HEADER_SIZE,  \* 200 in the code
    EXTRA_LEN,                \* 10*1024 in the code
    SizeSteps,                \* <<50K, 100K, 200K, 500K>> in GetNewSize
    SIZE_MOD,                 \* size_t arithmetic wraps at this value (2^64)
    InitSizes,                \* the data_size arguments of the constructor
    Inputs,                   \* the byte sequences given to AppendData
    ConsumeLens,              \* the int arguments of ConsumeData
    MaxTotal                  \* bound: bytes appended over the buffer's life

H == PRE_RESERVE_HEADER_SIZE

ASSUME ByteAssumption == Blank \in Byte /\ Uninit \notin Byte
ASSUME SizeAssumption ==
    /\ H \in Nat \ {0}
    /\ EXTRA_LEN \in Nat /\ EXTRA_LEN >= H
    /\ SizeSteps \in [1..4 -> Nat]
    /\ InitSizes \subseteq Nat
    /\ MaxTotal \in Nat
    /\ SIZE_MOD \in Nat /\ SIZE_MOD >= MaxTotal + 2 * H
ASSUME InputAssumption ==
    /\ Inputs \subseteq Seq(Byte)
    /\ ConsumeLens \subseteq Int

VARIABLES
    buffer_,        \* the heap block: offsets -> bytes
    buffer_size_,   \* the size the code believes it has
    start_, end_, data_len_,
    alloc,          \* the real size of the heap block
    size0,          \* the data_size the constructor was given
    total,          \* bytes appended so far
    overrun,        \* some memcpy wrote outside the heap block
    overlap,        \* the last step's memcpy had overlapping areas
    copy            \* what a buffer copied in the last step shows, and of what

fields == <<buffer_, buffer_size_, start_, end_, data_len_, alloc>>
vars == <<fields, size0, total, overrun, overlap, copy>>

NoCopy == [data |-> <<>>, of |-> <<>>]

(* Data() and DataLen() together: the bytes a reader sees. *)
Contents == [i \in 1..data_len_ |-> buffer_[start_ + i - 1]]

(* Unsigned subtraction, as in buffer_size_ - PRE_RESERVE_HEADER_SIZE. *)
SizeSub(a, b) == IF a >= b THEN a - b ELSE a - b + SIZE_MOD
------------------------------------------------------------------------------
(* memcpy of the sequence d to offset at of block mem (writes past the     *)
(* block have no place in the function; AppendData records them).           *)
Write(mem, at, d) ==
    [i \in DOMAIN mem |-> IF i \in at..(at + Len(d) - 1) THEN d[i - at + 1] ELSE mem[i]]

Overlaps(dst, src, n) == dst < src + n /\ src < dst + n /\ dst # src

(* The blocks that memcpy(mem + dst, mem + src, n) can leave: the moved     *)
(* bytes, and, if the areas overlap, those of a bytewise copy upwards or    *)
(* downwards, which repeats the last (first) |dst - src| bytes.             *)
Memcpy(mem, dst, src, n) ==
    LET Moved(i) == mem[src + i]
        Up(i)    == mem[src + (i % (dst - src))]
        Down(i)  == mem[src + (n - 1) - (((n - 1) - i) % (src - dst))]
        Block(Val(_)) == [j \in DOMAIN mem |->
                            IF j \in dst..(dst + n - 1) THEN Val(j - dst) ELSE mem[j]]
    IN {Block(Moved)} \cup
       (IF ~Overlaps(dst, src, n) THEN {}
        ELSE IF dst > src THEN {Block(Up)} ELSE {Block(Down)})

GetNewSize_NoExtra(new_len) == new_len - EXTRA_LEN
GetNewSize(new_len) ==
    IF new_len <= SizeSteps[1] THEN SizeSteps[1]
    ELSE IF new_len <= SizeSteps[2] THEN SizeSteps[2]
    ELSE IF new_len <= SizeSteps[3] THEN SizeSteps[3]
    ELSE IF new_len <= SizeSteps[4] THEN SizeSteps[4]
    ELSE new_len + EXTRA_LEN
------------------------------------------------------------------------------
Init ==
    /\ size0 \in InitSizes
    /\ buffer_size_ = size0
    /\ alloc = size0 + H
    /\ buffer_ = [i \in 0..(alloc - 1) |-> Blank]
    /\ start_ = H /\ end_ = H /\ data_len_ = 0
    /\ total = 0
    /\ overrun = FALSE /\ overlap = FALSE
    /\ copy = NoCopy

(* The two comparisons of AppendData, in unsigned arithmetic. *)
FitsBehind(len) == end_ + len <= SizeSub(buffer_size_, H)
MustGrow(len) == data_len_ + len >= SizeSub(buffer_size_, H)

(* A write of len bytes at offset at leaves the block. *)
Past(at, len) == at + len > alloc

(* Append in place: memcpy to buffer_ + end_. *)
AppendInPlace(d) ==
    /\ FitsBehind(Len(d))
    /\ buffer_' = Write(buffer_, end_, d)
    /\ overrun' = (overrun \/ Past(end_, Len(d)))
    /\ data_len_' = data_len_ + Len(d)
    /\ end_' = end_ + Len(d)
    /\ overlap' = FALSE
    /\ UNCHANGED <<buffer_size_, start_, alloc>>

(* Move to a larger block of exactly new_len bytes: from here on the block  *)
(* is buffer_size_ bytes, no longer buffer_size_ + PRE_RESERVE_HEADER_SIZE. *)
AppendGrowing(d) ==
    LET new_len == GetNewSize(data_len_ + Len(d) + EXTRA_LEN)
        fresh   == [i \in 0..(new_len - 1) |-> Blank]
    IN  /\ ~FitsBehind(Len(d)) /\ MustGrow(Len(d))
        /\ buffer_' = Write(Write(fresh, H, Contents), H + data_len_, d)
        /\ overrun' = (overrun \/ H + data_len_ + Len(d) > new_len)
        /\ buffer_size_' = new_len
        /\ alloc' = new_len
        /\ data_len_' = data_len_ + Len(d)
        /\ start_' = H
        /\ end_' = H + data_len_ + Len(d)
        /\ overlap' = FALSE

(* Move the data down to PRE_RESERVE_HEADER_SIZE: through a temporary when  *)
(* data_len_ >= start_, with one memcpy otherwise; then append.             *)
AppendCompacting(d) ==
    LET direct == data_len_ < start_
    IN  /\ ~FitsBehind(Len(d)) /\ ~MustGrow(Len(d))
        /\ \E moved \in IF direct THEN Memcpy(buffer_, H, start_, data_len_)
                                  ELSE {Write(buffer_, H, Contents)} :
              buffer_' = Write(moved, H + data_len_, d)
        /\ overrun' = (overrun \/ Past(H, data_len_ + Len(d)))
        /\ overlap' = (direct /\ Overlaps(H, start_, data_len_))
        /\ data_len_' = data_len_ + Len(d)
        /\ start_' = H
        /\ end_' = H + data_len_ + Len(d)
        /\ UNCHANGED <<buffer_size_, alloc>>

AppendData(d) ==
    /\ Len(d) > 0                      \* input_len == 0 returns at once
    /\ total + Len(d) <= MaxTotal      \* bound
    /\ total' = total + Len(d)
    /\ AppendInPlace(d) \/ AppendGrowing(d) \/ AppendCompacting(d)
    /\ copy' = NoCopy
    /\ UNCHANGED size0

(* What Reset() assigns. *)
StartsOver_KeepsEnd == start_' = H /\ data_len_' = 0 /\ UNCHANGED end_
StartsOver == start_' = H /\ end_' = H /\ data_len_' = 0

(* Consume n bytes, or give -n bytes back; an empty buffer starts over. *)
ConsumeData(n) ==
    /\ n <= data_len_
    /\ start_ + n >= 0
    /\ IF data_len_ - n = 0
       THEN StartsOver
       ELSE /\ start_' = start_ + n
            /\ data_len_' = data_len_ - n
            /\ UNCHANGED end_
    /\ overlap' = FALSE
    /\ copy' = NoCopy
    /\ UNCHANGED <<buffer_, buffer_size_, alloc, size0, total, overrun>>

Reset ==
    /\ StartsOver
    /\ overlap' = FALSE
    /\ copy' = NoCopy
    /\ UNCHANGED <<buffer_, buffer_size_, alloc, size0, total, overrun>>

(* What the copy shows: its block holds the source's first data_len_ bytes  *)
(* at offset 0, and its Data() starts at offset start_.                     *)
CopiedByte(i) ==
    IF start_ + i - 1 < data_len_ THEN buffer_[start_ + i - 1] ELSE Uninit

(* Copy constructor and operator=: the other buffer, not this one, changes. *)
CopyFrom ==
    /\ copy' = [data |-> [i \in 1..data_len_ |-> CopiedByte(i)], of |-> Contents]
    /\ overlap' = FALSE
    /\ UNCHANGED <<fields, size0, total, overrun>>

Next ==
    /\ ~overrun
    /\ \/ \E d \in Inputs : AppendData(d)
       \/ \E n \in ConsumeLens : ConsumeData(n)
       \/ Reset
       \/ CopyFrom

Spec == Init /\ [][Next]_vars
------------------------------------------------------------------------------
(* The offsets of data_buffer.hpp fit together: end_ is start_ + data_len_, *)
(* the data lies in the block, the block is never smaller than the size the *)
(* code computes with, and it holds bytes.                                  *)
Layout ==
    /\ size0 \in InitSizes /\ total \in 0..MaxTotal
    /\ buffer_size_ \in Nat /\ alloc \in Nat
    /\ buffer_ \in [0..(alloc - 1) -> Byte]
    /\ start_ \in Nat /\ data_len_ \in Nat
    /\ end_ = start_ + data_len_
    /\ alloc >= buffer_size_
    /\ ~overrun => end_ <= alloc

Flags == overrun \in BOOLEAN /\ overlap \in BOOLEAN

TypeOK == Layout /\ Flags

(* AppendData (data_buffer.hpp:66) writes outside the heap block only in a  *)
(* buffer that was created smaller than the reserved header, where          *)
(* buffer_size_ - PRE_RESERVE_HEADER_SIZE wraps around, and only once more  *)
(* bytes were appended than the constructor asked for.  DataBuffer(n) with  *)
(* one AppendData of n bytes (WebSocketSession::OnRead) is therefore safe.  *)
OverrunOnlyWhenTiny == overrun => (size0 < H /\ total > size0)

BQ == INSTANCE ByteQueue WITH q <- Contents

(* Whatever the layout, a step that does not memcpy between overlapping     *)
(* areas changes the visible bytes as a byte queue would: growing,          *)
(* compacting and the reset on empty lose, repeat and reorder nothing.      *)
ImplementsByteQueue == BQ!Init /\ [][~overlap' /\ ~overrun' => BQ!Next]_Contents

(* "deep copy" (data_buffer.hpp:29 and :43): a copied buffer shows the      *)
(* bytes of the buffer it was copied from.                                  *)
CopyIsDeep == copy.data = copy.of
==============================================================================
