-------------------------- MODULE DataBuffer_proofs --------------------------
(***************************************************************************)
(* Proofs about DataBuffer for every header size, growth step, input and    *)
(* initial size that the assumptions of the module allow.                   *)
(***************************************************************************)
EXTENDS DataBuffer, SequenceTheorems, TLAPS

(* The arithmetic behind OverrunOnlyWhenTiny.  A buffer at least as large   *)
(* as the reserved header stays so, and its comparisons do not wrap.  A     *)
(* smaller one never meets a comparison that fails (SIZE_MOD is far away),  *)
(* so it keeps its first block, of size0 + H bytes, and only appends.       *)
Capacity ==
    /\ alloc >= H
    /\ size0 >= H => buffer_size_ >= H
    /\ size0 < H => /\ buffer_size_ = size0
                    /\ alloc = size0 + H
                    /\ end_ <= H + total

IInv == TypeOK /\ Capacity /\ OverrunOnlyWhenTiny
------------------------------------------------------------------------------
(* GetNewSize (data_buffer.hpp:155) never returns less than it was asked. *)
LEMMA GetNewSizeGrows ==
    ASSUME NEW n \in Nat
    PROVE  GetNewSize(n) \in Nat /\ GetNewSize(n) >= n
  BY SizeAssumption DEF GetNewSize, H

(* A memcpy of bytes into a block leaves a block of bytes of the same size. *)
LEMMA WriteType ==
    ASSUME NEW n \in Nat, NEW mem \in [0..(n - 1) -> Byte],
           NEW at \in Nat, NEW d \in Seq(Byte)
    PROVE  Write(mem, at, d) \in [0..(n - 1) -> Byte]
  <1> SUFFICES ASSUME NEW i \in 0..(n - 1), i \in at..(at + Len(d) - 1)
               PROVE  d[i - at + 1] \in Byte
      BY DEF Write
  <1>1. i - at + 1 \in 1..Len(d)
      BY LenProperties
  <1> QED
      BY <1>1, ElementOfSeq

(* What Data() and DataLen() show is a sequence of bytes. *)
LEMMA ContentsType ==
    ASSUME TypeOK, ~overrun
    PROVE  /\ Contents \in Seq(Byte) /\ Len(Contents) = data_len_
           /\ \A i \in 1..data_len_ : Contents[i] = buffer_[start_ + i - 1]
  <1>1. \A i \in 1..data_len_ : start_ + i - 1 \in 0..(alloc - 1)
      BY DEF TypeOK, Layout
  <1>2. Contents \in [1..data_len_ -> Byte]
      BY <1>1 DEF TypeOK, Layout, Contents
  <1> QED
      BY <1>2 DEF TypeOK, Layout, Contents

(* Every result of the compacting memcpy, the undefined ones included, is a *)
(* block of bytes: the offsets it reads lie in the data.                    *)
LEMMA MemcpyType ==
    ASSUME NEW n \in Nat, NEW mem \in [0..(n - 1) -> Byte],
           NEW dst \in Nat, NEW src \in Nat, NEW len \in Nat, src + len <= n,
           NEW m \in Memcpy(mem, dst, src, len)
    PROVE  m \in [0..(n - 1) -> Byte]
  <1>1. ASSUME NEW j \in 0..(n - 1), j \in dst..(dst + len - 1)
        PROVE  mem[src + (j - dst)] \in Byte
    <2>1. src + (j - dst) \in 0..(n - 1)
        BY <1>1
    <2> QED BY <2>1
  <1>2. ASSUME Overlaps(dst, src, len), dst > src,
               NEW j \in 0..(n - 1), j \in dst..(dst + len - 1)
        PROVE  mem[src + ((j - dst) % (dst - src))] \in Byte
    <2>1. /\ dst - src \in Nat \ {0} /\ dst - src < len /\ j - dst \in Nat
        BY <1>2 DEF Overlaps
    <2>2. (j - dst) % (dst - src) \in 0..(dst - src - 1)
        BY <2>1
    <2>3. src + ((j - dst) % (dst - src)) \in 0..(n - 1)
        BY <2>1, <2>2
    <2> QED BY <2>3
  <1>3. ASSUME Overlaps(dst, src, len), ~(dst > src),
               NEW j \in 0..(n - 1), j \in dst..(dst + len - 1)
        PROVE  mem[src + (len - 1) - (((len - 1) - (j - dst)) % (src - dst))] \in Byte
    <2>1. /\ src - dst \in Nat \ {0} /\ src - dst < len /\ (len - 1) - (j - dst) \in Nat
        BY <1>3 DEF Overlaps
    <2>2. ((len - 1) - (j - dst)) % (src - dst) \in 0..(src - dst - 1)
        BY <2>1
    <2>3. src + (len - 1) - (((len - 1) - (j - dst)) % (src - dst)) \in 0..(n - 1)
        BY <2>1, <2>2
    <2> QED BY <2>3
  <1> QED
      BY <1>1, <1>2, <1>3 DEF Memcpy
------------------------------------------------------------------------------
(* The constructor establishes the inductive invariant. *)
LEMMA InitInv == Init => IInv
  <1> SUFFICES ASSUME Init PROVE IInv
      OBVIOUS
  <1>1. size0 \in Nat /\ H \in Nat \ {0}
      BY SizeAssumption DEF Init
  <1>2. Layout
      BY <1>1, SizeAssumption, ByteAssumption DEF Init, Layout
  <1>3. Flags /\ ~overrun
      BY Zenon DEF Init, Flags
  <1>4. Capacity
      BY <1>1 DEF Init, Capacity
  <1> QED
      BY <1>2, <1>3, <1>4 DEF IInv, TypeOK, OverrunOnlyWhenTiny

(* AppendData behind the data: a buffer at least as large as the header    *)
(* has room, a tiny one records the overrun.                                *)
LEMMA InPlaceInv ==
    ASSUME IInv, ~overrun, NEW d \in Inputs, AppendData(d), AppendInPlace(d)
    PROVE  IInv'
  <1>1. /\ size0 \in Nat /\ H \in Nat \ {0} /\ MaxTotal \in Nat /\ SIZE_MOD \in Nat
        /\ d \in Seq(Byte) /\ Len(d) \in Nat /\ Len(d) > 0 /\ size0' = size0
      BY SizeAssumption, InputAssumption, LenProperties DEF IInv, TypeOK, Layout, AppendData
  <1>2. buffer_' \in [0..(alloc - 1) -> Byte]
      BY <1>1, WriteType DEF IInv, TypeOK, Layout, AppendInPlace
  <1>3. TypeOK'
    <2>1. ~overrun' => end_ + Len(d) <= alloc
      <3>1. ~overrun' => ~Past(end_, Len(d))
          BY Zenon DEF AppendInPlace
      <3> QED BY <1>1, <3>1 DEF IInv, TypeOK, Layout, Past
    <2>2. Layout'
        BY <1>1, <1>2, <2>1 DEF IInv, TypeOK, Layout, AppendData, AppendInPlace
    <2>3. Flags'
        BY Zenon DEF AppendInPlace, Flags
    <2> QED BY <2>2, <2>3 DEF TypeOK
  <1>4. Capacity'
      BY <1>1 DEF IInv, TypeOK, Layout, Capacity, AppendData, AppendInPlace
  <1>5. OverrunOnlyWhenTiny'
    <2>1. Past(end_, Len(d)) => size0 < H /\ total + Len(d) > size0
        BY <1>1 DEF IInv, TypeOK, Layout, Capacity, AppendInPlace, FitsBehind, SizeSub, Past
    <2>2. overrun' => Past(end_, Len(d))
        BY Zenon DEF AppendInPlace
    <2> QED BY <1>1, <2>1, <2>2 DEF OverrunOnlyWhenTiny, AppendData
  <1> QED
      BY <1>3, <1>4, <1>5 DEF IInv

(* A tiny buffer always appends in place. *)
LEMMA TinyFits ==
    ASSUME IInv, ~overrun, NEW d \in Inputs, AppendData(d), ~FitsBehind(Len(d))
    PROVE  size0 >= H
  <1>1. /\ size0 \in Nat /\ H \in Nat \ {0} /\ MaxTotal \in Nat /\ SIZE_MOD \in Nat
        /\ SIZE_MOD >= MaxTotal + 2 * H
        /\ d \in Seq(Byte) /\ Len(d) \in Nat /\ Len(d) > 0
      BY SizeAssumption, InputAssumption, LenProperties DEF IInv, TypeOK, Layout, AppendData
  <1> QED
      BY <1>1 DEF IInv, TypeOK, Layout, Capacity, AppendData, FitsBehind, SizeSub

(* AppendData into a new block: GetNewSize leaves room for header and data. *)
LEMMA GrowingInv ==
    ASSUME IInv, ~overrun, NEW d \in Inputs, AppendData(d), AppendGrowing(d)
    PROVE  IInv'
  <1> DEFINE new_len == GetNewSize(data_len_ + Len(d) + EXTRA_LEN)
             fresh   == [i \in 0..(new_len - 1) |-> Blank]
  <1>1. /\ size0 \in Nat /\ H \in Nat \ {0} /\ MaxTotal \in Nat
        /\ EXTRA_LEN \in Nat /\ EXTRA_LEN >= H /\ data_len_ \in Nat
        /\ d \in Seq(Byte) /\ Len(d) \in Nat /\ Len(d) > 0 /\ size0' = size0
      BY SizeAssumption, InputAssumption, LenProperties DEF IInv, TypeOK, Layout, AppendData
  <1>2. new_len \in Nat /\ new_len >= data_len_ + Len(d) + EXTRA_LEN
      BY <1>1, GetNewSizeGrows
  <1>3. size0 >= H
      BY TinyFits DEF AppendGrowing
  <1>4. buffer_' \in [0..(new_len - 1) -> Byte]
    <2>1. fresh \in [0..(new_len - 1) -> Byte]
        BY ByteAssumption
    <2>2. Contents \in Seq(Byte)
        BY ContentsType DEF IInv
    <2>3. Write(fresh, H, Contents) \in [0..(new_len - 1) -> Byte]
        BY <1>1, <1>2, <2>1, <2>2, WriteType
    <2>4. H + data_len_ \in Nat
        BY <1>1
    <2>5. Write(Write(fresh, H, Contents), H + data_len_, d) \in [0..(new_len - 1) -> Byte]
        BY <1>1, <1>2, <2>3, <2>4, WriteType
    <2> QED
        BY <2>5 DEF AppendGrowing
  <1>5. /\ alloc' = new_len /\ buffer_size_' = new_len
        /\ data_len_' = data_len_ + Len(d) /\ start_' = H
        /\ end_' = H + data_len_ + Len(d) /\ overlap' = FALSE
        /\ overrun' = (overrun \/ H + data_len_ + Len(d) > new_len)
        /\ total' = total + Len(d) /\ total + Len(d) <= MaxTotal
      BY DEF AppendGrowing, AppendData
  <1>6. ~overrun'
    <2>1. ~(H + data_len_ + Len(d) > new_len)
        BY <1>1, <1>2
    <2> QED BY <1>5, <2>1, Zenon
  <1>7. TypeOK'
    <2>1. Layout'
        BY <1>1, <1>2, <1>4, <1>5, <1>6 DEF IInv, TypeOK, Layout
    <2>2. Flags'
        BY <1>5, Zenon DEF Flags
    <2> QED BY <2>1, <2>2 DEF TypeOK
  <1>8. Capacity'
      BY <1>1, <1>2, <1>3, <1>5 DEF Capacity
  <1> QED
      BY <1>6, <1>7, <1>8 DEF IInv, OverrunOnlyWhenTiny

(* AppendData after moving the data to the front: both halves fit, because  *)
(* the growth test failed.                                                  *)
LEMMA CompactingInv ==
    ASSUME IInv, ~overrun, NEW d \in Inputs, AppendData(d), AppendCompacting(d)
    PROVE  IInv'
  <1>1. /\ size0 \in Nat /\ H \in Nat \ {0} /\ MaxTotal \in Nat
        /\ d \in Seq(Byte) /\ Len(d) \in Nat /\ Len(d) > 0 /\ size0' = size0
      BY SizeAssumption, InputAssumption, LenProperties DEF IInv, TypeOK, Layout, AppendData
  <1>2. size0 >= H
      BY TinyFits DEF AppendCompacting
  <1>3. buffer_' \in [0..(alloc - 1) -> Byte]
    <2>1. PICK moved \in IF data_len_ < start_ THEN Memcpy(buffer_, H, start_, data_len_)
                                               ELSE {Write(buffer_, H, Contents)} :
                 buffer_' = Write(moved, H + data_len_, d)
        BY DEF AppendCompacting
    <2>2. moved \in [0..(alloc - 1) -> Byte]
      <3>1. CASE data_len_ < start_
          BY <1>1, <2>1, <3>1, MemcpyType DEF IInv, TypeOK, Layout
      <3>2. CASE ~(data_len_ < start_)
        <4>1. Contents \in Seq(Byte)
            BY ContentsType DEF IInv
        <4> QED
            BY <1>1, <2>1, <3>2, <4>1, WriteType DEF IInv, TypeOK, Layout
      <3> QED BY <3>1, <3>2
    <2> QED
        BY <1>1, <2>1, <2>2, WriteType DEF IInv, TypeOK, Layout
  <1>4. ~overrun' /\ H + data_len_ + Len(d) <= alloc
    <2>1. H + (data_len_ + Len(d)) <= alloc
        BY <1>1, <1>2 DEF IInv, TypeOK, Layout, Capacity, AppendCompacting, MustGrow, SizeSub
    <2>2. ~Past(H, data_len_ + Len(d))
        BY <1>1, <2>1 DEF IInv, TypeOK, Layout, Past
    <2>3. ~overrun'
        BY <2>2, Zenon DEF AppendCompacting
    <2> QED BY <1>1, <2>1, <2>3 DEF IInv, TypeOK, Layout
  <1>5. TypeOK'
    <2>1. Layout'
        BY <1>1, <1>3, <1>4 DEF IInv, TypeOK, Layout, AppendData, AppendCompacting
    <2>2. Flags'
        BY Zenon DEF AppendCompacting, Flags
    <2> QED BY <2>1, <2>2 DEF TypeOK
  <1>6. Capacity'
      BY <1>1, <1>2 DEF IInv, TypeOK, Layout, Capacity, AppendCompacting
  <1> QED
      BY <1>4, <1>5, <1>6 DEF IInv, OverrunOnlyWhenTiny

(* ConsumeData moves start_ only inside what was written. *)
LEMMA ConsumeInv ==
    ASSUME IInv, ~overrun, NEW n \in ConsumeLens, ConsumeData(n)
    PROVE  IInv'
  <1>1. n \in Int /\ H \in Nat \ {0} /\ size0 \in Nat /\ size0' = size0
      BY SizeAssumption, InputAssumption DEF IInv, TypeOK, Layout, ConsumeData
  <1>2. TypeOK'
    <2>1. Layout'
        BY <1>1 DEF IInv, TypeOK, Layout, Capacity, ConsumeData, StartsOver
    <2>2. Flags'
        BY Zenon DEF IInv, TypeOK, Flags, ConsumeData
    <2> QED BY <2>1, <2>2 DEF TypeOK
  <1>3. Capacity'
      BY <1>1 DEF IInv, TypeOK, Layout, Capacity, ConsumeData, StartsOver
  <1> QED
      BY <1>2, <1>3 DEF IInv, OverrunOnlyWhenTiny, ConsumeData

(* Reset keeps the block and forgets the data. *)
LEMMA ResetInv ==
    ASSUME IInv, ~overrun, Reset
    PROVE  IInv'
  <1>1. H \in Nat \ {0} /\ size0 \in Nat /\ size0' = size0
      BY SizeAssumption DEF IInv, TypeOK, Layout, Reset
  <1>2. Layout'
      BY <1>1 DEF IInv, TypeOK, Layout, Capacity, Reset, StartsOver
  <1>3. Flags'
      BY Zenon DEF IInv, TypeOK, Flags, Reset
  <1>4. Capacity'
      BY <1>1 DEF IInv, TypeOK, Layout, Capacity, Reset, StartsOver
  <1> QED
      BY <1>2, <1>3, <1>4 DEF IInv, TypeOK, OverrunOnlyWhenTiny, Reset

(* Every operation preserves the inductive invariant. *)
LEMMA NextInv == IInv /\ [Next]_vars => IInv'
  <1> SUFFICES ASSUME IInv, [Next]_vars PROVE IInv'
      OBVIOUS
  <1>1. CASE UNCHANGED vars
      BY <1>1 DEF IInv, TypeOK, Layout, Flags, Capacity, OverrunOnlyWhenTiny, vars, fields
  <1>2. ASSUME NEW d \in Inputs, ~overrun, AppendData(d) PROVE IInv'
      BY <1>2, InPlaceInv, GrowingInv, CompactingInv DEF AppendData
  <1>3. ASSUME NEW n \in ConsumeLens, ~overrun, ConsumeData(n) PROVE IInv'
      BY <1>3, ConsumeInv
  <1>4. ASSUME ~overrun, Reset PROVE IInv'
      BY <1>4, ResetInv
  <1>5. ASSUME CopyFrom PROVE IInv'
      BY <1>5 DEF CopyFrom, IInv, TypeOK, Layout, Flags, Capacity, OverrunOnlyWhenTiny, fields
  <1> QED
      BY <1>1, <1>2, <1>3, <1>4, <1>5 DEF Next

(* The offsets of data_buffer.hpp stay consistent, whatever the sizes. *)
THEOREM TypeCorrect == Spec => []TypeOK
  <1>1. IInv => TypeOK
      BY DEF IInv
  <1> QED
      BY InitInv, NextInv, <1>1, PTL DEF Spec

(* No memcpy of AppendData leaves the heap block of a buffer that was       *)
(* created with at least PRE_RESERVE_HEADER_SIZE bytes, and none of a       *)
(* smaller one before more was appended than it was created for.            *)
THEOREM NoOverrun == Spec => []OverrunOnlyWhenTiny
  <1>1. IInv => OverrunOnlyWhenTiny
      BY DEF IInv
  <1> QED
      BY InitInv, NextInv, <1>1, PTL DEF Spec
------------------------------------------------------------------------------
(* The n bytes at offset s of a block: Contents is one of these. *)
View(mem, s, n) == [i \in 1..n |-> mem[s + i - 1]]

(* A view of n bytes of a block is a sequence of n bytes. *)
LEMMA ViewIsSeq ==
    ASSUME NEW a \in Nat, NEW mem \in [0..(a - 1) -> Byte],
           NEW s \in Nat, NEW n \in Nat, s + n <= a
    PROVE  /\ View(mem, s, n) \in Seq(Byte) /\ Len(View(mem, s, n)) = n
           /\ \A i \in 1..n : View(mem, s, n)[i] = mem[s + i - 1]
  <1>1. \A i \in 1..n : s + i - 1 \in 0..(a - 1)
      OBVIOUS
  <1>2. View(mem, s, n) \in [1..n -> Byte]
      BY <1>1 DEF View
  <1> QED
      BY <1>2 DEF View

(* Bytes written right behind a view extend it. *)
LEMMA PushView ==
    ASSUME NEW a \in Nat, NEW mem \in [0..(a - 1) -> Byte],
           NEW s \in Nat, NEW n \in Nat, NEW d \in Seq(Byte), s + n + Len(d) <= a
    PROVE  View(Write(mem, s + n, d), s, n + Len(d)) = View(mem, s, n) \o d
  <1> DEFINE mem2 == Write(mem, s + n, d)
             u == View(mem2, s, n + Len(d))
             v == View(mem, s, n)
  <1>1. Len(d) \in Nat
      BY LenProperties
  <1>2. s + n \in Nat /\ n + Len(d) \in Nat /\ s + (n + Len(d)) <= a /\ s + n <= a
      BY <1>1
  <1>3. mem2 \in [0..(a - 1) -> Byte]
      BY <1>2, WriteType
  <1> HIDE DEF mem2
  <1>4. /\ u \in Seq(Byte) /\ Len(u) = n + Len(d)
        /\ \A i \in 1..(n + Len(d)) : u[i] = mem2[s + i - 1]
      BY <1>2, <1>3, ViewIsSeq, ZenonT(60)
  <1>5. /\ v \in Seq(Byte) /\ Len(v) = n
        /\ \A i \in 1..n : v[i] = mem[s + i - 1]
      BY <1>2, ViewIsSeq, ZenonT(60)
  <1> HIDE DEF u, v
  <1>6. /\ v \o d \in Seq(Byte) /\ Len(v \o d) = n + Len(d)
        /\ \A i \in 1..(n + Len(d)) : (v \o d)[i] = IF i <= n THEN v[i] ELSE d[i - n]
      BY <1>5, ConcatProperties
  <1>7. ASSUME NEW i \in 1..(n + Len(d))
        PROVE  u[i] = (v \o d)[i]
    <2>1. s + i - 1 \in 0..(a - 1)
        BY <1>1, <1>2
    <2>2. CASE i <= n
      <3>1. mem2[s + i - 1] = mem[s + i - 1]
          BY <1>1, <2>1, <2>2 DEF Write, mem2
      <3> QED BY <1>4, <1>5, <1>6, <2>2, <3>1
    <2>3. CASE ~(i <= n)
      <3>1. mem2[s + i - 1] = d[(s + i - 1) - (s + n) + 1]
          BY <1>1, <2>1, <2>3 DEF Write, mem2
      <3>2. (s + i - 1) - (s + n) + 1 = i - n
          OBVIOUS
      <3> QED BY <1>4, <1>6, <2>3, <3>1, <3>2
    <2> QED BY <2>2, <2>3
  <1> QED
    <2>1. u = v \o d
        BY <1>4, <1>6, <1>7, SeqEqual
    <2> QED BY <2>1 DEF u, v, mem2

(* A sequence written into a block is what a view of that place shows. *)
LEMMA MoveView ==
    ASSUME NEW a \in Nat, NEW mem \in [0..(a - 1) -> Byte],
           NEW at \in Nat, NEW d \in Seq(Byte), at + Len(d) <= a
    PROVE  View(Write(mem, at, d), at, Len(d)) = d
  <1> DEFINE mem2 == Write(mem, at, d)
             u == View(mem2, at, Len(d))
  <1>1. Len(d) \in Nat
      BY LenProperties
  <1>2. mem2 \in [0..(a - 1) -> Byte]
      BY WriteType
  <1>3. /\ u \in Seq(Byte) /\ Len(u) = Len(d)
        /\ \A i \in 1..Len(d) : u[i] = mem2[at + i - 1]
      BY <1>1, <1>2, ViewIsSeq
  <1>4. ASSUME NEW i \in 1..Len(d) PROVE u[i] = d[i]
    <2>1. at + i - 1 \in 0..(a - 1)
        BY <1>1
    <2>2. mem2[at + i - 1] = d[(at + i - 1) - at + 1]
        BY <1>1, <2>1 DEF Write
    <2>3. (at + i - 1) - at + 1 = i
        OBVIOUS
    <2> QED BY <1>3, <2>2, <2>3
  <1> HIDE DEF mem2, u
  <1> QED
    <2>1. u = d
        BY <1>3, <1>4, SeqEqual
    <2> QED BY <2>1 DEF u, mem2

(* The compacting memcpy, if its areas do not overlap, moves the view. *)
LEMMA MemcpyView ==
    ASSUME NEW a \in Nat, NEW mem \in [0..(a - 1) -> Byte],
           NEW dst \in Nat, NEW src \in Nat, NEW n \in Nat, src + n <= a, dst + n <= a,
           ~Overlaps(dst, src, n), NEW m \in Memcpy(mem, dst, src, n)
    PROVE  View(m, dst, n) = View(mem, src, n)
  <1>1. m = [j \in 0..(a - 1) |-> IF j \in dst..(dst + n - 1) THEN mem[src + (j - dst)] ELSE mem[j]]
      BY DEF Memcpy
  <1>2. ASSUME NEW i \in 1..n PROVE m[dst + i - 1] = mem[src + i - 1]
    <2>1. dst + i - 1 \in 0..(a - 1) /\ dst + i - 1 \in dst..(dst + n - 1)
        OBVIOUS
    <2>2. m[dst + i - 1] = mem[src + ((dst + i - 1) - dst)]
        BY <1>1, <2>1
    <2>3. src + ((dst + i - 1) - dst) = src + i - 1
        OBVIOUS
    <2> QED BY <2>2, <2>3
  <1> QED
      BY <1>2 DEF View
------------------------------------------------------------------------------
(* Contents is the view at start_. *)
LEMMA ContentsIsView == Contents = View(buffer_, start_, data_len_)
  BY DEF Contents, View

(* AppendData is a push, in each of its cases. *)
LEMMA AppendPushes ==
    ASSUME IInv, ~overrun, NEW d \in Inputs, AppendData(d), ~overlap', ~overrun'
    PROVE  Contents' = Contents \o d
  <1>1. /\ H \in Nat \ {0} /\ d \in Seq(Byte) /\ Len(d) \in Nat
        /\ EXTRA_LEN \in Nat /\ EXTRA_LEN >= H
      BY SizeAssumption, InputAssumption, LenProperties
  <1>2. /\ alloc \in Nat /\ buffer_ \in [0..(alloc - 1) -> Byte]
        /\ start_ \in Nat /\ data_len_ \in Nat /\ end_ = start_ + data_len_ /\ end_ <= alloc
      BY DEF IInv, TypeOK, Layout
  <1>3. Contents \in Seq(Byte) /\ Len(Contents) = data_len_
      BY <1>2, ViewIsSeq, ContentsIsView
  <1>4. Contents' = View(buffer_', start_', data_len_')
      BY DEF Contents, View
  <1>5. CASE AppendInPlace(d)
    <2>1. ~Past(end_, Len(d))
        BY <1>5, Zenon DEF AppendInPlace
    <2>2. start_ + data_len_ + Len(d) <= alloc
        BY <1>1, <1>2, <2>1 DEF Past
    <2>3. buffer_' = Write(buffer_, start_ + data_len_, d)
          /\ start_' = start_ /\ data_len_' = data_len_ + Len(d)
        BY <1>2, <1>5 DEF AppendInPlace
    <2>4. View(Write(buffer_, start_ + data_len_, d), start_, data_len_ + Len(d))
            = View(buffer_, start_, data_len_) \o d
        BY <1>1, <1>2, <2>2, PushView, SMTT(30)
    <2> QED
        BY <1>4, <2>3, <2>4, ContentsIsView
  <1>6. CASE AppendGrowing(d)
    <2> DEFINE new_len == GetNewSize(data_len_ + Len(d) + EXTRA_LEN)
               fresh   == [i \in 0..(new_len - 1) |-> Blank]
               moved   == Write(fresh, H, Contents)
    <2>1. new_len \in Nat /\ new_len >= data_len_ + Len(d) + EXTRA_LEN
        BY <1>1, <1>2, GetNewSizeGrows
    <2>2. fresh \in [0..(new_len - 1) -> Byte]
        BY ByteAssumption
    <2>3. buffer_' = Write(moved, H + data_len_, d)
          /\ start_' = H /\ data_len_' = data_len_ + Len(d)
        BY <1>6 DEF AppendGrowing
    <2> HIDE DEF fresh, new_len
    <2>4. H + data_len_ <= new_len /\ H + data_len_ + Len(d) <= new_len
        BY <1>1, <1>2, <2>1
    <2>5. moved \in [0..(new_len - 1) -> Byte]
        BY <1>1, <1>3, <2>1, <2>2, WriteType
    <2>6. View(moved, H, data_len_) = Contents
        BY <1>1, <1>2, <1>3, <2>1, <2>2, <2>4, MoveView
    <2> HIDE DEF moved
    <2>7. View(Write(moved, H + data_len_, d), H, data_len_ + Len(d))
            = View(moved, H, data_len_) \o d
      <3>1. H \in Nat /\ data_len_ \in Nat /\ new_len \in Nat /\ d \in Seq(Byte)
          BY <1>1, <1>2, <2>1
      <3> QED BY <2>4, <2>5, <3>1, PushView
    <2> QED
        BY <1>4, <2>3, <2>6, <2>7
  <1>7. CASE AppendCompacting(d)
    <2>1. /\ start_' = H /\ data_len_' = data_len_ + Len(d)
          /\ ~Past(H, data_len_ + Len(d))
          /\ ~(data_len_ < start_ /\ Overlaps(H, start_, data_len_))
        BY <1>7, Zenon DEF AppendCompacting
    <2>2. H + data_len_ + Len(d) <= alloc /\ H + data_len_ <= alloc
        BY <1>1, <1>2, <2>1 DEF Past
    <2>3. PICK moved \in IF data_len_ < start_ THEN Memcpy(buffer_, H, start_, data_len_)
                                               ELSE {Write(buffer_, H, Contents)} :
                 buffer_' = Write(moved, H + data_len_, d)
        BY <1>7 DEF AppendCompacting
    <2>4. moved \in [0..(alloc - 1) -> Byte] /\ View(moved, H, data_len_) = Contents
      <3>1. CASE data_len_ < start_
        <4>1. moved \in Memcpy(buffer_, H, start_, data_len_)
            BY <2>3, <3>1
        <4>2. ~Overlaps(H, start_, data_len_)
            BY <2>1, <3>1
        <4>3. start_ + data_len_ <= alloc
            BY <1>2
        <4>4. moved \in [0..(alloc - 1) -> Byte]
            BY <1>1, <1>2, <4>1, <4>3, MemcpyType
        <4>5. View(moved, H, data_len_) = View(buffer_, start_, data_len_)
            BY <1>1, <1>2, <2>2, <4>1, <4>2, <4>3, MemcpyView
        <4> QED BY <4>4, <4>5, ContentsIsView
      <3>2. CASE ~(data_len_ < start_)
        <4>1. moved = Write(buffer_, H, Contents)
            BY <2>3, <3>2
        <4>2. moved \in [0..(alloc - 1) -> Byte]
            BY <1>1, <1>2, <1>3, <4>1, WriteType
        <4>3. View(moved, H, data_len_) = Contents
            BY <1>1, <1>2, <1>3, <2>2, <4>1, MoveView
        <4> QED BY <4>2, <4>3
      <3> QED BY <3>1, <3>2
    <2>5. View(Write(moved, H + data_len_, d), H, data_len_ + Len(d))
            = View(moved, H, data_len_) \o d
      <3>1. H \in Nat /\ data_len_ \in Nat /\ alloc \in Nat /\ d \in Seq(Byte)
          BY <1>1, <1>2
      <3> QED BY <2>2, <2>4, <3>1, PushView, ZenonT(60)
    <2> QED
        BY <1>4, <2>1, <2>3, <2>4, <2>5
  <1> QED
      BY <1>5, <1>6, <1>7 DEF AppendData

(* ConsumeData pops, or gives back bytes that lie before the data. *)
LEMMA ConsumePops ==
    ASSUME IInv, ~overrun, NEW n \in ConsumeLens, ConsumeData(n), n >= 0
    PROVE  n <= Len(Contents) /\ Contents' = SubSeq(Contents, n + 1, Len(Contents))
  <1>1. /\ n \in Nat /\ H \in Nat
        /\ alloc \in Nat /\ buffer_ \in [0..(alloc - 1) -> Byte]
        /\ start_ \in Nat /\ data_len_ \in Nat /\ start_ + data_len_ <= alloc
        /\ n <= data_len_ /\ buffer_' = buffer_
      BY SizeAssumption, InputAssumption DEF IInv, TypeOK, Layout, ConsumeData
  <1>2. /\ Contents \in Seq(Byte) /\ Len(Contents) = data_len_
        /\ \A i \in 1..data_len_ : Contents[i] = buffer_[start_ + i - 1]
      BY ContentsType DEF IInv
  <1>3. Contents' = View(buffer_, start_', data_len_')
      BY <1>1 DEF Contents, View
  <1>4. CASE data_len_ - n = 0
    <2>1. data_len_' = 0 /\ data_len_ < n + 1
        BY <1>1, <1>4 DEF ConsumeData, StartsOver
    <2>2. SubSeq(Contents, n + 1, Len(Contents)) = <<>>
        BY <1>1, <1>2, <2>1, SubSeqEmpty
    <2>3. Contents' = <<>>
        BY <1>3, <2>1 DEF View
    <2> QED BY <1>1, <1>2, <2>2, <2>3
  <1>5. CASE ~(data_len_ - n = 0)
    <2>1. PICK s \in Nat, k \in Nat :
             s = start_ + n /\ k = data_len_ - n /\ s + k <= alloc
        BY <1>1
    <2>2. Contents' = View(buffer_, s, k)
        BY <1>3, <1>5, <2>1 DEF ConsumeData
    <2> DEFINE u == SubSeq(Contents, n + 1, data_len_)
               v == View(buffer_, s, k)
    <2>3. \A i \in (n + 1)..data_len_ : Contents[i] \in Byte
        BY <1>1, <1>2, ElementOfSeq
    <2>4. /\ u \in Seq(Byte) /\ Len(u) = k
          /\ \A i \in 1..k : u[i] = Contents[n + i]
      <3>1. /\ n + 1 \in Int /\ data_len_ \in Int
            /\ data_len_ - (n + 1) + 1 = k /\ n + 1 <= data_len_
          BY <1>1, <1>5, <2>1
      <3>2. /\ u \in Seq(Byte) /\ Len(u) = data_len_ - (n + 1) + 1
            /\ \A i \in 1..(data_len_ - (n + 1) + 1) : u[i] = Contents[(n + 1) + i - 1]
          BY <2>3, <3>1, SubSeqProperties
      <3>3. \A i \in 1..k : (n + 1) + i - 1 = n + i
          BY <1>1
      <3> QED BY <3>1, <3>2, <3>3
    <2>5. /\ v \in Seq(Byte) /\ Len(v) = k
          /\ \A i \in 1..k : v[i] = buffer_[s + i - 1]
      <3>1. alloc \in Nat /\ buffer_ \in [0..(alloc - 1) -> Byte] /\ s + k <= alloc
          BY <1>1, <2>1
      <3> QED BY <3>1, ViewIsSeq
    <2>6. ASSUME NEW i \in 1..k PROVE u[i] = v[i]
      <3>1. n + i \in 1..data_len_ /\ start_ + (n + i) - 1 = s + i - 1
          BY <1>1, <2>1
      <3>2. Contents[n + i] = buffer_[start_ + (n + i) - 1]
          BY <1>2, <3>1
      <3> QED BY <2>4, <2>5, <3>1, <3>2
    <2> HIDE DEF u, v
    <2>7. u = v
        BY <2>4, <2>5, <2>6, SeqEqual
    <2> QED BY <1>1, <1>2, <2>2, <2>7 DEF u, v
  <1> QED BY <1>4, <1>5

(* ConsumeData with a negative length shows bytes in front of the data again. *)
LEMMA ConsumeGivesBack ==
    ASSUME IInv, ~overrun, NEW n \in ConsumeLens, ConsumeData(n), ~(n >= 0)
    PROVE  \E p \in [1..(-n) -> Byte] : Contents' = p \o Contents
  <1>1. /\ n \in Int /\ -n \in Nat /\ start_ + n \in Nat
        /\ alloc \in Nat /\ buffer_ \in [0..(alloc - 1) -> Byte]
        /\ start_ \in Nat /\ data_len_ \in Nat /\ start_ + data_len_ <= alloc
        /\ data_len_ - n # 0 /\ data_len_ - n \in Nat /\ buffer_' = buffer_
        /\ start_' = start_ + n /\ data_len_' = data_len_ - n
      BY InputAssumption DEF IInv, TypeOK, Layout, ConsumeData
  <1>2. /\ Contents \in Seq(Byte) /\ Len(Contents) = data_len_
        /\ \A i \in 1..data_len_ : Contents[i] = buffer_[start_ + i - 1]
      BY ContentsType DEF IInv
  <1>3. PICK s \in Nat, k \in Nat :
           /\ s = start_ + n /\ k = -n /\ start_ = s + k
           /\ s + k <= alloc /\ s + (k + data_len_) <= alloc
           /\ data_len_' = k + data_len_ /\ k + data_len_ \in Nat
      BY <1>1
  <1> DEFINE p == View(buffer_, s, k)
             v == View(buffer_, s, k + data_len_)
  <1>4. /\ p \in Seq(Byte) /\ Len(p) = k
        /\ \A i \in 1..k : p[i] = buffer_[s + i - 1]
    <2>1. alloc \in Nat /\ buffer_ \in [0..(alloc - 1) -> Byte] /\ s + k <= alloc
        BY <1>1, <1>3
    <2> QED BY <2>1, ViewIsSeq
  <1>5. /\ v \in Seq(Byte) /\ Len(v) = k + data_len_
        /\ \A i \in 1..(k + data_len_) : v[i] = buffer_[s + i - 1]
    <2>1. PICK m \in Nat : m = k + data_len_
        BY <1>3
    <2>2. alloc \in Nat /\ buffer_ \in [0..(alloc - 1) -> Byte] /\ s + m <= alloc
        BY <1>1, <1>3, <2>1
    <2>3. /\ View(buffer_, s, m) \in Seq(Byte) /\ Len(View(buffer_, s, m)) = m
          /\ \A i \in 1..m : View(buffer_, s, m)[i] = buffer_[s + i - 1]
        BY <2>2, ViewIsSeq, ZenonT(60)
    <2> QED BY <2>1, <2>3
  <1>6. Contents' = v
      BY <1>1, <1>3 DEF Contents, View
  <1> HIDE DEF p, v
  <1>7. /\ p \o Contents \in Seq(Byte) /\ Len(p \o Contents) = k + data_len_
        /\ \A i \in 1..(k + data_len_) :
              (p \o Contents)[i] = IF i <= k THEN p[i] ELSE Contents[i - k]
      BY <1>2, <1>4, ConcatProperties, ZenonT(60)
  <1>8. ASSUME NEW i \in 1..(k + data_len_) PROVE v[i] = (p \o Contents)[i]
    <2>1. CASE i <= k
        BY <1>1, <1>3, <1>4, <1>5, <1>7, <2>1
    <2>2. CASE ~(i <= k)
      <3>1. i - k \in 1..data_len_ /\ start_ + (i - k) - 1 = s + i - 1
          BY <1>1, <1>3, <2>2
      <3>2. Contents[i - k] = buffer_[start_ + (i - k) - 1]
          BY <1>2, <3>1
      <3> QED BY <1>5, <1>7, <2>2, <3>1, <3>2
    <2> QED BY <2>1, <2>2
  <1>9. v = p \o Contents
      BY <1>5, <1>7, <1>8, SeqEqual
  <1>10. p \in [1..(-n) -> Byte]
      BY <1>3, <1>4, LenProperties
  <1> QED BY <1>6, <1>9, <1>10

(* Every AppendData, ConsumeData and Reset that does not end in undefined   *)
(* behaviour changes what Data() and DataLen() show as the same operation   *)
(* on a byte queue: layout, growth and compaction are invisible.            *)
THEOREM ByteQueueRefined == Spec => ImplementsByteQueue
  <1>1. Init => BQ!Init
    <2> SUFFICES ASSUME Init PROVE Contents = <<>>
        BY DEF BQ!Init
    <2> QED BY DEF Init, Contents
  <1>2. IInv /\ [Next]_vars => [~overlap' /\ ~overrun' => BQ!Next]_Contents
    <2> SUFFICES ASSUME IInv, [Next]_vars, ~overlap', ~overrun', Contents' # Contents
                 PROVE  BQ!Next
        OBVIOUS
    <2>1. CASE UNCHANGED vars
        BY <2>1 DEF vars, fields, Contents
    <2>2. ASSUME ~overrun, NEW d \in Inputs, AppendData(d) PROVE BQ!Next
        BY <2>2, AppendPushes DEF BQ!Next, BQ!Push
    <2>3. ASSUME ~overrun, NEW n \in ConsumeLens, ConsumeData(n) PROVE BQ!Next
      <3>1. CASE n >= 0
          BY <2>3, <3>1, ConsumePops DEF BQ!Next, BQ!Pop
      <3>2. CASE ~(n >= 0)
          BY <2>3, <3>2, ConsumeGivesBack DEF BQ!Next, BQ!GiveBack
      <3> QED BY <3>1, <3>2
    <2>4. ASSUME Reset PROVE BQ!Next
      <3>1. Contents' = <<>>
          BY <2>4 DEF Reset, StartsOver, Contents
      <3> QED BY <3>1 DEF BQ!Next, BQ!Clear
    <2>5. ASSUME CopyFrom PROVE FALSE
        BY <2>5 DEF CopyFrom, fields, Contents
    <2> QED
        BY <2>1, <2>2, <2>3, <2>4, <2>5 DEF Next
  <1> QED
      BY InitInv, NextInv, <1>1, <1>2, PTL DEF Spec, ImplementsByteQueue
==============================================================================
