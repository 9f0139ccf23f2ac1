----------------------- MODULE CoRtmpSession_proofs -----------------------
(***************************************************************************)
(* Proofs about CoRtmpSession, for every block and key size, buffer size,   *)
(* set of offsets, read sizes and number of reads.                          *)
(*                                                                         *)
(* AnswerFitsClient and AnsweredOnce say what the client has got; neither   *)
(* is inductive.  What has to be carried along is where the handshake is:   *)
(* before the first read c2s is C0C1 and nothing is in flight (StartInv);   *)
(* after it, until the client has both parts of the answer, what libuv has  *)
(* still to write first is the rest of the answer to c1, and nothing more   *)
(* is on its way from the client (FirstInv, OnceInv).  That the answer to   *)
(* c1 fits c1 is then a fact about the operators of RtmpHandshake.          *)
(***************************************************************************)
EXTENDS CoRtmpSession, SequenceTheorems, TLAPS

(***************************************************************************)
(* First, what C1S1Handle computes, for every block size, key size and      *)
(* offset: the packets MakeC1 and MakeS1 build are cut by TrySchema0 and    *)
(* TrySchema1 into the parts they were built from, and ParseC1 recognises   *)
(* the schema of a C1.                                                      *)
(*                                                                         *)
(* A cell holds anything, so the packets have no set of elements to be      *)
(* sequences over.  IsSeq says that a value is a sequence over its own      *)
(* elements; the first lemmas are the rules of sequences for it.            *)
(***************************************************************************)
IsSeq(q) == q \in Seq({q[i] : i \in DOMAIN q})

(* A function on 1..n is a sequence of length n. *)
LEMMA FunctionIsSeq ==
    ASSUME NEW n \in Nat, NEW q, q = [i \in 1..n |-> q[i]]
    PROVE  IsSeq(q) /\ Len(q) = n /\ DOMAIN q = 1..n
  <1> DEFINE S == {q[i] : i \in DOMAIN q}
  <1>1. DOMAIN q = 1..n
      OBVIOUS
  <1>2. q \in [1..n -> S]
      BY <1>1
  <1> HIDE DEF S
  <1>3. q \in Seq(S) /\ Len(q) = n
      BY <1>2
  <1> QED BY <1>1, <1>3 DEF IsSeq, S

(* A sequence over any set is one over its own elements. *)
LEMMA SeqIsSeq ==
    ASSUME NEW S, NEW q \in Seq(S)
    PROVE  IsSeq(q)
  <1>1. Len(q) \in Nat /\ q = [i \in 1..Len(q) |-> q[i]]
      OBVIOUS
  <1> QED BY <1>1, FunctionIsSeq

(* What IsSeq gives. *)
LEMMA SeqFacts ==
    ASSUME NEW q, IsSeq(q)
    PROVE  /\ Len(q) \in Nat /\ DOMAIN q = 1..Len(q)
           /\ q = [i \in 1..Len(q) |-> q[i]]
           /\ q = <<>> <=> Len(q) = 0
  <1> DEFINE S == {q[i] : i \in DOMAIN q}
  <1>1. q \in Seq(S)
      BY DEF IsSeq
  <1> HIDE DEF S
  <1> QED BY <1>1

(* Sequences of the same length with the same elements are equal. *)
LEMMA SameElements ==
    ASSUME NEW a, NEW b, IsSeq(a), IsSeq(b), Len(a) = Len(b),
           \A i \in 1..Len(a) : a[i] = b[i]
    PROVE  a = b
  <1>1. a = [i \in 1..Len(a) |-> a[i]] /\ b = [i \in 1..Len(a) |-> b[i]]
      BY SeqFacts
  <1> QED BY <1>1

(* Two sequences are sequences over one set. *)
LEMMA TwoSeqs ==
    ASSUME NEW a, NEW b, IsSeq(a), IsSeq(b)
    PROVE  \E S : a \in Seq(S) /\ b \in Seq(S)
  <1> DEFINE S == {a[i] : i \in DOMAIN a} \union {b[i] : i \in DOMAIN b}
  <1>1. a \in [1..Len(a) -> S] /\ Len(a) \in Nat
      BY SeqFacts
  <1>2. b \in [1..Len(b) -> S] /\ Len(b) \in Nat
      BY SeqFacts
  <1> HIDE DEF S
  <1>3. a \in Seq(S) /\ b \in Seq(S)
      BY <1>1, <1>2
  <1> QED BY <1>3

(* Concatenation. *)
LEMMA ConcatFacts ==
    ASSUME NEW a, NEW b, IsSeq(a), IsSeq(b)
    PROVE  /\ IsSeq(a \o b) /\ Len(a \o b) = Len(a) + Len(b)
           /\ \A i \in 1..Len(a) : (a \o b)[i] = a[i]
           /\ \A i \in 1..Len(b) : (a \o b)[Len(a) + i] = b[i]
           /\ \A i \in (Len(a) + 1)..(Len(a) + Len(b)) : (a \o b)[i] = b[i - Len(a)]
  <1>1. PICK S : a \in Seq(S) /\ b \in Seq(S)
      BY TwoSeqs
  <1>2. a \o b \in Seq(S)
      BY <1>1
  <1>3. IsSeq(a \o b)
      BY <1>2, SeqIsSeq
  <1> QED BY <1>1, <1>3

(* The same of a concatenation that has a name: IsConcat, left folded, is   *)
(* what the provers instantiate the lemma by.                               *)
IsConcat(w, a, b) == w = a \o b

(* The cells of w are those of its two parts. *)
LEMMA NamedConcat ==
    ASSUME NEW w, NEW a, NEW b, IsConcat(w, a, b), IsSeq(a), IsSeq(b)
    PROVE  /\ IsSeq(w) /\ Len(w) = Len(a) + Len(b)
           /\ \A i \in 1..Len(a) : w[i] = a[i]
           /\ \A i \in 1..Len(b) : w[Len(a) + i] = b[i]
  <1>1. /\ IsSeq(a \o b) /\ Len(a \o b) = Len(a) + Len(b)
        /\ \A i \in 1..Len(a) : (a \o b)[i] = a[i]
        /\ \A i \in 1..Len(b) : (a \o b)[Len(a) + i] = b[i]
      BY ConcatFacts
  <1> QED BY <1>1 DEF IsConcat

(* Sub-sequences that lie in the sequence. *)
LEMMA SubSeqFacts ==
    ASSUME NEW q, IsSeq(q), NEW m \in Nat \ {0}, NEW n \in Nat, m <= n + 1, n <= Len(q)
    PROVE  /\ IsSeq(SubSeq(q, m, n)) /\ Len(SubSeq(q, m, n)) = n - m + 1
           /\ \A i \in 1..(n - m + 1) : SubSeq(q, m, n)[i] = q[m + i - 1]
  <1>1. SubSeq(q, m, n) = [i \in 1..(n - m + 1) |-> q[m + i - 1]]
    <2> DEFINE S == {q[i] : i \in DOMAIN q}
    <2>1. q \in Seq(S)
        BY DEF IsSeq
    <2> HIDE DEF S
    <2> QED BY <2>1
  <1>2. n - m + 1 \in Nat
      OBVIOUS
  <1>3. SubSeq(q, m, n) = [i \in 1..(n - m + 1) |-> SubSeq(q, m, n)[i]]
      BY <1>1
  <1>4. IsSeq(SubSeq(q, m, n)) /\ Len(SubSeq(q, m, n)) = n - m + 1
      BY <1>2, <1>3, FunctionIsSeq
  <1> QED BY <1>1, <1>4

(* The middle of a concatenation is what was put there. *)
LEMMA Middle ==
    ASSUME NEW a, NEW b, NEW c, IsSeq(a), IsSeq(b), IsSeq(c)
    PROVE  SubSeq(a \o b \o c, Len(a) + 1, Len(a) + Len(b)) = b
  <1> DEFINE q == a \o b \o c
             s == SubSeq(q, Len(a) + 1, Len(a) + Len(b))
  <1>1. Len(a) \in Nat /\ Len(b) \in Nat /\ Len(c) \in Nat
      BY SeqFacts
  <1>2. /\ IsSeq(a \o b) /\ Len(a \o b) = Len(a) + Len(b)
        /\ \A i \in 1..Len(b) : (a \o b)[Len(a) + i] = b[i]
      BY ConcatFacts
  <1>3. /\ IsSeq(q) /\ Len(q) = Len(a) + Len(b) + Len(c)
        /\ \A i \in 1..(Len(a) + Len(b)) : q[i] = (a \o b)[i]
      BY <1>2, ConcatFacts
  <1> HIDE DEF q
  <1>4. /\ IsSeq(s) /\ Len(s) = Len(b)
        /\ \A i \in 1..Len(b) : s[i] = q[Len(a) + i]
    <2>1. /\ IsSeq(s) /\ Len(s) = Len(a) + Len(b) - (Len(a) + 1) + 1
          /\ \A i \in 1..(Len(a) + Len(b) - (Len(a) + 1) + 1) : s[i] = q[(Len(a) + 1) + i - 1]
        BY <1>1, <1>3, SubSeqFacts
    <2> HIDE DEF s
    <2> QED BY <1>1, <2>1
  <1> HIDE DEF s
  <1>5. \A i \in 1..Len(b) : s[i] = b[i]
    <2> SUFFICES ASSUME NEW i \in 1..Len(b)
                 PROVE  s[i] = b[i]
        OBVIOUS
    <2>1. Len(a) + i \in 1..(Len(a) + Len(b))
        BY <1>1
    <2>2. s[i] = q[Len(a) + i] /\ q[Len(a) + i] = (a \o b)[Len(a) + i]
        BY <1>3, <1>4, <2>1
    <2> QED BY <1>2, <2>2
  <1>6. s = b
      BY <1>4, <1>5, SameElements
  <1> QED BY <1>6 DEF s, q
------------------------------------------------------------------------------
(* One cell. *)
LEMMA SingleFacts ==
    ASSUME NEW x
    PROVE  IsSeq(<<x>>) /\ Len(<<x>>) = 1 /\ <<x>>[1] = x
  <1>1. <<x>> \in Seq({x})
      OBVIOUS
  <1> QED BY <1>1, SeqIsSeq

(* The fields of a digest block and of a key block fill the block, and lie  *)
(* where the block's offset says.                                           *)
DigestFits(d) ==
    /\ IsSeq(d.random0) /\ IsSeq(d.random1) /\ d.offset.n \in Nat
    /\ Len(d.random0) = CalcValidDigestOffset(d.offset.n)
    /\ OffsetLen + Len(d.random0) + DigestLen + Len(d.random1) = BlockLen

KeyFits(k) ==
    /\ IsSeq(k.random0) /\ IsSeq(k.random1) /\ k.offset.n \in Nat
    /\ Len(k.random0) = CalcValidKeyOffset(k.offset.n)
    /\ Len(k.random0) + KeyLen + Len(k.random1) + OffsetLen = BlockLen

(* The offset rules keep the digest and the key in their blocks. *)
LEMMA OffsetsInBlock ==
    ASSUME NEW sum \in Nat
    PROVE  /\ CalcValidDigestOffset(sum) \in Nat
           /\ OffsetLen + CalcValidDigestOffset(sum) + DigestLen < BlockLen
           /\ CalcValidKeyOffset(sum) \in Nat
           /\ CalcValidKeyOffset(sum) + KeyLen + OffsetLen < BlockLen
  <1>1. BlockLen - 1 - 1 \in Nat \ {0} /\ BlockLen - KeyLen - 1 \in Nat \ {0}
      BY LayoutAssumption
  <1>2. \A m \in Nat \ {0} : sum % m \in Nat /\ sum % m < m
      OBVIOUS
  <1>3. /\ sum % (BlockLen - 1 - 1) \in Nat
        /\ sum % (BlockLen - 1 - 1) < BlockLen - 1 - 1
        /\ sum % (BlockLen - KeyLen - 1) \in Nat
        /\ sum % (BlockLen - KeyLen - 1) < BlockLen - KeyLen - 1
      BY <1>1, <1>2
  <1> HIDE DEF OffsetLen
  <1> QED BY <1>3, LayoutAssumption
          DEF CalcValidDigestOffset, CalcValidKeyOffset, OffsetLen, DigestLen

(* Four parts in a row: where their cells are. *)
Joined(w, p, q, r, s) == w = p \o q \o r \o s

(* The cells of w are those of its parts. *)
LEMMA FourParts ==
    ASSUME NEW p, NEW q, NEW r, NEW s, IsSeq(p), IsSeq(q), IsSeq(r), IsSeq(s),
           NEW w, Joined(w, p, q, r, s)
    PROVE  /\ IsSeq(w) /\ Len(w) = Len(p) + Len(q) + Len(r) + Len(s)
           /\ \A i \in 1..Len(p) : w[i] = p[i]
           /\ \A i \in 1..Len(q) : w[Len(p) + i] = q[i]
           /\ \A i \in 1..Len(r) : w[Len(p) + Len(q) + i] = r[i]
           /\ \A i \in 1..Len(s) : w[Len(p) + Len(q) + Len(r) + i] = s[i]
  <1>0. Len(p) \in Nat /\ Len(q) \in Nat /\ Len(r) \in Nat /\ Len(s) \in Nat
      BY SeqFacts
  <1>1. PICK a : IsConcat(a, p, q)
      BY DEF IsConcat
  <1>2. /\ IsSeq(a) /\ Len(a) = Len(p) + Len(q)
        /\ \A i \in 1..Len(p) : a[i] = p[i]
        /\ \A i \in 1..Len(q) : a[Len(p) + i] = q[i]
      BY <1>1, NamedConcat
  <1>3. PICK b : IsConcat(b, a, r)
      BY DEF IsConcat
  <1>4. /\ IsSeq(b) /\ Len(b) = Len(a) + Len(r)
        /\ \A i \in 1..Len(a) : b[i] = a[i]
        /\ \A i \in 1..Len(r) : b[Len(a) + i] = r[i]
    <2>1. IsSeq(a)
        BY <1>2
    <2> QED BY <1>3, <2>1, NamedConcat
  <1>5. PICK c : IsConcat(c, b, s)
      BY DEF IsConcat
  <1>6. /\ IsSeq(c) /\ Len(c) = Len(b) + Len(s)
        /\ \A i \in 1..Len(b) : c[i] = b[i]
        /\ \A i \in 1..Len(s) : c[Len(b) + i] = s[i]
    <2>1. IsSeq(b)
        BY <1>4
    <2> QED BY <1>5, <2>1, NamedConcat
  <1>7. \A i \in 1..Len(p) : c[i] = p[i]
    <2> TAKE i \in 1..Len(p)
    <2>1. i \in 1..Len(a) /\ i \in 1..Len(b)
        BY <1>0, <1>2, <1>4
    <2> QED BY <1>2, <1>4, <1>6, <2>1
  <1>8. \A i \in 1..Len(q) : c[Len(p) + i] = q[i]
    <2> TAKE i \in 1..Len(q)
    <2>1. Len(p) + i \in 1..Len(a) /\ Len(p) + i \in 1..Len(b)
        BY <1>0, <1>2, <1>4
    <2> QED BY <1>2, <1>4, <1>6, <2>1
  <1>9. \A i \in 1..Len(r) : c[Len(p) + Len(q) + i] = r[i]
      BY <1>0, <1>2, <1>4, <1>6
  <1>10. /\ IsSeq(c) /\ Len(c) = Len(p) + Len(q) + Len(r) + Len(s)
         /\ \A i \in 1..Len(s) : c[Len(p) + Len(q) + Len(r) + i] = s[i]
      BY <1>0, <1>2, <1>4, <1>6
  <1>11. w = c
      BY <1>1, <1>3, <1>5 DEF Joined, IsConcat
  <1> QED BY <1>7, <1>8, <1>9, <1>10, <1>11

(* Where the cells of a digest block are. *)
LEMMA DigestCells ==
    ASSUME NEW d, DigestFits(d), NEW x
    PROVE  /\ IsSeq(MakeDigest(d, x)) /\ Len(MakeDigest(d, x)) = BlockLen
           /\ MakeDigest(d, x)[1] = d.offset
           /\ \A i \in 1..Len(d.random0) : MakeDigest(d, x)[1 + i] = d.random0[i]
           /\ MakeDigest(d, x)[Len(d.random0) + 2] = x
           /\ \A i \in 1..Len(d.random1) :
                 MakeDigest(d, x)[Len(d.random0) + 2 + i] = d.random1[i]
  <1>1. PICK p : p = <<d.offset>>
      OBVIOUS
  <1>2. PICK t : t = <<x>>
      OBVIOUS
  <1>3. PICK r0 : r0 = d.random0
      OBVIOUS
  <1>4. PICK r1 : r1 = d.random1
      OBVIOUS
  <1>5. /\ IsSeq(p) /\ Len(p) = 1 /\ p[1] = d.offset
        /\ IsSeq(t) /\ Len(t) = 1 /\ t[1] = x
      BY <1>1, <1>2, SingleFacts
  <1>6. /\ IsSeq(r0) /\ IsSeq(r1) /\ Len(r0) \in Nat /\ Len(r1) \in Nat
        /\ 1 + Len(r0) + 1 + Len(r1) = BlockLen
      BY <1>3, <1>4, SeqFacts DEF DigestFits, OffsetLen, DigestLen
  <1>7. PICK w : Joined(w, p, r0, t, r1)
      BY DEF Joined
  <1>8. MakeDigest(d, x) = w
      BY <1>1, <1>2, <1>3, <1>4, <1>7 DEF MakeDigest, Joined
  <1>9. /\ IsSeq(w) /\ Len(w) = Len(p) + Len(r0) + Len(t) + Len(r1)
        /\ \A i \in 1..Len(p) : w[i] = p[i]
        /\ \A i \in 1..Len(r0) : w[Len(p) + i] = r0[i]
        /\ \A i \in 1..Len(t) : w[Len(p) + Len(r0) + i] = t[i]
        /\ \A i \in 1..Len(r1) : w[Len(p) + Len(r0) + Len(t) + i] = r1[i]
    <2>1. IsSeq(p) /\ IsSeq(r0) /\ IsSeq(t) /\ IsSeq(r1)
        BY <1>5, <1>6
    <2> QED BY <1>7, <2>1, FourParts
  <1>10. /\ IsSeq(w) /\ Len(w) = BlockLen /\ w[1] = d.offset
         /\ \A i \in 1..Len(r0) : w[1 + i] = r0[i]
      BY <1>5, <1>6, <1>9
  <1>11. w[Len(r0) + 2] = x
    <2>1. w[Len(p) + Len(r0) + 1] = t[1]
        BY <1>5, <1>9
    <2>2. Len(p) + Len(r0) + 1 = Len(r0) + 2
        BY <1>5, <1>6
    <2> QED BY <1>5, <2>1, <2>2
  <1>12. \A i \in 1..Len(r1) : w[Len(r0) + 2 + i] = r1[i]
    <2>1. Len(p) + Len(r0) + Len(t) = Len(r0) + 2
        BY <1>5, <1>6
    <2> QED BY <1>9, <2>1
  <1> QED BY <1>3, <1>4, <1>8, <1>10, <1>11, <1>12

(* Where the cells of a key block are. *)
LEMMA KeyCells ==
    ASSUME NEW k, KeyFits(k), NEW key, IsSeq(key), Len(key) = KeyLen
    PROVE  /\ IsSeq(MakeKey(k, key)) /\ Len(MakeKey(k, key)) = BlockLen
           /\ \A i \in 1..Len(k.random0) : MakeKey(k, key)[i] = k.random0[i]
           /\ \A i \in 1..KeyLen : MakeKey(k, key)[Len(k.random0) + i] = key[i]
           /\ \A i \in 1..Len(k.random1) :
                 MakeKey(k, key)[Len(k.random0) + KeyLen + i] = k.random1[i]
           /\ MakeKey(k, key)[BlockLen] = k.offset
  <1>1. PICK o : o = <<k.offset>>
      OBVIOUS
  <1>2. PICK r0 : r0 = k.random0
      OBVIOUS
  <1>3. PICK r1 : r1 = k.random1
      OBVIOUS
  <1>4. IsSeq(o) /\ Len(o) = 1 /\ o[1] = k.offset
      BY <1>1, SingleFacts
  <1>5. /\ IsSeq(r0) /\ IsSeq(r1) /\ Len(r0) \in Nat /\ Len(r1) \in Nat /\ KeyLen \in Nat
        /\ Len(r0) + KeyLen + Len(r1) + 1 = BlockLen
      BY <1>2, <1>3, SeqFacts, LayoutAssumption DEF KeyFits, OffsetLen
  <1>6. PICK w : Joined(w, r0, key, r1, o)
      BY DEF Joined
  <1>7. MakeKey(k, key) = w
      BY <1>1, <1>2, <1>3, <1>6 DEF MakeKey, Joined
  <1>8. /\ IsSeq(w) /\ Len(w) = Len(r0) + Len(key) + Len(r1) + Len(o)
        /\ \A i \in 1..Len(r0) : w[i] = r0[i]
        /\ \A i \in 1..Len(key) : w[Len(r0) + i] = key[i]
        /\ \A i \in 1..Len(r1) : w[Len(r0) + Len(key) + i] = r1[i]
        /\ \A i \in 1..Len(o) : w[Len(r0) + Len(key) + Len(r1) + i] = o[i]
    <2>1. IsSeq(r0) /\ IsSeq(key) /\ IsSeq(r1) /\ IsSeq(o)
        BY <1>4, <1>5
    <2> QED BY ONLY <1>6, <2>1, FourParts
  <1>9. w[BlockLen] = k.offset
      BY <1>4, <1>5, <1>8
  <1>10. /\ Len(w) = BlockLen
         /\ \A i \in 1..KeyLen : w[Len(r0) + i] = key[i]
         /\ \A i \in 1..Len(r1) : w[Len(r0) + KeyLen + i] = r1[i]
      BY <1>4, <1>5, <1>8
  <1> QED BY <1>2, <1>3, <1>7, <1>8, <1>9, <1>10

(* The cells m to n of q are t. *)
LEMMA PartIs ==
    ASSUME NEW q, IsSeq(q), NEW t, IsSeq(t), NEW m \in Nat \ {0}, NEW n \in Nat,
           n = m + Len(t) - 1, n <= Len(q),
           \A i \in 1..Len(t) : q[m + i - 1] = t[i]
    PROVE  SubSeq(q, m, n) = t
  <1>1. PICK s : s = SubSeq(q, m, n)
      OBVIOUS
  <1>2. Len(t) \in Nat /\ Len(q) \in Nat
      BY SeqFacts
  <1>3. m <= n + 1 /\ n - m + 1 = Len(t)
      BY <1>2
  <1>4. /\ IsSeq(s) /\ Len(s) = n - m + 1
        /\ \A i \in 1..(n - m + 1) : s[i] = q[m + i - 1]
      BY <1>1, <1>3, SubSeqFacts
  <1>5. Len(s) = Len(t) /\ \A i \in 1..Len(s) : s[i] = t[i]
      BY <1>3, <1>4
  <1>6. s = t
      BY <1>4, <1>5, SameElements
  <1> QED BY <1>1, <1>6

(* ParseDigest takes a digest block apart as MakeDigest put it together. *)
LEMMA DigestRoundTrip ==
    ASSUME NEW d, DigestFits(d), NEW x
    PROVE  ParseDigest(MakeDigest(d, x))
               = [offset |-> d.offset, random0 |-> d.random0, digest |-> x,
                  random1 |-> d.random1]
  <1>1. PICK q : q = MakeDigest(d, x)
      OBVIOUS
  <1>2. PICK r0 : r0 = d.random0
      OBVIOUS
  <1>3. PICK r1 : r1 = d.random1
      OBVIOUS
  <1>4. /\ IsSeq(q) /\ Len(q) = BlockLen /\ q[1] = d.offset
        /\ \A i \in 1..Len(r0) : q[1 + i] = r0[i]
        /\ q[Len(r0) + 2] = x
        /\ \A i \in 1..Len(r1) : q[Len(r0) + 2 + i] = r1[i]
      BY <1>1, <1>2, <1>3, DigestCells
  <1>5. /\ IsSeq(r0) /\ IsSeq(r1) /\ Len(r0) \in Nat /\ Len(r1) \in Nat
        /\ 1 + Len(r0) + 1 + Len(r1) = BlockLen
      BY <1>2, <1>3, SeqFacts DEF DigestFits, OffsetLen, DigestLen
  <1>6. PICK off : off = Len(r0)
      OBVIOUS
  <1>7. CalcValidDigestOffset(q[1].n) = off
      BY <1>2, <1>4, <1>6 DEF DigestFits
  <1>8. SubSeq(q, 2, 1 + off) = r0
    <2>1. IsSeq(q) /\ IsSeq(r0) /\ 2 \in Nat \ {0} /\ 1 + off \in Nat
          /\ 1 + off = 2 + Len(r0) - 1 /\ 1 + off <= Len(q)
        BY <1>4, <1>5, <1>6
    <2>2. \A i \in 1..Len(r0) : q[2 + i - 1] = r0[i]
        BY <1>4, <1>5
    <2> QED BY <2>1, <2>2, PartIs
  <1>9. SubSeq(q, off + 3, BlockLen) = r1
    <2>1. IsSeq(q) /\ IsSeq(r1) /\ off + 3 \in Nat \ {0} /\ BlockLen \in Nat
          /\ BlockLen = (off + 3) + Len(r1) - 1 /\ BlockLen <= Len(q)
        BY <1>4, <1>5, <1>6
    <2>2. \A i \in 1..Len(r1) : q[(off + 3) + i - 1] = r1[i]
        BY <1>4, <1>5, <1>6
    <2> QED BY <2>1, <2>2, PartIs
  <1>10. 1 + off + 1 = off + 2 /\ 1 + off + 1 + 1 = off + 3 /\ 1 + 1 = 2
      BY <1>5, <1>6
  <1>11. q[1 + off + 1] = x
      BY <1>4, <1>6, <1>10
  <1> QED BY <1>1, <1>2, <1>3, <1>4, <1>7, <1>8, <1>9, <1>10, <1>11
          DEF ParseDigest, OffsetLen, DigestLen

(* ParseKey takes a key block apart as MakeKey put it together. *)
LEMMA KeyRoundTrip ==
    ASSUME NEW k, KeyFits(k), NEW key, IsSeq(key), Len(key) = KeyLen
    PROVE  ParseKey(MakeKey(k, key))
               = [offset |-> k.offset, random0 |-> k.random0, key |-> key,
                  random1 |-> k.random1]
  <1>1. PICK q : q = MakeKey(k, key)
      OBVIOUS
  <1>2. PICK r0 : r0 = k.random0
      OBVIOUS
  <1>3. PICK r1 : r1 = k.random1
      OBVIOUS
  <1>4. /\ IsSeq(q) /\ Len(q) = BlockLen /\ q[BlockLen] = k.offset
        /\ \A i \in 1..Len(r0) : q[i] = r0[i]
        /\ \A i \in 1..KeyLen : q[Len(r0) + i] = key[i]
        /\ \A i \in 1..Len(r1) : q[Len(r0) + KeyLen + i] = r1[i]
    <2>1. /\ IsSeq(MakeKey(k, key)) /\ Len(MakeKey(k, key)) = BlockLen
          /\ \A i \in 1..Len(k.random0) : MakeKey(k, key)[i] = k.random0[i]
          /\ \A i \in 1..KeyLen : MakeKey(k, key)[Len(k.random0) + i] = key[i]
          /\ \A i \in 1..Len(k.random1) :
                 MakeKey(k, key)[Len(k.random0) + KeyLen + i] = k.random1[i]
          /\ MakeKey(k, key)[BlockLen] = k.offset
        BY KeyCells
    <2> QED BY <1>1, <1>2, <1>3, <2>1
  <1>5. /\ IsSeq(r0) /\ IsSeq(r1) /\ Len(r0) \in Nat /\ Len(r1) \in Nat /\ KeyLen \in Nat
        /\ Len(r0) + KeyLen + Len(r1) + 1 = BlockLen
      BY <1>2, <1>3, SeqFacts, LayoutAssumption DEF KeyFits, OffsetLen
  <1>6. PICK off : off = Len(r0)
      OBVIOUS
  <1>7. CalcValidKeyOffset(q[BlockLen].n) = off
      BY <1>2, <1>4, <1>6 DEF KeyFits
  <1>8. SubSeq(q, 1, off) = r0
    <2>1. IsSeq(q) /\ IsSeq(r0) /\ 1 \in Nat \ {0} /\ off \in Nat
          /\ off = 1 + Len(r0) - 1 /\ off <= Len(q)
        BY <1>4, <1>5, <1>6
    <2>2. \A i \in 1..Len(r0) : q[1 + i - 1] = r0[i]
        BY <1>4, <1>5
    <2> QED BY <2>1, <2>2, PartIs
  <1>9. SubSeq(q, off + 1, off + KeyLen) = key
    <2>1. IsSeq(q) /\ off + 1 \in Nat \ {0} /\ off + KeyLen \in Nat
          /\ off + KeyLen = (off + 1) + Len(key) - 1 /\ off + KeyLen <= Len(q)
        BY <1>4, <1>5, <1>6
    <2>2. \A i \in 1..Len(key) : q[(off + 1) + i - 1] = key[i]
        BY <1>4, <1>5, <1>6
    <2> QED BY <2>1, <2>2, PartIs
  <1>10. SubSeq(q, off + KeyLen + 1, BlockLen - 1) = r1
    <2>1. IsSeq(q) /\ IsSeq(r1) /\ off + KeyLen + 1 \in Nat \ {0} /\ BlockLen - 1 \in Nat
          /\ BlockLen - 1 = (off + KeyLen + 1) + Len(r1) - 1 /\ BlockLen - 1 <= Len(q)
        BY <1>4, <1>5, <1>6
    <2>2. \A i \in 1..Len(r1) : q[(off + KeyLen + 1) + i - 1] = r1[i]
        BY <1>4, <1>5, <1>6
    <2> QED BY <2>1, <2>2, PartIs
  <1> QED BY <1>1, <1>2, <1>3, <1>4, <1>7, <1>8, <1>9, <1>10 DEF ParseKey, OffsetLen
------------------------------------------------------------------------------
(* A packet of a head and two blocks. *)
IsPacket(w, h, a, b) ==
    /\ IsSeq(h) /\ Len(h) = HeadLen
    /\ IsSeq(a) /\ Len(a) = BlockLen /\ IsSeq(b) /\ Len(b) = BlockLen
    /\ w = h \o (a \o b)

(* Where the head and the blocks of a packet are. *)
LEMMA Blocks ==
    ASSUME NEW h, NEW a, NEW b, NEW w, IsPacket(w, h, a, b)
    PROVE  /\ IsSeq(w) /\ Len(w) = C1Len
           /\ Block(w, 1) = a /\ Block(w, 2) = b
           /\ w[1] = h[1] /\ w[2] = h[2]
           /\ \A i \in 1..BlockLen : w[2 + i] = a[i] /\ w[2 + BlockLen + i] = b[i]
  <1>0. /\ IsSeq(h) /\ IsSeq(a) /\ IsSeq(b)
        /\ Len(h) = HeadLen /\ Len(a) = BlockLen /\ Len(b) = BlockLen
      BY DEF IsPacket
  <1>1. PICK m : IsConcat(m, a, b)
      BY DEF IsConcat
  <1>2. /\ IsSeq(m) /\ Len(m) = BlockLen + BlockLen
        /\ \A i \in 1..BlockLen : m[i] = a[i]
        /\ \A i \in 1..BlockLen : m[BlockLen + i] = b[i]
    <2>1. /\ IsSeq(m) /\ Len(m) = Len(a) + Len(b)
          /\ \A i \in 1..Len(a) : m[i] = a[i]
          /\ \A i \in 1..Len(b) : m[Len(a) + i] = b[i]
      <3>1. IsSeq(a) /\ IsSeq(b)
          BY <1>0
      <3> QED BY ONLY <1>1, <3>1, NamedConcat
    <2> QED BY <1>0, <2>1
  <1>3. PICK p : IsConcat(p, h, m)
      BY DEF IsConcat
  <1>4. /\ IsSeq(p) /\ Len(p) = 2 + Len(m)
        /\ \A i \in 1..2 : p[i] = h[i]
        /\ \A i \in 1..Len(m) : p[2 + i] = m[i]
    <2>1. IsSeq(m) /\ Len(h) = 2
        BY <1>0, <1>2 DEF HeadLen
    <2>2. /\ IsSeq(p) /\ Len(p) = Len(h) + Len(m)
          /\ \A i \in 1..Len(h) : p[i] = h[i]
          /\ \A i \in 1..Len(m) : p[Len(h) + i] = m[i]
        BY <1>0, <1>3, <2>1, NamedConcat
    <2> QED BY <2>1, <2>2
  <1>5. w = p
      BY <1>1, <1>3 DEF IsConcat, IsPacket
  <1>6. BlockLen \in Nat /\ C1Len = 2 + BlockLen + BlockLen
      BY LayoutAssumption DEF C1Len, HeadLen
  <1>7. Len(p) = C1Len /\ p[1] = h[1] /\ p[2] = h[2]
      BY <1>2, <1>4, <1>6
  <1>8. \A i \in 1..BlockLen : p[2 + i] = a[i] /\ p[2 + BlockLen + i] = b[i]
    <2> TAKE i \in 1..BlockLen
    <2>1. i \in 1..Len(m) /\ BlockLen + i \in 1..Len(m) /\ 2 + (BlockLen + i) = 2 + BlockLen + i
        BY <1>2, <1>6
    <2>2. p[2 + i] = m[i] /\ p[2 + (BlockLen + i)] = m[BlockLen + i]
        BY <1>4, <2>1
    <2> QED BY <1>2, <2>1, <2>2
  <1>9. Block(p, 1) = a
    <2>1. IsSeq(p) /\ IsSeq(a) /\ 3 \in Nat \ {0} /\ 2 + BlockLen \in Nat
          /\ 2 + BlockLen = 3 + Len(a) - 1 /\ 2 + BlockLen <= Len(p)
        BY <1>0, <1>4, <1>6, <1>7
    <2>2. \A i \in 1..Len(a) : p[3 + i - 1] = a[i]
        BY <1>0, <1>6, <1>8
    <2>3. SubSeq(p, 3, 2 + BlockLen) = a
        BY <2>1, <2>2, PartIs
    <2>4. HeadLen + (1 - 1) * BlockLen + 1 = 3 /\ HeadLen + 1 * BlockLen = 2 + BlockLen
        BY <1>6 DEF HeadLen
    <2> QED BY <2>3, <2>4 DEF Block
  <1>10. Block(p, 2) = b
    <2>1. IsSeq(p) /\ IsSeq(b) /\ BlockLen + 3 \in Nat \ {0} /\ 2 + BlockLen + BlockLen \in Nat
          /\ 2 + BlockLen + BlockLen = (BlockLen + 3) + Len(b) - 1
          /\ 2 + BlockLen + BlockLen <= Len(p)
        BY <1>0, <1>4, <1>6, <1>7
    <2>2. \A i \in 1..Len(b) : p[(BlockLen + 3) + i - 1] = b[i]
        BY <1>0, <1>6, <1>8
    <2>3. SubSeq(p, BlockLen + 3, 2 + BlockLen + BlockLen) = b
        BY <2>1, <2>2, PartIs
    <2>4. /\ HeadLen + (2 - 1) * BlockLen + 1 = BlockLen + 3
          /\ HeadLen + 2 * BlockLen = 2 + BlockLen + BlockLen
        BY <1>6 DEF HeadLen
    <2> QED BY <2>3, <2>4 DEF Block
  <1> QED BY <1>4, <1>5, <1>7, <1>8, <1>9, <1>10

(* w is a packet of this schema with the digest x and the key, around the   *)
(* offsets and random parts of d and k.                                     *)
Built(w, h, d, x, k, key, sch) ==
    /\ IsSeq(h) /\ Len(h) = HeadLen /\ DigestFits(d) /\ KeyFits(k)
    /\ IsSeq(key) /\ Len(key) = KeyLen /\ sch \in {"SCHEMA0", "SCHEMA1"}
    /\ w = h \o MakeSchema(d, x, k, key, sch)

(* TrySchema0 and TrySchema1 find the fields MakeC1 or MakeS1 put into a    *)
(* packet of their schema.                                                  *)
LEMMA PacketRoundTrip ==
    ASSUME NEW w, NEW h, NEW d, NEW x, NEW k, NEW key, NEW sch,
           Built(w, h, d, x, k, key, sch)
    PROVE  /\ IsSeq(w) /\ Len(w) = C1Len /\ w[1] = h[1] /\ w[2] = h[2]
           /\ DigestBlock(w, sch) = [offset |-> d.offset, random0 |-> d.random0,
                                         digest |-> x, random1 |-> d.random1]
           /\ KeyBlock(w, sch) = [offset |-> k.offset, random0 |-> k.random0,
                                      key |-> key, random1 |-> k.random1]
  <1>0. /\ IsSeq(h) /\ Len(h) = HeadLen /\ DigestFits(d) /\ KeyFits(k)
        /\ IsSeq(key) /\ Len(key) = KeyLen /\ sch \in {"SCHEMA0", "SCHEMA1"}
        /\ w = h \o MakeSchema(d, x, k, key, sch)
      BY DEF Built
  <1>1. PICK a : a = MakeDigest(d, x)
      OBVIOUS
  <1>2. PICK b : b = MakeKey(k, key)
      OBVIOUS
  <1>3. IsSeq(a) /\ Len(a) = BlockLen /\ IsSeq(b) /\ Len(b) = BlockLen
      BY <1>0, <1>1, <1>2, DigestCells, KeyCells
  <1>4. ParseDigest(a) = [offset |-> d.offset, random0 |-> d.random0,
                          digest |-> x, random1 |-> d.random1]
      BY <1>0, <1>1, DigestRoundTrip
  <1>5. ParseKey(b) = [offset |-> k.offset, random0 |-> k.random0,
                       key |-> key, random1 |-> k.random1]
      BY <1>0, <1>2, KeyRoundTrip
  <1>6. CASE sch = "SCHEMA1"
    <2>1. PICK v : IsPacket(v, h, a, b)
        BY <1>0, <1>3 DEF IsPacket
    <2>2. /\ IsSeq(v) /\ Len(v) = C1Len /\ v[1] = h[1] /\ v[2] = h[2]
          /\ Block(v, 1) = a /\ Block(v, 2) = b
        BY <2>1, Blocks
    <2>3. w = v
        BY <1>0, <1>1, <1>2, <1>6, <2>1 DEF MakeSchema, IsPacket
    <2> QED BY <2>3, <1>4, <1>5, <1>6, <2>2 DEF DigestBlock, KeyBlock
  <1>7. CASE sch = "SCHEMA0"
    <2>1. PICK v : IsPacket(v, h, b, a)
        BY <1>0, <1>3 DEF IsPacket
    <2>2. /\ IsSeq(v) /\ Len(v) = C1Len /\ v[1] = h[1] /\ v[2] = h[2]
          /\ Block(v, 1) = b /\ Block(v, 2) = a
        BY <2>1, Blocks
    <2>3. w = v
        BY <1>0, <1>1, <1>2, <1>7, <2>1 DEF MakeSchema, IsPacket
    <2> QED BY <2>3, <1>4, <1>5, <1>7, <2>2 DEF DigestBlock, KeyBlock
  <1> QED BY <1>0, <1>6, <1>7

(* A packet with one digest and the same packet with another agree outside  *)
(* the place FirstPartLen names.                                            *)
LEMMA SameButForDigest ==
    ASSUME NEW w, NEW u, NEW h, NEW d, NEW x, NEW y, NEW k, NEW key, NEW sch,
           Built(w, h, d, x, k, key, sch), Built(u, h, d, y, k, key, sch)
    PROVE  \A i \in 1..C1Len : i # FirstPartLen(d, sch) + 1 => w[i] = u[i]
  <1>0. /\ IsSeq(h) /\ Len(h) = HeadLen /\ DigestFits(d) /\ KeyFits(k)
        /\ IsSeq(key) /\ Len(key) = KeyLen /\ sch \in {"SCHEMA0", "SCHEMA1"}
        /\ w = h \o MakeSchema(d, x, k, key, sch)
        /\ u = h \o MakeSchema(d, y, k, key, sch)
      BY DEF Built
  <1>1. PICK a : a = MakeDigest(d, x)
      OBVIOUS
  <1>2. PICK e : e = MakeDigest(d, y)
      OBVIOUS
  <1>3. PICK b : b = MakeKey(k, key)
      OBVIOUS
  <1>4. /\ IsSeq(a) /\ Len(a) = BlockLen /\ IsSeq(e) /\ Len(e) = BlockLen
        /\ IsSeq(b) /\ Len(b) = BlockLen
      BY <1>0, <1>1, <1>2, <1>3, DigestCells, KeyCells
  <1>5. PICK n : n = Len(d.random0)
      OBVIOUS
  <1>5a. PICK m : m = Len(d.random1)
      OBVIOUS
  <1>6. n \in Nat /\ m \in Nat /\ 1 + n + 1 + m = BlockLen
      BY <1>0, <1>5, <1>5a, SeqFacts DEF DigestFits, OffsetLen, DigestLen
  <1>7. \A j \in 1..BlockLen : j # n + 2 => a[j] = e[j]
    <2>1. /\ a[1] = e[1]
          /\ \A i \in 1..n : a[1 + i] = e[1 + i]
          /\ \A i \in 1..m : a[n + 2 + i] = e[n + 2 + i]
        BY <1>0, <1>1, <1>2, <1>5, <1>5a, DigestCells
    <2> TAKE j \in 1..BlockLen
    <2>2. CASE j = 1
        BY <2>1, <2>2
    <2>3. CASE j > 1 /\ j < n + 2
      <3>1. j - 1 \in 1..n /\ 1 + (j - 1) = j
          BY <1>6, <2>3
      <3> QED BY <2>1, <3>1
    <2>4. CASE j > n + 2
      <3>1. j - (n + 2) \in 1..m /\ n + 2 + (j - (n + 2)) = j
          BY <1>6, <2>4
      <3> QED BY <2>1, <3>1
    <2> QED BY <1>6, <2>2, <2>3, <2>4
  <1>8. BlockLen \in Nat /\ C1Len = 2 + BlockLen + BlockLen
      BY LayoutAssumption DEF C1Len, HeadLen
  <1>9. CASE sch = "SCHEMA1"
    <2>1. IsPacket(w, h, a, b) /\ IsPacket(u, h, e, b)
        BY <1>0, <1>1, <1>2, <1>3, <1>4, <1>9 DEF MakeSchema, IsPacket
    <2>2. w[1] = h[1] /\ w[2] = h[2] /\ u[1] = h[1] /\ u[2] = h[2]
        BY <2>1, Blocks
    <2>3. \A i \in 1..BlockLen : w[2 + i] = a[i] /\ w[2 + BlockLen + i] = b[i]
        BY <2>1, Blocks
    <2>4. \A i \in 1..BlockLen : u[2 + i] = e[i] /\ u[2 + BlockLen + i] = b[i]
        BY <2>1, Blocks
    <2>5. FirstPartLen(d, sch) + 1 = n + 4
        BY <1>5, <1>6, <1>9 DEF FirstPartLen, HeadLen, OffsetLen
    <2> SUFFICES ASSUME NEW i \in 1..C1Len, i # n + 4
                 PROVE  w[i] = u[i]
        BY <2>5
    <2>6. CASE i \in 1..2
        BY <2>2, <2>6
    <2>7. CASE i > 2 /\ i <= 2 + BlockLen
      <3>1. i - 2 \in 1..BlockLen /\ 2 + (i - 2) = i /\ i - 2 # n + 2
          BY <1>6, <1>8, <2>7
      <3> QED BY <1>7, <2>3, <2>4, <3>1
    <2>8. CASE i > 2 + BlockLen
      <3>1. i - (2 + BlockLen) \in 1..BlockLen /\ 2 + BlockLen + (i - (2 + BlockLen)) = i
          BY <1>8, <2>8
      <3> QED BY <2>3, <2>4, <3>1
    <2> QED BY <1>8, <2>6, <2>7, <2>8
  <1>10. CASE sch = "SCHEMA0"
    <2>1. IsPacket(w, h, b, a) /\ IsPacket(u, h, b, e)
        BY <1>0, <1>1, <1>2, <1>3, <1>4, <1>10 DEF MakeSchema, IsPacket
    <2>2. w[1] = h[1] /\ w[2] = h[2] /\ u[1] = h[1] /\ u[2] = h[2]
        BY <2>1, Blocks
    <2>3. \A i \in 1..BlockLen : w[2 + i] = b[i] /\ w[2 + BlockLen + i] = a[i]
        BY <2>1, Blocks
    <2>4. \A i \in 1..BlockLen : u[2 + i] = b[i] /\ u[2 + BlockLen + i] = e[i]
        BY <2>1, Blocks
    <2>5. FirstPartLen(d, sch) + 1 = BlockLen + n + 4
      <3>1. FirstPartLen(d, sch) = 2 + BlockLen + 1 + n
          BY <1>5, <1>10 DEF FirstPartLen, HeadLen, OffsetLen
      <3> QED BY <1>6, <1>8, <3>1
    <2> SUFFICES ASSUME NEW i \in 1..C1Len, i # BlockLen + n + 4
                 PROVE  w[i] = u[i]
        BY <2>5
    <2>6. CASE i \in 1..2
        BY <2>2, <2>6
    <2>7. CASE i > 2 /\ i <= 2 + BlockLen
      <3>1. i - 2 \in 1..BlockLen /\ 2 + (i - 2) = i
          BY <1>8, <2>7
      <3> QED BY <2>3, <2>4, <3>1
    <2>8. CASE i > 2 + BlockLen
      <3>1. /\ i - (2 + BlockLen) \in 1..BlockLen /\ 2 + BlockLen + (i - (2 + BlockLen)) = i
            /\ i - (2 + BlockLen) # n + 2
          BY <1>6, <1>8, <2>8
      <3> QED BY <1>7, <2>3, <2>4, <3>1
    <2> QED BY <1>8, <2>6, <2>7, <2>8
  <1> QED BY <1>0, <1>9, <1>10

(* Packets that agree on the cells m to n have the same part there. *)
LEMMA SamePart ==
    ASSUME NEW w, NEW u, IsSeq(w), IsSeq(u), Len(w) = Len(u),
           NEW m \in Nat \ {0}, NEW n \in Nat, m <= n + 1, n <= Len(w),
           \A i \in m..n : w[i] = u[i]
    PROVE  SubSeq(w, m, n) = SubSeq(u, m, n)
  <1>1. PICK t : t = SubSeq(u, m, n)
      OBVIOUS
  <1>2. /\ IsSeq(t) /\ Len(t) = n - m + 1
        /\ \A i \in 1..(n - m + 1) : t[i] = u[m + i - 1]
      BY <1>1, SubSeqFacts
  <1>3. n = m + Len(t) - 1
      BY <1>2
  <1>4. \A i \in 1..Len(t) : w[m + i - 1] = t[i]
    <2> TAKE i \in 1..Len(t)
    <2>1. m + i - 1 \in m..n /\ i \in 1..(n - m + 1)
        BY <1>2
    <2> QED BY <1>2, <2>1
  <1>5. SubSeq(w, m, n) = t
      BY <1>2, <1>3, <1>4, PartIs
  <1> QED BY <1>1, <1>5

(* What a digest behind n cells is taken over. *)
LeftOut(w, n) == SubSeq(w, 1, n) \o SubSeq(w, n + DigestLen + 1, C1Len)

(* w and u differ in their digest, behind n cells. *)
Alike(w, u, n) ==
    \E h, d, x, y, k, key, sch :
        /\ Built(w, h, d, x, k, key, sch) /\ Built(u, h, d, y, k, key, sch)
        /\ n = FirstPartLen(d, sch)

(* What the digest is taken over does not depend on the digest. *)
LEMMA DigestLeftOut ==
    ASSUME NEW w, NEW u, NEW n, Alike(w, u, n)
    PROVE  LeftOut(w, n) = LeftOut(u, n)
  <1>0. PICK h, d, x, y, k, key, sch :
              /\ Built(w, h, d, x, k, key, sch) /\ Built(u, h, d, y, k, key, sch)
              /\ n = FirstPartLen(d, sch)
      BY DEF Alike
  <1>1. IsSeq(w) /\ Len(w) = C1Len
      BY <1>0, PacketRoundTrip
  <1>2. IsSeq(u) /\ Len(u) = C1Len
      BY <1>0, PacketRoundTrip
  <1>3. \A i \in 1..C1Len : i # n + 1 => w[i] = u[i]
      BY <1>0, SameButForDigest
  <1>4. C1Len \in Nat /\ n \in Nat /\ n + 1 <= C1Len
    <2>1. PICK l : l = Len(d.random0)
        OBVIOUS
    <2>2. PICK m : m = Len(d.random1)
        OBVIOUS
    <2>3. l \in Nat /\ m \in Nat /\ 1 + l + 1 + m = BlockLen
        BY <1>0, <2>1, <2>2, SeqFacts DEF Built, DigestFits, OffsetLen, DigestLen
    <2>4. BlockLen \in Nat /\ C1Len = 2 + BlockLen + BlockLen
        BY LayoutAssumption DEF C1Len, HeadLen
    <2>5. n = 2 + BlockLen + 1 + l \/ n = 2 + 0 + 1 + l
        BY <1>0, <2>1 DEF FirstPartLen, HeadLen, OffsetLen
    <2> QED BY <2>3, <2>4, <2>5
  <1>5. SubSeq(w, 1, n) = SubSeq(u, 1, n)
    <2>1. 1 \in Nat \ {0} /\ 1 <= n + 1 /\ n <= Len(w) /\ Len(w) = Len(u)
        BY <1>1, <1>2, <1>4
    <2>2. \A i \in 1..n : w[i] = u[i]
        BY <1>3, <1>4
    <2> QED BY <1>1, <1>2, <1>4, <2>1, <2>2, SamePart
  <1>6. SubSeq(w, n + 2, C1Len) = SubSeq(u, n + 2, C1Len)
    <2>1. n + 2 \in Nat \ {0} /\ n + 2 <= C1Len + 1 /\ C1Len <= Len(w) /\ Len(w) = Len(u)
        BY <1>1, <1>2, <1>4
    <2>2. \A i \in (n + 2)..C1Len : w[i] = u[i]
        BY <1>3, <1>4
    <2> QED BY <1>1, <1>2, <1>4, <2>1, <2>2, SamePart
  <1>7. n + DigestLen + 1 = n + 2
      BY <1>4 DEF DigestLen
  <1> QED BY <1>5, <1>6, <1>7 DEF LeftOut
------------------------------------------------------------------------------
(* The random parts the client draws. *)
LEMMA RandomFacts ==
    ASSUME NEW name, NEW n \in Nat, NEW r, r = Random(name, n)
    PROVE  /\ IsSeq(r) /\ Len(r) = n
           /\ \A i \in 1..n : r[i] = Cell(1, <<name, i>>)
  <1>1. r = [i \in 1..n |-> Cell(1, <<name, i>>)]
      BY DEF Random
  <1>2. r = [i \in 1..n |-> r[i]]
      BY <1>1
  <1>3. IsSeq(r) /\ Len(r) = n
      BY <1>2, FunctionIsSeq
  <1> QED BY <1>1, <1>3

(* PrepareDigest and PrepareKey draw parts that fit their blocks. *)
LEMMA PreparedFits ==
    ASSUME NEW ds \in Nat, NEW ks \in Nat
    PROVE  /\ DigestFits(PrepareDigest(ds)) /\ KeyFits(PrepareKey(ks))
           /\ IsSeq(PrepareKey(ks).key) /\ Len(PrepareKey(ks).key) = KeyLen
  <1>1. PICK do : do = CalcValidDigestOffset(ds)
      OBVIOUS
  <1>2. PICK ko : ko = CalcValidKeyOffset(ks)
      OBVIOUS
  <1>3. do \in Nat /\ 1 + do + 1 < BlockLen /\ ko \in Nat /\ ko + KeyLen + 1 < BlockLen
      BY <1>1, <1>2, OffsetsInBlock DEF OffsetLen, DigestLen
  <1>4. PICK d0 : d0 = Random("d0", do)
      OBVIOUS
  <1>5. PICK d1 : d1 = Random("d1", BlockLen - DigestLen - OffsetLen - do)
      OBVIOUS
  <1>6. PICK k0 : k0 = Random("k0", ko)
      OBVIOUS
  <1>7. PICK k1 : k1 = Random("k1", BlockLen - KeyLen - OffsetLen - ko)
      OBVIOUS
  <1>8. PICK key : key = Random("key", KeyLen)
      OBVIOUS
  <1>9. /\ BlockLen - DigestLen - OffsetLen - do \in Nat
        /\ BlockLen - KeyLen - OffsetLen - ko \in Nat
        /\ BlockLen \in Nat /\ KeyLen \in Nat
      BY <1>3, LayoutAssumption DEF DigestLen, OffsetLen
  <1>10. IsSeq(d0) /\ Len(d0) = do
      BY <1>3, <1>4, RandomFacts
  <1>11. IsSeq(d1) /\ Len(d1) = BlockLen - DigestLen - OffsetLen - do
      BY <1>5, <1>9, RandomFacts
  <1>12. IsSeq(k0) /\ Len(k0) = ko
      BY <1>3, <1>6, RandomFacts
  <1>13. IsSeq(k1) /\ Len(k1) = BlockLen - KeyLen - OffsetLen - ko
      BY <1>7, <1>9, RandomFacts
  <1>14. IsSeq(key) /\ Len(key) = KeyLen
      BY <1>8, <1>9, RandomFacts
  <1>15. /\ OffsetLen + Len(d0) + DigestLen + Len(d1) = BlockLen
         /\ Len(k0) + KeyLen + Len(k1) + OffsetLen = BlockLen
      BY <1>3, <1>9, <1>10, <1>11, <1>12, <1>13 DEF DigestLen, OffsetLen
  <1>16. /\ PrepareDigest(ds).random0 = d0 /\ PrepareDigest(ds).random1 = d1
         /\ PrepareDigest(ds).offset.n = ds
      BY <1>1, <1>4, <1>5 DEF PrepareDigest, Cell
  <1>17. /\ PrepareKey(ks).random0 = k0 /\ PrepareKey(ks).random1 = k1
         /\ PrepareKey(ks).key = key /\ PrepareKey(ks).offset.n = ks
      BY <1>2, <1>6, <1>7, <1>8 DEF PrepareKey, Cell
  <1>18. DigestFits(PrepareDigest(ds))
      BY <1>1, <1>10, <1>11, <1>15, <1>16 DEF DigestFits
  <1>19. KeyFits(PrepareKey(ks))
      BY <1>2, <1>12, <1>13, <1>15, <1>17 DEF KeyFits
  <1> QED BY <1>14, <1>17, <1>18, <1>19

(* No cell of a prepared key block is a digest, and each reads as a number. *)
LEMMA KeyBlockHasNoDigest ==
    ASSUME NEW ks \in Nat, NEW b, b = MakeKey(PrepareKey(ks), PrepareKey(ks).key)
    PROVE  /\ IsSeq(b) /\ Len(b) = BlockLen
           /\ \A j \in 1..BlockLen : b[j].n \in Nat /\ b[j].v[1] # "hmac"
  <1>1. PICK k : k = PrepareKey(ks)
      OBVIOUS
  <1>2. KeyFits(k) /\ IsSeq(k.key) /\ Len(k.key) = KeyLen
    <2>1. 0 \in Nat
        OBVIOUS
    <2> QED BY <1>1, <2>1, PreparedFits
  <1>3. PICK ko : ko = CalcValidKeyOffset(ks)
      OBVIOUS
  <1>4. ko \in Nat /\ ko + KeyLen + 1 < BlockLen
      BY <1>3, OffsetsInBlock DEF OffsetLen
  <1>5. PICK m : m = BlockLen - KeyLen - OffsetLen - ko
      OBVIOUS
  <1>6. m \in Nat /\ ko + KeyLen + m + 1 = BlockLen /\ BlockLen \in Nat /\ KeyLen \in Nat
      BY <1>4, <1>5, LayoutAssumption DEF OffsetLen
  <1>7. /\ k.random0 = Random("k0", ko) /\ k.key = Random("key", KeyLen)
        /\ k.random1 = Random("k1", m) /\ k.offset = Cell(ks, <<"offset">>)
      BY <1>1, <1>3, <1>5 DEF PrepareKey
  <1>8. Len(k.random0) = ko /\ \A i \in 1..ko : k.random0[i] = Cell(1, <<"k0", i>>)
      BY <1>4, <1>7, RandomFacts
  <1>9. \A i \in 1..KeyLen : k.key[i] = Cell(1, <<"key", i>>)
      BY <1>6, <1>7, RandomFacts
  <1>10. Len(k.random1) = m /\ \A i \in 1..m : k.random1[i] = Cell(1, <<"k1", i>>)
      BY <1>6, <1>7, RandomFacts
  <1>11. /\ IsSeq(b) /\ Len(b) = BlockLen
         /\ \A i \in 1..ko : b[i] = k.random0[i]
         /\ \A i \in 1..KeyLen : b[ko + i] = k.key[i]
         /\ \A i \in 1..m : b[ko + KeyLen + i] = k.random1[i]
         /\ b[BlockLen] = k.offset
    <2>1. PICK key : key = k.key
        OBVIOUS
    <2>2. IsSeq(key) /\ Len(key) = KeyLen
        BY <1>2, <2>1
    <2>3. /\ IsSeq(MakeKey(k, key)) /\ Len(MakeKey(k, key)) = BlockLen
          /\ \A i \in 1..Len(k.random0) : MakeKey(k, key)[i] = k.random0[i]
          /\ \A i \in 1..KeyLen : MakeKey(k, key)[Len(k.random0) + i] = key[i]
          /\ \A i \in 1..Len(k.random1) :
                 MakeKey(k, key)[Len(k.random0) + KeyLen + i] = k.random1[i]
          /\ MakeKey(k, key)[BlockLen] = k.offset
        BY <1>2, <2>2, KeyCells
    <2>4. b = MakeKey(k, key)
        BY <1>1, <2>1
    <2> QED BY <1>8, <1>10, <2>1, <2>3, <2>4
  <1> SUFFICES ASSUME NEW j \in 1..BlockLen
               PROVE  b[j].n \in Nat /\ b[j].v[1] # "hmac"
      BY <1>11
  <1>12. CASE j <= ko
    <2>1. b[j] = Cell(1, <<"k0", j>>)
        BY <1>4, <1>8, <1>11, <1>12
    <2> QED BY <2>1 DEF Cell
  <1>13. CASE j > ko /\ j <= ko + KeyLen
    <2>1. j - ko \in 1..KeyLen /\ ko + (j - ko) = j
        BY <1>4, <1>6, <1>13
    <2>2. b[j] = Cell(1, <<"key", j - ko>>)
        BY <1>9, <1>11, <2>1
    <2> QED BY <2>2 DEF Cell
  <1>14. CASE j > ko + KeyLen /\ j <= ko + KeyLen + m
    <2>1. j - (ko + KeyLen) \in 1..m /\ ko + KeyLen + (j - (ko + KeyLen)) = j
        BY <1>4, <1>6, <1>14
    <2>2. b[j] = Cell(1, <<"k1", j - (ko + KeyLen)>>)
        BY <1>10, <1>11, <2>1
    <2> QED BY <2>2 DEF Cell
  <1>15. CASE j = BlockLen
    <2>1. b[j] = Cell(ks, <<"offset">>)
        BY <1>7, <1>11, <1>15
    <2> QED BY <2>1 DEF Cell
  <1> QED BY <1>4, <1>6, <1>12, <1>13, <1>14, <1>15

(* c is the C1 a client makes with this head and these offsets. *)
IsC1(c, h, ds, ks, sch) ==
    /\ IsSeq(h) /\ Len(h) = HeadLen /\ ds \in Nat /\ ks \in Nat
    /\ sch \in {"SCHEMA0", "SCHEMA1"}
    /\ c = MakeC1(h, PrepareDigest(ds), PrepareKey(ks), sch)

(* A client's C1 is built around its own digest. *)
LEMMA MadeC1 ==
    ASSUME NEW c, NEW h, NEW ds, NEW ks, NEW sch, IsC1(c, h, ds, ks, sch)
    PROVE  \E x : /\ Built(c, h, PrepareDigest(ds), x, PrepareKey(ks),
                            PrepareKey(ks).key, sch)
                  /\ x = Hmac("player30", LeftOut(c, FirstPartLen(PrepareDigest(ds), sch)))
  <1>1. PICK d : d = PrepareDigest(ds)
      OBVIOUS
  <1>2. PICK k : k = PrepareKey(ks)
      OBVIOUS
  <1>3. DigestFits(d) /\ KeyFits(k) /\ IsSeq(k.key) /\ Len(k.key) = KeyLen
      BY <1>1, <1>2, PreparedFits DEF IsC1
  <1>4. PICK y : y = Cell(0, <<"blank">>)
      OBVIOUS
  <1>5. PICK u : u = h \o MakeSchema(d, y, k, k.key, sch)
      OBVIOUS
  <1>6. PICK n : n = FirstPartLen(d, sch)
      OBVIOUS
  <1>7. PICK x : x = Hmac("player30", LeftOut(u, n))
      OBVIOUS
  <1>8. c = h \o MakeSchema(d, x, k, k.key, sch)
      BY <1>1, <1>2, <1>4, <1>5, <1>6, <1>7 DEF MakeC1, LeftOut, IsC1
  <1>9. Built(c, h, d, x, k, k.key, sch)
      BY <1>3, <1>8 DEF Built, IsC1
  <1>10. Built(u, h, d, y, k, k.key, sch)
      BY <1>3, <1>5 DEF Built, IsC1
  <1>11. LeftOut(c, n) = LeftOut(u, n)
    <2>1. Alike(c, u, n)
        BY <1>6, <1>9, <1>10 DEF Alike
    <2> QED BY <2>1, DigestLeftOut
  <1>12. x = Hmac("player30", LeftOut(c, n))
      BY <1>7, <1>11
  <1> QED BY <1>1, <1>2, <1>6, <1>9, <1>12

(* ParseC1 recognises the C1 of a client of either schema, wherever its     *)
(* offsets put the digest and the key, and finds in it what the client put  *)
(* there.  SCHEMA1 is tried first, and no C1 of SCHEMA0 passes its test.    *)
THEOREM C1Recognised ==
    ASSUME NEW c, NEW h, NEW ds, NEW ks, NEW sch, IsC1(c, h, ds, ks, sch)
    PROVE  /\ IsSeq(c) /\ Len(c) = C1Len
           /\ ParseC1(c).schema = sch /\ ParseC1(c).simple = FALSE
           /\ KeyBlock(c, sch) = PrepareKey(ks)
           /\ DigestFits(DigestBlock(c, sch))
  <1>1. PICK d : d = PrepareDigest(ds)
      OBVIOUS
  <1>2. PICK k : k = PrepareKey(ks)
      OBVIOUS
  <1>3. PICK n : n = FirstPartLen(d, sch)
      OBVIOUS
  <1>4. PICK x : /\ Built(c, h, d, x, k, k.key, sch)
                 /\ x = Hmac("player30", LeftOut(c, n))
      BY <1>1, <1>2, <1>3, MadeC1
  <1>5. /\ IsSeq(c) /\ Len(c) = C1Len
        /\ DigestBlock(c, sch) = [offset |-> d.offset, random0 |-> d.random0,
                                      digest |-> x, random1 |-> d.random1]
        /\ KeyBlock(c, sch) = [offset |-> k.offset, random0 |-> k.random0,
                                   key |-> k.key, random1 |-> k.random1]
      BY <1>4, PacketRoundTrip
  <1>6. FirstPartLen(DigestBlock(c, sch), sch) = n
      BY <1>3, <1>5 DEF FirstPartLen
  <1>7. CheckDigestValid(c, sch)
      BY <1>4, <1>5, <1>6 DEF CheckDigestValid, LeftOut
  <1>8. sch = "SCHEMA0" => ~CheckDigestValid(c, "SCHEMA1")
    <2> SUFFICES ASSUME sch = "SCHEMA0"
                 PROVE  ~CheckDigestValid(c, "SCHEMA1")
        OBVIOUS
    <2>1. PICK a : a = MakeDigest(d, x)
        OBVIOUS
    <2>2. PICK b : b = MakeKey(k, k.key)
        OBVIOUS
    <2>3. DigestFits(d) /\ IsSeq(a) /\ Len(a) = BlockLen
        BY <1>4, <2>1, DigestCells DEF Built
    <2>4. /\ IsSeq(b) /\ Len(b) = BlockLen
          /\ \A j \in 1..BlockLen : b[j].n \in Nat /\ b[j].v[1] # "hmac"
        BY <1>2, <2>2, KeyBlockHasNoDigest DEF IsC1
    <2>5. IsPacket(c, h, b, a)
        BY <1>4, <2>1, <2>2, <2>3, <2>4 DEF IsPacket, Built, MakeSchema
    <2>6. Block(c, 1) = b
        BY <2>5, Blocks
    <2>7. PICK off : off = CalcValidDigestOffset(b[1].n)
        OBVIOUS
    <2>8. b[1].n \in Nat
        BY <2>4, LayoutAssumption
    <2>9. off \in Nat /\ 1 + off + 1 < BlockLen
        BY <2>7, <2>8, OffsetsInBlock DEF OffsetLen, DigestLen
    <2>10. 1 + off + 1 \in 1..BlockLen
        BY <2>9, LayoutAssumption
    <2>11. DigestBlock(c, "SCHEMA1").digest = b[1 + off + 1]
        BY <2>6, <2>7 DEF DigestBlock, ParseDigest, OffsetLen
    <2>12. DigestBlock(c, "SCHEMA1").digest.v[1] # "hmac"
        BY <2>4, <2>10, <2>11
    <2>13. \A e : Hmac("player30", e).v[1] = "hmac"
        BY DEF Hmac, Cell
    <2> QED BY <2>12, <2>13 DEF CheckDigestValid
  <1>9. ParseC1(c).schema = sch /\ ParseC1(c).simple = FALSE
      BY <1>7, <1>8 DEF ParseC1, IsC1
  <1>10. KeyBlock(c, sch) = PrepareKey(ks)
      BY <1>2, <1>5 DEF PrepareKey
  <1>11. DigestFits(DigestBlock(c, sch))
      BY <1>4, <1>5 DEF Built, DigestFits
  <1> QED BY <1>5, <1>9, <1>10, <1>11

(* The server's key and its place. *)
LEMMA SharedKeyFacts ==
    ASSUME NEW key, NEW s, s = SharedKey(key)
    PROVE  IsSeq(s) /\ Len(s) = KeyLen
  <1>1. s = [i \in 1..KeyLen |-> s[i]]
      BY DEF SharedKey
  <1> QED BY <1>1, FunctionIsSeq, LayoutAssumption

(* MakeS1 and MakeS2 fit the client: at the places the client's offsets     *)
(* name, S1 has the key computed from the client's key and the server's     *)
(* digest over what the client sent, and S2 is made from C1's digest.       *)
THEOREM AnswerFits ==
    ASSUME NEW c, NEW h, NEW ds, NEW ks, NEW sch, IsC1(c, h, ds, ks, sch)
    PROVE  /\ KeyBlock(MakeS1(ParseC1(c)), sch).key = SharedKey(Random("key", KeyLen))
           /\ DigestBlock(MakeS1(ParseC1(c)), sch).digest
                = MakeS1Digest([time |-> c[1], d |-> DigestBlock(c, sch),
                                k |-> KeyBlock(c, sch)])
           /\ MakeS2(ParseC1(c)) = Hmac(Hmac("player68", <<DigestBlock(c, sch).digest>>),
                                        <<Cell(1, <<"random">>)>>)
  <1>1. PICK p : p = ParseC1(c)
      OBVIOUS
  <1>2. /\ p.schema = sch /\ p.k = PrepareKey(ks) /\ DigestFits(p.d)
        /\ p.time = c[1] /\ p.d = DigestBlock(c, sch) /\ p.k = KeyBlock(c, sch)
    <2>1. /\ ParseC1(c).schema = sch
          /\ KeyBlock(c, sch) = PrepareKey(ks) /\ DigestFits(DigestBlock(c, sch))
      <3>1. KeyBlock(c, sch) = PrepareKey(ks)
          BY C1Recognised
      <3>2. DigestFits(DigestBlock(c, sch))
          BY C1Recognised
      <3>3. ParseC1(c).schema = sch
          BY C1Recognised
      <3> QED BY <3>1, <3>2, <3>3
    <2>2. /\ ParseC1(c).time = c[1]
          /\ ParseC1(c).d = DigestBlock(c, ParseC1(c).schema)
          /\ ParseC1(c).k = KeyBlock(c, ParseC1(c).schema)
        BY DEF ParseC1
    <2> QED BY <1>1, <2>1, <2>2
  <1>3. KeyFits(p.k) /\ p.k.key = Random("key", KeyLen)
    <2>1. KeyFits(PrepareKey(ks))
        BY PreparedFits DEF IsC1
    <2>2. PrepareKey(ks).key = Random("key", KeyLen)
        BY DEF PrepareKey
    <2> QED BY <1>2, <2>1, <2>2
  <1>4. PICK s : s = SharedKey(p.k.key)
      OBVIOUS
  <1>5. IsSeq(s) /\ Len(s) = KeyLen
      BY <1>4, SharedKeyFacts
  <1>6. PICK t : t = <<p.time, Cell(1, <<"version">>)>>
      OBVIOUS
  <1>7. IsSeq(t) /\ Len(t) = HeadLen
    <2>1. t \in Seq({p.time, Cell(1, <<"version">>)}) /\ Len(t) = 2
        BY <1>6
    <2> QED BY <2>1, SeqIsSeq DEF HeadLen
  <1>8. PICK x : x = MakeS1Digest(p)
      OBVIOUS
  <1>9. PICK w : w = t \o MakeSchema(p.d, x, p.k, s, sch)
      OBVIOUS
  <1>10. MakeS1(p) = w
      BY <1>2, <1>4, <1>6, <1>8, <1>9 DEF MakeS1
  <1>11. Built(w, t, p.d, x, p.k, s, sch)
      BY <1>2, <1>3, <1>5, <1>7, <1>9 DEF Built, IsC1
  <1>12. /\ DigestBlock(w, sch) = [offset |-> p.d.offset, random0 |-> p.d.random0,
                                       digest |-> x, random1 |-> p.d.random1]
         /\ KeyBlock(w, sch) = [offset |-> p.k.offset, random0 |-> p.k.random0,
                                    key |-> s, random1 |-> p.k.random1]
      BY <1>11, PacketRoundTrip
  <1>13. KeyBlock(w, sch).key = SharedKey(Random("key", KeyLen))
      BY <1>3, <1>4, <1>12
  <1>14. x = MakeS1Digest([time |-> c[1], d |-> DigestBlock(c, sch),
                           k |-> KeyBlock(c, sch)])
      BY <1>2, <1>8 DEF MakeS1Digest
  <1>15. MakeS2(p) = Hmac(Hmac("player68", <<DigestBlock(c, sch).digest>>),
                          <<Cell(1, <<"random">>)>>)
      BY <1>2 DEF MakeS2
  <1>16. DigestBlock(w, sch).digest = x
      BY <1>12
  <1> QED BY <1>1, <1>10, <1>13, <1>14, <1>15, <1>16

(* However a packet's offsets lie, ParseDigest and ParseKey cut its blocks  *)
(* into parts that fill them (the assertions of ParseDigest and ParseKey).  *)
LEMMA PartsFillBlocks ==
    ASSUME NEW c, IsSeq(c), Len(c) = C1Len, \A i \in 1..C1Len : c[i].n \in Nat,
           NEW sch
    PROVE  /\ OffsetLen + Len(DigestBlock(c, sch).random0) + DigestLen
                + Len(DigestBlock(c, sch).random1) = BlockLen
           /\ Len(KeyBlock(c, sch).random0) + Len(KeyBlock(c, sch).key)
                + Len(KeyBlock(c, sch).random1) + OffsetLen = BlockLen
  <1>1. /\ BlockLen \in Nat /\ KeyLen \in Nat /\ BlockLen > KeyLen + 1 /\ BlockLen > 2
        /\ C1Len = 2 + BlockLen + BlockLen
      BY LayoutAssumption DEF C1Len, HeadLen
  <1>2. \A i \in {1, 2} : /\ IsSeq(Block(c, i)) /\ Len(Block(c, i)) = BlockLen
                         /\ \A j \in 1..BlockLen : Block(c, i)[j].n \in Nat
    <2>1. \A m \in {3, BlockLen + 3} :
             LET b == SubSeq(c, m, m + BlockLen - 1)
             IN  IsSeq(b) /\ Len(b) = BlockLen /\ \A j \in 1..BlockLen : b[j].n \in Nat
      <3> SUFFICES ASSUME NEW m \in {3, BlockLen + 3}, NEW n, n = m + BlockLen - 1,
                          NEW b, b = SubSeq(c, m, n)
                   PROVE  IsSeq(b) /\ Len(b) = BlockLen /\ \A j \in 1..BlockLen : b[j].n \in Nat
          BY <1>1
      <3>1. m \in Nat \ {0} /\ n \in Nat /\ m <= n + 1 /\ n <= Len(c) /\ n - m + 1 = BlockLen
          BY <1>1
      <3>2. /\ IsSeq(b) /\ Len(b) = n - m + 1
            /\ \A i \in 1..(n - m + 1) : b[i] = c[m + i - 1]
        <4>1. /\ IsSeq(SubSeq(c, m, n)) /\ Len(SubSeq(c, m, n)) = n - m + 1
              /\ \A i \in 1..(n - m + 1) : SubSeq(c, m, n)[i] = c[m + i - 1]
            BY <3>1, SubSeqFacts
        <4> QED BY <4>1
      <3>3. \A j \in 1..BlockLen : m + j - 1 \in 1..C1Len
          BY <1>1
      <3> QED BY <3>1, <3>2, <3>3
    <2>2. Block(c, 1) = SubSeq(c, 3, 3 + BlockLen - 1)
      <3>1. HeadLen + (1 - 1) * BlockLen + 1 = 3 /\ HeadLen + 1 * BlockLen = 3 + BlockLen - 1
          BY <1>1 DEF HeadLen
      <3> QED BY <3>1 DEF Block
    <2>3. Block(c, 2) = SubSeq(c, BlockLen + 3, BlockLen + 3 + BlockLen - 1)
      <3>1. /\ HeadLen + (2 - 1) * BlockLen + 1 = BlockLen + 3
            /\ HeadLen + 2 * BlockLen = BlockLen + 3 + BlockLen - 1
          BY <1>1 DEF HeadLen
      <3> QED BY <3>1 DEF Block
    <2> QED BY <2>1, <2>2, <2>3
  <1>3. ASSUME NEW b, IsSeq(b), Len(b) = BlockLen, \A j \in 1..BlockLen : b[j].n \in Nat
        PROVE  /\ OffsetLen + Len(ParseDigest(b).random0) + DigestLen
                    + Len(ParseDigest(b).random1) = BlockLen
               /\ Len(ParseKey(b).random0) + Len(ParseKey(b).key)
                    + Len(ParseKey(b).random1) + OffsetLen = BlockLen
    <2>1. b[1].n \in Nat /\ b[BlockLen].n \in Nat
        BY <1>1, <1>3
    <2>2. PICK do : do = CalcValidDigestOffset(b[1].n)
        OBVIOUS
    <2>3. PICK ko : ko = CalcValidKeyOffset(b[BlockLen].n)
        OBVIOUS
    <2>4. do \in Nat /\ 1 + do + 1 < BlockLen
        BY <2>1, <2>2, OffsetsInBlock DEF OffsetLen, DigestLen
    <2>5. ko \in Nat /\ ko + KeyLen + 1 < BlockLen
        BY <2>1, <2>3, OffsetsInBlock DEF OffsetLen, DigestLen
    <2>6. Len(SubSeq(b, 1 + 1, 1 + do)) = (1 + do) - (1 + 1) + 1
        BY <1>1, <1>3, <2>4, SubSeqFacts
    <2>7. Len(SubSeq(b, 1 + do + 1 + 1, BlockLen)) = BlockLen - (1 + do + 1 + 1) + 1
        BY <1>1, <1>3, <2>4, SubSeqFacts
    <2>8. Len(SubSeq(b, 1, ko)) = ko - 1 + 1
        BY <1>1, <1>3, <2>5, SubSeqFacts
    <2>9. Len(SubSeq(b, ko + 1, ko + KeyLen)) = ko + KeyLen - (ko + 1) + 1
        BY <1>1, <1>3, <2>5, SubSeqFacts
    <2>10. Len(SubSeq(b, ko + KeyLen + 1, BlockLen - 1)) = BlockLen - 1 - (ko + KeyLen + 1) + 1
        BY <1>1, <1>3, <2>5, SubSeqFacts
    <2>11. /\ ParseDigest(b).random0 = SubSeq(b, 1 + 1, 1 + do)
           /\ ParseDigest(b).random1 = SubSeq(b, 1 + do + 1 + 1, BlockLen)
        BY <2>2 DEF ParseDigest, OffsetLen, DigestLen
    <2>12. /\ ParseKey(b).random0 = SubSeq(b, 1, ko)
           /\ ParseKey(b).key = SubSeq(b, ko + 1, ko + KeyLen)
           /\ ParseKey(b).random1 = SubSeq(b, ko + KeyLen + 1, BlockLen - 1)
        BY <2>3 DEF ParseKey, OffsetLen
    <2>13. 1 + Len(ParseDigest(b).random0) + 1 + Len(ParseDigest(b).random1) = BlockLen
        BY <1>1, <2>4, <2>6, <2>7, <2>11
    <2>14. Len(ParseKey(b).random0) + Len(ParseKey(b).key)
              + Len(ParseKey(b).random1) + 1 = BlockLen
        BY <1>1, <2>5, <2>8, <2>9, <2>10, <2>12
    <2> QED BY <2>13, <2>14 DEF OffsetLen, DigestLen
  <1>4. CASE sch = "SCHEMA1"
    <2>1. DigestBlock(c, sch) = ParseDigest(Block(c, 1))
          /\ KeyBlock(c, sch) = ParseKey(Block(c, 2))
        BY <1>4 DEF DigestBlock, KeyBlock
    <2> QED BY <1>2, <1>3, <2>1
  <1>5. CASE sch # "SCHEMA1"
    <2>1. DigestBlock(c, sch) = ParseDigest(Block(c, 2))
          /\ KeyBlock(c, sch) = ParseKey(Block(c, 1))
        BY <1>5 DEF DigestBlock, KeyBlock
    <2> QED BY <1>2, <1>3, <2>1
  <1> QED BY <1>4, <1>5

(* Every cell of a client's C1 reads as a number. *)
LEMMA C1Numbers ==
    ASSUME NEW c, NEW h, NEW ds, NEW ks, NEW sch, IsC1(c, h, ds, ks, sch),
           h[1].n \in Nat, h[2].n \in Nat
    PROVE  \A i \in 1..C1Len : c[i].n \in Nat
  <1>1. PICK d : d = PrepareDigest(ds)
      OBVIOUS
  <1>2. PICK k : k = PrepareKey(ks)
      OBVIOUS
  <1>3. PICK x : /\ Built(c, h, d, x, k, k.key, sch)
                 /\ x = Hmac("player30", LeftOut(c, FirstPartLen(d, sch)))
      BY <1>1, <1>2, MadeC1
  <1>4. x.n = 1 /\ ds \in Nat /\ ks \in Nat /\ sch \in {"SCHEMA0", "SCHEMA1"}
      BY <1>3 DEF Hmac, Cell, IsC1
  <1>5. PICK a : a = MakeDigest(d, x)
      OBVIOUS
  <1>6. PICK b : b = MakeKey(k, k.key)
      OBVIOUS
  <1>7. /\ BlockLen \in Nat /\ C1Len = 2 + BlockLen + BlockLen
      BY LayoutAssumption DEF C1Len, HeadLen
  <1>8. /\ IsSeq(b) /\ Len(b) = BlockLen /\ \A j \in 1..BlockLen : b[j].n \in Nat
      BY <1>2, <1>4, <1>6, KeyBlockHasNoDigest
  <1>9. IsSeq(a) /\ Len(a) = BlockLen /\ \A j \in 1..BlockLen : a[j].n \in Nat
    <2>1. PICK do : do = CalcValidDigestOffset(ds)
        OBVIOUS
    <2>2. do \in Nat /\ 1 + do + 1 < BlockLen
        BY <1>4, <2>1, OffsetsInBlock DEF OffsetLen, DigestLen
    <2>3. PICK m : m = BlockLen - DigestLen - OffsetLen - do
        OBVIOUS
    <2>4. m \in Nat /\ 2 + do + m = BlockLen
        BY <1>7, <2>2, <2>3 DEF OffsetLen, DigestLen
    <2>5. d.random0 = Random("d0", do) /\ d.random1 = Random("d1", m) /\ d.offset.n = ds
        BY <1>1, <2>1, <2>3 DEF PrepareDigest, Cell
    <2>6. Len(d.random0) = do /\ \A i \in 1..do : d.random0[i].n = 1
      <3>1. Len(d.random0) = do /\ \A i \in 1..do : d.random0[i] = Cell(1, <<"d0", i>>)
          BY <2>2, <2>5, RandomFacts
      <3>2. \A i \in 1..do : Cell(1, <<"d0", i>>).n = 1
          BY DEF Cell
      <3> QED BY <3>1, <3>2
    <2>7. Len(d.random1) = m /\ \A i \in 1..m : d.random1[i].n = 1
      <3>1. Len(d.random1) = m /\ \A i \in 1..m : d.random1[i] = Cell(1, <<"d1", i>>)
          BY <2>4, <2>5, RandomFacts
      <3>2. \A i \in 1..m : Cell(1, <<"d1", i>>).n = 1
          BY DEF Cell
      <3> QED BY <3>1, <3>2
    <2>8. DigestFits(d)
        BY <1>3 DEF Built
    <2>9. /\ IsSeq(a) /\ Len(a) = BlockLen /\ a[1] = d.offset
          /\ \A i \in 1..do : a[1 + i] = d.random0[i]
          /\ a[do + 2] = x
          /\ \A i \in 1..m : a[do + 2 + i] = d.random1[i]
      <3>1. /\ IsSeq(MakeDigest(d, x)) /\ Len(MakeDigest(d, x)) = BlockLen
            /\ MakeDigest(d, x)[1] = d.offset
            /\ \A i \in 1..Len(d.random0) : MakeDigest(d, x)[1 + i] = d.random0[i]
            /\ MakeDigest(d, x)[Len(d.random0) + 2] = x
            /\ \A i \in 1..Len(d.random1) :
                 MakeDigest(d, x)[Len(d.random0) + 2 + i] = d.random1[i]
          BY <2>8, DigestCells
      <3> QED BY <1>5, <2>6, <2>7, <3>1
    <2> SUFFICES ASSUME NEW j \in 1..BlockLen
                 PROVE  a[j].n \in Nat
        BY <2>9
    <2>10. CASE j = 1
        BY <1>4, <2>5, <2>9, <2>10
    <2>11. CASE j > 1 /\ j <= 1 + do
      <3>1. j - 1 \in 1..do /\ 1 + (j - 1) = j
          BY <2>2, <2>11
      <3> QED BY <2>6, <2>9, <3>1
    <2>12. CASE j = do + 2
        BY <1>4, <2>9, <2>12
    <2>13. CASE j > do + 2
      <3>1. j - (do + 2) \in 1..m /\ do + 2 + (j - (do + 2)) = j
          BY <2>2, <2>4, <2>13
      <3> QED BY <2>7, <2>9, <3>1
    <2> QED BY <2>2, <2>10, <2>11, <2>12, <2>13
  <1>10. ASSUME NEW e, NEW f, IsPacket(c, h, e, f),
                \A j \in 1..BlockLen : e[j].n \in Nat /\ f[j].n \in Nat
         PROVE  \A i \in 1..C1Len : c[i].n \in Nat
    <2>1. /\ c[1] = h[1] /\ c[2] = h[2]
          /\ \A i \in 1..BlockLen : c[2 + i] = e[i] /\ c[2 + BlockLen + i] = f[i]
        BY <1>10, Blocks
    <2> TAKE i \in 1..C1Len
    <2>2. CASE i \in {1, 2}
        BY <2>1, <2>2
    <2>3. CASE i > 2 /\ i <= 2 + BlockLen
      <3>1. i - 2 \in 1..BlockLen /\ 2 + (i - 2) = i
          BY <1>7, <2>3
      <3> QED BY <1>10, <2>1, <3>1
    <2>4. CASE i > 2 + BlockLen
      <3>1. i - (2 + BlockLen) \in 1..BlockLen /\ 2 + BlockLen + (i - (2 + BlockLen)) = i
          BY <1>7, <2>4
      <3> QED BY <1>10, <2>1, <3>1
    <2> QED BY <1>7, <2>2, <2>3, <2>4
  <1>11. IsPacket(c, h, a, b) \/ IsPacket(c, h, b, a)
      BY <1>3, <1>4, <1>5, <1>6, <1>8, <1>9 DEF IsPacket, Built, MakeSchema
  <1> QED BY <1>8, <1>9, <1>10, <1>11
------------------------------------------------------------------------------
(* The session. *)

(* Appending. *)
LEMMA AppendFacts ==
    ASSUME NEW q, IsSeq(q), NEW x
    PROVE  /\ IsSeq(Append(q, x)) /\ Len(Append(q, x)) = Len(q) + 1
           /\ \A i \in 1..Len(q) : Append(q, x)[i] = q[i]
           /\ Append(q, x)[Len(q) + 1] = x
  <1> DEFINE S == {q[i] : i \in DOMAIN q} \union {x}
  <1>1. q \in [1..Len(q) -> S] /\ Len(q) \in Nat /\ x \in S
      BY SeqFacts
  <1> HIDE DEF S
  <1>2. q \in Seq(S)
      BY <1>1
  <1>3. Append(q, x) \in Seq(S)
      BY <1>1, <1>2
  <1>4. IsSeq(Append(q, x))
      BY <1>3, SeqIsSeq
  <1> QED BY <1>1, <1>2, <1>4

(* Taking the first away. *)
LEMMA TailFacts ==
    ASSUME NEW q, IsSeq(q), Len(q) > 0
    PROVE  /\ IsSeq(Tail(q)) /\ Len(Tail(q)) = Len(q) - 1
           /\ \A i \in 1..(Len(q) - 1) : Tail(q)[i] = q[i + 1]
  <1> DEFINE S == {q[i] : i \in DOMAIN q}
  <1>1. q \in Seq(S)
      BY DEF IsSeq
  <1> HIDE DEF S
  <1>2. q # <<>>
      BY SeqFacts
  <1>3. Tail(q) \in Seq(S)
      BY <1>1, <1>2
  <1>4. IsSeq(Tail(q))
      BY <1>3, SeqIsSeq
  <1> QED BY <1>1, <1>2, <1>4

(* Changing the first. *)
IsChanged(w, q, x) == w = [q EXCEPT ![1] = x]

(* The rest stays. *)
LEMMA FirstChanged ==
    ASSUME NEW q, IsSeq(q), Len(q) > 0, NEW x, NEW w, IsChanged(w, q, x)
    PROVE  /\ IsSeq(w) /\ Len(w) = Len(q) /\ w[1] = x
           /\ \A i \in 2..Len(q) : w[i] = q[i]
  <1>1. Len(q) \in Nat /\ DOMAIN q = 1..Len(q)
      BY SeqFacts
  <1>2. w = [i \in 1..Len(q) |-> w[i]]
      BY <1>1 DEF IsChanged
  <1>3. IsSeq(w) /\ Len(w) = Len(q)
      BY <1>1, <1>2, FunctionIsSeq
  <1> QED BY <1>1, <1>3 DEF IsChanged

(* IsCells, by positions. *)
LEMMA CellsKept ==
    ASSUME NEW q, IsSeq(q)
    PROVE  IsCells(q) <=> \A i \in 1..Len(q) : q[i].n \in Nat
  BY SeqFacts DEF IsCells

(* The empty packet. *)
LEMMA EmptyFacts == IsSeq(<<>>) /\ Len(<<>>) = 0 /\ IsCells(<<>>)
  <1>1. <<>> \in Seq({})
      OBVIOUS
  <1>2. IsSeq(<<>>)
      BY <1>1, SeqIsSeq
  <1>3. Len(<<>>) = 0
      OBVIOUS
  <1>4. \A i \in 1..Len(<<>>) : <<>>[i].n \in Nat
      BY <1>3
  <1> QED BY <1>2, <1>3, <1>4, CellsKept

(* Cells stay cells when packets are joined and cut. *)
LEMMA ConcatCells ==
    ASSUME NEW w, NEW a, NEW b, IsConcat(w, a, b), IsSeq(a), IsSeq(b),
           IsCells(a), IsCells(b)
    PROVE  IsCells(w)
  <1>1. /\ IsSeq(w) /\ Len(w) = Len(a) + Len(b)
        /\ \A i \in 1..Len(a) : w[i] = a[i]
        /\ \A i \in 1..Len(b) : w[Len(a) + i] = b[i]
      BY NamedConcat
  <1>2. /\ Len(a) \in Nat /\ Len(b) \in Nat
        /\ \A i \in 1..Len(a) : a[i].n \in Nat
        /\ \A i \in 1..Len(b) : b[i].n \in Nat
      BY SeqFacts, CellsKept
  <1>3. \A i \in 1..Len(w) : w[i].n \in Nat
    <2> TAKE i \in 1..Len(w)
    <2>1. CASE i <= Len(a)
      <3>1. i \in 1..Len(a)
          BY <1>2, <2>1
      <3> QED BY <1>1, <1>2, <3>1
    <2>2. CASE i > Len(a)
      <3>1. i - Len(a) \in 1..Len(b) /\ Len(a) + (i - Len(a)) = i
          BY <1>1, <1>2, <2>2
      <3> QED BY <1>1, <1>2, <3>1
    <2> QED BY <1>2, <2>1, <2>2
  <1> QED BY <1>1, <1>3, CellsKept

(* A part of a packet of cells. *)
LEMMA PartCells ==
    ASSUME NEW q, IsSeq(q), IsCells(q), NEW m \in Nat \ {0}, NEW n \in Nat,
           m <= n + 1, n <= Len(q)
    PROVE  IsCells(SubSeq(q, m, n))
  <1>1. PICK s : s = SubSeq(q, m, n)
      OBVIOUS
  <1>2. /\ IsSeq(s) /\ Len(s) = n - m + 1
        /\ \A i \in 1..(n - m + 1) : s[i] = q[m + i - 1]
      BY <1>1, SubSeqFacts
  <1>3. Len(q) \in Nat /\ \A i \in 1..Len(q) : q[i].n \in Nat
      BY SeqFacts, CellsKept
  <1>4. \A i \in 1..(n - m + 1) : m + i - 1 \in 1..Len(q)
      BY <1>3
  <1>5. \A i \in 1..Len(s) : s[i].n \in Nat
      BY <1>2, <1>3, <1>4
  <1>6. IsCells(s)
      BY <1>2, <1>5, CellsKept
  <1> QED BY <1>1, <1>6
------------------------------------------------------------------------------
(* a is S0S1 and S2 as HandleC0C1 and SendS0S1S2 make them for C1 c. *)
IsAnswer(a, c) ==
    /\ IsSeq(a) /\ Len(a) = 2
    /\ a[1] = [part |-> "S0S1", s1 |-> MakeS1(ParseC1(c))]
    /\ a[2] = [part |-> "S2", s2 |-> MakeS2(ParseC1(c))]

(* The buffers, the answers and libuv's writes are sequences. *)
SeqInv ==
    /\ IsSeq(answers) /\ IsSeq(c2s) /\ IsSeq(recv_data_) /\ IsSeq(recv_buffer_)
    /\ IsSeq(uv_writes) /\ \A i \in 1..Len(uv_writes) : IsSeq(uv_writes[i])

(* What the client sent is a whole C1, and one it made if it has a digest. *)
C1Inv ==
    client # "new" =>
        /\ IsSeq(c1) /\ Len(c1) = C1Len /\ IsCells(c1)
        /\ schema \in {"SCHEMA0", "SCHEMA1"} =>
              \E ds, ks \in OffsetSums : IsC1(c1, Head1, ds, ks, schema)

(* Before the first read, C0C1 is all there is. *)
StartInv ==
    /\ client = "new" => c2s = <<>> /\ reads = 0
    /\ reads = 0 =>
          /\ answers = <<>> /\ uv_writes = <<>> /\ recv_buffer_ = <<>>
          /\ phase_ = "initial" /\ client # "c2"
          /\ client # "new" => c2s = <<Cell(3, <<"C0">>)>> \o c1

(* A client whose C0C1 came in one read has got the answer to it, part by   *)
(* part; until then the first thing libuv has to write is the rest of it.   *)
FirstInv ==
    ~split =>
        /\ Len(answers) > 0 => answers[1] = [part |-> "S0S1", s1 |-> MakeS1(ParseC1(c1))]
        /\ Len(answers) > 1 => answers[2] = [part |-> "S2", s2 |-> MakeS2(ParseC1(c1))]
        /\ (client # "ended" /\ reads > 0 /\ Len(answers) = 0) =>
              /\ c2s = <<>>
              /\ Len(uv_writes) > 0 => IsAnswer(uv_writes[1], c1)
        /\ (client # "ended" /\ Len(answers) = 1) =>
              /\ Len(uv_writes) > 0 /\ Len(uv_writes[1]) = 1
              /\ uv_writes[1][1] = [part |-> "S2", s2 |-> MakeS2(ParseC1(c1))]

(* If it has also waited with C2, there is no other answer: until it has    *)
(* both parts nothing is on its way to the session, and from then until     *)
(* OnWrite has moved phase_ on, the finished write is still to be reported. *)
OnceInv ==
    (~split /\ ~early) =>
        /\ Len(uv_writes) <= 1
        /\ Len(uv_writes) = 1 => Len(answers) + Len(uv_writes[1]) <= 2
        /\ Len(answers) <= 2
        /\ (reads > 0 /\ Len(answers) < 2) => c2s = <<>> /\ client # "c2"
        /\ (phase_ = "initial" /\ Len(answers) = 2) =>
              Len(uv_writes) = 1 /\ Len(uv_writes[1]) = 0

(* The inductive invariant. *)
IInv == TypeOK /\ SeqInv /\ C1Inv /\ StartInv /\ FirstInv /\ OnceInv

(* TypeOK says nothing of the answers and of what libuv has to write. *)
LEMMA SameTypes ==
    ASSUME TypeOK, UNCHANGED <<c1, schema, client, early, c2s, recv_data_, recv_buffer_, phase_,
                               closed_, run, hs_, reads, split>>
    PROVE  TypeOK'
  <1>1. /\ client' \in {"new", "c1", "c2", "ended"}
        /\ schema' \in {None, "SCHEMA0", "SCHEMA1", "simple"}
        /\ client' = "new" => c1' = None /\ schema' = None
        /\ phase_' \in {"initial", "c2", "connect"} /\ run' \in {"receiving", "returned"}
      BY DEF TypeOK
  <1>2. closed_' \in BOOLEAN /\ split' \in BOOLEAN /\ early' \in BOOLEAN /\ reads' \in 0..MaxReads
      BY DEF TypeOK
  <1>3. /\ Len(recv_data_') = RecvCap /\ Len(recv_buffer_') <= reads' * RecvCap
        /\ IsCells(c2s') /\ IsCells(recv_data_') /\ IsCells(recv_buffer_')
      BY DEF TypeOK
  <1>4. hs_' # None =>
          /\ hs_'.schema \in {"SCHEMA0", "SCHEMA1"} /\ hs_'.simple \in BOOLEAN
          /\ OffsetLen + Len(hs_'.d.random0) + DigestLen + Len(hs_'.d.random1) = BlockLen
          /\ Len(hs_'.k.random0) + Len(hs_'.k.key) + Len(hs_'.k.random1) + OffsetLen = BlockLen
      BY DEF TypeOK
  <1> QED BY <1>1, <1>2, <1>3, <1>4 DEF TypeOK

(* The initial state. *)
LEMMA InitInv == Init => IInv
  <1> SUFFICES ASSUME Init
               PROVE  IInv
      OBVIOUS
  <1>1. recv_data_ = [i \in 1..RecvCap |-> recv_data_[i]]
      BY DEF Init
  <1>2. RecvCap \in Nat /\ MaxReads \in Nat
      BY SessionAssumption
  <1>3. IsSeq(recv_data_) /\ Len(recv_data_) = RecvCap
      BY <1>1, <1>2, FunctionIsSeq
  <1>4. \A i \in 1..Len(recv_data_) : recv_data_[i].n \in Nat
      BY <1>3 DEF Init, Cell
  <1>5. IsCells(recv_data_)
      BY <1>3, <1>4, CellsKept
  <1>6. TypeOK
    <2>1. Len(recv_buffer_) <= reads * RecvCap
        BY <1>2, EmptyFacts DEF Init
    <2>2. reads \in 0..MaxReads
        BY <1>2 DEF Init
    <2>3. IsCells(c2s) /\ IsCells(recv_buffer_)
        BY EmptyFacts DEF Init
    <2> QED BY <1>3, <1>5, <2>1, <2>2, <2>3 DEF Init, TypeOK
  <1>7. SeqInv
    <2>1. /\ IsSeq(answers) /\ IsSeq(c2s) /\ IsSeq(recv_buffer_) /\ IsSeq(uv_writes)
          /\ Len(uv_writes) = 0
        BY EmptyFacts DEF Init
    <2>2. \A i \in 1..Len(uv_writes) : IsSeq(uv_writes[i])
        BY <2>1
    <2> QED BY <1>3, <2>1, <2>2 DEF SeqInv
  <1>8. C1Inv /\ StartInv
      BY DEF Init, C1Inv, StartInv
  <1>9. Len(answers) = 0 /\ Len(uv_writes) = 0 /\ reads = 0 /\ client = "new"
      BY EmptyFacts DEF Init
  <1>10. FirstInv /\ OnceInv
      BY <1>9 DEF FirstInv, OnceInv
  <1> QED BY <1>6, <1>7, <1>8, <1>10 DEF IInv

(* OnWrite is due when the oldest write has nothing left. *)
LEMMA WriteDoneIs ==
    ASSUME SeqInv
    PROVE  /\ WriteDone <=> Len(uv_writes) > 0 /\ Len(uv_writes[1]) = 0
           /\ uv_writes # <<>> <=> Len(uv_writes) > 0
           /\ Len(uv_writes) \in Nat /\ Len(answers) \in Nat
           /\ Len(uv_writes) > 0 =>
                 /\ Head(uv_writes) = uv_writes[1] /\ IsSeq(uv_writes[1])
                 /\ Len(uv_writes[1]) \in Nat
  <1>1. IsSeq(uv_writes) /\ IsSeq(answers)
      BY DEF SeqInv
  <1>2. Len(uv_writes) \in Nat /\ (uv_writes = <<>> <=> Len(uv_writes) = 0) /\ Len(answers) \in Nat
      BY <1>1, SeqFacts
  <1>3. uv_writes # <<>> <=> Len(uv_writes) > 0
      BY <1>2
  <1>4. Len(uv_writes) > 0 => Head(uv_writes) = uv_writes[1]
    <2> DEFINE S == {uv_writes[i] : i \in DOMAIN uv_writes}
    <2>1. uv_writes \in Seq(S)
        BY <1>1 DEF IsSeq
    <2> HIDE DEF S
    <2> QED BY <2>1
  <1>5. Len(uv_writes) > 0 => IsSeq(uv_writes[1])
      BY <1>2 DEF SeqInv
  <1>6. Len(uv_writes) > 0 =>
            /\ Len(uv_writes[1]) \in Nat
            /\ uv_writes[1] = <<>> <=> Len(uv_writes[1]) = 0
      BY <1>5, SeqFacts
  <1> QED BY <1>2, <1>3, <1>4, <1>5, <1>6 DEF WriteDone
------------------------------------------------------------------------------
(* The client's C0C1: ClientSends with a whole packet. *)
LEMMA ClientSendsStep ==
    ASSUME IInv, NEW kind \in {"SCHEMA0", "SCHEMA1", "simple"}, NEW packet,
           ClientSends(kind, packet), IsSeq(packet), Len(packet) = C1Len, IsCells(packet),
           kind \in {"SCHEMA0", "SCHEMA1"} =>
                \E ds, ks \in OffsetSums : IsC1(packet, Head1, ds, ks, kind)
    PROVE  IInv'
  <1>1. PICK c0 : c0 = <<Cell(3, <<"C0">>)>>
      OBVIOUS
  <1>2. IsSeq(c0) /\ Len(c0) = 1 /\ c0[1] = Cell(3, <<"C0">>)
      BY <1>1, SingleFacts
  <1>3. \A i \in 1..Len(c0) : c0[i].n \in Nat
      BY <1>2 DEF Cell
  <1>4. IsCells(c0)
      BY <1>2, <1>3, CellsKept
  <1>5. IsConcat(c2s', c0, packet)
      BY <1>1 DEF ClientSends, IsConcat
  <1>6. IsSeq(c2s') /\ IsCells(c2s')
      BY <1>2, <1>4, <1>5, NamedConcat, ConcatCells
  <1>7. TypeOK'
      BY <1>6 DEF IInv, TypeOK, ClientSends
  <1>8. SeqInv'
      BY <1>6 DEF IInv, SeqInv, ClientSends
  <1>9. C1Inv'
      BY DEF C1Inv, ClientSends
  <1>10. reads = 0 /\ answers = <<>> /\ uv_writes = <<>> /\ recv_buffer_ = <<>> /\ phase_ = "initial"
      BY DEF IInv, StartInv, ClientSends
  <1>11. StartInv'
      BY <1>10 DEF StartInv, ClientSends
  <1>12. /\ Len(answers) = 0 /\ Len(uv_writes) = 0 /\ answers' = answers
         /\ uv_writes' = uv_writes /\ reads' = 0 /\ client' = "c1"
      BY <1>10, EmptyFacts DEF ClientSends
  <1>13. FirstInv' /\ OnceInv'
      BY <1>12 DEF FirstInv, OnceInv
  <1> QED BY <1>7, <1>8, <1>9, <1>11, <1>13 DEF IInv

(* Head1 is a head of numbered cells. *)
LEMMA Head1Facts ==
    /\ IsSeq(Head1) /\ Len(Head1) = HeadLen
    /\ Head1[1].n \in Nat /\ Head1[2].n \in Nat /\ IsCells(Head1)
  <1>1. Head1 \in Seq({Cell(1, <<"time">>), Cell(1, <<"client">>)}) /\ Len(Head1) = 2
      BY DEF Head1
  <1>2. IsSeq(Head1)
      BY <1>1, SeqIsSeq
  <1>3. Head1[1].n \in Nat /\ Head1[2].n \in Nat
      BY DEF Head1, Cell
  <1>4. \A i \in 1..Len(Head1) : Head1[i].n \in Nat
    <2> TAKE i \in 1..Len(Head1)
    <2>1. i = 1 \/ i = 2
        BY <1>1
    <2> QED BY <1>3, <2>1
  <1>5. IsCells(Head1)
      BY <1>2, <1>4, CellsKept
  <1> QED BY <1>1, <1>2, <1>3, <1>5 DEF HeadLen

(* A packet MakeC1 made. *)
LEMMA MadePacket ==
    ASSUME NEW ds \in OffsetSums, NEW ks \in OffsetSums,
           NEW kind \in {"SCHEMA0", "SCHEMA1"}, NEW packet,
           packet = MakeC1(Head1, PrepareDigest(ds), PrepareKey(ks), kind)
    PROVE  /\ IsC1(packet, Head1, ds, ks, kind)
           /\ IsSeq(packet) /\ Len(packet) = C1Len /\ IsCells(packet)
  <1>1. IsC1(packet, Head1, ds, ks, kind)
      BY Head1Facts, SessionAssumption DEF IsC1
  <1>2. IsSeq(packet)
      BY <1>1, C1Recognised
  <1>3. Len(packet) = C1Len
      BY <1>1, C1Recognised
  <1>4. \A i \in 1..C1Len : packet[i].n \in Nat
      BY <1>1, Head1Facts, C1Numbers
  <1>5. IsCells(packet)
      BY <1>2, <1>3, <1>4, CellsKept
  <1> QED BY <1>1, <1>2, <1>3, <1>5

(* Random cells. *)
LEMMA RandomCells ==
    ASSUME NEW name, NEW n \in Nat, NEW r, r = Random(name, n)
    PROVE  IsSeq(r) /\ Len(r) = n /\ IsCells(r)
  <1>1. IsSeq(r) /\ Len(r) = n /\ \A i \in 1..n : r[i] = Cell(1, <<name, i>>)
      BY RandomFacts
  <1>2. \A i \in 1..n : Cell(1, <<name, i>>).n \in Nat
      BY DEF Cell
  <1>3. \A i \in 1..Len(r) : r[i].n \in Nat
      BY <1>1, <1>2
  <1> QED BY <1>1, <1>3, CellsKept

(* C0C1 of a C1S1Handle and of the other clients. *)
LEMMA C0C1Step ==
    ASSUME IInv, ClientSendsC0C1 \/ OtherClientSendsC0C1
    PROVE  IInv'
  <1>1. ASSUME NEW ds \in OffsetSums, NEW ks \in OffsetSums,
               NEW kind \in {"SCHEMA0", "SCHEMA1"}, NEW packet,
               packet = MakeC1(Head1, PrepareDigest(ds), PrepareKey(ks), kind),
               ClientSends(kind, packet)
        PROVE  IInv'
    <2>1. /\ IsC1(packet, Head1, ds, ks, kind)
          /\ IsSeq(packet) /\ Len(packet) = C1Len /\ IsCells(packet)
        BY <1>1, MadePacket
    <2>2. \E a, b \in OffsetSums : IsC1(packet, Head1, a, b, kind)
        BY <1>1, <2>1
    <2>3. kind \in {"SCHEMA0", "SCHEMA1", "simple"}
        BY <1>1
    <2> QED BY <1>1, <2>1, <2>2, <2>3, ClientSendsStep
  <1>2. CASE ClientSendsC0C1
    <2>1. PICK ds, ks \in OffsetSums :
             ClientSends("SCHEMA1", MakeC1(Head1, PrepareDigest(ds), PrepareKey(ks), "SCHEMA1"))
        BY <1>2 DEF ClientSendsC0C1
    <2> QED BY <1>1, <2>1
  <1>3. CASE \E ds, ks \in OffsetSums :
               ClientSends("SCHEMA0", MakeC1(Head1, PrepareDigest(ds), PrepareKey(ks), "SCHEMA0"))
      BY <1>1, <1>3
  <1>4. CASE ClientSends("simple", Head1 \o Random("any", 2 * BlockLen))
    <2>1. PICK r : r = Random("any", 2 * BlockLen)
        OBVIOUS
    <2>2. 2 * BlockLen \in Nat
        BY LayoutAssumption
    <2>3. IsSeq(r) /\ Len(r) = 2 * BlockLen /\ IsCells(r)
        BY <2>1, <2>2, RandomCells
    <2>4. PICK p : p = Head1 \o r
        OBVIOUS
    <2>5. IsConcat(p, Head1, r)
        BY <2>4 DEF IsConcat
    <2>6. IsSeq(p) /\ Len(p) = HeadLen + 2 * BlockLen
        BY <2>3, <2>5, Head1Facts, NamedConcat
    <2>7. IsCells(p)
        BY <2>3, <2>5, Head1Facts, ConcatCells
    <2>8. ClientSends("simple", p)
        BY <1>4, <2>1, <2>4
    <2>9. Len(p) = C1Len
        BY <2>6 DEF C1Len
    <2> QED BY <2>6, <2>7, <2>8, <2>9, ClientSendsStep
  <1> QED BY <1>2, <1>3, <1>4 DEF OtherClientSendsC0C1

(* C2, and the client's end. *)
LEMMA ClientSendsC2Step ==
    ASSUME IInv, ClientSendsC2
    PROVE  IInv'
  <1> USE DEF ClientSendsC2
  <1>1. PICK r : r = Random("c2", C1Len)
      OBVIOUS
  <1>2. C1Len \in Nat
      BY LayoutAssumption DEF C1Len, HeadLen
  <1>3. IsSeq(r) /\ IsCells(r)
      BY <1>1, <1>2, RandomCells
  <1>4. IsSeq(c2s) /\ IsCells(c2s)
      BY DEF IInv, TypeOK, SeqInv
  <1>5. IsConcat(c2s', c2s, r)
      BY <1>1 DEF IsConcat
  <1>6. IsSeq(c2s') /\ IsCells(c2s')
      BY <1>3, <1>4, <1>5, NamedConcat, ConcatCells
  <1>7. reads # 0 /\ reads > 0
      BY DEF IInv, TypeOK, StartInv
  <1>8. Len(answers) > 0 /\ Len(answers) \in Nat
      BY SeqFacts DEF IInv, SeqInv
  <1>9. early' \in BOOLEAN
      OBVIOUS
  <1>10. TypeOK'
      BY <1>6, <1>9 DEF IInv, TypeOK
  <1>11. SeqInv'
      BY <1>6 DEF IInv, SeqInv
  <1>12. C1Inv' /\ StartInv'
      BY <1>7 DEF IInv, C1Inv, StartInv
  <1>13. FirstInv'
      BY <1>8 DEF IInv, FirstInv
  <1>14. OnceInv'
      BY <1>8 DEF IInv, OnceInv
  <1> QED BY <1>10, <1>11, <1>12, <1>13, <1>14 DEF IInv

(* The client ends: FirstInv and OnceInv promise it nothing more. *)
LEMMA ClientEndsStep ==
    ASSUME IInv, ClientEnds
    PROVE  IInv'
  <1> USE DEF ClientEnds
  <1>0. TypeOK /\ SeqInv
      BY DEF IInv
  <1>1. TypeOK' /\ SeqInv'
    <2>1. TypeOK'
        BY <1>0 DEF TypeOK
    <2>2. SeqInv'
        BY <1>0 DEF SeqInv
    <2> QED BY <2>1, <2>2
  <1>2. C1Inv' /\ StartInv'
      BY DEF IInv, C1Inv, StartInv
  <1>3. FirstInv' /\ OnceInv'
      BY DEF IInv, FirstInv, OnceInv
  <1> QED BY <1>1, <1>2, <1>3 DEF IInv
------------------------------------------------------------------------------
(* recv_data_ after a read of n cells. *)
LEMMA RecvDataFacts ==
    ASSUME IInv, NEW n \in Nat, n <= Len(c2s), NEW r, r = Received(n)
    PROVE  /\ IsSeq(r) /\ Len(r) = RecvCap /\ IsCells(r)
           /\ \A i \in 1..RecvCap : i <= n => r[i] = c2s[i]
  <1>1. RecvCap \in Nat
      BY SessionAssumption
  <1>2. r = [i \in 1..RecvCap |-> IF i <= n THEN c2s[i] ELSE recv_data_[i]]
      BY DEF Received
  <1>3. r = [i \in 1..RecvCap |-> r[i]]
      BY <1>2
  <1>4. IsSeq(r) /\ Len(r) = RecvCap
      BY <1>1, <1>3, FunctionIsSeq
  <1>5. /\ Len(c2s) \in Nat /\ \A i \in 1..Len(c2s) : c2s[i].n \in Nat
        /\ \A i \in 1..RecvCap : recv_data_[i].n \in Nat
      BY SeqFacts, CellsKept DEF IInv, TypeOK, SeqInv
  <1>6. \A i \in 1..Len(r) : r[i].n \in Nat
    <2> SUFFICES ASSUME NEW i \in 1..RecvCap
                 PROVE  r[i].n \in Nat
        BY <1>4
    <2>1. CASE i <= n
      <3>1. i \in 1..Len(c2s) /\ r[i] = c2s[i]
          BY <1>1, <1>2, <1>5, <2>1
      <3> QED BY <1>5, <3>1
    <2>2. CASE ~(i <= n)
      <3>1. r[i] = recv_data_[i]
          BY <1>2, <2>2
      <3> QED BY <1>5, <3>1
    <2> QED BY <2>1, <2>2
  <1>7. IsCells(r)
      BY <1>4, <1>6, CellsKept
  <1>8. \A i \in 1..RecvCap : i <= n => r[i] = c2s[i]
      BY <1>2
  <1> QED BY <1>4, <1>7, <1>8

(* The assertion of TypeOK about hs_. *)
HsOK(h) ==
    /\ h.schema \in {"SCHEMA0", "SCHEMA1"} /\ h.simple \in BOOLEAN
    /\ OffsetLen + Len(h.d.random0) + DigestLen + Len(h.d.random1) = BlockLen
    /\ Len(h.k.random0) + Len(h.k.key) + Len(h.k.random1) + OffsetLen = BlockLen

(* What ParseC1 makes of any C1 length of cells. *)
LEMMA ParsedOK ==
    ASSUME NEW c, IsSeq(c), Len(c) = C1Len, IsCells(c), NEW h, h = ParseC1(c)
    PROVE  HsOK(h)
  <1>1. \A i \in 1..C1Len : c[i].n \in Nat
      BY CellsKept
  <1>2. PICK sch : sch = h.schema
      OBVIOUS
  <1>3. /\ sch \in {"SCHEMA0", "SCHEMA1"} /\ h.simple \in BOOLEAN
        /\ h.d = DigestBlock(c, sch) /\ h.k = KeyBlock(c, sch)
      BY <1>2 DEF ParseC1
  <1>4. /\ OffsetLen + Len(DigestBlock(c, sch).random0) + DigestLen
              + Len(DigestBlock(c, sch).random1) = BlockLen
        /\ Len(KeyBlock(c, sch).random0) + Len(KeyBlock(c, sch).key)
              + Len(KeyBlock(c, sch).random1) + OffsetLen = BlockLen
      BY <1>1, PartsFillBlocks
  <1> QED BY <1>2, <1>3, <1>4 DEF HsOK

(* What HandleRequest does with the buffer b: it keeps a part of b, moves   *)
(* phase_ forward and, in initial_phase only, starts the answer to the C1   *)
(* behind the first cell of b.                                              *)
LEMMA HandleEffect ==
    ASSUME IInv, NEW b, IsSeq(b), IsCells(b), HandleRequest(b)
    PROVE  /\ IsSeq(recv_buffer_') /\ IsCells(recv_buffer_') /\ Len(recv_buffer_') <= Len(b)
           /\ phase_' \in {"initial", "c2", "connect"} /\ closed_' \in BOOLEAN
           /\ phase_' = "initial" <=> phase_ = "initial"
           /\ hs_' = hs_ \/ HsOK(hs_')
           /\ \/ uv_writes' = uv_writes
              \/ /\ phase_ = "initial" /\ 1 + C1Len <= Len(b)
                 /\ \E a : /\ IsAnswer(a, SubSeq(b, 2, 1 + C1Len))
                           /\ uv_writes' = Append(uv_writes, a)
  <1>1. Len(b) \in Nat /\ C1Len \in Nat /\ C1Len > 0
      BY SeqFacts, LayoutAssumption DEF C1Len, HeadLen
  <1>2. phase_ \in {"initial", "c2", "connect"} /\ closed_ \in BOOLEAN
      BY DEF IInv, TypeOK
  <1>3. CASE phase_ = "initial" /\ HandleInitial(b) /\ Len(b) < 1 + C1Len
      BY <1>1, <1>2, <1>3 DEF HandleInitial
  <1>4. CASE phase_ = "initial" /\ HandleInitial(b) /\ ~(Len(b) < 1 + C1Len)
    <2>1. PICK c : c = SubSeq(b, 2, 1 + C1Len)
        OBVIOUS
    <2>2. PICK h : h = ParseC1(c)
        OBVIOUS
    <2>3. IsSeq(c) /\ Len(c) = C1Len /\ IsCells(c)
      <3>1. 2 \in Nat \ {0} /\ 1 + C1Len \in Nat /\ 2 <= (1 + C1Len) + 1 /\ 1 + C1Len <= Len(b)
          BY <1>1, <1>4
      <3>2. IsSeq(c) /\ Len(c) = (1 + C1Len) - 2 + 1
          BY <2>1, <3>1, SubSeqFacts
      <3>3. IsCells(c)
          BY <2>1, <3>1, PartCells
      <3> QED BY <1>1, <3>2, <3>3
    <2>4. HsOK(h)
        BY <2>2, <2>3, ParsedOK
    <2>5. PICK a : a = <<[part |-> "S0S1", s1 |-> MakeS1(h)], [part |-> "S2", s2 |-> MakeS2(h)]>>
        OBVIOUS
    <2>6. IsAnswer(a, c)
      <3>1. a \in Seq({[part |-> "S0S1", s1 |-> MakeS1(h)], [part |-> "S2", s2 |-> MakeS2(h)]})
          BY <2>5
      <3>2. IsSeq(a)
          BY <3>1, SeqIsSeq
      <3>3. Len(a) = 2
          BY <2>5
      <3>4. /\ a[1] = [part |-> "S0S1", s1 |-> MakeS1(h)]
            /\ a[2] = [part |-> "S2", s2 |-> MakeS2(h)]
          BY <2>5
      <3> QED BY <2>2, <3>2, <3>3, <3>4 DEF IsAnswer
    <2>7. /\ hs_' = h /\ recv_buffer_' = <<>> /\ phase_' = phase_
          /\ \/ closed_' = TRUE /\ uv_writes' = uv_writes
             \/ uv_writes' = Append(uv_writes, a) /\ closed_' = closed_
             \/ uv_writes' = uv_writes /\ closed_' = closed_
        BY <1>4, <2>1, <2>2, <2>5 DEF HandleInitial
    <2>8. closed_' \in BOOLEAN
        BY <1>2, <2>7
    <2>9. IsSeq(recv_buffer_') /\ IsCells(recv_buffer_') /\ Len(recv_buffer_') <= Len(b)
        BY <1>1, <2>7, EmptyFacts
    <2>10. uv_writes' = uv_writes \/ uv_writes' = Append(uv_writes, a)
        BY <2>7
    <2>11. 1 + C1Len <= Len(b)
        BY <1>1, <1>4
    <2> QED BY <1>2, <1>4, <2>1, <2>4, <2>6, <2>7, <2>8, <2>9, <2>10, <2>11
  <1>5. CASE phase_ = "c2" /\ HandleC2(b) /\ Len(b) < C1Len
      BY <1>1, <1>2, <1>5 DEF HandleC2
  <1>6. CASE phase_ = "c2" /\ HandleC2(b) /\ ~(Len(b) < C1Len)
    <2>1. C1Len + 1 \in Nat \ {0} /\ C1Len + 1 <= Len(b) + 1 /\ Len(b) <= Len(b)
        BY <1>1, <1>6
    <2>2. recv_buffer_' = SubSeq(b, C1Len + 1, Len(b))
        BY <1>6 DEF HandleC2
    <2>3. IsSeq(recv_buffer_') /\ Len(recv_buffer_') = Len(b) - (C1Len + 1) + 1
        BY <1>1, <2>1, <2>2, SubSeqFacts
    <2>4. IsCells(recv_buffer_')
        BY <1>1, <2>1, <2>2, PartCells
    <2>5. Len(recv_buffer_') <= Len(b)
        BY <1>1, <2>3
    <2> QED BY <1>2, <1>6, <2>3, <2>4, <2>5 DEF HandleC2
  <1>7. CASE phase_ = "connect" /\ recv_buffer_' = b /\ UNCHANGED <<hs_, phase_, closed_, uv_writes>>
      BY <1>1, <1>2, <1>7
  <1> QED BY <1>3, <1>4, <1>5, <1>6, <1>7 DEF HandleRequest

(* The C1 behind C0 in the first read is the client's. *)
LEMMA FirstReadIsC1 ==
    ASSUME IInv, c2s = <<Cell(3, <<"C0">>)>> \o c1, client # "new",
           NEW n, n = Len(c2s), NEW b, b = <<>> \o Received(n)
    PROVE  Len(c2s) = 1 + C1Len /\ SubSeq(b, 2, 1 + C1Len) = c1
  <1>1. PICK c0 : c0 = <<Cell(3, <<"C0">>)>>
      OBVIOUS
  <1>2. IsSeq(c0) /\ Len(c0) = 1
      BY <1>1, SingleFacts
  <1>3. IsSeq(c1) /\ Len(c1) = C1Len
      BY DEF IInv, C1Inv
  <1>4. IsConcat(c2s, c0, c1)
      BY <1>1 DEF IsConcat
  <1>5. /\ IsSeq(c2s) /\ Len(c2s) = Len(c0) + Len(c1)
        /\ \A i \in 1..Len(c1) : c2s[Len(c0) + i] = c1[i]
      BY <1>2, <1>3, <1>4, NamedConcat
  <1>6. C1Len \in Nat /\ RecvCap \in Nat /\ RecvCap >= 1 + 2 * C1Len
      BY LayoutAssumption, SessionAssumption DEF C1Len, HeadLen
  <1>7. PICK r : r = Received(n)
      OBVIOUS
  <1>8. n \in Nat /\ n <= Len(c2s) /\ n = 1 + C1Len
      BY <1>2, <1>3, <1>5, <1>6
  <1>9. IsSeq(r) /\ Len(r) = RecvCap /\ \A i \in 1..RecvCap : i <= n => r[i] = c2s[i]
      BY <1>7, <1>8, RecvDataFacts
  <1>10. b = r
    <2> DEFINE S == {r[i] : i \in DOMAIN r}
    <2>1. r \in Seq(S)
        BY <1>9 DEF IsSeq
    <2> HIDE DEF S
    <2>2. <<>> \o r = r
        BY <2>1
    <2> QED BY <1>7, <2>2
  <1>11. \A i \in 1..C1Len : r[2 + i - 1] = c1[i]
    <2> TAKE i \in 1..C1Len
    <2>1. 2 + i - 1 = 1 + i /\ 1 + i \in 1..RecvCap /\ 1 + i <= n
        BY <1>6, <1>8
    <2> QED BY <1>2, <1>3, <1>5, <1>9, <2>1
  <1>12. SubSeq(r, 2, 1 + C1Len) = c1
    <2>1. 2 \in Nat \ {0} /\ 1 + C1Len \in Nat /\ 1 + C1Len = 2 + Len(c1) - 1
          /\ 1 + C1Len <= Len(r)
        BY <1>3, <1>6, <1>9
    <2>2. \A i \in 1..Len(c1) : r[2 + i - 1] = c1[i]
        BY <1>3, <1>11
    <2> QED BY <1>3, <1>9, <2>1, <2>2, PartIs
  <1> QED BY <1>8, <1>10, <1>12

(* A read, with all of HandleRequest up to its CoSend. *)
LEMMA OnReceiveStep ==
    ASSUME IInv, OnReceive
    PROVE  IInv'
  <1>1. PICK n \in {k \in ReadSizes : k < Len(c2s)} \union {Len(c2s)} :
              /\ c2s' = SubSeq(c2s, n + 1, Len(c2s))
              /\ recv_data_' = Received(n)
              /\ split' = (split \/ (reads = 0 /\ n < 1 + C1Len))
              /\ HandleRequest(recv_buffer_ \o Received(n))
      BY DEF OnReceive
  <1>2. /\ reads' = reads + 1 /\ reads < MaxReads /\ c2s # <<>> /\ ~WriteDone
        /\ run' = (IF closed_' THEN "returned" ELSE "receiving")
        /\ client' = client /\ answers' = answers /\ c1' = c1 /\ schema' = schema
        /\ early' = early
      BY DEF OnReceive, clientVars
  <1>3. /\ IsSeq(c2s) /\ IsCells(c2s) /\ Len(c2s) \in Nat /\ Len(c2s) > 0
        /\ IsSeq(recv_buffer_) /\ IsCells(recv_buffer_) /\ Len(recv_buffer_) \in Nat
        /\ reads \in Nat /\ RecvCap \in Nat /\ MaxReads \in Nat
        /\ Len(recv_buffer_) <= reads * RecvCap
    <2>1. IsSeq(c2s) /\ IsSeq(recv_buffer_)
        BY DEF IInv, SeqInv
    <2>2. Len(c2s) \in Nat /\ (c2s = <<>> <=> Len(c2s) = 0)
        BY <2>1, SeqFacts
    <2>3. Len(recv_buffer_) \in Nat
        BY <2>1, SeqFacts
    <2> QED BY <1>2, <2>1, <2>2, <2>3, SessionAssumption DEF IInv, TypeOK
  <1>4. n \in Nat \ {0} /\ n <= Len(c2s)
      BY <1>1, <1>3, SessionAssumption
  <1>5. PICK r : r = Received(n)
      OBVIOUS
  <1>6. IsSeq(r) /\ Len(r) = RecvCap /\ IsCells(r)
      BY <1>4, <1>5, RecvDataFacts
  <1>7. PICK b : b = recv_buffer_ \o r
      OBVIOUS
  <1>8. IsSeq(b) /\ IsCells(b) /\ Len(b) = Len(recv_buffer_) + RecvCap
    <2>1. IsConcat(b, recv_buffer_, r)
        BY <1>7 DEF IsConcat
    <2>2. IsSeq(b) /\ Len(b) = Len(recv_buffer_) + Len(r)
        BY <1>3, <1>6, <2>1, NamedConcat
    <2>3. IsCells(b)
        BY <1>3, <1>6, <2>1, ConcatCells
    <2> QED BY <1>6, <2>2, <2>3
  <1>9. HandleRequest(b)
      BY <1>1, <1>5, <1>7
  <1>10. /\ IsSeq(recv_buffer_') /\ IsCells(recv_buffer_') /\ Len(recv_buffer_') <= Len(b)
         /\ phase_' \in {"initial", "c2", "connect"} /\ closed_' \in BOOLEAN
         /\ phase_' = "initial" <=> phase_ = "initial"
         /\ hs_' = hs_ \/ HsOK(hs_')
      BY <1>8, <1>9, HandleEffect
  <1>11. \/ uv_writes' = uv_writes
         \/ /\ phase_ = "initial" /\ 1 + C1Len <= Len(b)
            /\ \E a : /\ IsAnswer(a, SubSeq(b, 2, 1 + C1Len))
                      /\ uv_writes' = Append(uv_writes, a)
      BY <1>8, <1>9, HandleEffect
  <1>12. IsSeq(c2s') /\ IsCells(c2s') /\ Len(c2s') = Len(c2s) - (n + 1) + 1
    <2>1. n + 1 \in Nat \ {0} /\ n + 1 <= Len(c2s) + 1 /\ Len(c2s) <= Len(c2s)
        BY <1>3, <1>4
    <2>2. IsSeq(c2s') /\ Len(c2s') = Len(c2s) - (n + 1) + 1
        BY <1>1, <1>3, <2>1, SubSeqFacts
    <2>3. IsCells(c2s')
        BY <1>1, <1>3, <2>1, PartCells
    <2> QED BY <2>2, <2>3
  <1>13. TypeOK'
    <2>1. reads' \in 0..MaxReads
        BY <1>2, <1>3
    <2>2. Len(recv_buffer_') <= reads' * RecvCap
      <3>1. (reads + 1) * RecvCap = reads * RecvCap + RecvCap
          BY <1>3
      <3>2. Len(recv_buffer_') \in Nat /\ Len(b) \in Nat
          BY <1>8, <1>10, SeqFacts
      <3>3. reads * RecvCap \in Nat
          BY <1>3
      <3> QED BY <1>2, <1>3, <1>8, <1>10, <3>1, <3>2, <3>3
    <2>3. Len(recv_data_') = RecvCap /\ IsCells(recv_data_')
        BY <1>1, <1>5, <1>6
    <2>4. run' \in {"receiving", "returned"} /\ split' \in BOOLEAN
        BY <1>1, <1>2 DEF IInv, TypeOK
    <2>5. hs_' # None =>
              /\ hs_'.schema \in {"SCHEMA0", "SCHEMA1"} /\ hs_'.simple \in BOOLEAN
              /\ OffsetLen + Len(hs_'.d.random0) + DigestLen + Len(hs_'.d.random1) = BlockLen
              /\ Len(hs_'.k.random0) + Len(hs_'.k.key) + Len(hs_'.k.random1) + OffsetLen = BlockLen
      <3>1. CASE hs_' = hs_
          BY <3>1 DEF IInv, TypeOK
      <3>2. CASE HsOK(hs_')
          BY <3>2 DEF HsOK
      <3> QED BY <1>10, <3>1, <3>2
    <2>6. /\ client' \in {"new", "c1", "c2", "ended"}
          /\ schema' \in {None, "SCHEMA0", "SCHEMA1", "simple"}
          /\ client' = "new" => c1' = None /\ schema' = None
          /\ early' \in BOOLEAN
        BY <1>2 DEF IInv, TypeOK
    <2> QED BY <1>10, <1>12, <2>1, <2>2, <2>3, <2>4, <2>5, <2>6 DEF TypeOK
  <1>14. Len(uv_writes) \in Nat /\ Len(answers) \in Nat /\ IsSeq(uv_writes)
      BY WriteDoneIs DEF IInv, SeqInv
  <1>15. \A a : uv_writes' = Append(uv_writes, a) =>
                /\ IsSeq(uv_writes') /\ Len(uv_writes') = Len(uv_writes) + 1
                /\ \A i \in 1..Len(uv_writes) : uv_writes'[i] = uv_writes[i]
                /\ uv_writes'[Len(uv_writes) + 1] = a
    <2> TAKE a
    <2>1. /\ IsSeq(Append(uv_writes, a)) /\ Len(Append(uv_writes, a)) = Len(uv_writes) + 1
          /\ \A i \in 1..Len(uv_writes) : Append(uv_writes, a)[i] = uv_writes[i]
          /\ Append(uv_writes, a)[Len(uv_writes) + 1] = a
        BY <1>14, AppendFacts
    <2> QED BY <2>1
  <1>16. SeqInv'
    <2>1. IsSeq(answers') /\ IsSeq(c2s') /\ IsSeq(recv_data_') /\ IsSeq(recv_buffer_')
        BY <1>1, <1>2, <1>5, <1>6, <1>10, <1>12 DEF IInv, SeqInv
    <2>2. IsSeq(uv_writes') /\ \A i \in 1..Len(uv_writes') : IsSeq(uv_writes'[i])
      <3>1. CASE uv_writes' = uv_writes
          BY <3>1 DEF IInv, SeqInv
      <3>2. ASSUME NEW a, IsAnswer(a, SubSeq(b, 2, 1 + C1Len)), uv_writes' = Append(uv_writes, a)
            PROVE  IsSeq(uv_writes') /\ \A i \in 1..Len(uv_writes') : IsSeq(uv_writes'[i])
        <4>1. /\ IsSeq(uv_writes') /\ Len(uv_writes') = Len(uv_writes) + 1
              /\ \A i \in 1..Len(uv_writes) : uv_writes'[i] = uv_writes[i]
              /\ uv_writes'[Len(uv_writes) + 1] = a
            BY <1>15, <3>2
        <4>2. IsSeq(a)
            BY <3>2 DEF IsAnswer
        <4>3. \A i \in 1..Len(uv_writes) : IsSeq(uv_writes[i])
            BY DEF IInv, SeqInv
        <4> QED BY <1>14, <4>1, <4>2, <4>3
      <3> QED BY <1>11, <3>1, <3>2
    <2> QED BY <2>1, <2>2 DEF SeqInv
  <1>17. client # "new"
      BY <1>2 DEF IInv, StartInv
  <1>18. C1Inv' /\ StartInv'
      BY <1>2, <1>3, <1>17 DEF IInv, C1Inv, StartInv
  <1>19. ASSUME reads = 0, ~split'
         PROVE  FirstInv' /\ OnceInv'
    <2>1. /\ answers = <<>> /\ uv_writes = <<>> /\ recv_buffer_ = <<>> /\ phase_ = "initial"
          /\ client # "c2" /\ c2s = <<Cell(3, <<"C0">>)>> \o c1
        BY <1>17, <1>19 DEF IInv, StartInv
    <2>2. Len(answers) = 0 /\ Len(uv_writes) = 0
        BY <2>1, EmptyFacts
    <2>3. Len(c2s) = 1 + C1Len
        BY <1>17, <2>1, FirstReadIsC1
    <2>4. C1Len \in Nat
        BY LayoutAssumption DEF C1Len, HeadLen
    <2>5. n = Len(c2s)
        BY <1>1, <1>3, <1>4, <1>19, <2>3, <2>4
    <2>6. SubSeq(b, 2, 1 + C1Len) = c1
        BY <1>5, <1>7, <1>17, <2>1, <2>5, FirstReadIsC1
    <2>7. c2s' = <<>>
      <3>1. Len(c2s') = 0
          BY <1>3, <1>12, <2>5
      <3> QED BY <1>12, <3>1, SeqFacts
    <2>8. \/ Len(uv_writes') = 0
          \/ Len(uv_writes') = 1 /\ IsAnswer(uv_writes'[1], c1)
      <3>1. CASE uv_writes' = uv_writes
          BY <2>2, <3>1
      <3>2. ASSUME NEW a, IsAnswer(a, SubSeq(b, 2, 1 + C1Len)), uv_writes' = Append(uv_writes, a)
            PROVE  Len(uv_writes') = 1 /\ IsAnswer(uv_writes'[1], c1)
        <4>1. Len(uv_writes') = Len(uv_writes) + 1 /\ uv_writes'[Len(uv_writes) + 1] = a
            BY <1>15, <3>2
        <4>2. IsAnswer(a, c1)
            BY <2>6, <3>2
        <4> QED BY <2>2, <4>1, <4>2
      <3> QED BY <1>11, <3>1, <3>2
    <2>9. FirstInv'
        BY <1>2, <2>2, <2>7, <2>8 DEF FirstInv
    <2>10. Len(uv_writes') = 1 => Len(uv_writes'[1]) = 2
        BY <2>8 DEF IsAnswer
    <2>11. OnceInv'
      <3>1. Len(answers') = 0 /\ client' # "c2"
          BY <1>2, <2>1, <2>2
      <3>2. Len(uv_writes') <= 1 /\ (Len(uv_writes') = 1 => Len(answers') + Len(uv_writes'[1]) <= 2)
        <4>1. CASE Len(uv_writes') = 0
            BY <4>1
        <4>2. CASE Len(uv_writes') = 1
          <5>1. Len(uv_writes'[1]) = 2
              BY <2>10, <4>2
          <5>2. Len(answers') + Len(uv_writes'[1]) = 0 + 2
              BY <3>1, <5>1
          <5> QED BY <4>2, <5>2
        <4> QED BY <2>8, <4>1, <4>2
      <3> QED BY <2>7, <3>1, <3>2 DEF OnceInv
    <2> QED BY <2>9, <2>11
  <1>20. ASSUME reads # 0, ~split'
         PROVE  FirstInv' /\ OnceInv'
    <2>1. reads > 0 /\ ~split /\ Len(c2s) # 0
      <3>1. ~split
          BY <1>1, <1>20, Zenon
      <3> QED BY <1>3, <1>20, <3>1
    <2>2. ~(client # "ended" /\ Len(answers) = 0)
        BY <1>2, <2>1 DEF IInv, FirstInv
    <2>3. (client # "ended" /\ Len(answers) = 1) =>
              Len(uv_writes') > 0 /\ uv_writes'[1] = uv_writes[1]
      <3> SUFFICES ASSUME client # "ended", Len(answers) = 1
                   PROVE  Len(uv_writes') > 0 /\ uv_writes'[1] = uv_writes[1]
          OBVIOUS
      <3>1. Len(uv_writes) > 0
          BY <2>1 DEF IInv, FirstInv
      <3>2. CASE uv_writes' = uv_writes
          BY <3>1, <3>2
      <3>3. ASSUME NEW a, uv_writes' = Append(uv_writes, a)
            PROVE  Len(uv_writes') > 0 /\ uv_writes'[1] = uv_writes[1]
          BY <1>14, <1>15, <3>1, <3>3
      <3> QED BY <1>11, <3>2, <3>3
    <2>4. FirstInv'
        BY <1>2, <2>1, <2>2, <2>3 DEF IInv, FirstInv
    <2>5. ~early => Len(answers) = 2 /\ phase_ # "initial"
      <3> SUFFICES ASSUME ~early
                   PROVE  Len(answers) = 2 /\ phase_ # "initial"
          OBVIOUS
      <3>1. Len(answers) = 2
        <4>1. Len(answers) <= 2
            BY <2>1 DEF IInv, OnceInv
        <4>2. ~(Len(answers) < 2)
            BY <1>2, <2>1 DEF IInv, OnceInv
        <4>3. \A l \in Nat : l <= 2 /\ ~(l < 2) => l = 2
            OBVIOUS
        <4>4. Len(answers) \in Nat
            BY <1>14
        <4> QED BY <4>1, <4>2, <4>3, <4>4, Zenon
      <3>2. ~(Len(uv_writes) > 0 /\ Len(uv_writes[1]) = 0)
          BY <1>2, WriteDoneIs DEF IInv
      <3> QED BY <2>1, <3>1, <3>2 DEF IInv, OnceInv
    <2>6. ~early => uv_writes' = uv_writes /\ phase_' # "initial"
        BY <1>10, <1>11, <2>5
    <2>7. OnceInv'
        BY <1>2, <2>1, <2>5, <2>6 DEF IInv, OnceInv
    <2> QED BY <2>4, <2>7
  <1>21. FirstInv' /\ OnceInv'
    <2>1. CASE split'
        BY <2>1 DEF FirstInv, OnceInv
    <2> QED BY <1>19, <1>20, <2>1
  <1> QED BY <1>13, <1>16, <1>18, <1>21 DEF IInv

(* The end of the stream: only run and closed_ change. *)
LEMMA OnReceiveEndStep ==
    ASSUME IInv, OnReceiveEnd
    PROVE  IInv'
  <1> USE DEF OnReceiveEnd, clientVars
  <1>1. TypeOK' /\ SeqInv'
      BY DEF IInv, TypeOK, SeqInv
  <1>2. C1Inv' /\ StartInv'
      BY DEF IInv, C1Inv, StartInv
  <1>3. FirstInv' /\ OnceInv'
      BY DEF IInv, FirstInv, OnceInv
  <1> QED BY <1>1, <1>2, <1>3 DEF IInv

(* The socket takes a part: the client gets the next part of its answer. *)
LEMMA SocketTakesStep ==
    ASSUME IInv, SocketTakes
    PROVE  IInv'
  <1> DEFINE top == uv_writes[1]
  <1>1. /\ Len(uv_writes) > 0 /\ Head(uv_writes) = top /\ IsSeq(top) /\ Len(top) \in Nat
        /\ top # <<>> /\ Len(uv_writes) \in Nat /\ Len(answers) \in Nat
        /\ IsSeq(uv_writes) /\ IsSeq(answers)
    <2>1. SeqInv
        BY DEF IInv
    <2>2. Len(uv_writes) > 0
        BY <2>1, WriteDoneIs DEF SocketTakes
    <2>3. /\ Head(uv_writes) = top /\ IsSeq(top) /\ Len(top) \in Nat
          /\ Len(uv_writes) \in Nat /\ Len(answers) \in Nat
        BY <2>1, <2>2, WriteDoneIs
    <2> QED BY <2>1, <2>2, <2>3 DEF SocketTakes, SeqInv
  <1>2. Len(top) > 0
      BY <1>1, SeqFacts
  <1>3. /\ IsSeq(Tail(top)) /\ Len(Tail(top)) = Len(top) - 1
        /\ \A i \in 1..(Len(top) - 1) : Tail(top)[i] = top[i + 1]
      BY <1>1, <1>2, TailFacts
  <1>4. uv_writes' = [uv_writes EXCEPT ![1] = Tail(top)]
      BY DEF SocketTakes
  <1>5. /\ IsSeq(uv_writes') /\ Len(uv_writes') = Len(uv_writes) /\ uv_writes'[1] = Tail(top)
        /\ \A i \in 2..Len(uv_writes) : uv_writes'[i] = uv_writes[i]
    <2>1. IsSeq(uv_writes) /\ Len(uv_writes) > 0
        BY <1>1
    <2>2. PICK t : t = Tail(top)
        OBVIOUS
    <2>3. PICK w : IsChanged(w, uv_writes, t)
        BY DEF IsChanged
    <2>4. /\ IsSeq(w) /\ Len(w) = Len(uv_writes) /\ w[1] = t
          /\ \A i \in 2..Len(uv_writes) : w[i] = uv_writes[i]
        BY <2>1, <2>3, FirstChanged
    <2> QED BY <1>4, <2>2, <2>3, <2>4 DEF IsChanged
  <1>6. Head(top) = top[1]
    <2> DEFINE S == {top[i] : i \in DOMAIN top}
    <2>1. top \in Seq(S) /\ top # <<>>
        BY <1>1 DEF IsSeq
    <2> HIDE DEF S, top
    <2> QED BY <2>1
  <1> HIDE DEF top
  <1>7. /\ client = "ended" => answers' = answers
        /\ client # "ended" => answers' = Append(answers, top[1])
      BY <1>1, <1>6 DEF SocketTakes
  <1>8. client # "ended" =>
            /\ IsSeq(answers') /\ Len(answers') = Len(answers) + 1
            /\ \A i \in 1..Len(answers) : answers'[i] = answers[i]
            /\ answers'[Len(answers) + 1] = top[1]
    <2> SUFFICES ASSUME client # "ended"
                 PROVE  /\ IsSeq(answers') /\ Len(answers') = Len(answers) + 1
                        /\ \A i \in 1..Len(answers) : answers'[i] = answers[i]
                        /\ answers'[Len(answers) + 1] = top[1]
        OBVIOUS
    <2>1. /\ IsSeq(Append(answers, top[1])) /\ Len(Append(answers, top[1])) = Len(answers) + 1
          /\ \A i \in 1..Len(answers) : Append(answers, top[1])[i] = answers[i]
          /\ Append(answers, top[1])[Len(answers) + 1] = top[1]
        BY <1>1, AppendFacts
    <2> QED BY <1>7, <2>1
  <1>9. UNCHANGED <<c1, schema, client, early, c2s, recv_data_, recv_buffer_, phase_,
                    closed_, run, hs_, reads, split>>
      BY DEF SocketTakes
  <1>10. TypeOK'
    <2>1. TypeOK
        BY DEF IInv
    <2> QED BY <1>9, <2>1, SameTypes
  <1>11. SeqInv'
    <2>1. IsSeq(answers')
        BY <1>1, <1>7, <1>8
    <2>2. \A i \in 1..Len(uv_writes') : IsSeq(uv_writes'[i])
      <3> SUFFICES ASSUME NEW i \in 1..Len(uv_writes)
                   PROVE  IsSeq(uv_writes'[i])
          BY <1>5
      <3>1. CASE i = 1
          BY <1>3, <1>5, <3>1
      <3>2. CASE i # 1
        <4>1. i \in 2..Len(uv_writes)
            BY <1>1, <3>2
        <4>2. IsSeq(uv_writes[i])
            BY DEF IInv, SeqInv
        <4> QED BY <1>5, <4>1, <4>2
      <3> QED BY <3>1, <3>2
    <2> QED BY <1>5, <1>9, <2>1, <2>2 DEF IInv, SeqInv
  <1>12. reads # 0 /\ reads > 0
    <2>1. Len(uv_writes) # 0
        BY <1>1
    <2> QED BY <2>1, EmptyFacts DEF IInv, TypeOK, StartInv
  <1>13. C1Inv' /\ StartInv'
      BY <1>9, <1>12 DEF IInv, C1Inv, StartInv
  <1>14. FirstInv'
    <2> SUFFICES ASSUME ~split
                 PROVE  FirstInv'
        BY <1>9 DEF FirstInv
    <2>1. CASE client = "ended"
        BY <1>7, <1>9, <2>1 DEF IInv, FirstInv
    <2>2. CASE client # "ended" /\ Len(answers) = 0
      <3>1. IsAnswer(top, c1)
          BY <1>1, <1>12, <2>2 DEF IInv, FirstInv, top
      <3>2. Len(answers') = 1 /\ answers'[1] = top[1]
          BY <1>8, <2>2
      <3>3. Len(uv_writes'[1]) = 1 /\ uv_writes'[1][1] = top[2]
          BY <1>3, <1>5, <3>1 DEF IsAnswer
      <3>4. /\ answers'[1] = [part |-> "S0S1", s1 |-> MakeS1(ParseC1(c1))]
            /\ uv_writes'[1][1] = [part |-> "S2", s2 |-> MakeS2(ParseC1(c1))]
          BY <3>1, <3>2, <3>3 DEF IsAnswer
      <3>5. Len(uv_writes') > 0
          BY <1>1, <1>5
      <3> QED BY <1>9, <3>2, <3>3, <3>4, <3>5 DEF FirstInv
    <2>3. CASE client # "ended" /\ Len(answers) = 1
      <3>1. top[1] = [part |-> "S2", s2 |-> MakeS2(ParseC1(c1))]
          BY <2>3 DEF IInv, FirstInv, top
      <3>2. Len(answers') = 2 /\ answers'[2] = top[1] /\ answers'[1] = answers[1]
          BY <1>8, <2>3
      <3>3. answers[1] = [part |-> "S0S1", s1 |-> MakeS1(ParseC1(c1))]
          BY <2>3 DEF IInv, FirstInv
      <3> QED BY <1>9, <3>1, <3>2, <3>3 DEF FirstInv
    <2>4. CASE client # "ended" /\ Len(answers) > 1
      <3>1. Len(answers') > 2 /\ answers'[1] = answers[1] /\ answers'[2] = answers[2]
          BY <1>1, <1>8, <2>4
      <3> QED BY <1>1, <1>9, <2>4, <3>1 DEF IInv, FirstInv
    <2> QED BY <1>1, <2>1, <2>2, <2>3, <2>4
  <1>15. OnceInv'
    <2> SUFFICES ASSUME ~split, ~early
                 PROVE  OnceInv'
        BY <1>9 DEF OnceInv
    <2>1. /\ Len(uv_writes) = 1 /\ Len(answers) + Len(top) <= 2
          /\ Len(answers) < 2 => c2s = <<>> /\ client # "c2"
          /\ ~(phase_ = "initial" /\ Len(answers) = 2)
      <3>1. Len(uv_writes) <= 1
          BY DEF IInv, OnceInv
      <3>2. Len(uv_writes) = 1
        <4>1. \A l \in Nat : l > 0 /\ l <= 1 => l = 1
            OBVIOUS
        <4> QED BY <1>1, <3>1, <4>1, Zenon
      <3> QED BY <1>2, <1>12, <3>2 DEF IInv, OnceInv, top
    <2>2. PICK l : l = Len(answers)
        OBVIOUS
    <2>3. PICK t : t = Len(top)
        OBVIOUS
    <2>4. l \in Nat /\ t \in Nat /\ t > 0 /\ l + t <= 2
        BY <1>1, <1>2, <2>1, <2>2, <2>3
    <2>5. Len(uv_writes') = 1 /\ Len(uv_writes'[1]) = t - 1
        BY <1>3, <1>5, <2>1, <2>3
    <2>6. CASE client = "ended"
      <3>1. Len(answers') = l
          BY <1>7, <2>2, <2>6
      <3>2. l + (t - 1) <= 2 /\ l < 2
          BY <2>4
      <3>3. c2s = <<>> /\ client # "c2"
          BY <2>1, <2>2, <3>2
      <3> QED BY <1>9, <2>4, <2>5, <3>1, <3>2, <3>3 DEF OnceInv
    <2>7. CASE client # "ended"
      <3>1. Len(answers') = l + 1
          BY <1>8, <2>2, <2>7
      <3>2. (l + 1) + (t - 1) <= 2 /\ l + 1 <= 2 /\ l < 2 /\ (l + 1 = 2 => t - 1 = 0)
          BY <2>4
      <3>3. c2s = <<>> /\ client # "c2"
          BY <2>1, <2>2, <3>2
      <3> QED BY <1>9, <2>4, <2>5, <3>1, <3>2, <3>3 DEF OnceInv
    <2> QED BY <2>6, <2>7
  <1> QED BY <1>10, <1>11, <1>13, <1>14, <1>15 DEF IInv

(* A write leaves libuv: the rest of the queue moves up. *)
LEMMA RestOfWrites ==
    ASSUME SeqInv, uv_writes # <<>>, uv_writes' = Tail(uv_writes)
    PROVE  /\ IsSeq(uv_writes') /\ Len(uv_writes') = Len(uv_writes) - 1
           /\ \A i \in 1..Len(uv_writes') : IsSeq(uv_writes'[i])
  <1>1. Len(uv_writes) \in Nat /\ Len(uv_writes) > 0 /\ IsSeq(uv_writes)
      BY WriteDoneIs DEF SeqInv
  <1>2. /\ IsSeq(uv_writes') /\ Len(uv_writes') = Len(uv_writes) - 1
        /\ \A i \in 1..(Len(uv_writes) - 1) : uv_writes'[i] = uv_writes[i + 1]
      BY <1>1, TailFacts
  <1>3. \A i \in 1..(Len(uv_writes) - 1) : i + 1 \in 1..Len(uv_writes)
      BY <1>1
  <1>4. \A i \in 1..Len(uv_writes) : IsSeq(uv_writes[i])
      BY DEF SeqInv
  <1> QED BY <1>2, <1>3, <1>4

(* OnWrite with success: the answer is complete and phase_ moves on. *)
LEMMA OnWriteStep ==
    ASSUME IInv, OnWrite
    PROVE  IInv'
  <1> USE DEF clientVars
  <1>1. /\ SeqInv /\ uv_writes # <<>> /\ uv_writes' = Tail(uv_writes) /\ phase_' = "c2"
        /\ UNCHANGED <<clientVars, c2s, recv_data_, recv_buffer_, closed_, run, hs_, reads, split>>
      BY DEF IInv, OnWrite, WriteDone, PhaseAfterSend
  <1>2. Len(uv_writes) > 0 /\ Len(uv_writes[1]) = 0 /\ Len(uv_writes) \in Nat
      BY <1>1, WriteDoneIs DEF OnWrite
  <1>3. /\ IsSeq(uv_writes') /\ Len(uv_writes') = Len(uv_writes) - 1
        /\ \A i \in 1..Len(uv_writes') : IsSeq(uv_writes'[i])
      BY <1>1, RestOfWrites
  <1>4. TypeOK'
      BY <1>1 DEF IInv, TypeOK
  <1>5. SeqInv'
      BY <1>1, <1>3 DEF SeqInv
  <1>6. reads # 0 /\ reads > 0
      BY <1>1 DEF IInv, TypeOK, StartInv
  <1>7. C1Inv' /\ StartInv'
      BY <1>1, <1>6 DEF IInv, C1Inv, StartInv
  <1>8. FirstInv'
    <2> SUFFICES ASSUME ~split
                 PROVE  FirstInv'
        BY <1>1 DEF FirstInv
    <2>1. CASE client = "ended" \/ Len(answers) > 1
        BY <1>1, <2>1 DEF IInv, FirstInv
    <2>2. ~(client # "ended" /\ Len(answers) = 0)
        BY <1>2, <1>6 DEF IInv, FirstInv, IsAnswer
    <2>3. ~(client # "ended" /\ Len(answers) = 1)
        BY <1>2 DEF IInv, FirstInv
    <2>4. Len(answers) \in Nat
        BY <1>1, WriteDoneIs
    <2>5. \A l \in Nat : l = 0 \/ l = 1 \/ l > 1
        OBVIOUS
    <2>6. client = "ended" \/ Len(answers) > 1
        BY <2>2, <2>3, <2>4, <2>5, Zenon
    <2> QED BY <2>1, <2>6
  <1>9. OnceInv'
    <2> SUFFICES ASSUME ~split, ~early
                 PROVE  OnceInv'
        BY <1>1 DEF OnceInv
    <2>1. Len(uv_writes) <= 1
        BY DEF IInv, OnceInv
    <2>2. Len(uv_writes') = 0
        BY <1>2, <1>3, <2>1
    <2>3. OnceInv
        BY DEF IInv
    <2>4. Len(uv_writes') <= 1 /\ ~(Len(uv_writes') = 1)
        BY <2>2
    <2> QED BY <1>1, <2>3, <2>4 DEF OnceInv
  <1> QED BY <1>4, <1>5, <1>7, <1>8, <1>9 DEF IInv

(* OnWrite with an error, once the client has ended. *)
LEMMA OnWriteErrorStep ==
    ASSUME IInv, OnWriteError
    PROVE  IInv'
  <1> USE DEF clientVars
  <1>1. /\ SeqInv /\ uv_writes # <<>> /\ uv_writes' = Tail(uv_writes) /\ client = "ended"
        /\ UNCHANGED <<clientVars, c2s, recv_data_, recv_buffer_, phase_, closed_, run,
                       hs_, reads, split>>
      BY DEF IInv, OnWriteError
  <1>2. Len(uv_writes) > 0 /\ Len(uv_writes[1]) # 0 /\ Len(uv_writes) \in Nat
        /\ Len(uv_writes[1]) \in Nat /\ Len(answers) \in Nat
    <2>1. ~WriteDone
        BY DEF OnWriteError
    <2> QED BY <1>1, <2>1, WriteDoneIs
  <1>3. /\ IsSeq(uv_writes') /\ Len(uv_writes') = Len(uv_writes) - 1
        /\ \A i \in 1..Len(uv_writes') : IsSeq(uv_writes'[i])
      BY <1>1, RestOfWrites
  <1>4. TypeOK'
      BY <1>1 DEF IInv, TypeOK
  <1>5. SeqInv'
      BY <1>1, <1>3 DEF SeqInv
  <1>6. reads # 0
      BY <1>1 DEF IInv, StartInv
  <1>7. C1Inv' /\ StartInv'
      BY <1>1, <1>6 DEF IInv, C1Inv, StartInv
  <1>8. FirstInv'
      BY <1>1 DEF IInv, FirstInv
  <1>9. OnceInv'
    <2> SUFFICES ASSUME ~split, ~early
                 PROVE  OnceInv'
        BY <1>1 DEF OnceInv
    <2>1. Len(uv_writes) <= 1
        BY DEF IInv, OnceInv
    <2>2. Len(uv_writes') = 0 /\ Len(uv_writes) = 1
        BY <1>2, <1>3, <2>1
    <2>3. Len(answers) + Len(uv_writes[1]) <= 2
        BY <2>2 DEF IInv, OnceInv
    <2>4. \A l, t \in Nat : l + t <= 2 /\ t # 0 => l # 2 /\ l < 2 /\ l <= 2
        OBVIOUS
    <2>5. Len(answers) # 2 /\ Len(answers) < 2 /\ Len(answers) <= 2
        BY <1>2, <2>3, <2>4, Zenon
    <2>6. reads' = reads /\ c2s' = c2s /\ answers' = answers /\ client' = client
        BY <1>1
    <2>7. reads > 0 => c2s = <<>> /\ client # "c2"
        BY <2>5 DEF IInv, OnceInv
    <2> QED BY <2>2, <2>5, <2>6, <2>7 DEF OnceInv
  <1> QED BY <1>4, <1>5, <1>7, <1>8, <1>9 DEF IInv
------------------------------------------------------------------------------
(* Every step keeps the inductive invariant. *)
LEMMA StepInv == IInv /\ [Next]_vars => IInv'
  <1> SUFFICES ASSUME IInv, [Next]_vars
               PROVE  IInv'
      OBVIOUS
  <1>1. CASE UNCHANGED vars
    <2> USE <1>1 DEF vars
    <2>0. TypeOK
        BY DEF IInv
    <2>1. TypeOK'
        BY <2>0, SameTypes
    <2>2. SeqInv'
        BY DEF IInv, SeqInv
    <2>3. C1Inv'
        BY DEF IInv, C1Inv
    <2>4. StartInv' /\ FirstInv' /\ OnceInv'
        BY DEF IInv, StartInv, FirstInv, OnceInv
    <2> QED BY <2>1, <2>2, <2>3, <2>4 DEF IInv
  <1> QED BY <1>1, C0C1Step, ClientSendsC2Step, ClientEndsStep, OnReceiveStep,
             OnReceiveEndStep, SocketTakesStep, OnWriteStep, OnWriteErrorStep DEF Next

(* The inductive invariant holds of the session and its client. *)
LEMMA Invariant == Spec => []IInv
  <1> QED BY InitInv, StepInv, PTL DEF Spec

(* Types, for every layout: recv_buffer_ never grows past the reads, and    *)
(* ParseDigest and ParseKey cut whatever packet they are given into parts   *)
(* that fill their blocks.                                                  *)
THEOREM TypeCorrect == Spec => []TypeOK
  <1>1. IInv => TypeOK
      BY DEF IInv
  <1> QED BY <1>1, Invariant, PTL

(* For every layout and every offset, with SCHEMA0 and SCHEMA1: the first   *)
(* answer a client gets to a C0C1 that came in one read fits its own C1,    *)
(* however C2, the socket and HandleRequest interleave behind it.           *)
THEOREM ClientGetsItsAnswer == Spec => []AnswerFitsClient
  <1>1. IInv => AnswerFitsClient
    <2> SUFFICES ASSUME IInv, answers # <<>>, ~split, schema \in {"SCHEMA0", "SCHEMA1"}
                 PROVE  /\ KeyBlock(answers[1].s1, schema).key = SharedKey(Random("key", KeyLen))
                        /\ DigestBlock(answers[1].s1, schema).digest
                             = MakeS1Digest([time |-> c1[1], d |-> DigestBlock(c1, schema),
                                             k |-> KeyBlock(c1, schema)])
                        /\ Len(answers) > 1 =>
                             answers[2].s2 = Hmac(Hmac("player68", <<DigestBlock(c1, schema).digest>>),
                                                  <<Cell(1, <<"random">>)>>)
        BY DEF AnswerFitsClient
    <2>1. Len(answers) > 0
        BY SeqFacts DEF IInv, SeqInv
    <2>2. client # "new"
        BY DEF IInv, StartInv
    <2>3. PICK ds, ks \in OffsetSums : IsC1(c1, Head1, ds, ks, schema)
        BY <2>2 DEF IInv, C1Inv
    <2>4. /\ answers[1].s1 = MakeS1(ParseC1(c1))
          /\ Len(answers) > 1 => answers[2].s2 = MakeS2(ParseC1(c1))
        BY <2>1 DEF IInv, FirstInv
    <2>5. KeyBlock(MakeS1(ParseC1(c1)), schema).key = SharedKey(Random("key", KeyLen))
        BY <2>3, AnswerFits
    <2>6. DigestBlock(MakeS1(ParseC1(c1)), schema).digest
             = MakeS1Digest([time |-> c1[1], d |-> DigestBlock(c1, schema),
                             k |-> KeyBlock(c1, schema)])
        BY <2>3, AnswerFits
    <2>7. MakeS2(ParseC1(c1)) = Hmac(Hmac("player68", <<DigestBlock(c1, schema).digest>>),
                                     <<Cell(1, <<"random">>)>>)
        BY <2>3, AnswerFits
    <2> QED BY <2>4, <2>5, <2>6, <2>7
  <1> QED BY <1>1, Invariant, PTL

(* A client whose C0C1 came in one read and that waits for all of S0S1S2 is *)
(* answered once: HandleRequest, which Run does not wait for, never takes   *)
(* its C2 for another C0C1.                                                 *)
THEOREM PatientClientAnsweredOnce == Spec => []AnsweredOnce
  <1>1. IInv => AnsweredOnce
    <2> SUFFICES ASSUME IInv, ~split, ~early
                 PROVE  /\ Len(answers) + (IF uv_writes = <<>> THEN 0 ELSE Len(uv_writes[1])) <= 2
                        /\ Len(uv_writes) <= 1
                        /\ client = "c2" => phase_ # "initial" \/ WriteDone
        BY DEF AnsweredOnce
    <2>1. /\ Len(uv_writes) \in Nat /\ Len(answers) \in Nat
          /\ WriteDone <=> Len(uv_writes) > 0 /\ Len(uv_writes[1]) = 0
          /\ uv_writes # <<>> <=> Len(uv_writes) > 0
        BY WriteDoneIs DEF IInv
    <2>2. Len(uv_writes) <= 1 /\ Len(answers) <= 2
        BY DEF IInv, OnceInv
    <2>3. Len(answers) + (IF uv_writes = <<>> THEN 0 ELSE Len(uv_writes[1])) <= 2
      <3>1. CASE uv_writes = <<>>
        <4>1. Len(answers) + 0 <= 2
            BY <2>1, <2>2
        <4> QED BY <3>1, <4>1
      <3>2. CASE uv_writes # <<>>
        <4>1. Len(uv_writes) = 1
          <5>1. \A l \in Nat : l > 0 /\ l <= 1 => l = 1
              OBVIOUS
          <5> QED BY <2>1, <2>2, <3>2, <5>1, Zenon
        <4>2. Len(answers) + Len(uv_writes[1]) <= 2
            BY <4>1 DEF IInv, OnceInv
        <4> QED BY <3>2, <4>2
      <3> QED BY <3>1, <3>2
    <2>4. client = "c2" => phase_ # "initial" \/ WriteDone
      <3> SUFFICES ASSUME client = "c2", phase_ = "initial"
                   PROVE  WriteDone
          OBVIOUS
      <3>1. reads > 0
          BY DEF IInv, TypeOK, StartInv
      <3>2. ~(Len(answers) < 2)
          BY <3>1 DEF IInv, OnceInv
      <3>3. \A l \in Nat : l <= 2 /\ ~(l < 2) => l = 2
          OBVIOUS
      <3>4. Len(answers) = 2
          BY <2>1, <2>2, <3>2, <3>3, Zenon
      <3>5. Len(uv_writes) = 1 /\ Len(uv_writes[1]) = 0
          BY <3>4 DEF IInv, OnceInv
      <3> QED BY <2>1, <3>5
    <2> QED BY <2>2, <2>3, <2>4
  <1> QED BY <1>1, Invariant, PTL
=============================================================================
