--------------------------- MODULE RtmpHandshake ---------------------------
(***************************************************************************)
(* net/rtmp/co_rtmp/co_rtmp_handshake: what C1S1Handle and C2S2Handle       *)
(* compute from a C1 packet, as operators.                                  *)
(*                                                                         *)
(* A packet is a sequence of cells.  A cell [n, v] is a run of bytes that   *)
(* the code always moves together: n is the number read from it when it is  *)
(* taken for an offset (the sum of its four bytes), v says what it holds.   *)
(* C1 and S1 are a time, a version and two blocks of BlockLen cells:        *)
(*   digest block   offset, random, digest, random                          *)
(*   key block      random, key, random, offset                             *)
(* (764 bytes each in the code, with 4 for an offset, 32 for a digest and   *)
(* 128 for a key.)  SCHEMA0 has the key block first, SCHEMA1 the digest     *)
(* block.  HMAC-SHA256 is a function of the key and the input and nothing   *)
(* else; Diffie-Hellman's shared key is a function of the peer's key.       *)
(*                                                                         *)
(* Operators named Op_Slip are mutated forms of Op, each a plausible slip   *)
(* in the lines Op models, used only to see that a property notices it.     *)
(***************************************************************************)
EXTENDS Integers, Sequences

CONSTANTS
    BlockLen,     \* cells of a digest block or a key block
    KeyLen        \* cells of a key

ASSUME LayoutAssumption ==
    /\ BlockLen \in Nat /\ KeyLen \in Nat \ {0}
    /\ BlockLen > KeyLen + 1 /\ BlockLen > 2

DigestLen == 1
OffsetLen == 1
HeadLen == 2
C1Len == HeadLen + 2 * BlockLen

Cell(n, v) == [n |-> n, v |-> v]

(* HmacSha256(key, size of the key, data): the digest of data. *)
Hmac(key, data) == Cell(1, <<"hmac", key, data>>)

(* DHGenKey::CopySharedKey with a fresh key pair. *)
SharedKey(key) == [i \in 1..KeyLen |-> Cell(1, <<"shared", key[i]>>)]

(* The two offset rules: the random part in front of the digest or the key. *)
CalcValidDigestOffset(sum) == sum % (BlockLen - DigestLen - OffsetLen)
CalcValidKeyOffset_Digest(sum) == sum % (BlockLen - DigestLen - OffsetLen)
CalcValidKeyOffset(sum) == sum % (BlockLen - KeyLen - OffsetLen)
------------------------------------------------------------------------------
(* ParseDigest: digest_random0_, digest_data_ and digest_random1_.          *)
ParseDigest(block) ==
    LET off == CalcValidDigestOffset(block[1].n)
        at  == OffsetLen + off + 1
    IN  [offset |-> block[1],
         random0 |-> SubSeq(block, OffsetLen + 1, OffsetLen + off),
         digest |-> block[at],
         random1 |-> SubSeq(block, at + DigestLen, BlockLen)]

(* ParseKey: key_random0_, c1_key_data_ and key_random1_. *)
ParseKey(block) ==
    LET off == CalcValidKeyOffset(block[BlockLen].n)
    IN  [offset |-> block[BlockLen],
         random0 |-> SubSeq(block, 1, off),
         key |-> SubSeq(block, off + 1, off + KeyLen),
         random1 |-> SubSeq(block, off + KeyLen + 1, BlockLen - OffsetLen)]

Block(c1, i) == SubSeq(c1, HeadLen + (i - 1) * BlockLen + 1, HeadLen + i * BlockLen)

(* TrySchema0 and TrySchema1: where each block is. *)
DigestBlock(c1, schema) == ParseDigest(Block(c1, IF schema = "SCHEMA1" THEN 1 ELSE 2))
KeyBlock(c1, schema) == ParseKey(Block(c1, IF schema = "SCHEMA1" THEN 2 ELSE 1))

(* What a digest is taken over: the packet without the digest itself.       *)
(* first_part_len counts the cells in front of it.                          *)
FirstPartLen_NoOffset(d, schema) ==
    HeadLen + (IF schema = "SCHEMA0" THEN BlockLen ELSE 0) + Len(d.random0)
FirstPartLen(d, schema) ==
    HeadLen + (IF schema = "SCHEMA0" THEN BlockLen ELSE 0) + OffsetLen + Len(d.random0)

CheckDigestValid(c1, schema) ==
    LET d    == DigestBlock(c1, schema)
        n    == FirstPartLen(d, schema)
        data == SubSeq(c1, 1, n) \o SubSeq(c1, n + DigestLen + 1, C1Len)
    IN  d.digest = Hmac("player30", data)

(* ParseC1: SCHEMA1 is tried first, then SCHEMA0; otherwise the handshake   *)
(* is simple, and the fields keep what TrySchema0 read.                     *)
ParseC1(c1) ==
    LET schema == IF CheckDigestValid(c1, "SCHEMA1") THEN "SCHEMA1" ELSE "SCHEMA0"
    IN  [schema |-> schema,
         simple |-> ~CheckDigestValid(c1, schema),
         time |-> c1[1],
         d |-> DigestBlock(c1, schema), k |-> KeyBlock(c1, schema)]
------------------------------------------------------------------------------
(* A key block and a digest block around a key and a digest (MakeKey,       *)
(* MakeDigest; MakeC0C1 writes the same).                                   *)
MakeKey_OffsetFirst(k, key) == <<k.offset>> \o k.random0 \o key \o k.random1
MakeKey(k, key) == k.random0 \o key \o k.random1 \o <<k.offset>>
MakeDigest(d, digest) == <<d.offset>> \o d.random0 \o <<digest>> \o d.random1
MakeSchema(d, digest, k, key, schema) ==
    IF schema = "SCHEMA1" THEN MakeDigest(d, digest) \o MakeKey(k, key)
                          ELSE MakeKey(k, key) \o MakeDigest(d, digest)

(* MakeS1Digest joins the key block with the client's key and the digest    *)
(* block without its digest, in this order for either schema.               *)
MakeS1Digest(c) ==
    Hmac("player36", <<c.time, Cell(1, <<"version">>)>> \o MakeKey(c.k, c.k.key)
                        \o <<c.d.offset>> \o c.d.random0 \o c.d.random1)

(* MakeS1: the client's time, offsets and random parts come back with the   *)
(* server's key and digest.                                                 *)
MakeS1(c) ==
    <<c.time, Cell(1, <<"version">>)>>
        \o MakeSchema(c.d, MakeS1Digest(c), c.k, SharedKey(c.k.key), c.schema)

(* C2S2Handle: S2 ends with the digest of its random part under a key made  *)
(* from C1's digest (CreateByDigest, which ValidateS2 repeats).             *)
MakeS2(c) == Hmac(Hmac("player68", <<c.d.digest>>), <<Cell(1, <<"random">>)>>)

(* MakeC0C1 and MakeC1Scheme1Digest, from the random parts that PrepareDigest *)
(* and PrepareKey drew.  A foreign client may use SCHEMA0.                  *)
MakeC1(head, d, k, schema) ==
    LET blank  == head \o MakeSchema(d, Cell(0, <<"blank">>), k, k.key, schema)
        n      == FirstPartLen(d, schema)
        digest == Hmac("player30", SubSeq(blank, 1, n)
                                      \o SubSeq(blank, n + DigestLen + 1, C1Len))
    IN  head \o MakeSchema(d, digest, k, k.key, schema)

(* PrepareDigest and PrepareKey for the offsets with byte sums ds and ks. *)
Random(name, n) == [i \in 1..n |-> Cell(1, <<name, i>>)]
PrepareDigest(ds) ==
    LET off == CalcValidDigestOffset(ds)
    IN  [offset |-> Cell(ds, <<"offset">>), random0 |-> Random("d0", off),
         digest |-> Cell(0, <<"blank">>),
         random1 |-> Random("d1", BlockLen - DigestLen - OffsetLen - off)]
PrepareKey(ks) ==
    LET off == CalcValidKeyOffset(ks)
    IN  [offset |-> Cell(ks, <<"offset">>), random0 |-> Random("k0", off),
         key |-> Random("key", KeyLen),
         random1 |-> Random("k1", BlockLen - KeyLen - OffsetLen - off)]

(* MakeC0C1 gives up when there is no random part in front of the digest. *)
MakeC0C1Fails(d) == Len(d.random0) = 0
==============================================================================
