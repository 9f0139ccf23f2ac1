--------------------------- MODULE MCCoRtmpSession ---------------------------
(* Blocks of six cells with keys of three, offsets that put the digest and  *)
(* the key at the front, inside and at the back of their blocks, and every  *)
(* split of C0C1 and C2 into up to MaxReads reads.                          *)
EXTENDS CoRtmpSession
==============================================================================
