------------------------------ MODULE MCLyMsg ------------------------------
(***************************************************************************)
(* Instances of LyMsg for TLC.  The length of a message is itself a byte   *)
(* that is not a flag, and every message fits the ring.                    *)
(***************************************************************************)
EXTENDS LyMsg

(* Texts that read() takes, with flags in them and with what looks like    *)
(* the tail of a message; texts too long for it; and one with what looks   *)
(* like a message without its tail inside, which is not the first: the     *)
(* reader would take it as the proof that messages have no tails.          *)
Taken == UNION {[1..n -> {2, TailValue(2), Flag}] : n \in {1, 3}}
Overlong == {<<2, 2, 2, 2>>, <<2, TailValue(2), 2, TailValue(2)>>}
WithHeader == {<<Flag, Flag, 2, 2>>}
PlainTexts == Taken \cup Overlong
SomeTexts == PlainTexts \cup WithHeader

ASSUME MessagesFit == \A data \in Text : HeadLen + Len(data) + TailLen <= RingSize
=============================================================================
