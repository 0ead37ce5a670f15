------------------------------ MODULE ByteFifo ------------------------------
(***************************************************************************)
(* What a CircleBuffer promises to the one thread that writes it and the   *)
(* one thread that reads it: a bounded FIFO of bytes.  A write takes       *)
(* effect at one instant and whole, or is refused; a read delivers the     *)
(* oldest bytes; bytes may also be dropped from the front.                 *)
(***************************************************************************)
EXTENDS Naturals, Sequences

CONSTANTS BufferSize,  \* capacity in bytes
          Byte         \* the values a byte can take

VARIABLES src,   \* argument of the write in progress, <<>> when there is none
          fifo,  \* bytes written and not yet read or dropped
          out    \* bytes delivered by a read and not yet taken by the caller

vars == <<src, fifo, out>>

Init == src = <<>> /\ fifo = <<>> /\ out = <<>>

(* The writer submits a block, which is then accepted whole or refused. *)
Submit == /\ src = <<>>
          /\ src' \in Seq(Byte) \ {<<>>}
          /\ UNCHANGED <<fifo, out>>

Accept == /\ src # <<>>
          /\ Len(fifo) + Len(src) <= BufferSize
          /\ fifo' = fifo \o src
          /\ src' = <<>>
          /\ UNCHANGED out

Refuse == /\ src # <<>>
          /\ src' = <<>>
          /\ UNCHANGED <<fifo, out>>

Read(n) == /\ out = <<>>
           /\ out' = SubSeq(fifo, 1, n)
           /\ fifo' = SubSeq(fifo, n + 1, Len(fifo))
           /\ UNCHANGED src

Drop(n) == /\ fifo' = SubSeq(fifo, n + 1, Len(fifo))
           /\ UNCHANGED <<src, out>>

Take == /\ out' = <<>>
        /\ UNCHANGED <<src, fifo>>

Next == \/ Submit \/ Accept \/ Refuse \/ Take
        \/ \E n \in 1..Len(fifo) : Read(n) \/ Drop(n)

Spec == Init /\ [][Next]_vars

=============================================================================
