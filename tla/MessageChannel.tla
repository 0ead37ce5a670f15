--------------------------- MODULE MessageChannel ---------------------------
(***************************************************************************)
(* What the framing of messages promises over a ring of bytes: a queue of  *)
(* messages.  A message comes out whole, as it was put in and in its turn, *)
(* or is given up because it is longer than the receiver takes.            *)
(***************************************************************************)
EXTENDS Naturals, Sequences

CONSTANTS Text,    \* the messages
          Longest  \* the length of the longest that is received

VARIABLES queue,  \* sent, and neither received nor given up
          got     \* received

vars == <<queue, got>>

Init == queue = <<>> /\ got = <<>>

Send(text) == queue' = Append(queue, text) /\ UNCHANGED got

Receive == /\ queue # <<>>
           /\ Len(Head(queue)) <= Longest
           /\ got' = Append(got, Head(queue))
           /\ queue' = Tail(queue)

GiveUp == /\ queue # <<>>
          /\ Len(Head(queue)) > Longest
          /\ queue' = Tail(queue)
          /\ UNCHANGED got

Next == (\E text \in Text : Send(text)) \/ Receive \/ GiveUp

Spec == Init /\ [][Next]_vars

=============================================================================
