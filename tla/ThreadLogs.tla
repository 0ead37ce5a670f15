----------------------------- MODULE ThreadLogs -----------------------------
(***************************************************************************)
(* What the logger promises to each thread that logs: its lines reach the  *)
(* log file in the order in which it logged them and at most once.  Lines  *)
(* may be lost, but only the oldest ones still on their way.               *)
(***************************************************************************)
EXTENDS Naturals, Sequences

CONSTANT Thread

VARIABLES logged,   \* number of lines logged by each thread
          pending,  \* lines on their way to the file
          saved     \* lines in the file

vars == <<logged, pending, saved>>

Init == /\ logged = [t \in Thread |-> 0]
        /\ pending = [t \in Thread |-> <<>>]
        /\ saved = [t \in Thread |-> <<>>]

Log(t) == /\ logged' = [logged EXCEPT ![t] = @ + 1]
          /\ pending' = [pending EXCEPT ![t] = Append(@, logged'[t])]
          /\ UNCHANGED saved

(* The first k lines leave together. *)
Leave(t, k) == pending' = [pending EXCEPT ![t] = SubSeq(@, k + 1, Len(@))]

Save(t, k) == /\ Leave(t, k)
              /\ saved' = [saved EXCEPT ![t] = @ \o SubSeq(pending[t], 1, k)]
              /\ UNCHANGED logged

Lose(t, k) == Leave(t, k) /\ UNCHANGED <<logged, saved>>

(* The process ends. *)
LoseAll == /\ pending' = [t \in Thread |-> <<>>]
           /\ UNCHANGED <<logged, saved>>

Next == \/ LoseAll
        \/ \E t \in Thread : \/ Log(t)
                             \/ \E k \in 1..Len(pending[t]) : Save(t, k) \/ Lose(t, k)

Spec == Init /\ [][Next]_vars

=============================================================================
