------------------------------- MODULE MCULog -------------------------------
(***************************************************************************)
(* Instances of ULog for TLC.  Threads are numbers, the keys of the map    *)
(* that the background thread walks in order, so they are not symmetric.   *)
(***************************************************************************)
EXTENDS ULog

(* The sizes keep the order they have in the code: a line fits a frame, a  *)
(* frame of merged lines may be too long to be read back, and a backlog of *)
(* several lines may be too long for the ring.                             *)
ASSUME SizesInOrder ==
  /\ HeadLen + TailLen < MaxExpected
  /\ MaxExpected < RingSize
(* One thread's lines have two lengths, so that merged ones can be too     *)
(* long to be read or to be written; the other is there to be waited for.  *)
LongAndShort == [t \in Thread |-> IF t = 1 THEN {1, 3} ELSE {2}]
ThreeAndOne == [t \in Thread |-> IF t = 1 THEN 3 ELSE 1]
TwoLong == [t \in Thread |-> {2}]
Three == [t \in Thread |-> 3]
=============================================================================
