----------------------------- MODULE MCRegistry -----------------------------
(***************************************************************************)
(* Instances of Registry for TLC.                                          *)
(***************************************************************************)
EXTENDS Registry

Ids == 1..Cardinality(Thread)
ASSUME IdsAreOrdered == Thread = Ids

(* One thread logs more than once.                                         *)
SecondLogsMore == [t \in Ids |-> IF t = 2 THEN 2 ELSE 1]
=============================================================================
