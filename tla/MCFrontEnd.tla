----------------------------- MODULE MCFrontEnd -----------------------------
(***************************************************************************)
(* Instances of FrontEnd for TLC: the translation units are alike.         *)
(***************************************************************************)
EXTENDS FrontEnd, TLC

Symmetry == Permutations(Unit)
=============================================================================
