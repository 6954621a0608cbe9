------------------------------ MODULE MCSecMod ------------------------------
(* Instances of SecMod for TLC. *)
EXTENDS SecMod, TLC

Symmetry == Permutations(SID)
=============================================================================
