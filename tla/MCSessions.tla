----------------------------- MODULE MCSessions -----------------------------
(***************************************************************************)
(* Sessions for TLC: worker slots and addresses are interchangeable.       *)
(***************************************************************************)
EXTENDS Sessions, TLC

Symmetry == Permutations(PID) \cup Permutations(SID) \cup Permutations(IP)
=============================================================================
