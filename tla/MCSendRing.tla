------------------------------ MODULE MCSendRing ------------------------------
EXTENDS SendRing, TLC

(* Flags are addresses: only their equality matters.                       *)
Symmetry == Permutations(Flags)
===============================================================================
