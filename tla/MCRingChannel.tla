---------------------------- MODULE MCRingChannel -----------------------------
EXTENDS RingChannel, TLC

(* Contents and flags are only compared.                                   *)
Symmetry == Permutations(Payloads) \union Permutations(Flags)
=============================================================================
