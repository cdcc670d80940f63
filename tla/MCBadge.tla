------------------------------- MODULE MCBadge -------------------------------
(***************************************************************************)
(* BadgeContract for TLC: nonces are random values that are only ever       *)
(* compared, so any two of them may be exchanged.                           *)
(***************************************************************************)
EXTENDS BadgeContract, TLC

Symmetry == Permutations(Nonces)
=============================================================================
