----------------------------- MODULE MCAccount -----------------------------
(* Instances of Account for TLC: one phone, two people. *)
EXTENDS Account, TLC

CONSTANTS phone, e1, e2, nobody

EmailSymmetry == Permutations(Emails)
=============================================================================
