------------------------------- MODULE MCServer -------------------------------
(* Model values and symmetry for the run of Server. *)
EXTENDS Server, TLC

CONSTANTS b1, b2, t1

TwoBusinesses == {b1, b2}
OneTile == <<t1>>
BusinessSymmetry == Permutations(Businesses)
===============================================================================
