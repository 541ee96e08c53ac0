--------------------------------- MODULE MCTab ---------------------------------
(* Two businesses and a snapshot that is cut at its newest message. *)
EXTENDS Tab, TLC

CONSTANTS b1, b2

TwoBusinesses == {b1, b2}
BusinessSymmetry == Permutations(Businesses)
===============================================================================
