------------------------------ MODULE MCRegistry ------------------------------
(* Model values and symmetry for the runs of Registry. *)
EXTENDS Registry, TLC

CONSTANTS n1, n2, n3, x1, x2, x3, ga, gb

SomeNumbers == {n1, n2, n3}
\* A caller may supply a MOCK-PN id, or one that looks like a phone number.
SomeSupplied == {1, n1, n2, n3}
SomeNames == {x1, x2, x3}
\* Two of the names differ in their punctuation only.
SomeSlugs == [x \in SomeNames |-> IF x = x3 THEN gb ELSE ga]
NameSymmetry == Permutations(Numbers) \cup Permutations({x1, x2})
===============================================================================
