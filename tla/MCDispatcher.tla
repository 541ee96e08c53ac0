---------------------------- MODULE MCDispatcher ----------------------------
(* Model values and symmetry for the runs of Dispatcher. *)
EXTENDS Dispatcher, TLC

CONSTANTS c1, c2, c3

TwoConvs == {c1, c2}
ThreeConvs == {c1, c2, c3}
ConvSymmetry == Permutations(Convs)
=============================================================================
