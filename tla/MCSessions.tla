------------------------------ MODULE MCSessions ------------------------------
(* Model values for the runs of Sessions. *)
EXTENDS Sessions

CONSTANTS g1, g2, s1, s2

OneGroup == {g1}
TwoGroups == {g1, g2}
TwoConns == {s1, s2}
=============================================================================
