------------------------------ MODULE MCDelivery ------------------------------
(* Model values for the runs of Delivery. *)
EXTENDS Delivery, TLC

CONSTANTS b1, b2, t1, t2

OneBusiness == {b1}
TwoBusinesses == {b1, b2}
OneTile == <<t1>>
TwoTiles == <<t1, t2>>

\* Bound: a crash is the last thing to happen, and only the first tile replies by
\* itself, until there are two messages.
Short == crashes = 0 /\ auto \subseteq (IF next <= 2 THEN {t1} ELSE {})
===============================================================================
