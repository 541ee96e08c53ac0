------------------------------ MODULE MCRequests ------------------------------
(* Two businesses, the second under an id that is the number of the first; a *)
(* customer, and a message for each business.                                *)
EXTENDS Requests, TLC

CONSTANTS n1, n2, n3, i1, w1, w2, s1

TwoDisplays == (i1 :> n1) @@ (n1 :> n2)
OneCustomer == {n3}
TwoReceived == (w1 :> i1) @@ (w2 :> n1)
OneStranger == {s1}
===============================================================================
