------------------------------ MODULE MCAdminLog ------------------------------
(* Model values, symmetry and the bound for the run of AdminLog. *)
EXTENDS AdminLog, TLC

CONSTANTS a1, b1, b2, g1

OneAdmin == {a1}
TwoBusinesses == {b1, b2}
OneGroup == {g1}
BusinessSymmetry == Permutations(Businesses)

\* Bound: the last thing to happen is a verdict of the second message, a second one
\* of the first, an attempt without a verdict, a read, or the end of a group that
\* has messages; an answer on its way holds one message.
Short ==
    /\ \A r \in Rows, k \in Kinds :
           \/ jobs[r][k] \in {"none", "pending"}
           \/ jobs[r][k] = "finished" /\ r = 1 /\ k = "sent"
    /\ read = {}
    /\ live # {} => group # NoGroup
    /\ \A a \in Admins : Cardinality({r \in Rows : answer[a][r] # Unknown}) <= 1
===============================================================================
