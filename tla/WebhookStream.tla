---------------------------- MODULE WebhookStream ----------------------------
(***************************************************************************)
(* What the dispatcher promises Comdove and the admin log, with no pool,    *)
(* queue, retry, timer or restart: jobs are submitted per conversation, a   *)
(* job is offered to Comdove only when every earlier job of its             *)
(* conversation has its verdict, `ok' is said only of a job that Comdove    *)
(* has taken and `failed' only of a job that was offered.  Comdove may take *)
(* a job more than once, and late: delivery is at least once.  A job whose  *)
(* verdict could not be written is dropped: the later ones pass it, and it  *)
(* may get its verdict after all.                                           *)
(***************************************************************************)
EXTENDS Integers

CONSTANTS Convs, NoConv, MaxJobs

JobIds == 1 .. MaxJobs

VARIABLES
    conv,           \* the conversation of each job
    verdicts,       \* what has become of it
    offered,        \* the jobs Comdove has been offered
    taken,          \* the jobs Comdove has taken
    dropped         \* the jobs whose verdict could not be written

vars == <<conv, verdicts, offered, taken, dropped>>

Init ==
    /\ conv = [j \in JobIds |-> NoConv]
    /\ verdicts = [j \in JobIds |-> "absent"]
    /\ offered = {}
    /\ taken = {}
    /\ dropped = {}

\* Any step may offer jobs, each of them the first of its conversation that is
\* without a verdict, the dropped ones aside.
OffersInOrder ==
    /\ offered \subseteq offered'
    /\ \A j \in offered' \ offered :
           /\ verdicts'[j] = "pending"
           /\ \A i \in JobIds : (i < j /\ conv'[i] = conv'[j]) =>
                  (verdicts'[i] # "pending" \/ i \in dropped')

Submit(j, c) ==
    /\ \A i \in JobIds : verdicts[i] = "absent" <=> i >= j
    /\ conv' = [conv EXCEPT ![j] = c]
    /\ verdicts' = [verdicts EXCEPT ![j] = "pending"]
    /\ UNCHANGED <<taken, dropped>>
    /\ OffersInOrder

Offer ==
    /\ UNCHANGED <<conv, verdicts, taken, dropped>>
    /\ OffersInOrder

Take(j) ==
    /\ j \in offered
    /\ taken' = taken \cup {j}
    /\ UNCHANGED <<conv, verdicts, offered, dropped>>

Settle(j, verdict) ==
    /\ verdicts[j] = "pending"
    /\ verdict = "ok" => j \in taken
    /\ verdict = "failed" => j \in offered
    /\ verdicts' = [verdicts EXCEPT ![j] = verdict]
    /\ UNCHANGED <<conv, taken, dropped>>
    /\ OffersInOrder

Drop(j) ==
    /\ j \in offered /\ verdicts[j] = "pending"
    /\ dropped' = dropped \cup {j}
    /\ UNCHANGED <<conv, verdicts, taken>>
    /\ OffersInOrder

Wipe ==
    /\ verdicts' = [j \in JobIds |-> IF verdicts[j] = "absent" THEN "absent" ELSE "deleted"]
    /\ UNCHANGED <<conv, offered, taken, dropped>>

Next ==
    \/ \E j \in JobIds, c \in Convs : Submit(j, c)
    \/ Offer
    \/ \E j \in JobIds : Take(j)
    \/ \E j \in JobIds, verdict \in {"ok", "failed"} : Settle(j, verdict)
    \/ \E j \in JobIds : Drop(j)
    \/ Wipe

Spec == Init /\ [][Next]_vars
===============================================================================
