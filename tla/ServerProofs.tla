----------------------------- MODULE ServerProofs -----------------------------
(***************************************************************************)
(* Proofs about the composition.  On the stream (module EndToEnd): the      *)
(* server keeps to the dispatcher's interface, what DeliveryProofs shows    *)
(* of Delivery holds of the whole, and with the order of the stream it      *)
(* yields what Comdove may conclude.  With the real dispatcher (module      *)
(* Server): what DispatcherProofs shows of Dispatcher holds of the whole,   *)
(* and the whole implements the system on the stream.                       *)
(***************************************************************************)
EXTENDS Server, DeliveryProofs

JobIds == Stream!JobIds

-----------------------------------------------------------------------------
(* The composition and its parts.                                           *)

LEMMA SystemStepIsServerStep == [SystemNext]_systemVars => [Next]_vars
<1>1. Enqueue => Next
  BY DEF Enqueue, Next
<1>2. \A keep \in BOOLEAN : ResetAll(keep) => Next
  BY DEF ResetAll, Next
<1>3. ServerStep => Next
  BY DEF ServerStep, Next
<1>4. DispatcherStep \/ ComdoveStep => UNCHANGED vars
  BY DEF DispatcherStep, ComdoveStep
<1>5. UNCHANGED systemVars => UNCHANGED vars
  BY DEF systemVars
<1> QED
  BY <1>1, <1>2, <1>3, <1>4, <1>5 DEF SystemNext

\* The server of the composition is module Delivery: every theorem about Spec is
\* one about System.
THEOREM SystemImplementsDelivery == System => Spec
<1>1. SystemInit => Init
  BY DEF SystemInit
<1> QED
  BY <1>1, SystemStepIsServerStep, PTL DEF System, Spec

\* Where the messages of webhooks live.
Addressed == \A m \in live : tileOf[m] \in Tiles

LEMMA StepKeepsAddressed == TypeOK /\ Addressed /\ [Next]_vars => Addressed'
<1> SUFFICES ASSUME TypeOK, Addressed, [Next]_vars PROVE Addressed'
  OBVIOUS
<1>0. TypeFacts
  BY TypeGives
<1>1. ASSUME NEW d, NEW b, NEW t \in Tiles, Store(d, b, t) PROVE Addressed'
  <2>1. /\ live' = live \cup {next} /\ tileOf' = [tileOf EXCEPT ![next] = t]
        /\ next \in Ids
    BY <1>0, <1>1, BoundsAssumption DEF Store, TypeFacts, Ids
  <2> QED
    BY <1>0, <2>1 DEF Addressed, TypeFacts
<1>2. ASSUME NEW b \in Businesses, NEW t \in Tiles, Accept(b, t) \/ Inbound(b, t) PROVE Addressed'
  BY <1>1, <1>2 DEF Accept, Inbound, TakeInbound
<1>3. ASSUME NEW m \in Ids, TimerFires(m) PROVE Addressed'
  <2>1. CASE Reachable(tileOf[m]) /\ TakeInbound("timer", bizOf[m], tileOf[m])
    <3>1. tileOf[m] \in Tiles
      BY <1>0, <2>1 DEF Reachable, TypeFacts
    <3> QED
      BY <1>1, <2>1, <3>1 DEF TakeInbound
  <2>2. CASE UNCHANGED messages
    BY <2>2 DEF messages, Addressed
  <2> QED
    BY <1>3, <2>1, <2>2 DEF TimerFires
<1>4. CASE UNCHANGED tileOf /\ live' \subseteq live
  BY <1>4 DEF Addressed
<1>5. \/ UNCHANGED tileOf /\ live' \subseteq live
      \/ \E b \in Businesses, t \in Tiles : Accept(b, t) \/ Inbound(b, t)
      \/ \E m \in Ids : TimerFires(m)
  BY DEF Next, OtherStep, vars, messages, ChatRead, Finish, AnswerAborted, MarkInboundRead, Presence,
         SetAutoReply, Claim, SocketEnds, SessionEnds, QueueWebhook, QueueThrows, BatchEnds, NextTile,
         Crash, Reset, RegisterBusiness, DeleteBusiness, CreateGroup, DeleteGroup
<1> QED
  BY <1>2, <1>3, <1>4, <1>5

\* What DeliveryProofs knows of a reachable state.
ServerInv == TypeOK /\ Shape /\ WebhooksMatchTransitions /\ Addressed

LEMMA ServerInvHolds == Spec => []ServerInv
<1>1. Init => Addressed
  BY DEF Init, Addressed
<1>2. TypeOK /\ Addressed /\ [Next]_vars => Addressed'
  BY StepKeepsAddressed
<1> QED
  BY <1>1, <1>2, OwedHolds, PTL DEF Spec, ServerInv

\* A webhook that is queued belongs to a conversation of its message.
LEMMA EnqueueAddressed ==
    ASSUME ServerInv, QueueWebhook, wiped \in 0 .. MaxJobs
    PROVE  ConversationOf(Head(call.todo)) \in Conversations
<1>1. call.todo \in Seq(Ids) /\ call.todo # <<>> /\ bizOf[Head(call.todo)] \in registered
  BY TypeGives DEF ServerInv, TypeFacts, CallType, QueueWebhook
<1>2. Head(call.todo) \in Todo
  BY <1>1, NextOf DEF Todo
<1>3. Head(call.todo) \in live
  BY <1>2 DEF ServerInv, Shape, TodoShape
<1>4. registered \subseteq Businesses
  BY DEF ServerInv, TypeOK
<1> QED
  BY <1>1, <1>3, <1>4 DEF ServerInv, Addressed, ConversationOf, Conversations

-----------------------------------------------------------------------------
(* The rows of the outbox and the jobs of the stream.                       *)

\* The ids that are handed out are those up to the last row of the outbox; each
\* row is a job of its message's conversation that no reset has wiped.
Linked ==
    /\ wiped \in 0 .. MaxJobs /\ Row(Len(outbox)) \in 0 .. MaxJobs
    /\ conv \in [JobIds -> Conversations \cup {Nobody}]
    /\ verdicts \in [JobIds -> {"absent", "pending", "ok", "failed", "deleted"}]
    /\ \A j \in JobIds : verdicts[j] = "absent" <=> j > Row(Len(outbox))
    /\ \A p \in DOMAIN outbox : /\ conv[Row(p)] = ConversationOf(outbox[p].msg)
                                /\ verdicts[Row(p)] \in {"pending", "ok", "failed"}

\* Rows are jobs, and a later row is a later job.
LEMMA RowFacts ==
    ASSUME ServerInv, Linked
    PROVE  /\ Len(outbox) \in Nat /\ DOMAIN outbox = 1 .. Len(outbox)
           /\ wiped \in Nat /\ MaxJobs \in Nat
           /\ \A p \in DOMAIN outbox : Row(p) \in JobIds /\ Row(p) <= Row(Len(outbox))
           /\ \A p, q \in DOMAIN outbox : p < q <=> Row(p) < Row(q)
<1>1. Len(outbox) \in Nat /\ DOMAIN outbox = 1 .. Len(outbox)
  BY TypeGives DEF ServerInv, TypeFacts
<1> QED
  BY <1>1, MaxJobsAssumption DEF Linked, Row, JobIds, Stream!JobIds

LEMMA OtherStepKeepsOutbox == OtherStep => UNCHANGED outbox
BY DEF OtherStep, webhooks, Accept, Inbound, ChatRead, Finish, AnswerAborted, TimerFires,
       MarkInboundRead, Presence, SetAutoReply, Claim, SocketEnds, SessionEnds, QueueThrows,
       BatchEnds, NextTile, Crash, RegisterBusiness, DeleteBusiness, CreateGroup, DeleteGroup

\* The server, at its own steps, leaves the conversations of its rows alone.
LEMMA RowsStay ==
    ASSUME ServerInv, [Next]_vars, UNCHANGED <<outbox, wiped>>
    PROVE  \A p \in DOMAIN outbox : ConversationOf(outbox[p].msg)' = ConversationOf(outbox[p].msg)
<1>1. /\ TypeFacts /\ Shape /\ WebhooksMatchTransitions
      /\ \A m \in live : bizOf'[m] = bizOf[m] /\ tileOf'[m] = tileOf[m]
  BY TypeGives, ConversationsStay DEF ServerInv
<1>2. \A p \in DOMAIN outbox : outbox[p].msg \in live
  BY <1>1, QueuedFacts
<1> QED
  BY <1>1, <1>2 DEF ConversationOf

LEMMA StepKeepsLinked == ServerInv /\ Linked /\ [SystemNext]_systemVars => Linked'
<1> SUFFICES ASSUME ServerInv, Linked, [SystemNext]_systemVars PROVE Linked'
  OBVIOUS
<1>0. /\ Len(outbox) \in Nat /\ DOMAIN outbox = 1 .. Len(outbox)
      /\ wiped \in Nat /\ MaxJobs \in Nat
      /\ \A p \in DOMAIN outbox : Row(p) \in JobIds /\ Row(p) <= Row(Len(outbox))
      /\ JobIds = 1 .. MaxJobs
  BY RowFacts DEF JobIds, Stream!JobIds
<1>1. ASSUME Enqueue PROVE Linked'
  <2> DEFINE N == Row(Len(outbox) + 1)
             c == ConversationOf(Head(call.todo))
             J == Job(Head(call.todo), call.kind)
  <2>1. /\ QueueWebhook /\ wiped' = wiped
        /\ Row(Len(outbox)) < MaxJobs
        /\ conv' = [conv EXCEPT ![N] = c]
        /\ verdicts' = [verdicts EXCEPT ![N] = "pending"]
    BY <1>1 DEF Enqueue, Stream!Submit
  <2>2. c \in Conversations
    BY <2>1, EnqueueAddressed DEF Linked
  <2>3. /\ outbox' = Append(outbox, J) /\ J.msg = Head(call.todo)
        /\ UNCHANGED <<bizOf, tileOf>>
    BY <2>1 DEF QueueWebhook, messages, Job
  <2>4. outbox \in Seq(Jobs)
    BY TypeGives DEF ServerInv, TypeFacts
  <2>5. /\ N \in JobIds /\ N = Row(Len(outbox)) + 1
        /\ Row(Len(outbox))' = N
        /\ \A p : Row(p)' = Row(p)
        /\ \A p \in DOMAIN outbox : Row(p) # N
    BY <1>0, <2>1, <2>3, <2>4 DEF Row
  <2>6. \A m : ConversationOf(m)' = ConversationOf(m)
    BY <2>1, <2>3 DEF ConversationOf
  <2> HIDE DEF N, c, J
  <2>7. /\ conv' \in [JobIds -> Conversations \cup {Nobody}]
        /\ verdicts' \in [JobIds -> {"absent", "pending", "ok", "failed", "deleted"}]
        /\ conv'[N] = c /\ verdicts'[N] = "pending"
        /\ \A j \in JobIds \ {N} : conv'[j] = conv[j] /\ verdicts'[j] = verdicts[j]
    BY <2>1, <2>2, <2>5 DEF Linked
  <2>8. \A j \in JobIds : verdicts'[j] = "absent" <=> j > N
    BY <1>0, <2>5, <2>7 DEF Linked, Row
  <2>9. ASSUME NEW p \in DOMAIN outbox'
        PROVE  /\ conv'[Row(p)] = ConversationOf(outbox'[p].msg)
               /\ verdicts'[Row(p)] \in {"pending", "ok", "failed"}
    <3>1. CASE p \in DOMAIN outbox
      <4>1. outbox'[p] = outbox[p] /\ Row(p) \in JobIds \ {N}
        BY <1>0, <2>3, <2>4, <2>5, <3>1
      <4> QED
        BY <2>7, <3>1, <4>1 DEF Linked
    <3>2. CASE p = Len(outbox) + 1
      <4>1. outbox'[p] = J /\ Row(p) = N
        BY <2>3, <2>4, <3>2 DEF N
      <4> QED
        BY <2>3, <2>7, <4>1 DEF c
    <3>3. p \in DOMAIN outbox \/ p = Len(outbox) + 1
      BY <1>0, <2>3, <2>4
    <3> QED
      BY <3>1, <3>2, <3>3
  <2> QED
    BY <1>0, <2>1, <2>5, <2>6, <2>7, <2>8, <2>9 DEF Linked
<1>2. ASSUME NEW keep \in BOOLEAN, ResetAll(keep) PROVE Linked'
  <2>1. /\ outbox' = <<>> /\ wiped' = Row(Len(outbox)) /\ conv' = conv
        /\ verdicts' = [j \in JobIds |-> IF verdicts[j] = "absent" THEN "absent" ELSE "deleted"]
    BY <1>2 DEF ResetAll, Reset, Stream!Wipe, JobIds
  <2>2. DOMAIN outbox' = {} /\ Row(Len(outbox))' = Row(Len(outbox))
    BY <1>0, <2>1 DEF Row
  <2> QED
    BY <1>0, <2>1, <2>2 DEF Linked
<1>3. ASSUME UNCHANGED <<outbox, wiped, conv>>, [Next]_vars,
             verdicts' \in [JobIds -> {"absent", "pending", "ok", "failed", "deleted"}],
             \A j \in JobIds : \/ verdicts'[j] = verdicts[j]
                               \/ verdicts[j] = "pending" /\ verdicts'[j] \in {"ok", "failed"}
      PROVE  Linked'
  <2>1. \A p \in DOMAIN outbox : ConversationOf(outbox[p].msg)' = ConversationOf(outbox[p].msg)
    BY <1>3, RowsStay
  <2>2. \A p : Row(p)' = Row(p)
    BY <1>3 DEF Row
  <2>3. \A p \in DOMAIN outbox : verdicts'[Row(p)] \in {"pending", "ok", "failed"}
    BY <1>0, <1>3 DEF Linked
  <2> QED
    BY <1>3, <2>1, <2>2, <2>3 DEF Linked
<1>4. CASE ServerStep
  <2>1. UNCHANGED <<outbox, wiped, conv, verdicts>> /\ [Next]_vars
    BY <1>4, OtherStepKeepsOutbox DEF ServerStep, stream, Next
  <2> QED
    BY <1>3, <2>1 DEF Linked
<1>5. CASE DispatcherStep
  <2>1. UNCHANGED <<outbox, wiped, conv>> /\ [Next]_vars
    BY <1>5 DEF DispatcherStep, Stream!Offer, Stream!Drop, Stream!Settle, vars, webhooks
  <2>2. \/ verdicts' = verdicts
        \/ \E j \in JobIds, verdict \in {"ok", "failed"} :
               verdicts[j] = "pending" /\ verdicts' = [verdicts EXCEPT ![j] = verdict]
    BY <1>5 DEF DispatcherStep, Stream!Offer, Stream!Drop, Stream!Settle, JobIds
  <2> QED
    BY <1>3, <2>1, <2>2 DEF Linked
<1>6. CASE ComdoveStep \/ UNCHANGED systemVars
  <2>1. UNCHANGED <<outbox, wiped, conv, verdicts>> /\ [Next]_vars
    BY <1>6 DEF ComdoveStep, Stream!Take, systemVars, stream, vars, webhooks
  <2> QED
    BY <1>3, <2>1 DEF Linked
<1> QED
  BY <1>1, <1>2, <1>4, <1>5, <1>6 DEF SystemNext

LEMMA LinkedHolds == System => [](ServerInv /\ Linked)
<1>1. SystemInit => Linked
  <2> SUFFICES ASSUME SystemInit PROVE Linked
    OBVIOUS
  <2>1. /\ outbox = <<>> /\ wiped = 0
        /\ conv = [j \in JobIds |-> Nobody] /\ verdicts = [j \in JobIds |-> "absent"]
    BY DEF SystemInit, Init, Stream!Init, JobIds
  <2>2. Row(Len(outbox)) = 0 /\ DOMAIN outbox = {} /\ MaxJobs \in Nat /\ JobIds = 1 .. MaxJobs
    BY <2>1, MaxJobsAssumption DEF Row, JobIds, Stream!JobIds
  <2> QED
    BY <2>1, <2>2 DEF Linked
<1>2. System => []ServerInv
  BY SystemImplementsDelivery, ServerInvHolds, PTL
<1> QED
  BY <1>1, <1>2, StepKeepsLinked, PTL DEF System

\* The stream of the composition is WebhookStream, which Dispatcher implements:
\* the server submits its webhooks with the next id and for a conversation, and
\* touches the stream in no other way than by a reset.
THEOREM SystemKeepsToStream == System => Stream!Spec
<1>1. ServerInv /\ Linked /\ [SystemNext]_systemVars => [Stream!Next]_(Stream!vars)
  <2> SUFFICES ASSUME ServerInv, Linked, [SystemNext]_systemVars PROVE [Stream!Next]_(Stream!vars)
    OBVIOUS
  <2>1. ASSUME Enqueue PROVE Stream!Next
    <3> DEFINE N == Row(Len(outbox) + 1)
               c == ConversationOf(Head(call.todo))
    <3>1. Stream!Submit(N, c) /\ QueueWebhook /\ Row(Len(outbox)) < MaxJobs
      BY <2>1 DEF Enqueue
    <3>2. N \in Stream!JobIds
      BY <3>1, RowFacts DEF Row, Stream!JobIds, Linked
    <3>3. c \in Conversations
      BY <3>1, EnqueueAddressed DEF Linked
    <3> HIDE DEF N, c
    <3> QED
      BY <3>1, <3>2, <3>3 DEF Stream!Next
  <2>2. ASSUME NEW keep \in BOOLEAN, ResetAll(keep) PROVE Stream!Next
    BY <2>2 DEF ResetAll, Stream!Next
  <2>3. CASE ServerStep \/ UNCHANGED systemVars
    BY <2>3 DEF ServerStep, stream, Stream!vars, systemVars
  <2>4. ASSUME DispatcherStep PROVE Stream!Next
    <3>1. \/ Stream!Offer
          \/ \E j \in Stream!JobIds : Stream!Drop(j)
          \/ \E j \in Stream!JobIds, verdict \in {"ok", "failed"} : Stream!Settle(j, verdict)
      BY <2>4 DEF DispatcherStep
    <3> QED
      BY <3>1 DEF Stream!Next
  <2>5. ASSUME ComdoveStep PROVE Stream!Next
    <3>1. PICK j \in Stream!JobIds \ taken : Stream!Take(j)
      BY <2>5 DEF ComdoveStep
    <3> QED
      BY <3>1 DEF Stream!Next
  <2> QED
    BY <2>1, <2>2, <2>3, <2>4, <2>5 DEF SystemNext
<1>2. SystemInit => Stream!Init
  BY DEF SystemInit
<1> QED
  BY <1>1, <1>2, LinkedHolds, PTL DEF System, Stream!Spec

-----------------------------------------------------------------------------
(* The order of the stream.                                                 *)

\* What the stream may have offered and taken: every earlier job of the
\* conversation has its verdict or was dropped, and ok means taken.
InStreamOrder ==
    /\ taken \subseteq offered
    /\ \A j \in JobIds : verdicts[j] = "ok" => j \in taken
    /\ \A j \in JobIds : j \in offered => verdicts[j] # "absent"
    /\ \A i, j \in JobIds : (i < j /\ conv[i] = conv[j] /\ j \in offered) =>
                                (verdicts[i] # "pending" \/ i \in dropped)

StreamTyped ==
    /\ conv \in [JobIds -> Conversations \cup {Nobody}]
    /\ verdicts \in [JobIds -> {"absent", "pending", "ok", "failed", "deleted"}]

\* A step that offers in order and gives no job a pending verdict but a new one
\* keeps the order.
LEMMA OffersKeepOrder ==
    ASSUME StreamTyped, InStreamOrder, Stream!OffersInOrder, taken' = taken,
           dropped \subseteq dropped',
           \A j \in JobIds : verdicts'[j] = "ok" => j \in taken,
           \A j \in JobIds : verdicts[j] # "absent" => verdicts'[j] # "absent" /\ conv'[j] = conv[j],
           \A i \in JobIds : verdicts'[i] = "pending" =>
                \/ verdicts[i] = "pending"
                \/ verdicts[i] = "absent" /\ \A j \in JobIds : i < j => verdicts[j] = "absent",
           \A i, j \in JobIds : (i < j /\ verdicts[i] = "absent") => verdicts[j] = "absent"
    PROVE  InStreamOrder'
<1>1. /\ offered \subseteq offered'
      /\ \A j \in offered' \ offered :
           /\ verdicts'[j] = "pending"
           /\ \A i \in JobIds : (i < j /\ conv'[i] = conv'[j]) =>
                  (verdicts'[i] # "pending" \/ i \in dropped')
  BY DEF Stream!OffersInOrder, JobIds
<1>2. taken' \subseteq offered'
  BY <1>1 DEF InStreamOrder
<1>3. \A j \in JobIds : verdicts'[j] = "ok" => j \in taken'
  OBVIOUS
<1>4. \A j \in JobIds : j \in offered' => verdicts'[j] # "absent"
  BY <1>1 DEF InStreamOrder
<1>5. ASSUME NEW i \in JobIds, NEW j \in JobIds, i < j, conv'[i] = conv'[j], j \in offered'
      PROVE  verdicts'[i] # "pending" \/ i \in dropped'
  <2>1. CASE j \in offered
    <3>1. verdicts[j] # "absent" /\ verdicts[i] # "absent"
      BY <1>5, <2>1 DEF InStreamOrder
    <3>2. conv[i] = conv[j]
      BY <1>5, <3>1
    <3>3. verdicts[i] # "pending" \/ i \in dropped
      BY <1>5, <2>1, <3>2 DEF InStreamOrder
    <3> QED
      BY <3>1, <3>3
  <2>2. CASE j \notin offered
    BY <1>1, <1>5, <2>2
  <2> QED
    BY <2>1, <2>2
<1> QED
  BY <1>2, <1>3, <1>4, <1>5 DEF InStreamOrder

\* The steps of WebhookStream keep it, provided ids are handed out in order.
LEMMA StepKeepsStreamOrder ==
    ASSUME StreamTyped, InStreamOrder, [Stream!Next]_(Stream!vars),
           \A i, j \in JobIds : (i < j /\ verdicts[i] = "absent") => verdicts[j] = "absent"
    PROVE  InStreamOrder'
<1>1. ASSUME NEW j \in JobIds, NEW c \in Conversations, Stream!Submit(j, c) PROVE InStreamOrder'
  <2>1. /\ \A i \in JobIds : verdicts[i] = "absent" <=> i >= j
        /\ conv' = [conv EXCEPT ![j] = c]
        /\ verdicts' = [verdicts EXCEPT ![j] = "pending"]
        /\ UNCHANGED <<taken, dropped>> /\ Stream!OffersInOrder
    BY <1>1 DEF Stream!Submit, JobIds
  <2>2. \A i \in JobIds : i \in Int
    BY DEF JobIds, Stream!JobIds
  <2>3. \A i \in JobIds : verdicts'[i] = IF i = j THEN "pending" ELSE verdicts[i]
    BY <2>1 DEF StreamTyped
  <2>4. \A i \in JobIds : verdicts[i] # "absent" => verdicts'[i] # "absent" /\ conv'[i] = conv[i]
    BY <2>1, <2>2, <2>3 DEF StreamTyped
  <2>5. verdicts[j] = "absent" /\ \A i \in JobIds : j < i => verdicts[i] = "absent"
    BY <2>1, <2>2
  <2>6. \A i \in JobIds : verdicts'[i] = "ok" => i \in taken
    BY <2>3 DEF InStreamOrder
  <2> QED
    BY <2>1, <2>3, <2>4, <2>5, <2>6, OffersKeepOrder
<1>2. CASE Stream!Offer
  BY <1>2, OffersKeepOrder DEF Stream!Offer, InStreamOrder
<1>3. ASSUME NEW j \in JobIds, Stream!Drop(j) PROVE InStreamOrder'
  BY <1>3, OffersKeepOrder DEF Stream!Drop, InStreamOrder
<1>4. ASSUME NEW j \in JobIds, NEW verdict \in {"ok", "failed"}, Stream!Settle(j, verdict)
      PROVE  InStreamOrder'
  <2>1. /\ verdicts[j] = "pending" /\ (verdict = "ok" => j \in taken)
        /\ verdicts' = [verdicts EXCEPT ![j] = verdict]
        /\ UNCHANGED <<conv, taken, dropped>> /\ Stream!OffersInOrder
    BY <1>4 DEF Stream!Settle
  <2>2. \A i \in JobIds : verdicts'[i] = IF i = j THEN verdict ELSE verdicts[i]
    BY <2>1 DEF StreamTyped
  <2>3. \A i \in JobIds : verdicts'[i] = "ok" => i \in taken
    BY <2>1, <2>2 DEF InStreamOrder
  <2> QED
    BY <2>1, <2>2, <2>3, OffersKeepOrder
<1>5. ASSUME NEW j \in JobIds, Stream!Take(j) PROVE InStreamOrder'
  BY <1>5 DEF Stream!Take, InStreamOrder
<1>6. CASE Stream!Wipe
  <2>1. /\ \A i \in JobIds : verdicts'[i] = IF verdicts[i] = "absent" THEN "absent" ELSE "deleted"
        /\ UNCHANGED <<conv, offered, taken, dropped>>
    BY <1>6 DEF Stream!Wipe, JobIds
  <2> QED
    BY <2>1 DEF InStreamOrder
<1>7. CASE UNCHANGED Stream!vars
  BY <1>7 DEF Stream!vars, InStreamOrder
<1> QED
  BY <1>1, <1>2, <1>3, <1>4, <1>5, <1>6, <1>7 DEF Stream!Next, JobIds

-----------------------------------------------------------------------------
(* What Comdove may conclude.                                               *)

\* A message is announced before anything is said of a later one.
IntroductionsFirst ==
    \A p, q \in DOMAIN outbox :
        (q < p /\ Rank(outbox[p].kind) = 1) => outbox[q].msg < outbox[p].msg

LEMMA StepKeepsIntroductions ==
    ServerInv /\ IntroductionsFirst /\ [Next]_vars => IntroductionsFirst'
<1> SUFFICES ASSUME ServerInv, IntroductionsFirst, [Next]_vars PROVE IntroductionsFirst'
  OBVIOUS
<1>1. CASE UNCHANGED outbox
  BY <1>1 DEF IntroductionsFirst
<1>2. CASE outbox' = <<>>
  BY <1>2 DEF IntroductionsFirst
<1>3. CASE QueueWebhook
  <2> DEFINE J == Job(Head(call.todo), call.kind)
  <2>1. /\ call.todo # <<>> /\ outbox' = Append(outbox, J) /\ outbox \in Seq(Jobs)
        /\ J.msg = Head(call.todo) /\ J.kind = call.kind
    BY <1>3, TypeGives DEF QueueWebhook, ServerInv, TypeFacts, Job
  <2>2. \A q \in DOMAIN outbox : Rank(J.kind) = 1 => outbox[q].msg < J.msg
    BY <2>1, TypeGives, NextWebhook DEF ServerInv
  <2> HIDE DEF J
  <2>3. /\ Len(outbox) \in Nat
        /\ DOMAIN outbox = 1 .. Len(outbox) /\ DOMAIN outbox' = 1 .. Len(outbox) + 1
        /\ outbox'[Len(outbox) + 1] = J
        /\ \A p \in DOMAIN outbox : outbox'[p] = outbox[p]
    BY <2>1
  <2>4. ASSUME NEW p \in DOMAIN outbox', NEW q \in DOMAIN outbox', q < p, Rank(outbox'[p].kind) = 1
        PROVE  outbox'[q].msg < outbox'[p].msg
    <3>1. q \in DOMAIN outbox /\ (p \in DOMAIN outbox \/ p = Len(outbox) + 1)
      BY <2>3, <2>4
    <3>2. CASE p \in DOMAIN outbox
      <4>1. outbox'[p] = outbox[p] /\ outbox'[q] = outbox[q]
        BY <2>3, <3>1, <3>2
      <4> QED
        BY <2>4, <3>1, <3>2, <4>1 DEF IntroductionsFirst
    <3>3. CASE p = Len(outbox) + 1
      BY <2>2, <2>3, <2>4, <3>1, <3>3
    <3> QED
      BY <3>1, <3>2, <3>3
  <2> QED
    BY <2>4 DEF IntroductionsFirst
<1>4. UNCHANGED outbox \/ outbox' = <<>> \/ QueueWebhook
  <2>1. \A keep \in BOOLEAN : Reset(keep) => outbox' = <<>>
    BY DEF Reset
  <2> QED
    BY <2>1, OtherStepKeepsOutbox DEF Next, vars, webhooks
<1> QED
  BY <1>1, <1>2, <1>3, <1>4

\* Once Comdove has taken a webhook it was told of those that were queued before
\* it in the same conversation.
LEMMA ToldBefore ==
    ASSUME ServerInv, Linked, InStreamOrder, NEW p \in DOMAIN outbox, NEW q \in DOMAIN outbox,
           p < q, SameConversation(outbox[p].msg, outbox[q].msg), Row(q) \in taken,
           NEW m, NEW kind, outbox[p] = Job(m, kind)
    PROVE  Told(m, kind)
<1>1. Row(p) \in JobIds /\ Row(q) \in JobIds /\ Row(p) < Row(q)
  BY RowFacts
<1>2. conv[Row(p)] = conv[Row(q)]
  BY DEF Linked, ConversationOf, SameConversation
<1>3. verdicts[Row(p)] # "pending" \/ Row(p) \in dropped
  BY <1>1, <1>2 DEF InStreamOrder
<1>4. verdicts[Row(p)] \in {"pending", "ok", "failed"}
  BY DEF Linked
<1>5. Row(p) \in RowsOf(m, kind)
  BY DEF RowsOf
<1>6. verdicts[Row(p)] = "ok" => Row(p) \in taken
  BY <1>1 DEF InStreamOrder
<1> QED
  BY <1>3, <1>4, <1>5, <1>6 DEF Told, Heard

\* What is owed and not being queued was queued, or went down.
LEMMA QueuedOrLost ==
    ASSUME WebhooksMatchTransitions, NEW j \in Owed, j \notin BeingQueued
    PROVE  j \in lost \/ \E p \in DOMAIN outbox : outbox[p] = j
BY DEF WebhooksMatchTransitions, ToSet

ComdoveInv == ServerInv /\ Linked /\ InStreamOrder /\ OutboxInOrder /\ IntroductionsFirst

LEMMA ComdoveConcludes == ComdoveInv => ComdoveFollows
<1> SUFFICES ASSUME ComdoveInv, NEW m \in Ids, NEW kind \in Kinds, Heard(m, kind)
             PROVE  /\ Job(m, kind) \in Owed
                    /\ kind # "inbound" => Told(m, "sent")
                    /\ kind = "read" => Told(m, "delivered")
                    /\ \A i \in live : (i < m /\ SameConversation(i, m)) => Told(i, Introduction(i))
  BY DEF ComdoveFollows
<1>0. /\ ServerInv /\ Linked /\ InStreamOrder /\ OutboxInOrder /\ IntroductionsFirst
      /\ TypeFacts /\ Shape /\ WebhooksMatchTransitions /\ MsgShape /\ TodoShape
  BY TypeGives DEF ComdoveInv, ServerInv, Shape
<1>1. PICK q \in DOMAIN outbox : outbox[q] = Job(m, kind) /\ Row(q) \in taken
  BY DEF Heard, RowsOf
<1>2. /\ Job(m, kind) \in Owed /\ m \in live /\ m < next
      /\ outbox[q].msg = m /\ outbox[q].kind = kind
  BY <1>0, <1>1, QueuedFacts DEF Job
<1>3. \/ kind = "sent" /\ dir[m] = "out"
      \/ kind = "delivered" /\ m \in delivered
      \/ kind = "read" /\ m \in read /\ dir[m] = "out"
      \/ kind = "inbound" /\ dir[m] = "in"
  BY <1>2, OwedIs
<1>4. /\ Rank("sent") = 1 /\ Rank("inbound") = 1 /\ Rank("delivered") = 2 /\ Rank("read") = 3
  BY DEF Rank
<1>5. \A p \in DOMAIN outbox : /\ p \in Int
                               /\ p < q \/ p = q \/ q < p
  BY RowFacts, <1>0
<1>6. ASSUME NEW k \in {"sent", "delivered"}, Rank(k) < Rank(kind),
             Job(m, k) \in Owed, Job(m, k) \notin BeingQueued
      PROVE  Told(m, k)
  <2>1. CASE Job(m, k) \in lost
    BY <2>1 DEF Told
  <2>2. ASSUME NEW p \in DOMAIN outbox, outbox[p] = Job(m, k) PROVE Told(m, k)
    <3>1. outbox[p].msg = m /\ outbox[p].kind = k
      BY <2>2 DEF Job
    <3>2. k # kind /\ Rank(k) \in Int /\ Rank(kind) \in Int /\ ~(Rank(kind) < Rank(k))
      BY <1>4, <1>6 DEF Kinds
    <3>3. p # q
      BY <1>2, <3>1, <3>2
    <3>4. ~(q < p)
      BY <1>0, <1>2, <3>1, <3>2 DEF OutboxInOrder
    <3>5. p < q
      BY <1>5, <3>3, <3>4
    <3>6. SameConversation(outbox[p].msg, outbox[q].msg)
      BY <1>2, <3>1 DEF SameConversation
    <3> QED
      BY <1>0, <1>1, <2>2, <3>5, <3>6, ToldBefore
  <2> QED
    BY <1>0, <1>6, <2>1, <2>2, QueuedOrLost
<1>7. ASSUME NEW k, Job(m, k) \in BeingQueued PROVE k = call.kind /\ m \in Todo
  BY <1>7, BeingQueuedIs, SameJob
<1>8. ASSUME kind \in {"delivered", "read"} PROVE Told(m, "sent")
  <2>1. m \in delivered /\ dir[m] = "out"
    BY <1>0, <1>3, <1>8 DEF MsgShape
  <2>2. Job(m, "sent") \in Owed
    BY <1>2, <2>1, OwedIs
  <2>3. Job(m, "sent") \notin BeingQueued
    BY <1>0, <1>7, <2>1 DEF TodoShape
  <2> QED
    BY <1>4, <1>6, <1>8, <2>2, <2>3
<1>9. kind = "sent" => Told(m, "sent")
  BY DEF Told
<1>10. ASSUME kind = "read" PROVE Told(m, "delivered")
  <2>1. m \in read /\ m \in delivered
    BY <1>0, <1>3, <1>10 DEF MsgShape
  <2>2. Job(m, "delivered") \in Owed
    BY <2>1, OwedIs
  <2>3. Job(m, "delivered") \notin BeingQueued
    BY <1>0, <1>7, <2>1 DEF TodoShape
  <2> QED
    BY <1>4, <1>6, <1>10, <2>2, <2>3
<1>11. ASSUME NEW i \in live, i < m, SameConversation(i, m) PROVE Told(i, Introduction(i))
  <2> DEFINE k == Introduction(i)
  <2>1. /\ i \in Ids /\ i \in Int /\ m \in Int /\ next \in Int
        /\ (k = "sent" /\ dir[i] = "out") \/ (k = "inbound" /\ dir[i] = "in")
    <3>1. live \subseteq Ids /\ next \in Int /\ dir[i] \in {"out", "in"}
      BY <1>0, <1>11 DEF MsgShape, TypeFacts
    <3>2. \A id \in Ids : id \in Int
      BY DEF Ids
    <3> QED
      BY <1>11, <3>1, <3>2 DEF Introduction
  <2>2. Job(i, k) \in Owed /\ Rank(k) = 1
    BY <1>4, <2>1, OwedIs
  <2> HIDE DEF k
  <2>3. ASSUME Job(i, k) \in BeingQueued PROVE FALSE
    <3>1. k = call.kind /\ i \in Todo
      BY <2>3, BeingQueuedIs, SameJob
    <3>2. i = next - 1
      BY <1>0, <2>1, <3>1 DEF TodoShape
    <3> QED
      BY <1>2, <1>11, <2>1, <3>2
  <2>4. CASE Job(i, k) \in lost
    BY <2>4 DEF Told, k
  <2>5. ASSUME NEW p \in DOMAIN outbox, outbox[p] = Job(i, k) PROVE Told(i, k)
    <3>1. outbox[p].msg = i /\ outbox[p].kind = k
      BY <2>5 DEF Job
    <3>2. p # q
      BY <1>2, <1>11, <2>1, <3>1
    <3>3. ~(q < p)
      <4>1. q < p => m < i
        BY <1>0, <1>2, <2>2, <3>1 DEF IntroductionsFirst
      <4> QED
        BY <1>11, <2>1, <4>1
    <3>4. p < q
      BY <1>5, <3>2, <3>3
    <3>5. SameConversation(outbox[p].msg, outbox[q].msg)
      BY <1>2, <1>11, <3>1
    <3> QED
      BY <1>0, <1>1, <2>5, <3>4, <3>5, ToldBefore
  <2>6. Told(i, k)
    BY <1>0, <2>2, <2>3, <2>4, <2>5, QueuedOrLost DEF k
  <2> QED
    BY <2>6 DEF k
<1> QED
  BY <1>2, <1>3, <1>8, <1>9, <1>10, <1>11

\* A webhook that Comdove has taken, of a message no reset has wiped, is about a
\* transition that happened, and Comdove was told before of the message's earlier
\* transitions and of the earlier messages of its conversation, unless a webhook
\* of theirs was refused, dropped or lost.
THEOREM ComdoveFollowsHolds == System => []ComdoveFollows
<1>1. SystemInit => InStreamOrder /\ IntroductionsFirst
  BY DEF SystemInit, Init, Stream!Init, InStreamOrder, IntroductionsFirst, JobIds
<1>2. ServerInv /\ Linked /\ InStreamOrder /\ [Stream!Next]_(Stream!vars) => InStreamOrder'
  <2> SUFFICES ASSUME ServerInv, Linked, InStreamOrder, [Stream!Next]_(Stream!vars)
               PROVE  InStreamOrder'
    OBVIOUS
  <2>1. StreamTyped
    BY DEF StreamTyped, Linked
  <2>2. \A i, j \in JobIds : (i < j /\ verdicts[i] = "absent") => verdicts[j] = "absent"
    BY DEF Linked, JobIds, Stream!JobIds
  <2> QED
    BY <2>1, <2>2, StepKeepsStreamOrder
<1>3. System => []InStreamOrder
  BY <1>1, <1>2, LinkedHolds, SystemKeepsToStream, PTL DEF System, Stream!Spec
<1>4. ServerInv /\ IntroductionsFirst /\ [SystemNext]_systemVars => IntroductionsFirst'
  BY SystemStepIsServerStep, StepKeepsIntroductions
<1>5. System => []IntroductionsFirst
  BY <1>1, <1>4, LinkedHolds, PTL DEF System
<1>6. System => []OutboxInOrder
  BY SystemImplementsDelivery, OutboxInOrderHolds, PTL
<1> QED
  BY <1>3, <1>5, <1>6, LinkedHolds, ComdoveConcludes, PTL DEF ComdoveInv

-----------------------------------------------------------------------------
(* The dispatcher in the place of the stream.                               *)

\* What DispatcherProofs shows, of this dispatcher.
D == INSTANCE DispatcherProofs
     WITH Convs <- Conversations, NoConv <- Nobody, MaxCrashes <- MaxRestarts,
          state <- verdicts, sent <- offered, received <- taken, crashes <- restarts

\* The assumptions of the module Dispatcher are met.
LEMMA DispatcherFits ==
    /\ D!IsFiniteSet(Conversations) /\ Nobody \notin Conversations
    /\ MaxParallel \in Nat \ {0} /\ MaxAttempts \in Nat \ {0}
    /\ MaxJobs \in Nat /\ MaxRestarts \in Nat /\ MaxStoreErrors \in Nat
BY ConversationsAssumption, DispatcherAssumption, MaxJobsAssumption DEF IsFiniteSet, D!IsFiniteSet

LEMMA SameJobIds == Dispatch!JobIds = D!JobIds /\ Stream!JobIds = D!JobIds
BY DEF Dispatch!JobIds, D!JobIds, Stream!JobIds

\* Its operators are those of the instance of Dispatcher that Server runs.
LEMMA SameBegin == \A d, j, freed, h : Dispatch!Begin(d, j, freed, h) <=> D!Begin(d, j, freed, h)
BY DEF Dispatch!Begin, D!Begin

LEMMA SameCardinality == \A S : Dispatch!Cardinality(S) = D!Cardinality(S)
BY DEF Dispatch!Cardinality, D!Cardinality

LEMMA SameContains == \A q, c : Dispatch!Contains(q, c) <=> D!Contains(q, c)
BY DEF Dispatch!Contains, D!Contains

LEMMA SameRemoveFirst == \A q, c : Dispatch!RemoveFirst(q, c) = D!RemoveFirst(q, c)
BY SameContains DEF Dispatch!RemoveFirst, D!RemoveFirst, Dispatch!RemoveAt, D!RemoveAt,
                    Dispatch!SelectInSeq, D!SelectInSeq,
                    Dispatch!Min, D!Min

LEMMA SameSlot ==
    /\ Dispatch!SlotFree <=> D!SlotFree
    /\ \A c : Dispatch!JoinLine(c) = D!JoinLine(c)
    /\ \A c : Dispatch!Heir(c) = D!Heir(c)
BY SameCardinality, SameContains
   DEF Dispatch!SlotFree, D!SlotFree, Dispatch!JoinLine, D!JoinLine, Dispatch!Heir, D!Heir

LEMMA SameIdle == Dispatch!SettleIdle <=> D!SettleIdle
BY DEF Dispatch!SettleIdle, D!SettleIdle, Dispatch!Busy, D!Busy

LEMMA SamePush == \A c, j, h : Dispatch!Push(c, j, h) <=> D!Push(c, j, h)
BY SameBegin, SameSlot, SameRemoveFirst DEF Dispatch!Push, D!Push

LEMMA SameRelease == \A c : Dispatch!Release(c) <=> D!Release(c)
BY SameBegin, SameSlot, SameIdle DEF Dispatch!Release, D!Release

LEMMA SameDrop == Dispatch!DropMemory <=> D!DropMemory
BY SameIdle DEF Dispatch!DropMemory, D!DropMemory, Dispatch!OnWire, D!OnWire

LEMMA SameEnqueue == \A c, hold : Dispatch!Enqueue(c, hold) <=> D!Enqueue(c, hold)
BY SamePush, SameJobIds DEF Dispatch!Enqueue, D!Enqueue, Dispatch!Gone, D!Gone,
       Dispatch!bootVars, D!bootVars, Dispatch!comdove, D!comdove, Dispatch!failures, D!failures

LEMMA SameAttempt == \A c : Dispatch!AttemptEnds(c) <=> D!AttemptEnds(c)
<1>1. \A j, ph, open : Dispatch!Abandon(j, ph, open) <=> D!Abandon(j, ph, open)
  BY DEF Dispatch!Abandon, D!Abandon
<1>2. \A c : Dispatch!AttemptOk(c) <=> D!AttemptOk(c)
  BY SameRelease DEF Dispatch!AttemptOk, D!AttemptOk, Dispatch!Answered200, D!Answered200,
     Dispatch!Finish, D!Finish, Dispatch!bootVars, D!bootVars, Dispatch!comdove, D!comdove,
     Dispatch!failures, D!failures
<1>3. \A c, open : Dispatch!AttemptMissed(c, open) <=> D!AttemptMissed(c, open)
  BY <1>1 DEF Dispatch!AttemptMissed, D!AttemptMissed, Dispatch!AttemptsLeft, D!AttemptsLeft,
     Dispatch!slotVars, D!slotVars, Dispatch!bootVars, D!bootVars, Dispatch!failures, D!failures
<1>4. \A c, open : Dispatch!LastAttemptMissed(c, open) <=> D!LastAttemptMissed(c, open)
  BY <1>1, SameRelease DEF Dispatch!LastAttemptMissed, D!LastAttemptMissed,
     Dispatch!AttemptsLeft, D!AttemptsLeft, Dispatch!Finish, D!Finish,
     Dispatch!bootVars, D!bootVars, Dispatch!failures, D!failures
<1>5. \A c, atFinish, open :
        Dispatch!StoreWriteFails(c, atFinish, open) <=> D!StoreWriteFails(c, atFinish, open)
  BY <1>1, SameRelease DEF Dispatch!StoreWriteFails, D!StoreWriteFails,
     Dispatch!AttemptsLeft, D!AttemptsLeft, Dispatch!bootVars, D!bootVars
<1> QED
  BY <1>2, <1>3, <1>4, <1>5 DEF Dispatch!AttemptEnds, D!AttemptEnds

LEMMA SameTimers ==
    \A c : /\ Dispatch!SleepEnds(c) <=> D!SleepEnds(c)
           /\ Dispatch!BackoffEnds(c) <=> D!BackoffEnds(c)
BY DEF Dispatch!SleepEnds, D!SleepEnds, Dispatch!BackoffEnds, D!BackoffEnds,
       Dispatch!storeVars, D!storeVars, Dispatch!slotVars, D!slotVars,
       Dispatch!bootVars, D!bootVars, Dispatch!comdove, D!comdove, Dispatch!failures, D!failures

LEMMA SameHandle ==
    /\ \A c : Dispatch!Handle(c) <=> D!Handle(c)
    /\ \A j : Dispatch!HandleLate(j) <=> D!HandleLate(j)
BY DEF Dispatch!Handle, D!Handle, Dispatch!HandleLate, D!HandleLate,
       Dispatch!storeVars, D!storeVars, Dispatch!slotVars, D!slotVars,
       Dispatch!taskVars, D!taskVars, Dispatch!bootVars, D!bootVars,
       Dispatch!failures, D!failures

LEMMA SameReset == Dispatch!Reset <=> D!Reset
BY SameDrop, SameJobIds DEF Dispatch!Reset, D!Reset, Dispatch!bootVars, D!bootVars,
       Dispatch!failures, D!failures

LEMMA SameCrash == Dispatch!Crash <=> D!Crash
BY SameDrop, SameJobIds DEF Dispatch!Crash, D!Crash, Dispatch!InFlight, D!InFlight

LEMMA SameBoot ==
    /\ \A j : Dispatch!Resume(j) <=> D!Resume(j)
    /\ Dispatch!BootDone <=> D!BootDone
BY SamePush DEF Dispatch!Resume, D!Resume, Dispatch!Resumable, D!Resumable,
       Dispatch!BootDone, D!BootDone,
       Dispatch!storeVars, D!storeVars, Dispatch!slotVars, D!slotVars,
       Dispatch!taskVars, D!taskVars, Dispatch!comdove, D!comdove, Dispatch!failures, D!failures

LEMMA SameInit == Dispatch!Init <=> D!Init
BY DEF Dispatch!Init, D!Init, Dispatch!JobIds, D!JobIds

LEMMA SameStream ==
    /\ \A j, c : D!Stream!Submit(j, c) <=> Stream!Submit(j, c)
    /\ \A j : D!Stream!Take(j) <=> Stream!Take(j)
    /\ D!Stream!Wipe <=> Stream!Wipe
    /\ D!Stream!Offer <=> Stream!Offer
    /\ \A j : D!Stream!Drop(j) <=> Stream!Drop(j)
    /\ \A j, verdict : D!Stream!Settle(j, verdict) <=> Stream!Settle(j, verdict)
<1>1. D!Stream!OffersInOrder <=> Stream!OffersInOrder
  BY DEF D!Stream!OffersInOrder, Stream!OffersInOrder, D!Stream!JobIds, Stream!JobIds
<1>2. D!Stream!JobIds = Stream!JobIds
  BY DEF D!Stream!JobIds, Stream!JobIds
<1> QED
  BY <1>1, <1>2 DEF D!Stream!Submit, Stream!Submit, D!Stream!Take, Stream!Take, D!Stream!Wipe,
     Stream!Wipe, D!Stream!Offer, Stream!Offer, D!Stream!Drop, Stream!Drop,
     D!Stream!Settle, Stream!Settle

\* The server's own part of a step is a step of Delivery.
LEMMA ServerStepIsDeliveryStep == [ServerNext]_serverVars => [Next]_vars
<1>1. ServerEnqueues => Next
  BY DEF ServerEnqueues, Next
<1>2. \A keep \in BOOLEAN : ServerResets(keep) => Next
  BY DEF ServerResets, Next
<1>3. ServerDies \/ ServerWorks => Next
  BY DEF ServerDies, ServerWorks, OtherStep, Next
<1>4. DispatcherWorks \/ ComdoveTakes => UNCHANGED vars
  BY DEF DispatcherWorks, ComdoveTakes
<1>5. UNCHANGED serverVars => UNCHANGED vars
  BY DEF serverVars
<1> QED
  BY <1>1, <1>2, <1>3, <1>4, <1>5 DEF ServerNext

LEMMA ServerInvAlways == Server => []ServerInv
<1>1. ServerInit => Init
  BY DEF ServerInit
<1>2. Server => Spec
  BY <1>1, ServerStepIsDeliveryStep, PTL DEF Server, Spec
<1> QED
  BY <1>2, ServerInvHolds, PTL

\* Both count the rows alike.
Numbered == wiped \in Nat /\ nextId = Row(Len(outbox)) + 1

\* What is known before a step of the server.
Known == ServerInv /\ D!JInv /\ D!WireInv /\ Numbered

LEMMA KnownFacts ==
    ASSUME Known
    PROVE  /\ Len(outbox) \in Nat /\ wiped \in 0 .. MaxJobs
           /\ nextId = Row(Len(outbox) + 1) /\ nextId \in 1 .. MaxJobs + 1
<1>1. Len(outbox) \in Nat
  BY TypeGives DEF Known, ServerInv, TypeFacts
<1>2. nextId \in 1 .. MaxJobs + 1
  BY DEF Known, D!JInv, D!IInv, D!RestType
<1> QED
  BY <1>1, <1>2, MaxJobsAssumption DEF Known, Numbered, Row

LEMMA TasksAreOfConversations == ASSUME Known PROVE running \subseteq Conversations
BY DEF Known, D!JInv, D!IInv, D!SlotInv, D!SlotType

\* In every step of the server the dispatcher makes a step of its own, or none.
LEMMA DispatcherSteps == ASSUME Known, [ServerNext]_serverVars PROVE [D!Next]_(D!vars)
<1>1. ASSUME UNCHANGED dispatcher PROVE UNCHANGED D!vars
  BY <1>1 DEF dispatcher, stream, memory, D!vars, D!storeVars, D!slotVars, D!taskVars,
     D!bootVars, D!comdove, D!failures
<1>2. ASSUME ServerEnqueues PROVE D!Next
  <2> DEFINE c == ConversationOf(Head(call.todo))
  <2>1. PICK hold \in BOOLEAN : Dispatch!Enqueue(c, hold)
    BY <1>2 DEF ServerEnqueues, Holds
  <2>2. c \in Conversations
    BY <1>2, KnownFacts, EnqueueAddressed DEF ServerEnqueues, Known
  <2> HIDE DEF c
  <2> QED
    BY <2>1, <2>2, SameEnqueue DEF D!Next
<1>3. ASSUME NEW keep \in BOOLEAN, ServerResets(keep) PROVE D!Next
  BY <1>3, SameReset DEF ServerResets, D!Next
<1>4. ServerDies => D!Next
  BY SameCrash DEF ServerDies, D!Next
<1>5. DispatcherWorks => D!Next
  BY TasksAreOfConversations, SameTimers, SameAttempt, SameBoot, SameJobIds
     DEF DispatcherWorks, D!Next
<1>6. ComdoveTakes => D!Next
  BY TasksAreOfConversations, SameHandle, SameJobIds DEF ComdoveTakes, D!Next
<1>7. ServerWorks \/ UNCHANGED serverVars => UNCHANGED dispatcher
  BY DEF ServerWorks, serverVars
<1> QED
  BY <1>1, <1>2, <1>3, <1>4, <1>5, <1>6, <1>7 DEF ServerNext

LEMMA StepKeepsNumbered == ASSUME Known, [ServerNext]_serverVars PROVE Numbered'
<1>1. CASE ServerEnqueues
  <2>1. /\ outbox' = Append(outbox, Job(Head(call.todo), call.kind))
        /\ wiped' = wiped /\ nextId' = nextId + 1
    BY <1>1 DEF ServerEnqueues, QueueWebhook, Dispatch!Enqueue
  <2>2. Len(outbox') = Len(outbox) + 1
    BY <2>1, TypeGives DEF Known, ServerInv, TypeFacts
  <2> QED
    BY <2>1, <2>2, KnownFacts DEF Known, Numbered, Row
<1>2. ASSUME NEW keep \in BOOLEAN, ServerResets(keep) PROVE Numbered'
  <2>1. outbox' = <<>> /\ wiped' = Row(Len(outbox)) /\ nextId' = nextId
    BY <1>2 DEF ServerResets, Reset, Dispatch!Reset
  <2> QED
    BY <2>1, KnownFacts DEF Known, Numbered, Row
<1>3. CASE UNCHANGED <<outbox, wiped, nextId>>
  BY <1>3 DEF Known, Numbered, Row
<1>4. ServerDies => UNCHANGED <<outbox, wiped, nextId>>
  BY DEF ServerDies, Crash, QueueThrows, Dispatch!Crash
<1>5. ServerWorks => UNCHANGED <<outbox, wiped, nextId>>
  BY OtherStepKeepsOutbox DEF ServerWorks, dispatcher
<1>6. DispatcherWorks => UNCHANGED <<outbox, wiped, nextId>>
  <2>1. \A c : /\ Dispatch!SleepEnds(c) => UNCHANGED nextId
               /\ Dispatch!AttemptEnds(c) => UNCHANGED nextId
               /\ Dispatch!BackoffEnds(c) => UNCHANGED nextId
    BY DEF Dispatch!SleepEnds, Dispatch!BackoffEnds, Dispatch!AttemptEnds, Dispatch!AttemptOk,
       Dispatch!AttemptMissed, Dispatch!LastAttemptMissed, Dispatch!StoreWriteFails,
       Dispatch!storeVars
  <2>2. /\ \A j : Dispatch!Resume(j) => UNCHANGED nextId
        /\ Dispatch!BootDone => UNCHANGED nextId
    BY DEF Dispatch!Resume, Dispatch!BootDone, Dispatch!storeVars
  <2> QED
    BY <2>1, <2>2 DEF DispatcherWorks, vars, webhooks
<1>7. ComdoveTakes => UNCHANGED <<outbox, wiped, nextId>>
  BY DEF ComdoveTakes, Dispatch!Handle, Dispatch!HandleLate, Dispatch!storeVars, vars, webhooks
<1>8. UNCHANGED serverVars => UNCHANGED <<outbox, wiped, nextId>>
  BY DEF serverVars, vars, webhooks, dispatcher
<1> QED
  BY <1>1, <1>2, <1>3, <1>4, <1>5, <1>6, <1>7, <1>8 DEF ServerNext

LEMMA KnownHolds == Server => []Known
<1>1. ServerInit => D!JInv /\ D!WireInv /\ Numbered
  <2> SUFFICES ASSUME ServerInit PROVE D!JInv /\ D!WireInv /\ Numbered
    OBVIOUS
  <2>1. D!Init
    BY SameInit DEF ServerInit
  <2>2. D!JInv
    BY <2>1, DispatcherFits, D!InitEstablishesJInv
  <2>3. D!WireInv
    BY <2>1 DEF D!Init, D!WireInv
  <2>4. Numbered
    BY DEF ServerInit, Init, Dispatch!Init, Numbered, Row
  <2> QED
    BY <2>2, <2>3, <2>4
<1>2. Known /\ [ServerNext]_serverVars => (D!JInv /\ D!WireInv /\ Numbered)'
  <2> SUFFICES ASSUME Known, [ServerNext]_serverVars PROVE (D!JInv /\ D!WireInv /\ Numbered)'
    OBVIOUS
  <2>1. [D!Next]_(D!vars)
    BY DispatcherSteps
  <2>2. D!JInv'
    BY <2>1, DispatcherFits, D!StepKeepsJInv DEF Known
  <2>3. D!WireInv'
    BY <2>1, DispatcherFits, D!StepKeepsWire DEF Known
  <2> QED
    BY <2>2, <2>3, StepKeepsNumbered
<1> QED
  BY <1>1, <1>2, ServerInvAlways, PTL DEF Server, Known

-----------------------------------------------------------------------------
(* The server implements the system.                                        *)

LEMMA SoundHere == ASSUME Known, [ServerNext]_serverVars PROVE D!Sound
<1>1. [D!Next]_(D!vars)
  BY DispatcherSteps
<1> QED
  BY <1>1, DispatcherFits, D!StepKeepsJInv DEF D!Sound, Known

\* What a step of the dispatcher offers are jobs.
LEMMA OffersAreJobs ==
    ASSUME Known, [ServerNext]_serverVars, Stream!OffersInOrder
    PROVE  SomeOffered
<1>1. offered' \subseteq Stream!JobIds /\ offered \subseteq offered'
  BY SoundHere, SameJobIds DEF D!Sound, D!JInv, D!IInv, D!SlotInv, D!SlotType, Stream!OffersInOrder
<1>2. offered' = offered \cup (offered' \ offered) /\ offered' \ offered \in SUBSET (Stream!JobIds \ offered)
  BY <1>1
<1> QED
  BY <1>2 DEF SomeOffered

LEMMA ServerStepIsSystemStep ==
    ASSUME Known, [ServerNext]_serverVars
    PROVE  [SystemNext]_systemVars
<1>0. D!Sound
  BY SoundHere
<1>1. ASSUME ServerEnqueues PROVE Enqueue
  <2> DEFINE c == ConversationOf(Head(call.todo))
  <2>1. PICK hold \in BOOLEAN : Dispatch!Enqueue(c, hold)
    BY <1>1 DEF ServerEnqueues, Holds
  <2>2. QueueWebhook /\ UNCHANGED wiped
    BY <1>1 DEF ServerEnqueues
  <2>3. c \in Conversations
    BY <2>2, KnownFacts, EnqueueAddressed DEF Known
  <2> HIDE DEF c
  <2>4. D!Stream!Submit(nextId, c) /\ nextId \in D!JobIds
    BY <1>0, <2>1, <2>3, SameEnqueue, DispatcherFits, D!EnqueueSubmits
  <2>5. Stream!Submit(Row(Len(outbox) + 1), c)
    BY <2>4, SameStream, KnownFacts
  <2>6. Row(Len(outbox)) < MaxJobs
    BY <2>4, KnownFacts, MaxJobsAssumption DEF D!JobIds, Row
  <2>7. SomeOffered
    BY <2>5, OffersAreJobs DEF Stream!Submit
  <2> QED
    BY <2>2, <2>5, <2>6, <2>7 DEF Enqueue, c
<1>2. ASSUME NEW keep \in BOOLEAN, ServerResets(keep) PROVE ResetAll(keep)
  <2>1. Stream!Wipe
    BY <1>0, <1>2, SameReset, SameStream, DispatcherFits, D!ResetWipes DEF ServerResets
  <2> QED
    BY <1>2, <2>1 DEF ServerResets, ResetAll
<1>3. ASSUME ServerDies PROVE ServerStep
  <2>1. D!Silent
    BY <1>3, SameCrash, DispatcherFits, D!RestSilent DEF ServerDies
  <2> QED
    BY <1>3, <2>1 DEF ServerDies, ServerStep, OtherStep, D!Silent, stream
<1>4. ServerWorks => ServerStep
  BY DEF ServerWorks, ServerStep, dispatcher
<1>5. ASSUME DispatcherWorks PROVE DispatcherStep \/ UNCHANGED systemVars
  <2>1. D!Progresses
    BY <1>0, <1>5, TasksAreOfConversations, SameTimers, SameAttempt, SameBoot, SameJobIds,
       DispatcherFits, D!WorkProgresses
       DEF DispatcherWorks
  <2>2. CASE D!Silent
    BY <1>5, <2>2 DEF DispatcherWorks, D!Silent, systemVars, stream
  <2>3. CASE \/ Stream!Offer
             \/ \E j \in Stream!JobIds : Stream!Drop(j)
             \/ \E j \in Stream!JobIds, verdict \in {"ok", "failed"} : Stream!Settle(j, verdict)
    <3>1. SomeOffered
      BY <2>3, OffersAreJobs DEF Stream!Offer, Stream!Drop, Stream!Settle
    <3> QED
      BY <1>5, <2>3, <3>1 DEF DispatcherWorks, DispatcherStep
  <2> QED
    BY <2>1, <2>2, <2>3, SameStream, SameJobIds DEF D!Progresses
<1>6. ASSUME ComdoveTakes PROVE ComdoveStep \/ UNCHANGED systemVars
  <2>1. PICK j \in Stream!JobIds : Stream!Take(j)
    <3>1. ASSUME NEW c \in Conversations, Dispatch!Handle(c) PROVE \E j \in Stream!JobIds : Stream!Take(j)
      BY <1>0, <3>1, SameHandle, SameStream, SameJobIds, DispatcherFits, D!ComdoveTakes
    <3>2. ASSUME NEW j \in Dispatch!JobIds, Dispatch!HandleLate(j) PROVE Stream!Take(j)
      BY <1>0, <3>2, SameHandle, SameStream, SameJobIds, DispatcherFits, D!ComdoveTakes
    <3> QED
      BY <1>6, <3>1, <3>2, TasksAreOfConversations, SameJobIds DEF ComdoveTakes
  <2>2. CASE j \in taken
    BY <1>6, <2>1, <2>2 DEF ComdoveTakes, Stream!Take, systemVars, stream
  <2>3. CASE j \notin taken
    BY <1>6, <2>1, <2>3 DEF ComdoveTakes, ComdoveStep
  <2> QED
    BY <2>2, <2>3
<1>7. UNCHANGED serverVars => UNCHANGED systemVars
  BY DEF serverVars, systemVars, dispatcher
<1> QED
  BY <1>1, <1>2, <1>3, <1>4, <1>5, <1>6, <1>7 DEF ServerNext, SystemNext

\* The dispatcher in the server is module Dispatcher: what DispatcherProofs shows
\* of its Spec holds of it.
THEOREM ServerRunsDispatcher == Server => Dispatch!Spec
<1>1. Dispatch!Next <=> D!Next
  BY SameEnqueue, SameTimers, SameHandle, SameAttempt, SameReset, SameCrash, SameBoot, SameJobIds
     DEF Dispatch!Next, D!Next, Dispatch!Idle, D!Idle, Dispatch!Busy, D!Busy,
         Dispatch!storeVars, D!storeVars, Dispatch!slotVars, D!slotVars,
         Dispatch!taskVars, D!taskVars, Dispatch!bootVars, D!bootVars,
         Dispatch!comdove, D!comdove, Dispatch!failures, D!failures
<1>2. UNCHANGED D!vars => UNCHANGED Dispatch!vars
  BY DEF Dispatch!storeVars, D!storeVars, Dispatch!slotVars, D!slotVars,
         Dispatch!taskVars, D!taskVars, Dispatch!bootVars, D!bootVars,
         Dispatch!comdove, D!comdove, Dispatch!failures, D!failures, Dispatch!vars, D!vars
<1>3. Known /\ [ServerNext]_serverVars => [Dispatch!Next]_(Dispatch!vars)
  BY <1>1, <1>2, DispatcherSteps
<1>4. ServerInit => Dispatch!Init
  BY DEF ServerInit
<1> QED
  BY <1>3, <1>4, KnownHolds, PTL DEF Server, Dispatch!Spec

\* The server with the dispatcher in it implements the system with the stream.
THEOREM ImplementsSystemHolds == Server => ImplementsSystem
<1>1. ServerInit => SystemInit
  BY DEF ServerInit, SystemInit, Dispatch!Init, Stream!Init, Dispatch!JobIds, Stream!JobIds
<1>2. Known /\ [ServerNext]_serverVars => [SystemNext]_systemVars
  BY ServerStepIsSystemStep
<1> QED
  BY <1>1, <1>2, KnownHolds, PTL DEF Server, System, ImplementsSystem

\* So Comdove may conclude the same from the webhooks of the server itself,
\* through retries, full pools, restarts, late POSTs and failed store writes.
THEOREM ServerComdoveFollows == Server => []ComdoveFollows
BY ImplementsSystemHolds, ComdoveFollowsHolds, PTL DEF ImplementsSystem
===============================================================================
