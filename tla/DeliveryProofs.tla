---------------------------- MODULE DeliveryProofs ----------------------------
(***************************************************************************)
(* Proofs about Delivery, for every set of businesses and tiles and any     *)
(* number of messages and crashes.                                          *)
(***************************************************************************)
EXTENDS Delivery, FiniteSetTheorems, TLAPS

-----------------------------------------------------------------------------
(* The call that is running.                                                *)

CallType ==
    [by : Callers, kind : Kinds, todo : Seq(Ids), batch : SUBSET Ids, tiles : Seq(Tiles)]

LEMMA IdsFinite == IsFiniteSet(Ids)
BY FS_Interval, BoundsAssumption DEF Ids

\* A query returns each of its messages once.
LEMMA InOrderFacts ==
    ASSUME live \in SUBSET Ids, NEW S \in SUBSET Ids, NEW q \in InOrder(S)
    PROVE  q \in Seq(Ids) /\ ToSet(q) = S /\ IsInjective(q)
<1>1. Cardinality(S) \in Nat
  <2>1. IsFiniteSet(Ids)
    BY IdsFinite
  <2> QED
    BY <2>1, FS_Subset, FS_CardinalityType
<1>2. /\ q \in [1 .. Cardinality(S) -> S] /\ ToSet(q) = S
      /\ \A i, k \in DOMAIN q : i < k => Before(q[i], q[k])
  BY DEF InOrder
<1>3. q \in Seq(Ids) /\ DOMAIN q = 1 .. Cardinality(S)
  BY <1>1, <1>2
<1>4. \A m \in Ids : ~Before(m, m)
  BY DEF Before, OlderConversation, SameConversation, Ids
<1>5. ASSUME NEW i \in DOMAIN q, NEW k \in DOMAIN q, q[i] = q[k] PROVE i = k
  <2>1. q[i] \in Ids /\ ~Before(q[i], q[k]) /\ ~Before(q[k], q[i])
    BY <1>2, <1>3, <1>4, <1>5
  <2> QED
    BY <1>1, <1>2, <1>3, <2>1
<1> QED
  BY <1>2, <1>3, <1>5 DEF IsInjective

\* What a call that starts has to do.
LEMMA StartFacts ==
    ASSUME live \in SUBSET Ids, NEW by \in Callers, NEW kind \in Kinds, NEW S \in SUBSET Ids,
           NEW batch \in SUBSET Ids, NEW tiles \in Seq(Tiles), Start(by, kind, S, batch, tiles)
    PROVE  /\ call' \in CallType
           /\ call'.by = by /\ call'.kind = kind /\ call'.batch = batch /\ call'.tiles = tiles
           /\ ToSet(call'.todo) = S /\ IsInjective(call'.todo)
<1>1. PICK q \in InOrder(S) :
         call' = [by |-> by, kind |-> kind, todo |-> q, batch |-> batch, tiles |-> tiles]
  BY DEF Start
<1>2. q \in Seq(Ids) /\ ToSet(q) = S /\ IsInjective(q)
  BY InOrderFacts
<1> QED
  BY <1>1, <1>2 DEF CallType

\* A list of one message.
LEMMA OneMessage ==
    ASSUME NEW m \in Ids
    PROVE  /\ <<m>> \in Seq(Ids) /\ <<m>> # <<>>
           /\ ToSet(<<m>>) = {m} /\ IsInjective(<<m>>)
<1>1. DOMAIN <<m>> = {1} /\ <<m>>[1] = m
  OBVIOUS
<1> QED
  BY <1>1 DEF ToSet, IsInjective

LEMMA NothingToDo ==
    /\ <<>> \in Seq(Ids) /\ <<>> \in Seq(Tiles) /\ <<>> \in Seq(Jobs)
    /\ ToSet(<<>>) = {} /\ IsInjective(<<>>)
<1>1. DOMAIN <<>> = {}
  OBVIOUS
<1> QED
  BY <1>1 DEF ToSet, IsInjective

\* The list after its head is done.
LEMMA NextOf ==
    ASSUME NEW T, NEW s \in Seq(T), s # <<>>
    PROVE  /\ Head(s) \in T /\ Head(s) \in ToSet(s)
           /\ Tail(s) \in Seq(T)
           /\ ToSet(s) = {Head(s)} \cup ToSet(Tail(s))
           /\ IsInjective(s) => IsInjective(Tail(s)) /\ Head(s) \notin ToSet(Tail(s))
<1> DEFINE t == Tail(s)
           h == Head(s)
<1>1. /\ t \in Seq(T) /\ h \in T
      /\ Len(s) \in Nat \ {0}
      /\ DOMAIN s = 1 .. Len(s) /\ DOMAIN t = 1 .. Len(s) - 1
      /\ h = s[1]
      /\ \A i \in 1 .. Len(s) - 1 : t[i] = s[i + 1]
  OBVIOUS
<1> HIDE DEF t, h
<1>2. ToSet(s) = {h} \cup ToSet(t)
  <2>1. ASSUME NEW i \in 1 .. Len(s) PROVE s[i] = h \/ \E k \in DOMAIN t : t[k] = s[i]
    <3>1. CASE i = 1
      BY <1>1, <3>1
    <3>2. CASE i # 1
      <4>1. i - 1 \in 1 .. Len(s) - 1 /\ (i - 1) + 1 = i
        BY <1>1, <3>2
      <4> QED
        BY <1>1, <4>1
    <3> QED
      BY <3>1, <3>2
  <2>2. ASSUME NEW i \in DOMAIN t PROVE \E k \in DOMAIN s : s[k] = t[i]
    <3>1. i + 1 \in DOMAIN s /\ s[i + 1] = t[i]
      BY <1>1
    <3> QED
      BY <3>1
  <2>3. 1 \in DOMAIN s
    BY <1>1
  <2> QED
    BY <1>1, <2>1, <2>2, <2>3 DEF ToSet
<1>3. ASSUME IsInjective(s) PROVE IsInjective(t) /\ h \notin ToSet(t)
  <2>1. ASSUME NEW i \in DOMAIN t, NEW k \in DOMAIN t, t[i] = t[k] PROVE i = k
    <3>1. i + 1 \in DOMAIN s /\ k + 1 \in DOMAIN s /\ s[i + 1] = s[k + 1]
      BY <1>1, <2>1
    <3>2. i + 1 = k + 1
      BY <1>3, <3>1 DEF IsInjective
    <3> QED
      BY <1>1, <3>2
  <2>2. ASSUME NEW i \in DOMAIN t, t[i] = h PROVE FALSE
    <3>1. i + 1 \in DOMAIN s /\ 1 \in DOMAIN s /\ s[i + 1] = s[1] /\ i + 1 # 1
      BY <1>1, <2>2
    <3> QED
      BY <1>3, <3>1 DEF IsInjective
  <2> QED
    BY <2>1, <2>2 DEF IsInjective, ToSet
<1> QED
  BY <1>1, <1>2, <1>3 DEF t, h

\* The list with one more at the end.
LEMMA OneMore ==
    ASSUME NEW T, NEW s \in Seq(T), NEW x \in T
    PROVE  /\ Append(s, x) \in Seq(T)
           /\ ToSet(Append(s, x)) = ToSet(s) \cup {x}
           /\ IsInjective(s) /\ x \notin ToSet(s) => IsInjective(Append(s, x))
<1> DEFINE t == Append(s, x)
<1>1. /\ t \in Seq(T)
      /\ Len(s) \in Nat
      /\ DOMAIN s = 1 .. Len(s) /\ DOMAIN t = 1 .. Len(s) + 1
      /\ t[Len(s) + 1] = x
      /\ \A i \in 1 .. Len(s) : t[i] = s[i]
  OBVIOUS
<1> HIDE DEF t
<1>2. ToSet(t) = ToSet(s) \cup {x}
  BY <1>1 DEF ToSet
<1>3. ASSUME IsInjective(s), x \notin ToSet(s), NEW i \in DOMAIN t, NEW k \in DOMAIN t, t[i] = t[k]
      PROVE  i = k
  <2>1. \A j \in DOMAIN s : s[j] # x
    BY <1>3 DEF ToSet
  <2>2. CASE i \in DOMAIN s /\ k \in DOMAIN s
    BY <1>1, <1>3, <2>2 DEF IsInjective
  <2>3. CASE i = Len(s) + 1 \/ k = Len(s) + 1
    BY <1>1, <1>3, <2>1, <2>3
  <2> QED
    BY <1>1, <2>2, <2>3
<1> QED
  BY <1>1, <1>2, <1>3 DEF t, IsInjective

-----------------------------------------------------------------------------
(* The types.                                                               *)

\* The types of what a call leaves alone, and of the call.
TypeFacts ==
    /\ dir \in [Ids -> {"none", "out", "in"}]
    /\ bizOf \in [Ids -> Businesses \cup {Nobody}]
    /\ tileOf \in [Ids -> Tiles \cup {Nobody}]
    /\ next \in 1 .. MaxMsgs + 1
    /\ live \in SUBSET Ids /\ delivered \in SUBSET Ids /\ read \in SUBSET Ids
    /\ outbox \in Seq(Jobs) /\ lost \in SUBSET Jobs
    /\ awaiting \in SUBSET Ids
    /\ timers \in [Ids -> Nat]
    /\ pushes \in [Ids -> Nat]
    /\ known \in BOOLEAN /\ online \in SUBSET Tiles
    /\ call \in CallType

LEMMA TypeGives == TypeOK => TypeFacts
BY DEF TypeOK, TypeFacts, CallType

LEMMA NoCallType == NoCall \in CallType
BY NothingToDo DEF NoCall, CallType, Callers, Kinds

\* storeMessage() hands out an id of the right kind.
LEMMA StoreType ==
    ASSUME TypeFacts, NEW d \in {"in", "out"}, NEW b \in Businesses, NEW t \in Tiles, Store(d, b, t)
    PROVE  /\ dir' \in [Ids -> {"none", "out", "in"}]
           /\ bizOf' \in [Ids -> Businesses \cup {Nobody}]
           /\ tileOf' \in [Ids -> Tiles \cup {Nobody}]
           /\ next \in Ids /\ next' \in 1 .. MaxMsgs + 1
           /\ live' \in SUBSET Ids
BY BoundsAssumption DEF TypeFacts, Store, Ids

LEMMA PushType ==
    ASSUME TypeFacts, NEW S, Push(S)
    PROVE  pushes' \in [Ids -> Nat]
BY DEF TypeFacts, Push

\* A call on a single message that was just stored.
LEMMA StoredCallType ==
    ASSUME NEW by \in Callers, NEW kind \in Kinds, NEW m \in Ids, NEW S \in SUBSET {m},
           call' = [by |-> by, kind |-> kind, todo |-> <<m>>, batch |-> S, tiles |-> <<>>]
    PROVE  call' \in CallType
BY OneMessage, NothingToDo DEF CallType

LEMMA DeliverType ==
    ASSUME TypeFacts, NEW by \in Callers, NEW S \in SUBSET Ids, NEW tiles \in Seq(Tiles),
           Deliver(by, S, tiles)
    PROVE  delivered' \in SUBSET Ids /\ call' \in CallType
<1>1. Fresh(S) \in SUBSET Ids /\ live \in SUBSET Ids /\ "delivered" \in Kinds
  BY DEF TypeFacts, Fresh, Kinds
<1>2. call' \in CallType
  BY <1>1, StartFacts DEF Deliver
<1> QED
  BY <1>1, <1>2 DEF Deliver, TypeFacts

LEMMA RestartType ==
    ASSUME Restart
    PROVE  /\ awaiting' \in SUBSET Ids /\ timers' \in [Ids -> Nat]
           /\ session' \in {"none", "open", "ending"}
           /\ pushes' \in [Ids -> Nat]
           /\ call' \in CallType
BY NoCallType DEF Restart, NoPushes

LEMMA LoseType ==
    ASSUME TypeFacts, Lose
    PROVE  lost' \in SUBSET Jobs
<1>1. \A i \in DOMAIN call.todo : call.todo[i] \in Ids /\ call.kind \in Kinds
  BY DEF TypeFacts, CallType
<1> QED
  BY <1>1 DEF Lose, TypeFacts, Jobs, Job

LEMMA StepKeepsType == TypeOK /\ [Next]_vars => TypeOK'
<1> SUFFICES ASSUME TypeOK, [Next]_vars PROVE TypeOK'
  OBVIOUS
<1>0. TypeFacts
  BY TypeGives
<1>a. "send" \in Callers /\ "finish" \in Callers /\ "claim" \in Callers /\ "flush" \in Callers
      /\ "frame" \in Callers /\ "timer" \in Callers
  BY DEF Callers
<1>b. "sent" \in Kinds /\ "delivered" \in Kinds /\ "read" \in Kinds /\ "inbound" \in Kinds
  BY DEF Kinds
<1>1. ASSUME NEW b \in Businesses, NEW t \in Tiles, Accept(b, t) PROVE TypeOK'
  <2>1. Store("out", b, t)
    BY <1>1 DEF Accept
  <2>2. call' \in CallType
    BY <1>0, <1>1, <1>a, <1>b, <2>1, StoreType, StoredCallType DEF Accept
  <2> QED
    BY <1>0, <1>1, <2>1, <2>2, StoreType
       DEF Accept, TypeOK, CallType, statuses, webhooks, pending, tab, customers, history
<1>2. ASSUME NEW m \in Ids, Finish(m) PROVE TypeOK'
  <2>1. call' \in CallType /\ delivered' \in SUBSET Ids /\ pushes' \in [Ids -> Nat]
    BY <1>0, <1>2, <1>a, NothingToDo, DeliverType, PushType DEF Finish, TypeFacts
  <2> QED
    BY <1>2, <2>1 DEF Finish, TypeOK, CallType, messages, webhooks, customers, history
<1>3. ASSUME NEW m \in Ids, AnswerAborted(m) PROVE TypeOK'
  BY <1>3 DEF AnswerAborted, TypeOK, messages, statuses, webhooks, tab, customers
<1>4. ASSUME NEW by \in {"frame", "timer"}, NEW b \in Businesses, NEW t \in Tiles, TakeInbound(by, b, t)
      PROVE  /\ dir' \in [Ids -> {"none", "out", "in"}]
             /\ bizOf' \in [Ids -> Businesses \cup {Nobody}]
             /\ tileOf' \in [Ids -> Tiles \cup {Nobody}]
             /\ next' \in 1 .. MaxMsgs + 1
             /\ live' \in SUBSET Ids
             /\ pushes' \in [Ids -> Nat]
             /\ call' \in CallType
  <2>1. Store("in", b, t) /\ Push({next})
    BY <1>4 DEF TakeInbound
  <2>2. call' \in CallType
    <3>1. next \in Ids /\ by \in Callers /\ {} \in SUBSET {next}
      BY <1>0, <1>a, <2>1, StoreType
    <3> QED
      BY <1>4, <1>b, <3>1, StoredCallType DEF TakeInbound
  <2> QED
    BY <1>0, <2>1, <2>2, StoreType, PushType
<1>5. ASSUME NEW b \in Businesses, NEW t \in Tiles, Inbound(b, t) PROVE TypeOK'
  BY <1>4, <1>5 DEF Inbound, TypeOK, CallType, statuses, webhooks, pending, customers, history
<1>6. ASSUME NEW m \in Ids, TimerFires(m) PROVE TypeOK'
  <2>1. timers' \in [Ids -> Nat]
    BY <1>0, <1>6 DEF TimerFires, TypeFacts
  <2>2. CASE TakeInbound("timer", bizOf[m], tileOf[m]) /\ bizOf[m] \in registered /\ Reachable(tileOf[m])
    <3>1. bizOf[m] \in Businesses /\ tileOf[m] \in Tiles
      BY <2>2 DEF TypeOK, Reachable
    <3> QED
      BY <1>4, <1>6, <2>1, <2>2, <3>1
         DEF TimerFires, TypeOK, CallType, statuses, webhooks, customers, history
  <2>3. CASE UNCHANGED <<messages, pushes, call>>
    BY <1>6, <2>1, <2>3 DEF TimerFires, TypeOK, messages, statuses, webhooks, customers, history
  <2> QED
    BY <1>6, <2>2, <2>3 DEF TimerFires
<1>7. ASSUME NEW t \in Tiles, NEW b \in Businesses, ChatRead(t, b) PROVE TypeOK'
  <2>1. UnreadDelivered(t, b) \in SUBSET Ids /\ {} \in SUBSET Ids /\ <<>> \in Seq(Tiles)
        /\ live \in SUBSET Ids
    BY <1>0, NothingToDo DEF UnreadDelivered, TypeFacts
  <2>2. call' \in CallType
    BY <1>7, <1>a, <1>b, <2>1, StartFacts DEF ChatRead
  <2> QED
    BY <1>7, <2>1, <2>2 DEF ChatRead, TypeOK, CallType, messages, webhooks, pending, tab, customers, history
<1>8. ASSUME NEW m \in Ids, MarkInboundRead(m) PROVE TypeOK'
  BY <1>8 DEF MarkInboundRead, TypeOK, messages, webhooks, pending, tab, customers, history
<1>9. ASSUME NEW t \in Tiles, NEW on \in BOOLEAN, Presence(t, on) PROVE TypeOK'
  <2>1. QueuedFor(t) \in SUBSET Ids
    BY <1>0 DEF QueuedFor, TypeFacts
  <2>2. call' \in CallType /\ delivered' \in SUBSET Ids /\ pushes' \in [Ids -> Nat]
    BY <1>0, <1>9, <1>a, <2>1, NothingToDo, DeliverType, PushType DEF Presence, TypeFacts
  <2>3. online' \in SUBSET Tiles
    BY <1>0, <1>9 DEF Presence, TypeFacts
  <2> QED
    BY <1>9, <2>2, <2>3 DEF Presence, TypeOK, CallType, messages, webhooks, pending, history
<1>10. ASSUME NEW t \in Tiles, NEW on \in BOOLEAN, SetAutoReply(t, on) PROVE TypeOK'
  BY <1>10 DEF SetAutoReply, TypeOK, messages, statuses, webhooks, pending, tab, history
<1>11. ASSUME Claim PROVE TypeOK'
  <2>1. call' \in CallType
    BY <1>11, <1>a, <1>b, NothingToDo, OrderAssumption DEF Claim, CallType
  <2> QED
    BY <1>11, <2>1 DEF Claim, TypeOK, CallType, messages, statuses, webhooks, pending, customers, history
<1>12. ASSUME SocketEnds \/ SessionEnds PROVE TypeOK'
  <2>1. session' \in {"none", "open", "ending"} /\ pushes' \in [Ids -> Nat]
    BY <1>12 DEF SocketEnds, SessionEnds, NoPushes, TypeOK
  <2> QED
    BY <1>12, <2>1 DEF SocketEnds, SessionEnds, TypeOK, messages, statuses, webhooks, pending, customers, history
<1>13. ASSUME QueueWebhook PROVE TypeOK'
  <2>1. Head(call.todo) \in Ids /\ Tail(call.todo) \in Seq(Ids) /\ call.kind \in Kinds
    BY <1>0, <1>13, NextOf DEF QueueWebhook, TypeFacts, CallType
  <2>2. call' \in CallType
    BY <1>0, <1>13, <2>1 DEF QueueWebhook, TypeFacts, CallType
  <2>3. Job(Head(call.todo), call.kind) \in Jobs
    BY <2>1 DEF Job, Jobs
  <2>4. outbox' \in Seq(Jobs)
    BY <1>0, <1>13, <2>3, OneMore DEF QueueWebhook, TypeFacts
  <2> QED
    BY <1>13, <2>2, <2>4 DEF QueueWebhook, TypeOK, CallType, messages, statuses, pending, tab, customers, history
<1>14. ASSUME QueueThrows PROVE TypeOK'
  <2>1. lost' \in SUBSET Jobs
    BY <1>0, <1>14, LoseType DEF QueueThrows
  <2>2. /\ awaiting' \in SUBSET Ids /\ timers' \in [Ids -> Nat]
        /\ session' \in {"none", "open", "ending"}
        /\ pushes' \in [Ids -> Nat]
        /\ call' \in CallType
    BY <1>14, RestartType, NoCallType DEF QueueThrows, TypeOK, pending, tab
  <2>3. missed' \in SUBSET Ids
    BY <1>14 DEF QueueThrows, QueuedFor, TypeOK
  <2> QED
    BY <1>14, <2>1, <2>2, <2>3 DEF QueueThrows, TypeOK, CallType, messages, statuses, customers
<1>15. ASSUME BatchEnds PROVE TypeOK'
  <2>1. call' \in CallType
    BY <1>0, <1>15, NoCallType DEF BatchEnds, TypeFacts, CallType
  <2>2. awaiting' \in SUBSET Ids /\ timers' \in [Ids -> Nat]
    BY <1>0, <1>15 DEF BatchEnds, TypeFacts, CallType
  <2> QED
    BY <1>15, <2>1, <2>2 DEF BatchEnds, TypeOK, CallType, messages, statuses, webhooks, tab, customers, history
<1>16. ASSUME NextTile PROVE TypeOK'
  <2>1. Head(call.tiles) \in Tiles /\ Tail(call.tiles) \in Seq(Tiles)
    BY <1>0, <1>16, NextOf DEF NextTile, TypeFacts, CallType
  <2>2. Deliverable(Head(call.tiles)) \in SUBSET Ids
    BY <1>0 DEF Deliverable, QueuedFor, TypeFacts
  <2>3. delivered' \in SUBSET Ids /\ call' \in CallType
    BY <1>0, <1>16, <1>a, <2>1, <2>2, DeliverType DEF NextTile
  <2> QED
    BY <1>16, <2>3 DEF NextTile, TypeOK, CallType, messages, webhooks, pending, tab, customers, history
<1>17. ASSUME Crash PROVE TypeOK'
  <2>1. lost' \in SUBSET Jobs /\ crashes' \in 0 .. MaxCrashes
    BY <1>0, <1>17, LoseType, BoundsAssumption DEF Crash, TypeOK
  <2>2. /\ awaiting' \in SUBSET Ids /\ timers' \in [Ids -> Nat]
        /\ session' \in {"none", "open", "ending"}
        /\ pushes' \in [Ids -> Nat]
        /\ call' \in CallType
    BY <1>17, RestartType DEF Crash
  <2> QED
    BY <1>17, <2>1, <2>2 DEF Crash, TypeOK, CallType, messages, statuses, customers
<1>18. ASSUME NEW keep \in BOOLEAN, Reset(keep) PROVE TypeOK'
  BY <1>18, NothingToDo DEF Reset, NoPushes, TypeOK, pending, customers
<1>19. ASSUME NEW b \in Businesses, RegisterBusiness(b) \/ DeleteBusiness(b) PROVE TypeOK'
  BY <1>19 DEF RegisterBusiness, DeleteBusiness, TypeOK, messages, statuses, webhooks, pending, tab, customers, history
<1>20. ASSUME CreateGroup \/ DeleteGroup PROVE TypeOK'
  BY <1>20 DEF CreateGroup, DeleteGroup, TypeOK, messages, statuses, webhooks, pending, tab, history
<1>21. CASE UNCHANGED vars
  BY <1>21 DEF vars, TypeOK, messages, statuses, webhooks, pending, tab, customers, history
<1> QED
  BY <1>1, <1>2, <1>3, <1>5, <1>6, <1>7, <1>8, <1>9, <1>10, <1>11, <1>12, <1>13, <1>14, <1>15,
     <1>16, <1>17, <1>18, <1>19, <1>20, <1>21 DEF Next, OtherStep

\* Every variable keeps its type.
THEOREM TypeCorrect == Spec => []TypeOK
<1>1. Init => TypeOK
  <2> SUFFICES ASSUME Init PROVE TypeOK
    OBVIOUS
  <2>1. call \in CallType
    BY NoCallType DEF Init
  <2>2. 1 \in 1 .. MaxMsgs + 1 /\ 0 \in 0 .. MaxCrashes
    BY BoundsAssumption
  <2> QED
    BY <2>1, <2>2, NothingToDo DEF Init, TypeOK, CallType
<1> QED
  BY <1>1, StepKeepsType, PTL DEF Spec

-----------------------------------------------------------------------------
(* What is true of every message, and of what the running call owes.        *)

Todo == ToSet(call.todo)

MsgShape ==
    /\ \A m \in live : m < next /\ dir[m] \in {"out", "in"} /\ tileOf[m] \in Tiles
    /\ \A m \in awaiting : m < next /\ dir[m] = "out"
    /\ \A m \in Ids : timers[m] > 0 => m < next
    /\ \A m \in delivered : m \in live /\ dir[m] = "out"
    /\ \A m \in read : m \in live /\ (dir[m] = "out" => m \in delivered)
    /\ session # "none" => known

CallShape ==
    /\ call.by = "none" => call = NoCall
    /\ call.by = "send" => call.kind = "sent"
    /\ call.tiles # <<>> => call.by = "claim"
    /\ call.by = "claim" => call.kind = "delivered" /\ session = "open"
    /\ call.kind = "sent" => call.by \in {"send", "none"}
    /\ \A m \in call.batch : m < next /\ dir[m] = "out"
    /\ call.kind = "delivered" => \A m \in call.batch \cap live : m \in delivered

TodoShape ==
    /\ IsInjective(call.todo)
    /\ \A m \in Todo : m \in live
    /\ call.kind = "sent" =>
         \A m \in Todo : dir[m] = "out" /\ m = next - 1 /\ m \notin delivered /\ m \notin read
    /\ call.kind = "inbound" => \A m \in Todo : dir[m] = "in" /\ m = next - 1
    /\ call.kind = "delivered" => \A m \in Todo : m \in delivered /\ m \notin read
    /\ call.kind = "read" => \A m \in Todo : m \in read /\ dir[m] = "out"

\* Inductive with the types: which messages a call may owe webhooks for, and
\* that a timer runs only for what was delivered.
Shape == MsgShape /\ CallShape /\ TodoShape /\ RepliesAnswerDelivered

\* No call, nothing owed.
LEMMA NoCallShape ==
    ASSUME call' = NoCall
    PROVE  CallShape' /\ TodoShape'
BY NothingToDo DEF NoCall, CallShape, TodoShape, Todo

\* The id that storeMessage() hands out is new to every set.
LEMMA NewId ==
    ASSUME TypeFacts, Shape, NEW d \in {"in", "out"}, NEW b \in Businesses, NEW t \in Tiles,
           Store(d, b, t)
    PROVE  /\ next \in Ids /\ next' = next + 1 /\ live' = live \cup {next}
           /\ next \notin live /\ next \notin delivered /\ next \notin read /\ next \notin awaiting
           /\ timers[next] = 0
           /\ dir'[next] = d /\ bizOf'[next] = b /\ tileOf'[next] = t
           /\ \A m \in Ids \ {next} : dir'[m] = dir[m] /\ bizOf'[m] = bizOf[m] /\ tileOf'[m] = tileOf[m]
           /\ \A m \in Ids : m < next => m # next
<1>1. /\ next \in Ids /\ next' = next + 1 /\ live' = live \cup {next}
      /\ dir'[next] = d /\ bizOf'[next] = b /\ tileOf'[next] = t
      /\ \A m \in Ids \ {next} : dir'[m] = dir[m] /\ bizOf'[m] = bizOf[m] /\ tileOf'[m] = tileOf[m]
  BY StoreType DEF Store, TypeFacts
<1>2. ~(next < next)
  BY <1>1 DEF Ids
<1>3. /\ next \notin live /\ next \notin delivered /\ next \notin read /\ next \notin awaiting
      /\ ~(timers[next] > 0)
  BY <1>1, <1>2 DEF Shape, MsgShape
<1>4. timers[next] = 0
  BY <1>1, <1>3 DEF TypeFacts
<1> QED
  BY <1>1, <1>2, <1>3, <1>4 DEF Ids

\* A message was stored and the webhook of its arrival is owed.
LEMMA StoreShape ==
    ASSUME TypeFacts, Shape, NEW d \in {"in", "out"}, NEW b \in Businesses, NEW t \in Tiles,
           Store(d, b, t), UNCHANGED <<delivered, read, awaiting, session, known>>,
           \A m \in Ids : timers'[m] <= timers[m], timers' \in [Ids -> Nat],
           \/ /\ d = "out"
              /\ call' = [by |-> "send", kind |-> "sent", todo |-> <<next>>, batch |-> {next}, tiles |-> <<>>]
           \/ /\ d = "in"
              /\ \E by \in {"frame", "timer"} :
                   call' = [by |-> by, kind |-> "inbound", todo |-> <<next>>, batch |-> {}, tiles |-> <<>>]
    PROVE  Shape'
<1>1. /\ next \in Ids /\ next' = next + 1 /\ live' = live \cup {next}
      /\ next \notin live /\ next \notin delivered /\ next \notin read /\ next \notin awaiting
      /\ timers[next] = 0
      /\ dir'[next] = d /\ tileOf'[next] = t
      /\ \A m \in Ids \ {next} : dir'[m] = dir[m] /\ tileOf'[m] = tileOf[m]
  BY NewId
<1>2. /\ IsInjective(call'.todo) /\ ToSet(call'.todo) = {next}
      /\ \/ d = "out" /\ call'.by = "send" /\ call'.kind = "sent" /\ call'.batch = {next} /\ call'.tiles = <<>>
         \/ d = "in" /\ call'.by \in {"frame", "timer"} /\ call'.kind = "inbound" /\ call'.batch = {} /\ call'.tiles = <<>>
  BY <1>1, OneMessage
<1>3. \A m \in Ids : m < next => m < next'
  BY <1>1 DEF Ids
<1>4. next < next' /\ next = next' - 1
  BY <1>1 DEF Ids
<1>5. MsgShape'
  BY <1>1, <1>3, <1>4 DEF Shape, MsgShape, TypeFacts
<1>6. CallShape'
  BY <1>1, <1>2, <1>4 DEF CallShape
<1>7. TodoShape'
  BY <1>1, <1>2, <1>4 DEF TodoShape, Todo
<1>8. RepliesAnswerDelivered'
  BY <1>1 DEF Shape, RepliesAnswerDelivered, TypeFacts
<1> QED
  BY <1>5, <1>6, <1>7, <1>8 DEF Shape

\* delivered() of messages to the customer.
LEMMA DeliverShape ==
    ASSUME TypeFacts, Shape, NEW by \in {"finish", "claim", "flush"}, NEW S \in SUBSET Ids,
           \A m \in S : m < next /\ dir[m] = "out",
           NEW tiles \in Seq(Tiles), Deliver(by, S, tiles),
           UNCHANGED <<messages, read, timers, session, known>>, awaiting' \subseteq awaiting,
           by = "claim" => session = "open", by # "claim" => tiles = <<>>
    PROVE  Shape'
<1>1. /\ Fresh(S) \in SUBSET Ids /\ live \in SUBSET Ids
      /\ by \in Callers /\ "delivered" \in Kinds
      /\ UNCHANGED <<dir, tileOf, next, live>>
  BY DEF TypeFacts, Fresh, Callers, Kinds, messages
<1>2. /\ call'.by = by /\ call'.kind = "delivered" /\ call'.batch = S /\ call'.tiles = tiles
      /\ ToSet(call'.todo) = Fresh(S) /\ IsInjective(call'.todo)
      /\ delivered' = delivered \cup Fresh(S)
  BY <1>1, StartFacts DEF Deliver
<1>3. MsgShape'
  BY <1>1, <1>2 DEF Shape, MsgShape, Fresh
<1>4. CallShape'
  BY <1>1, <1>2 DEF CallShape, Fresh
<1>5. TodoShape'
  <2>1. \A m \in Fresh(S) : m \notin read
    BY DEF Fresh, Shape, MsgShape
  <2> QED
    BY <1>1, <1>2, <2>1 DEF TodoShape, Todo, Fresh
<1>6. RepliesAnswerDelivered'
  BY <1>1, <1>2 DEF Shape, RepliesAnswerDelivered
<1> QED
  BY <1>3, <1>4, <1>5, <1>6 DEF Shape

\* Nothing of a message changes and no call starts.
LEMMA QuietShape ==
    ASSUME TypeFacts, Shape, UNCHANGED <<messages, delivered, read, call>>, awaiting' \subseteq awaiting,
           \A m \in Ids : timers'[m] > 0 => timers[m] > 0,
           session' # "none" => known', call.by = "claim" => session' = session
    PROVE  Shape'
<1>1. UNCHANGED <<dir, tileOf, next, live>>
  BY DEF messages
<1>2. MsgShape'
  BY <1>1 DEF Shape, MsgShape
<1>3. CallShape'
  BY <1>1 DEF Shape, CallShape
<1>4. TodoShape'
  BY <1>1 DEF Shape, TodoShape, Todo
<1>5. RepliesAnswerDelivered'
  BY <1>1 DEF Shape, RepliesAnswerDelivered, TypeFacts
<1> QED
  BY <1>2, <1>3, <1>4, <1>5 DEF Shape

\* A call ends, or a crash ends it: nothing is owed any more.
LEMMA EndedShape ==
    ASSUME TypeFacts, Shape, UNCHANGED <<messages, delivered, read>>, call' = NoCall,
           awaiting' \subseteq awaiting, \A m \in Ids : timers'[m] > 0 => timers[m] > 0,
           session' # "none" => known'
    PROVE  Shape'
<1>1. UNCHANGED <<dir, tileOf, next, live>>
  BY DEF messages
<1>2. MsgShape'
  BY <1>1 DEF Shape, MsgShape
<1>3. RepliesAnswerDelivered'
  BY <1>1 DEF Shape, RepliesAnswerDelivered, TypeFacts
<1> QED
  BY <1>2, <1>3, NoCallShape DEF Shape

LEMMA RestartFacts ==
    ASSUME Restart
    PROVE  /\ awaiting' \subseteq awaiting
           /\ \A m \in Ids : timers'[m] > 0 => timers[m] > 0
           /\ session' = "none" /\ call' = NoCall
BY DEF Restart

LEMMA StepKeepsShape == TypeOK /\ TypeOK' /\ Shape /\ [Next]_vars => Shape'
<1> SUFFICES ASSUME TypeOK, TypeOK', Shape, [Next]_vars PROVE Shape'
  OBVIOUS
<1>0. /\ TypeFacts /\ timers' \in [Ids -> Nat]
      /\ MsgShape /\ CallShape /\ TodoShape
      /\ session # "none" => known
  BY TypeGives DEF TypeOK, Shape, MsgShape
<1>1. ASSUME NEW b \in Businesses, NEW t \in Tiles, Accept(b, t) PROVE Shape'
  <2>1. Store("out", b, t) /\ UNCHANGED <<delivered, read, awaiting, session, known, timers>>
    BY <1>1 DEF Accept, statuses, pending, tab, customers
  <2>2. \A m \in Ids : timers'[m] <= timers[m]
    BY <1>0, <2>1 DEF TypeFacts
  <2> QED
    BY <1>0, <1>1, <2>1, <2>2, StoreShape DEF Accept
<1>2. ASSUME NEW m \in Ids, Finish(m) PROVE Shape'
  <2>1. UNCHANGED <<messages, read, timers, session, known>> /\ awaiting' \subseteq awaiting /\ m \in awaiting
    BY <1>2 DEF Finish, customers
  <2>2. CASE Deliver("finish", {m}, <<>>)
    <3>1. \A x \in {m} : x < next /\ dir[x] = "out"
      BY <1>0, <2>1 DEF MsgShape
    <3> QED
      BY <1>0, <2>1, <2>2, <3>1, NothingToDo, DeliverShape
  <2>3. CASE UNCHANGED <<delivered, call>>
    BY <1>0, <2>1, <2>3, QuietShape
  <2> QED
    BY <1>2, <2>2, <2>3 DEF Finish
<1>3. ASSUME NEW m \in Ids, AnswerAborted(m) PROVE Shape'
  <2>1. /\ awaiting' \subseteq awaiting
        /\ UNCHANGED <<messages, delivered, read, call, timers, session, known>>
    BY <1>3 DEF AnswerAborted, statuses, tab, customers
  <2> QED
    BY <1>0, <2>1, QuietShape
<1>4. ASSUME NEW by \in {"frame", "timer"}, NEW b \in Businesses, NEW t \in Tiles, TakeInbound(by, b, t),
             UNCHANGED <<delivered, read, awaiting, session, known>>,
             \A m \in Ids : timers'[m] <= timers[m]
      PROVE  Shape'
  BY <1>0, <1>4, StoreShape DEF TakeInbound
<1>5. ASSUME NEW b \in Businesses, NEW t \in Tiles, Inbound(b, t) PROVE Shape'
  <2>1. UNCHANGED <<delivered, read, awaiting, session, known, timers>>
    BY <1>5 DEF Inbound, statuses, pending, customers
  <2>2. \A m \in Ids : timers'[m] <= timers[m]
    BY <1>0, <2>1 DEF TypeFacts
  <2> QED
    BY <1>4, <1>5, <2>1, <2>2 DEF Inbound
<1>6. ASSUME NEW m \in Ids, TimerFires(m) PROVE Shape'
  <2>1. UNCHANGED <<delivered, read, awaiting, session, known>>
    BY <1>6 DEF TimerFires, statuses, customers
  <2>2. timers[m] > 0 /\ timers' = [timers EXCEPT ![m] = @ - 1]
    BY <1>6 DEF TimerFires
  <2>3. \A x \in Ids : timers'[x] <= timers[x] /\ (timers'[x] > 0 => timers[x] > 0)
    BY <1>0, <2>2 DEF TypeFacts
  <2>4. CASE TakeInbound("timer", bizOf[m], tileOf[m]) /\ bizOf[m] \in registered /\ Reachable(tileOf[m])
    <3>1. bizOf[m] \in Businesses /\ tileOf[m] \in Tiles
      BY <2>4 DEF TypeOK, Reachable
    <3> QED
      BY <1>4, <2>1, <2>3, <2>4, <3>1
  <2>5. CASE UNCHANGED <<messages, pushes, call>>
    BY <1>0, <2>1, <2>3, <2>5, QuietShape
  <2> QED
    BY <1>6, <2>4, <2>5 DEF TimerFires
<1>7. ASSUME NEW t \in Tiles, NEW b \in Businesses, ChatRead(t, b) PROVE Shape'
  <2> DEFINE S == UnreadDelivered(t, b)
  <2>1. S \in SUBSET Ids /\ {} \in SUBSET Ids /\ <<>> \in Seq(Tiles) /\ live \in SUBSET Ids
        /\ "frame" \in Callers /\ "read" \in Kinds
    BY <1>0, NothingToDo DEF UnreadDelivered, TypeFacts, Callers, Kinds
  <2>2. \A m \in S : m \in live /\ m \in delivered /\ dir[m] = "out"
    BY DEF UnreadDelivered
  <2>3. Start("frame", "read", S, {}, <<>>) /\ read' = read \cup S
        /\ UNCHANGED <<messages, delivered, awaiting, timers, session, known>>
    BY <1>7 DEF ChatRead, pending, tab, customers
  <2> HIDE DEF S
  <2>4. /\ call'.by = "frame" /\ call'.kind = "read" /\ call'.batch = {} /\ call'.tiles = <<>>
        /\ ToSet(call'.todo) = S /\ IsInjective(call'.todo)
    BY <2>1, <2>3, StartFacts
  <2>5. UNCHANGED <<dir, tileOf, next, live>>
    BY <2>3 DEF messages
  <2>6. MsgShape'
    BY <1>0, <2>2, <2>3, <2>5 DEF MsgShape
  <2>7. CallShape'
    BY <2>4 DEF CallShape
  <2>8. TodoShape'
    BY <2>2, <2>3, <2>4, <2>5 DEF TodoShape, Todo
  <2>9. RepliesAnswerDelivered'
    BY <2>3, <2>5 DEF Shape, RepliesAnswerDelivered
  <2> QED
    BY <2>6, <2>7, <2>8, <2>9 DEF Shape
<1>8. ASSUME NEW m \in Ids, MarkInboundRead(m) PROVE Shape'
  <2>1. /\ m \in live \ read /\ dir[m] = "in" /\ read' = read \cup {m} /\ call = NoCall
        /\ UNCHANGED <<dir, tileOf, next, live, delivered, awaiting, timers, session, known, call>>
    BY <1>0, <1>8 DEF MarkInboundRead, messages, pending, tab, customers, Quiet, CallShape
  <2>2. MsgShape'
    BY <1>0, <2>1 DEF MsgShape
  <2>3. RepliesAnswerDelivered'
    BY <2>1 DEF Shape, RepliesAnswerDelivered
  <2> QED
    BY <2>1, <2>2, <2>3, NoCallShape DEF Shape
<1>9. ASSUME NEW t \in Tiles, NEW on \in BOOLEAN, Presence(t, on) PROVE Shape'
  <2>1. UNCHANGED <<messages, read, awaiting, timers, session, known>>
    BY <1>9 DEF Presence, pending
  <2>2. CASE Deliver("flush", QueuedFor(t), <<>>)
    <3>1. /\ QueuedFor(t) \in SUBSET Ids
          /\ \A x \in QueuedFor(t) : x < next /\ dir[x] = "out"
      BY <1>0 DEF QueuedFor, TypeFacts, MsgShape
    <3> QED
      BY <1>0, <2>1, <2>2, <3>1, NothingToDo, DeliverShape
  <2>3. CASE UNCHANGED <<delivered, call>>
    BY <1>0, <2>1, <2>3, QuietShape
  <2> QED
    BY <1>9, <2>2, <2>3 DEF Presence
<1>10. ASSUME NEW t \in Tiles, NEW on \in BOOLEAN, SetAutoReply(t, on) PROVE Shape'
  <2>1. UNCHANGED <<messages, delivered, read, awaiting, timers, session, known, call>>
    BY <1>10 DEF SetAutoReply, statuses, pending, tab
  <2> QED
    BY <1>0, <2>1, QuietShape
<1>11. ASSUME Claim PROVE Shape'
  <2>1. /\ session' = "open" /\ known' /\ call'.by = "claim" /\ call'.kind = "delivered"
        /\ call'.todo = <<>> /\ call'.batch = {}
        /\ UNCHANGED <<dir, tileOf, next, live, delivered, read, awaiting, timers>>
    BY <1>11 DEF Claim, messages, statuses, pending, customers
  <2>2. MsgShape'
    BY <1>0, <2>1 DEF MsgShape
  <2>3. CallShape' /\ TodoShape'
    BY <2>1, NothingToDo DEF CallShape, TodoShape, Todo
  <2>4. RepliesAnswerDelivered'
    BY <2>1 DEF Shape, RepliesAnswerDelivered
  <2> QED
    BY <2>2, <2>3, <2>4 DEF Shape
<1>12. ASSUME SocketEnds \/ SessionEnds PROVE Shape'
  <2>1. /\ UNCHANGED <<messages, delivered, read, awaiting, timers, known, call>>
        /\ session # "none" /\ call.by = "none"
    BY <1>12 DEF SocketEnds, SessionEnds, statuses, pending, customers, Quiet
  <2> QED
    BY <1>0, <2>1, QuietShape
<1>13. ASSUME QueueWebhook PROVE Shape'
  <2>1. /\ UNCHANGED <<dir, tileOf, next, live, delivered, read, awaiting, timers, session, known>>
        /\ call' = [call EXCEPT !.todo = Tail(@)] /\ call.todo # <<>>
    BY <1>13 DEF QueueWebhook, messages, statuses, pending, tab, customers
  <2>2. /\ call'.by = call.by /\ call'.kind = call.kind /\ call'.batch = call.batch
        /\ call'.tiles = call.tiles /\ call'.todo = Tail(call.todo)
        /\ call.todo \in Seq(Ids)
    BY <1>0, <2>1 DEF TypeFacts, CallType
  <2>3. IsInjective(Tail(call.todo)) /\ ToSet(Tail(call.todo)) \subseteq Todo
    BY <1>0, <2>1, <2>2, NextOf DEF TodoShape, Todo
  <2>4. MsgShape'
    BY <1>0, <2>1 DEF MsgShape
  <2>5. call.by # "none"
    BY <1>0, <2>1 DEF CallShape, NoCall
  <2>6. CallShape'
    BY <1>0, <2>1, <2>2, <2>5 DEF CallShape
  <2>7. TodoShape'
    BY <1>0, <2>1, <2>2, <2>3 DEF TodoShape, Todo
  <2>8. RepliesAnswerDelivered'
    BY <2>1 DEF Shape, RepliesAnswerDelivered
  <2> QED
    BY <2>4, <2>6, <2>7, <2>8 DEF Shape
<1>14. ASSUME QueueThrows PROVE Shape'
  <2>1. UNCHANGED <<messages, delivered, read, known>>
    BY <1>14 DEF QueueThrows, statuses, customers
  <2>2. CASE Restart
    BY <1>0, <2>1, <2>2, RestartFacts, EndedShape
  <2>3. CASE call' = NoCall /\ UNCHANGED <<pending, tab>>
    BY <1>0, <2>1, <2>3, EndedShape DEF pending, tab
  <2> QED
    BY <1>14, <2>2, <2>3 DEF QueueThrows
<1>15. ASSUME BatchEnds PROVE Shape'
  <2>1. /\ UNCHANGED <<dir, tileOf, next, live, delivered, read, session, known>>
        /\ call.by # "none" /\ call.todo = <<>>
        /\ awaiting' = IF call.by = "send" THEN awaiting \cup call.batch ELSE awaiting
        /\ timers' = [m \in Ids |-> IF StartsTimer(m) THEN timers[m] + 1 ELSE timers[m]]
        /\ call' = IF call.tiles = <<>> THEN NoCall ELSE [call EXCEPT !.batch = {}]
    BY <1>15 DEF BatchEnds, messages, statuses, tab, customers
  <2>2. \A m \in Ids : timers'[m] > 0 => (timers[m] > 0 \/ (m \in call.batch /\ call.kind = "delivered"))
    BY <2>1 DEF StartsTimer
  <2>3. MsgShape'
    BY <1>0, <2>1, <2>2 DEF MsgShape, CallShape
  <2>4. RepliesAnswerDelivered'
    BY <1>0, <2>1, <2>2 DEF Shape, RepliesAnswerDelivered, CallShape, MsgShape, TypeFacts
  <2>5. CallShape' /\ TodoShape'
    <3>1. CASE call.tiles = <<>>
      BY <2>1, <3>1, NoCallShape
    <3>2. CASE call.tiles # <<>>
      <4>1. /\ call'.by = call.by /\ call'.kind = call.kind /\ call'.batch = {}
            /\ call'.tiles = call.tiles /\ call'.todo = call.todo
        BY <1>0, <2>1, <3>2 DEF TypeFacts, CallType
      <4>2. CallShape'
        BY <1>0, <2>1, <4>1 DEF CallShape
      <4>3. TodoShape'
        BY <1>0, <2>1, <4>1 DEF TodoShape, Todo
      <4> QED
        BY <4>2, <4>3
    <3> QED
      BY <3>1, <3>2
  <2> QED
    BY <2>3, <2>4, <2>5 DEF Shape
<1>16. ASSUME NextTile PROVE Shape'
  <2> DEFINE S == Deliverable(Head(call.tiles))
  <2>1. Head(call.tiles) \in Tiles /\ Tail(call.tiles) \in Seq(Tiles)
    BY <1>0, <1>16, NextOf DEF NextTile, TypeFacts, CallType
  <2>2. /\ S \in SUBSET Ids
        /\ \A x \in S : x < next /\ dir[x] = "out"
    BY <1>0 DEF Deliverable, QueuedFor, TypeFacts, MsgShape
  <2>3. /\ Deliver("claim", S, Tail(call.tiles))
        /\ UNCHANGED <<messages, read, awaiting, timers, session, known>>
    BY <1>16 DEF NextTile, pending, tab, customers
  <2>4. session = "open"
    BY <1>0, <1>16 DEF NextTile, CallShape
  <2> HIDE DEF S
  <2> QED
    BY <1>0, <2>1, <2>2, <2>3, <2>4, DeliverShape
<1>17. ASSUME Crash PROVE Shape'
  <2>1. UNCHANGED <<messages, delivered, read, known>> /\ Restart
    BY <1>17 DEF Crash, statuses, customers
  <2> QED
    BY <1>0, <2>1, RestartFacts, EndedShape
<1>18. ASSUME NEW keep \in BOOLEAN, Reset(keep) PROVE Shape'
  <2>1. /\ live' = {} /\ delivered' = {} /\ read' = {}
        /\ UNCHANGED <<dir, next, awaiting, timers, call>>
        /\ call = NoCall
        /\ session' # "none" => known'
    BY <1>0, <1>18 DEF Reset, pending, customers, Quiet, CallShape
  <2>2. MsgShape' /\ RepliesAnswerDelivered'
    BY <1>0, <2>1 DEF MsgShape, RepliesAnswerDelivered
  <2> QED
    BY <2>1, <2>2, NoCallShape DEF Shape
<1>19. ASSUME NEW b \in Businesses, RegisterBusiness(b) \/ DeleteBusiness(b) PROVE Shape'
  <2>1. UNCHANGED <<messages, delivered, read, awaiting, timers, session, known, call>>
    BY <1>19 DEF RegisterBusiness, DeleteBusiness, statuses, pending, tab, customers
  <2> QED
    BY <1>0, <2>1, QuietShape
<1>20. ASSUME CreateGroup \/ DeleteGroup PROVE Shape'
  <2>1. /\ UNCHANGED <<messages, delivered, read, awaiting, timers, session, call>>
        /\ session' # "none" => known'
    BY <1>0, <1>20 DEF CreateGroup, DeleteGroup, statuses, pending, tab
  <2> QED
    BY <1>0, <2>1, QuietShape
<1>21. CASE UNCHANGED vars
  <2>1. UNCHANGED <<messages, delivered, read, awaiting, timers, session, known, call>>
    BY <1>21 DEF vars, statuses, pending, tab, customers
  <2> QED
    BY <1>0, <2>1, QuietShape
<1> QED
  BY <1>1, <1>2, <1>3, <1>5, <1>6, <1>7, <1>8, <1>9, <1>10, <1>11, <1>12, <1>13, <1>14, <1>15,
     <1>16, <1>17, <1>18, <1>19, <1>20, <1>21 DEF Next, OtherStep

LEMMA ShapeHolds == Spec => [](TypeOK /\ Shape)
<1>1. Init => Shape
  <2> SUFFICES ASSUME Init PROVE Shape
    OBVIOUS
  <2>1. call = NoCall /\ live = {} /\ delivered = {} /\ read = {} /\ awaiting = {} /\ session = "none"
        /\ timers = [m \in Ids |-> 0]
    BY DEF Init
  <2>2. MsgShape /\ RepliesAnswerDelivered
    BY <2>1 DEF MsgShape, RepliesAnswerDelivered
  <2>3. CallShape /\ TodoShape
    BY <2>1, NothingToDo DEF NoCall, CallShape, TodoShape, Todo
  <2> QED
    BY <2>2, <2>3 DEF Shape
<1>2. Spec => []TypeOK
  BY TypeCorrect
<1> QED
  BY <1>1, <1>2, StepKeepsShape, PTL DEF Spec

\* An auto-reply is on its way only to a message that reached its customer.
THEOREM RepliesAnswerDeliveredHolds == Spec => []RepliesAnswerDelivered
<1>1. Shape => RepliesAnswerDelivered
  BY DEF Shape
<1> QED
  BY <1>1, ShapeHolds, PTL

-----------------------------------------------------------------------------
(* What a step may deliver and show.                                        *)

\* A step delivers only to a tile that is online under a session.
LEMMA StepDeliversOnline ==
    TypeOK /\ Shape /\ [Next]_vars =>
        \A m \in delivered' \ delivered : session # "none" /\ tileOf[m] \in online'
<1> SUFFICES ASSUME TypeOK, Shape, [Next]_vars, NEW m \in delivered' \ delivered
             PROVE  session # "none" /\ tileOf[m] \in online'
  OBVIOUS
<1>1. ASSUME NEW x \in Ids, Finish(x) PROVE session # "none" /\ tileOf[m] \in online'
  BY <1>1 DEF Finish, Deliver, Fresh, Reachable, customers
<1>2. ASSUME NEW t \in Tiles, NEW on \in BOOLEAN, Presence(t, on)
      PROVE  session # "none" /\ tileOf[m] \in online'
  BY <1>2 DEF Presence, Deliver, Fresh, Flushes, QueuedFor
<1>3. ASSUME NextTile PROVE session # "none" /\ tileOf[m] \in online'
  <2>1. m \in Deliverable(Head(call.tiles))
    BY <1>3 DEF NextTile, Deliver, Fresh
  <2> QED
    BY <1>3, <2>1 DEF NextTile, Deliverable, QueuedFor, Reachable, customers
<1>4. ASSUME NEW keep \in BOOLEAN, Reset(keep) PROVE FALSE
  BY <1>4 DEF Reset
<1>5. CASE UNCHANGED delivered
  BY <1>5
<1>6. \/ UNCHANGED delivered
      \/ \E x \in Ids : Finish(x)
      \/ \E t \in Tiles, on \in BOOLEAN : Presence(t, on)
      \/ NextTile
      \/ \E keep \in BOOLEAN : Reset(keep)
  BY DEF Next, OtherStep, vars, statuses, Accept, Inbound, ChatRead, AnswerAborted, TimerFires, MarkInboundRead,
         SetAutoReply, Claim, SocketEnds, SessionEnds, QueueWebhook, QueueThrows, BatchEnds, Crash,
         RegisterBusiness, DeleteBusiness, CreateGroup, DeleteGroup
<1> QED
  BY <1>1, <1>2, <1>3, <1>4, <1>5, <1>6

\* A customer gets messages only while online in a claimed group, whichever of
\* finish, flush and claim delivers them.
THEOREM DeliveredOnlyOnlineHolds == Spec => DeliveredOnlyOnline
BY ShapeHolds, StepDeliversOnline, PTL DEF Spec, DeliveredOnlyOnline

\* A step shows nothing that is wiped, but for the answer that is under way.
LEMMA StepKeepsWiped ==
    TypeOK /\ Shape /\ [Next]_vars =>
        \A m \in Ids : (pushes'[m] > pushes[m] /\ m \notin live') => m \in awaiting
<1> SUFFICES ASSUME TypeOK, Shape, [Next]_vars, NEW m \in Ids, pushes'[m] > pushes[m], m \notin live'
             PROVE  m \in awaiting
  OBVIOUS
<1>0. TypeFacts /\ pushes[m] \in Nat
  BY TypeGives DEF TypeFacts
<1>1. ASSUME NEW S, Push(S) PROVE m \in S
  BY <1>0, <1>1 DEF Push
<1>2. ASSUME NEW x \in Ids, Finish(x) PROVE m \in awaiting
  <2>1. CASE Push({x})
    BY <1>1, <1>2, <2>1 DEF Finish
  <2>2. CASE UNCHANGED pushes
    BY <1>0, <2>2
  <2> QED
    BY <1>2, <2>1, <2>2 DEF Finish
<1>3. ASSUME NEW by, NEW b, NEW t, TakeInbound(by, b, t) PROVE FALSE
  BY <1>1, <1>3 DEF TakeInbound, Store
<1>4. ASSUME NEW t \in Tiles, NEW on \in BOOLEAN, Presence(t, on) PROVE FALSE
  <2>1. CASE Push(QueuedFor(t))
    BY <1>1, <1>4, <2>1 DEF Presence, QueuedFor, messages
  <2>2. CASE UNCHANGED pushes
    BY <1>0, <2>2
  <2> QED
    BY <1>4, <2>1, <2>2 DEF Presence
<1>5. ASSUME Claim PROVE FALSE
  <2>1. PICK S \in Snapshots : pushes' = [x \in Ids |-> IF x \in S THEN 1 ELSE 0]
    BY <1>5 DEF Claim
  <2>2. S \subseteq live /\ live' = live
    BY <1>5 DEF Claim, Snapshots, messages
  <2> QED
    BY <1>0, <2>1, <2>2
<1>6. ASSUME NoPushes PROVE FALSE
  BY <1>0, <1>6 DEF NoPushes
<1>7. ASSUME UNCHANGED pushes PROVE FALSE
  BY <1>0, <1>7
<1>8. \/ UNCHANGED pushes \/ NoPushes
      \/ \E x \in Ids : Finish(x)
      \/ \E by \in Callers, b \in Businesses \cup {Nobody}, t \in Tiles \cup {Nobody} : TakeInbound(by, b, t)
      \/ \E t \in Tiles, on \in BOOLEAN : Presence(t, on)
      \/ Claim
  <2>1. ASSUME NEW b \in Businesses, NEW t \in Tiles, Inbound(b, t)
        PROVE  TakeInbound("frame", b, t) /\ "frame" \in Callers
    BY <2>1 DEF Inbound, Callers
  <2>2. ASSUME NEW x \in Ids, TimerFires(x)
        PROVE  UNCHANGED pushes
               \/ (TakeInbound("timer", bizOf[x], tileOf[x]) /\ "timer" \in Callers
                   /\ bizOf[x] \in Businesses \cup {Nobody} /\ tileOf[x] \in Tiles \cup {Nobody})
    BY <1>0, <2>2 DEF TimerFires, Callers, TypeFacts
  <2> QED
    BY <2>1, <2>2
       DEF Next, OtherStep, vars, tab, Accept, ChatRead, AnswerAborted, MarkInboundRead, Restart,
           SetAutoReply, SocketEnds, SessionEnds, QueueWebhook, QueueThrows, BatchEnds, NextTile, Crash,
           Reset, RegisterBusiness, DeleteBusiness, CreateGroup, DeleteGroup
<1> QED
  BY <1>2, <1>3, <1>4, <1>5, <1>6, <1>7, <1>8

\* After a reset only the answer of a send that was under way can still bring a
\* wiped message into a tab.
THEOREM WipedStaysWipedHolds == Spec => WipedStaysWiped
BY ShapeHolds, StepKeepsWiped, PTL DEF Spec, WipedStaysWiped

-----------------------------------------------------------------------------
(* What a tab has: TabComplete, with what a claim relies on until its loop   *)
(* over the tiles is done.                                                  *)

Shown ==
    session = "open" =>
        /\ \A m \in Arrived : pushes[m] > 0 \/ CutOff(m)
        /\ call.by = "claim" =>
             \A m \in live : dir[m] = "out" /\ m \notin delivered /\ tileOf[m] \in online => pushes[m] > 0

\* A message that the snapshot left out stays cut off as more arrive and are shown.
LEMMA CutOffStays ==
    ASSUME TypeFacts, NEW m \in live, CutOff(m), pushes' \in [Ids -> Nat], live' \in SUBSET Ids,
           Arrived \subseteq Arrived',
           \A i \in live : bizOf'[i] = bizOf[i] /\ tileOf'[i] = tileOf[i],
           \A i \in live : pushes[i] > 0 => pushes'[i] > 0
    PROVE  CutOff(m)'
<1> DEFINE P == {i \in Arrived : /\ tileOf[i] = tileOf[m] /\ pushes[i] > 0
                                 /\ ~(SameConversation(i, m) /\ i < m)}
           Q == P'
<1>1. ASSUME NEW i \in P PROVE i \in Q
  <2>1. i \in live /\ i \in Arrived'
    BY DEF Arrived
  <2>2. tileOf'[i] = tileOf'[m] /\ pushes'[i] > 0
    BY <2>1
  <2>3. ~(SameConversation(i, m)' /\ i < m)
    BY <2>1 DEF SameConversation
  <2> QED
    BY <2>1, <2>2, <2>3 DEF SameConversation
<1>2. IsFiniteSet(Q) /\ IsFiniteSet(P)
  <2>1. IsFiniteSet(Ids)
    BY IdsFinite
  <2>2. Q \subseteq Ids /\ P \subseteq Ids
    BY DEF Arrived, TypeFacts
  <2> QED
    BY <2>1, <2>2, FS_Subset
<1>3. Cardinality(P) \in Nat /\ Cardinality(Q) \in Nat /\ Cardinality(P) <= Cardinality(Q)
  BY <1>1, <1>2, FS_Subset, FS_CardinalityType
<1>4. Cardinality(P) >= HistoryLimit
  BY DEF CutOff
<1>5. Cardinality(Q) >= HistoryLimit
  BY <1>3, <1>4, LimitAssumption
<1> QED
  BY <1>5 DEF CutOff

\* A snapshot leaves out of what has arrived only what it is cut before.
LEMMA SnapshotShows ==
    ASSUME TypeFacts, MsgShape, NEW S \in Snapshots, NEW m \in Arrived, m \notin S
    PROVE  Cardinality({i \in Arrived : /\ tileOf[i] = tileOf[m] /\ i \in S
                                        /\ ~(SameConversation(i, m) /\ i < m)}) >= HistoryLimit
<1> DEFINE t == tileOf[m]
           P == {i \in Arrived : /\ tileOf[i] = t /\ i \in S
                                 /\ ~(SameConversation(i, m) /\ i < m)}
<1>1. PICK T \in Slices(t) : t \in Tiles /\
         {i \in S : tileOf[i] = t} = T \cup (IF t \in online THEN QueuedFor(t) ELSE {})
  BY DEF Snapshots, Arrived, MsgShape
<1>2. /\ T \subseteq Past(t)
      /\ IF Cardinality(Past(t)) <= HistoryLimit THEN T = Past(t) ELSE Cardinality(T) = HistoryLimit
      /\ \A i \in Past(t) \ T, j \in T : ~(SameConversation(i, j) /\ j < i)
  BY DEF Slices
<1>3. Past(t) \subseteq Arrived /\ m \in Past(t)
  BY DEF Past, QueuedFor, Arrived, TypeFacts, MsgShape
<1>4. m \notin T
  BY <1>1, <1>3 DEF Past
<1>5. Cardinality(T) = HistoryLimit
  BY <1>2, <1>3, <1>4
<1>6. ASSUME NEW i \in T PROVE i \in P
  <2>1. i \in Arrived /\ tileOf[i] = t /\ i \in S
    BY <1>1, <1>2, <1>3, <1>6 DEF Past
  <2>2. ~(SameConversation(m, i) /\ i < m)
    BY <1>2, <1>3, <1>4, <1>6
  <2> QED
    BY <2>1, <2>2 DEF SameConversation
<1>7. IsFiniteSet(P)
  <2>1. IsFiniteSet(Ids)
    BY IdsFinite
  <2>2. P \subseteq Ids
    BY DEF Arrived, TypeFacts
  <2> QED
    BY <2>1, <2>2, FS_Subset
<1>8. Cardinality(T) <= Cardinality(P) /\ Cardinality(P) \in Nat
  BY <1>6, <1>7, FS_Subset, FS_CardinalityType
<1> QED
  BY <1>5, <1>8, LimitAssumption

\* Bubbles only come while the session stays.
LEMMA PushKeeps ==
    ASSUME TypeFacts, NEW S, Push(S)
    PROVE  /\ \A m \in Ids : pushes[m] > 0 => pushes'[m] > 0
           /\ session = "open" => \A m \in Ids : m \in S => pushes'[m] > 0
<1>1. \A m \in Ids : pushes[m] \in Nat
  BY DEF TypeFacts
<1>2. \A m \in Ids : pushes'[m] = IF session = "open" /\ m \in S THEN pushes[m] + 1 ELSE pushes[m]
  BY DEF Push
<1> QED
  BY <1>1, <1>2

\* No session, nothing to show; nothing changes, all is shown still.
LEMMA ClosedShown ==
    ASSUME session' # "open"
    PROVE  Shown'
BY DEF Shown

LEMMA SameShown ==
    ASSUME Shown, UNCHANGED <<messages, delivered, pushes>>, session' = "open" => session = "open",
           call'.by = "claim" => call.by = "claim" /\ UNCHANGED online
    PROVE  Shown'
<1>1. UNCHANGED <<dir, bizOf, tileOf, live>>
  BY DEF messages
<1>2. Arrived' = Arrived
  BY <1>1 DEF Arrived
<1>3. \A m : CutOff(m)' = CutOff(m)
  BY <1>1, <1>2 DEF CutOff, SameConversation
<1> QED
  BY <1>1, <1>2, <1>3 DEF Shown

\* Messages are delivered and shown, at once or before.
LEMMA DeliverShown ==
    ASSUME TypeFacts, Shown, NEW by \in Callers, NEW S \in SUBSET Ids, NEW tiles \in Seq(Tiles),
           Deliver(by, S, tiles), UNCHANGED <<messages, session>>,
           pushes' \in [Ids -> Nat], \A m \in Ids : pushes[m] > 0 => pushes'[m] > 0,
           session = "open" => \A m \in S : m \in live => pushes'[m] > 0,
           by = "claim" => call.by = "claim" /\ UNCHANGED online
    PROVE  Shown'
<1>1. Fresh(S) \in SUBSET Ids /\ live \in SUBSET Ids /\ "delivered" \in Kinds
  BY DEF TypeFacts, Fresh, Kinds
<1>2. call'.by = by /\ delivered' = delivered \cup (S \cap live)
  BY <1>1, StartFacts DEF Deliver, Fresh
<1>3. UNCHANGED <<dir, bizOf, tileOf, live>>
  BY DEF messages
<1>4. Arrived' = Arrived \cup (S \cap live)
  BY <1>2, <1>3 DEF Arrived
<1>5. ASSUME NEW m \in Arrived, CutOff(m) PROVE CutOff(m)'
  <2>1. m \in live
    BY DEF Arrived
  <2> QED
    BY <1>1, <1>3, <1>4, <1>5, <2>1, CutOffStays
<1>6. Arrived \subseteq Ids
  BY <1>1 DEF Arrived
<1> QED
  BY <1>1, <1>2, <1>3, <1>4, <1>5, <1>6 DEF Shown

\* A message comes in from a customer and is shown.
LEMMA InboundShown ==
    ASSUME TypeFacts, Shape, Shown, NEW by \in {"frame", "timer"}, NEW b \in Businesses, NEW t \in Tiles,
           TakeInbound(by, b, t), UNCHANGED <<delivered, session>>
    PROVE  Shown'
<1>1. Store("in", b, t) /\ Push({next}) /\ call'.by = by
  BY DEF TakeInbound
<1>2. /\ next \in Ids /\ live' = live \cup {next} /\ live \in SUBSET Ids
      /\ next \notin live /\ dir'[next] = "in"
      /\ \A m \in Ids \ {next} : dir'[m] = dir[m] /\ bizOf'[m] = bizOf[m] /\ tileOf'[m] = tileOf[m]
  BY <1>1, NewId DEF TypeFacts
<1>3. /\ \A m \in Ids : pushes[m] > 0 => pushes'[m] > 0
      /\ session = "open" => pushes'[next] > 0
      /\ pushes' \in [Ids -> Nat]
  BY <1>1, <1>2, PushKeeps, PushType
<1>4. Arrived' = Arrived \cup {next}
  BY <1>2 DEF Arrived
<1>5. ASSUME NEW m \in Arrived, CutOff(m) PROVE CutOff(m)'
  <2>1. m \in live /\ live' \in SUBSET Ids
    BY <1>2 DEF Arrived
  <2> QED
    BY <1>2, <1>3, <1>4, <1>5, <2>1, CutOffStays
<1>6. Arrived \subseteq Ids
  BY <1>2 DEF Arrived
<1> QED
  BY <1>1, <1>2, <1>3, <1>4, <1>5, <1>6 DEF Shown

LEMMA StepKeepsShown == TypeOK /\ Shape /\ Shown /\ [Next]_vars => Shown'
<1> SUFFICES ASSUME TypeOK, Shape, Shown, [Next]_vars PROVE Shown'
  OBVIOUS
<1>0. TypeFacts /\ MsgShape /\ CallShape
  BY TypeGives DEF Shape
<1>a. "send" \in Callers /\ "finish" \in Callers /\ "claim" \in Callers /\ "flush" \in Callers
  BY DEF Callers
<1>1. ASSUME NEW b \in Businesses, NEW t \in Tiles, Accept(b, t) PROVE Shown'
  <2>1. /\ Store("out", b, t) /\ call'.by = "send"
        /\ UNCHANGED <<delivered, session, pushes>>
    BY <1>1 DEF Accept, statuses, tab
  <2>2. /\ live' = live \cup {next} /\ live' \in SUBSET Ids /\ live \in SUBSET Ids
        /\ next \notin live /\ next \notin delivered /\ dir'[next] = "out"
        /\ \A m \in Ids \ {next} : dir'[m] = dir[m] /\ bizOf'[m] = bizOf[m] /\ tileOf'[m] = tileOf[m]
    BY <1>0, <2>1, NewId, StoreType DEF TypeFacts
  <2>3. Arrived' = Arrived /\ Arrived \subseteq live /\ pushes' \in [Ids -> Nat]
    BY <1>0, <2>1, <2>2 DEF Arrived, TypeFacts
  <2>4. ASSUME NEW m \in Arrived, CutOff(m) PROVE CutOff(m)'
    BY <1>0, <2>1, <2>2, <2>3, <2>4, CutOffStays
  <2> QED
    BY <1>0, <2>1, <2>2, <2>3, <2>4 DEF Shown
<1>2. ASSUME NEW m \in Ids, Finish(m) PROVE Shown'
  <2>1. UNCHANGED <<messages, session, online>>
    BY <1>2 DEF Finish, customers
  <2>2. CASE Push({m}) /\ Deliver("finish", {m}, <<>>)
    BY <1>0, <1>a, <2>1, <2>2, PushKeeps, PushType, NothingToDo, DeliverShown
  <2>3. CASE UNCHANGED <<pushes, delivered, call>>
    BY <2>1, <2>3, SameShown
  <2> QED
    BY <1>2, <2>2, <2>3 DEF Finish
<1>3. ASSUME NEW b \in Businesses, NEW t \in Tiles, Inbound(b, t) PROVE Shown'
  BY <1>0, <1>3, InboundShown DEF Inbound, statuses
<1>4. ASSUME NEW m \in Ids, TimerFires(m) PROVE Shown'
  <2>1. UNCHANGED <<delivered, session, online>>
    BY <1>4 DEF TimerFires, statuses, customers
  <2>2. CASE TakeInbound("timer", bizOf[m], tileOf[m]) /\ bizOf[m] \in registered /\ Reachable(tileOf[m])
    <3>1. bizOf[m] \in Businesses /\ tileOf[m] \in Tiles
      BY <2>2 DEF TypeOK, Reachable
    <3> QED
      BY <1>0, <2>1, <2>2, <3>1, InboundShown
  <2>3. CASE UNCHANGED <<messages, pushes, call>>
    BY <2>1, <2>3, SameShown
  <2> QED
    BY <1>4, <2>2, <2>3 DEF TimerFires
<1>5. ASSUME NEW t \in Tiles, NEW b \in Businesses, ChatRead(t, b) PROVE Shown'
  <2>1. UNCHANGED <<messages, delivered, pushes, session>> /\ call'.by = "frame"
    BY <1>5 DEF ChatRead, tab, Start
  <2> QED
    BY <2>1, SameShown
<1>6. ASSUME NEW t \in Tiles, NEW on \in BOOLEAN, Presence(t, on) PROVE Shown'
  <2>1. UNCHANGED <<messages, session>> /\ call.by = "none"
    BY <1>6 DEF Presence, Quiet
  <2>2. CASE Push(QueuedFor(t)) /\ Deliver("flush", QueuedFor(t), <<>>)
    <3>1. QueuedFor(t) \in SUBSET Ids
      BY <1>0 DEF QueuedFor, TypeFacts
    <3> QED
      BY <1>0, <1>a, <2>1, <2>2, <3>1, PushKeeps, PushType, NothingToDo, DeliverShown
  <2>3. CASE UNCHANGED <<pushes, delivered, call>>
    BY <2>1, <2>3, SameShown
  <2> QED
    BY <1>6, <2>2, <2>3 DEF Presence
<1>7. ASSUME Claim PROVE Shown'
  <2>1. PICK S \in Snapshots : pushes' = [m \in Ids |-> IF m \in S THEN 1 ELSE 0]
    BY <1>7 DEF Claim
  <2>2. UNCHANGED <<dir, bizOf, tileOf, live, delivered, online>>
    BY <1>7 DEF Claim, messages, statuses, customers
  <2>3. Arrived' = Arrived /\ Arrived \subseteq Ids /\ live \in SUBSET Ids
    BY <1>0, <2>2 DEF Arrived, TypeFacts
  <2>4. \A m \in Ids : pushes'[m] > 0 <=> m \in S
    BY <2>1
  <2>5. ASSUME NEW m \in Arrived, m \notin S PROVE CutOff(m)'
    <3>1. Cardinality({i \in Arrived : /\ tileOf[i] = tileOf[m] /\ i \in S
                                       /\ ~(SameConversation(i, m) /\ i < m)}) >= HistoryLimit
      BY <1>0, <2>5, SnapshotShows
    <3>2. {i \in Arrived : /\ tileOf[i] = tileOf[m] /\ i \in S
                           /\ ~(SameConversation(i, m) /\ i < m)}
          = {i \in Arrived' : /\ tileOf'[i] = tileOf'[m] /\ pushes'[i] > 0
                              /\ ~(SameConversation(i, m)' /\ i < m)}
      BY <2>2, <2>3, <2>4 DEF SameConversation
    <3> QED
      BY <3>1, <3>2 DEF CutOff
  <2>6. ASSUME NEW m \in live, dir[m] = "out", m \notin delivered, tileOf[m] \in online PROVE m \in S
    <3>1. tileOf[m] \in Tiles /\ m \in QueuedFor(tileOf[m])
      BY <1>0, <2>3, <2>6 DEF MsgShape, QueuedFor
    <3> QED
      BY <2>6, <3>1 DEF Snapshots
  <2> QED
    BY <2>2, <2>3, <2>4, <2>5, <2>6 DEF Shown
<1>8. ASSUME SocketEnds \/ SessionEnds PROVE Shown'
  BY <1>8, ClosedShown DEF SocketEnds, SessionEnds
<1>9. ASSUME QueueWebhook PROVE Shown'
  <2>1. UNCHANGED <<messages, delivered, pushes, session, online>> /\ call'.by = call.by
    BY <1>0, <1>9 DEF QueueWebhook, statuses, tab, customers, TypeFacts, CallType
  <2> QED
    BY <2>1, SameShown
<1>10. ASSUME QueueThrows PROVE Shown'
  <2>1. CASE Restart
    BY <2>1, ClosedShown DEF Restart
  <2>2. CASE call' = NoCall /\ UNCHANGED <<pending, tab>>
    BY <1>10, <2>2, SameShown DEF QueueThrows, statuses, tab, NoCall
  <2> QED
    BY <1>10, <2>1, <2>2 DEF QueueThrows
<1>11. ASSUME BatchEnds PROVE Shown'
  <2>1. /\ UNCHANGED <<messages, delivered, pushes, session, online>>
        /\ call'.by = "claim" => call.by = "claim"
    BY <1>0, <1>11 DEF BatchEnds, statuses, tab, customers, TypeFacts, CallType, NoCall
  <2> QED
    BY <2>1, SameShown
<1>12. ASSUME NextTile PROVE Shown'
  <2> DEFINE S == Deliverable(Head(call.tiles))
  <2>1. Head(call.tiles) \in Tiles /\ Tail(call.tiles) \in Seq(Tiles) /\ S \in SUBSET Ids
        /\ \A m \in S : m \in live /\ dir[m] = "out" /\ m \notin delivered /\ tileOf[m] \in online
    BY <1>0, <1>12, NextOf DEF NextTile, TypeFacts, CallType, Deliverable, QueuedFor, Reachable
  <2>2. Deliver("claim", S, Tail(call.tiles)) /\ UNCHANGED <<messages, session, pushes, online>>
    BY <1>12 DEF NextTile, tab, customers
  <2>3. call.by = "claim"
    BY <1>0, <1>12 DEF NextTile, CallShape
  <2> HIDE DEF S
  <2>4. session = "open" => \A m \in S : m \in live => pushes'[m] > 0
    BY <2>1, <2>2, <2>3 DEF Shown
  <2>5. pushes' \in [Ids -> Nat]
    BY <1>0, <2>2 DEF TypeFacts
  <2> QED
    BY <1>0, <1>a, <2>1, <2>2, <2>3, <2>4, <2>5, DeliverShown
<1>13. ASSUME Crash PROVE Shown'
  BY <1>13, ClosedShown DEF Crash, Restart
<1>14. ASSUME NEW keep \in BOOLEAN, Reset(keep) PROVE Shown'
  BY <1>14 DEF Reset, Shown, Arrived
<1>15. ASSUME \/ \E m \in Ids : AnswerAborted(m) \/ MarkInboundRead(m)
              \/ \E t \in Tiles, on \in BOOLEAN : SetAutoReply(t, on)
              \/ \E b \in Businesses : RegisterBusiness(b) \/ DeleteBusiness(b)
              \/ CreateGroup \/ DeleteGroup
       PROVE  Shown'
  <2>1. UNCHANGED <<messages, delivered, pushes, session, call>> /\ call.by = "none"
    BY <1>15 DEF AnswerAborted, MarkInboundRead, SetAutoReply, RegisterBusiness, DeleteBusiness,
                 CreateGroup, DeleteGroup, Quiet, statuses, tab
  <2> QED
    BY <2>1, SameShown
<1>16. CASE UNCHANGED vars
  <2>1. UNCHANGED <<messages, delivered, pushes, session, call, online>>
    BY <1>16 DEF vars, statuses, tab, customers
  <2> QED
    BY <2>1, SameShown
<1> QED
  BY <1>1, <1>2, <1>3, <1>4, <1>5, <1>6, <1>7, <1>8, <1>9, <1>10, <1>11, <1>12, <1>13, <1>14, <1>15, <1>16
     DEF Next, OtherStep

\* A tab on an open socket has every message that reached its customer and every
\* message of its customers, whichever of snapshot, flush, push and echo brings it,
\* but for those that its snapshot left out for enough others that are no older.
THEOREM TabCompleteHolds == Spec => []TabComplete
<1>1. Init => Shown
  BY DEF Init, Shown
<1>2. Shown => TabComplete
  BY DEF Shown, TabComplete
<1> QED
  BY <1>1, <1>2, ShapeHolds, StepKeepsShown, PTL DEF Spec

-----------------------------------------------------------------------------
(* Who is reached: NobodyStranded, with the tiles that a claim has still to  *)
(* come to and the message of a send whose answer is not under way yet.     *)

Sending == IF call.by = "send" THEN call.batch ELSE {}

Covered ==
    /\ \A t \in Tiles : Reachable(t) /\ t \notin ToSet(call.tiles)
                            => QueuedFor(t) \subseteq awaiting \cup Sending \cup missed
    /\ call.by = "send" => \A m \in Todo : bizOf[m] \in registered

\* Nobody more is reachable and nothing more is queued.
LEMMA SameCovered ==
    ASSUME Covered, UNCHANGED <<messages, delivered>>,
           call'.tiles = call.tiles,
           awaiting \cup Sending \cup missed \subseteq awaiting' \cup Sending' \cup missed',
           \A t \in Tiles : Reachable(t)' => Reachable(t),
           call'.by = "send" => \A m \in Todo' : bizOf'[m] \in registered'
    PROVE  Covered'
<1>1. \A t : QueuedFor(t)' = QueuedFor(t)
  BY DEF QueuedFor, messages
<1> QED
  BY <1>1 DEF Covered

\* Without a session nobody is reachable.
LEMMA ClosedCovered ==
    ASSUME session' = "none", call'.by # "send"
    PROVE  Covered'
BY DEF Covered, Reachable

\* A message comes in from a customer: nothing more is queued.
LEMMA InboundCovered ==
    ASSUME TypeFacts, Shape, Covered, NEW by \in {"frame", "timer"}, NEW b \in Businesses, NEW t \in Tiles,
           TakeInbound(by, b, t), call = NoCall,
           UNCHANGED <<delivered, session, known, online, awaiting, missed>>
    PROVE  Covered'
<1>1. Store("in", b, t) /\ call'.tiles = <<>> /\ call'.by # "send"
  BY DEF TakeInbound
<1>2. /\ live' = live \cup {next} /\ dir'[next] = "in"
      /\ \A m \in Ids \ {next} : dir'[m] = dir[m] /\ tileOf'[m] = tileOf[m]
  BY <1>1, NewId
<1>3. \A x \in Tiles : QueuedFor(x)' \subseteq QueuedFor(x)
  BY <1>2 DEF QueuedFor, TypeFacts
<1>4. \A x \in Tiles : Reachable(x)' = Reachable(x)
  BY DEF Reachable
<1>5. Sending = {} /\ call.tiles = <<>> /\ ToSet(<<>>) = {}
  BY NothingToDo DEF Sending, NoCall
<1> QED
  BY <1>1, <1>3, <1>4, <1>5 DEF Covered

LEMMA StepKeepsCovered == TypeOK /\ Shape /\ Covered /\ [Next]_vars => Covered'
<1> SUFFICES ASSUME TypeOK, Shape, Covered, [Next]_vars PROVE Covered'
  OBVIOUS
<1>0. TypeFacts /\ MsgShape /\ CallShape /\ ToSet(<<>>) = {} /\ live \in SUBSET Ids
  BY TypeGives, NothingToDo DEF Shape, TypeFacts
<1>a. "send" \in Callers /\ "finish" \in Callers /\ "claim" \in Callers /\ "flush" \in Callers
  BY DEF Callers
<1>b. Quiet => call = NoCall /\ Sending = {} /\ call.tiles = <<>> /\ call.by # "send"
  BY <1>0 DEF Quiet, CallShape, NoCall, Sending
<1>c. ASSUME NEW by \in Callers, NEW S \in SUBSET Ids, NEW tiles \in Seq(Tiles), Deliver(by, S, tiles)
      PROVE  call'.by = by /\ call'.tiles = tiles /\ delivered' = delivered \cup (S \cap live)
  <2>1. Fresh(S) \in SUBSET Ids /\ "delivered" \in Kinds
    BY <1>0 DEF TypeFacts, Fresh, Kinds
  <2> QED
    BY <1>0, <1>c, <2>1, StartFacts DEF Deliver, Fresh
<1>1. ASSUME NEW b \in Businesses, NEW t \in Tiles, Accept(b, t) PROVE Covered'
  <2>1. /\ Store("out", b, t) /\ Quiet /\ b \in registered
        /\ call'.by = "send" /\ call'.batch = {next} /\ call'.tiles = <<>> /\ call'.todo = <<next>>
        /\ UNCHANGED <<delivered, session, known, online, awaiting, missed, registered>>
    BY <1>1 DEF Accept, statuses, tab, customers, pending, history
  <2>2. /\ live' = live \cup {next}
        /\ \A m \in Ids \ {next} : dir'[m] = dir[m] /\ tileOf'[m] = tileOf[m]
        /\ next \in Ids /\ bizOf'[next] = b
    BY <1>0, <2>1, NewId
  <2>5. \A m \in Todo' : bizOf'[m] \in registered'
    BY <2>1, <2>2, OneMessage DEF Todo
  <2>3. \A x \in Tiles : QueuedFor(x)' \subseteq QueuedFor(x) \cup {next}
    BY <1>0, <2>1, <2>2 DEF QueuedFor, TypeFacts
  <2>4. (\A x \in Tiles : Reachable(x)' = Reachable(x)) /\ Sending' = {next}
    BY <2>1 DEF Reachable, Sending
  <2> QED
    BY <1>0, <1>b, <2>1, <2>3, <2>4, <2>5 DEF Covered
<1>2. ASSUME NEW m \in Ids, Finish(m) PROVE Covered'
  <2>1. /\ UNCHANGED <<dir, tileOf, live, session, known, online, missed>> /\ Quiet
        /\ awaiting' = awaiting \ {m}
    BY <1>2 DEF Finish, messages, customers, history
  <2>2. \A x \in Tiles : Reachable(x)' = Reachable(x)
    BY <2>1 DEF Reachable
  <2>3. CASE Deliver("finish", {m}, <<>>)
    <3>1. call'.by = "finish" /\ call'.tiles = <<>> /\ delivered' = delivered \cup ({m} \cap live)
      BY <1>a, <1>c, <2>3, NothingToDo
    <3>2. \A x \in Tiles : QueuedFor(x)' \subseteq QueuedFor(x) \ {m}
      BY <2>1, <3>1 DEF QueuedFor
    <3> QED
      BY <1>0, <1>b, <2>1, <2>2, <3>1, <3>2 DEF Covered
  <2>4. CASE ~Reachable(tileOf[m]) /\ UNCHANGED <<delivered, call>>
    <3>1. \A x \in Tiles : QueuedFor(x)' = QueuedFor(x)
      BY <2>1, <2>4 DEF QueuedFor
    <3>2. \A x \in Tiles : Reachable(x) => m \notin QueuedFor(x)
      BY <2>4 DEF QueuedFor
    <3>3. Sending' = Sending
      BY <2>4 DEF Sending
    <3> QED
      BY <1>b, <2>1, <2>2, <2>4, <3>1, <3>2, <3>3 DEF Covered
  <2> QED
    BY <1>2, <2>3, <2>4 DEF Finish
<1>3. ASSUME NEW b \in Businesses, NEW t \in Tiles, Inbound(b, t) PROVE Covered'
  <2>1. Quiet /\ UNCHANGED <<delivered, session, known, online, awaiting, missed>>
    BY <1>3 DEF Inbound, statuses, pending, customers, history
  <2> QED
    BY <1>0, <1>3, <1>b, <2>1, InboundCovered DEF Inbound
<1>4. ASSUME NEW m \in Ids, TimerFires(m) PROVE Covered'
  <2>1. Quiet /\ UNCHANGED <<delivered, session, known, online, awaiting, missed>>
    BY <1>4 DEF TimerFires, statuses, customers, history
  <2>2. CASE TakeInbound("timer", bizOf[m], tileOf[m]) /\ bizOf[m] \in registered /\ Reachable(tileOf[m])
    <3>1. bizOf[m] \in Businesses /\ tileOf[m] \in Tiles
      BY <2>2 DEF TypeOK, Reachable
    <3> QED
      BY <1>0, <1>b, <2>1, <2>2, <3>1, InboundCovered
  <2>3. CASE UNCHANGED <<messages, pushes, call>>
    BY <1>b, <2>1, <2>3, SameCovered DEF Sending, Reachable
  <2> QED
    BY <1>4, <2>2, <2>3 DEF TimerFires
<1>5. ASSUME NEW t \in Tiles, NEW b \in Businesses, ChatRead(t, b) PROVE Covered'
  <2>1. /\ UNCHANGED <<messages, delivered, session, known, online, awaiting, missed>>
        /\ Quiet /\ call'.by = "frame" /\ call'.tiles = <<>>
    BY <1>5 DEF ChatRead, tab, Start, pending, customers, history
  <2> QED
    BY <1>b, <2>1, SameCovered DEF Sending, Reachable
<1>6. ASSUME NEW t \in Tiles, NEW on \in BOOLEAN, Presence(t, on) PROVE Covered'
  <2>1. /\ UNCHANGED <<dir, tileOf, live, session, known, awaiting>> /\ Quiet
        /\ missed' = IF on THEN missed \ QueuedFor(t) ELSE missed
        /\ online' = IF on THEN online \cup {t} ELSE online \ {t}
    BY <1>6 DEF Presence, messages, pending, history
  <2>2. \A x \in Tiles : Reachable(x)' => Reachable(x) \/ (x = t /\ on /\ session # "none")
    BY <2>1 DEF Reachable
  <2>5. \A x \in Tiles : x # t => QueuedFor(x) \cap missed \subseteq missed'
    BY <2>1 DEF QueuedFor
  <2>6. ~on => missed' = missed
    BY <2>1
  <2>7. Sending = {} /\ ToSet(call.tiles) = {} /\ call.by # "send"
    BY <1>0, <1>b, <2>1
  <2>3. CASE on /\ Deliver("flush", QueuedFor(t), <<>>)
    <3>1. QueuedFor(t) \in SUBSET Ids
      BY <1>0 DEF QueuedFor, TypeFacts
    <3>2. call'.by = "flush" /\ call'.tiles = <<>> /\ delivered' = delivered \cup (QueuedFor(t) \cap live)
      BY <1>a, <1>c, <2>3, <3>1, NothingToDo
    <3>3. (\A x \in Tiles : QueuedFor(x)' \subseteq QueuedFor(x)) /\ QueuedFor(t)' = {}
      BY <2>1, <3>2 DEF QueuedFor
    <3>4. ASSUME NEW x \in Tiles, Reachable(x)' PROVE QueuedFor(x)' \subseteq awaiting' \cup missed'
      <4>1. CASE x = t
        BY <3>3, <4>1
      <4>2. CASE x # t
        <5>1. QueuedFor(x) \subseteq awaiting \cup missed
          BY <2>2, <2>7, <3>4, <4>2 DEF Covered
        <5> QED
          BY <2>1, <2>5, <3>3, <4>2, <5>1
      <4> QED
        BY <4>1, <4>2
    <3> QED
      BY <3>2, <3>4 DEF Covered
  <2>4. CASE ~(on /\ Flushes(t)) /\ UNCHANGED <<delivered, call>>
    <3>1. \A x \in Tiles : QueuedFor(x)' = QueuedFor(x)
      BY <2>1, <2>4 DEF QueuedFor
    <3>2. on /\ session # "none" => QueuedFor(t) = {}
      BY <2>4 DEF Flushes
    <3>3. ASSUME NEW x \in Tiles, Reachable(x)' PROVE QueuedFor(x)' \subseteq awaiting' \cup missed'
      <4>0. session # "none"
        BY <2>1, <3>3 DEF Reachable
      <4>1. CASE x = t /\ on
        BY <3>1, <3>2, <4>0, <4>1
      <4>2. CASE ~(x = t /\ on)
        <5>1. QueuedFor(x) \subseteq awaiting \cup missed
          BY <2>2, <2>7, <3>3, <4>2 DEF Covered
        <5> QED
          BY <2>1, <2>5, <2>6, <3>1, <4>2, <5>1
      <4> QED
        BY <4>1, <4>2
    <3>4. call'.by # "send" /\ ToSet(call'.tiles) = {}
      BY <2>4, <2>7
    <3> QED
      BY <3>3, <3>4 DEF Covered
  <2> QED
    BY <1>6, <2>3, <2>4 DEF Presence
<1>7. ASSUME Claim PROVE Covered'
  <2>1. call'.tiles = TileOrder /\ call'.by = "claim"
    BY <1>7 DEF Claim
  <2> QED
    BY <2>1 DEF Covered, Tiles
<1>8. ASSUME SocketEnds PROVE Covered'
  <2>1. /\ session # "none" /\ Quiet
        /\ UNCHANGED <<messages, delivered, known, online, awaiting, missed, call>>
    BY <1>8 DEF SocketEnds, statuses, pending, customers, history
  <2> QED
    BY <1>b, <2>1, SameCovered DEF Sending, Reachable
<1>9. ASSUME QueueWebhook PROVE Covered'
  <2>1. /\ UNCHANGED <<messages, delivered, session, known, online, awaiting, missed>>
        /\ call'.by = call.by /\ call'.tiles = call.tiles /\ call'.batch = call.batch
        /\ call'.todo = Tail(call.todo) /\ call.todo # <<>> /\ call.todo \in Seq(Ids)
        /\ UNCHANGED <<bizOf, registered>>
    BY <1>0, <1>9 DEF QueueWebhook, messages, statuses, tab, customers, pending, history, TypeFacts, CallType
  <2>2. Todo' \subseteq Todo
    BY <2>1, NextOf DEF Todo
  <2>3. call'.by = "send" => \A m \in Todo' : bizOf'[m] \in registered'
    BY <2>1, <2>2 DEF Covered
  <2> QED
    BY <2>1, <2>3, SameCovered DEF Sending, Reachable
<1>10. ASSUME QueueThrows PROVE Covered'
  <2>1. /\ UNCHANGED <<dir, tileOf, live, delivered, known, online>>
        /\ call.todo # <<>> /\ bizOf[Head(call.todo)] \notin registered
        /\ missed' = missed \cup UNION {QueuedFor(t) : t \in ToSet(call.tiles)}
    BY <1>10 DEF QueueThrows, messages, statuses, customers
  <2>2. CASE Restart
    BY <2>2, ClosedCovered DEF Restart, NoCall
  <2>3. CASE call' = NoCall /\ UNCHANGED <<pending, tab>>
    <3>1. Head(call.todo) \in Todo
      BY <1>0, <2>1, NextOf DEF Todo, TypeFacts, CallType
    <3>2. Sending = {}
      BY <2>1, <3>1 DEF Sending, Covered
    <3>3. ASSUME NEW x \in Tiles, Reachable(x)' PROVE QueuedFor(x)' \subseteq awaiting' \cup missed'
      <4>1. Reachable(x) /\ QueuedFor(x)' = QueuedFor(x) /\ awaiting' = awaiting
        BY <2>1, <2>3, <3>3 DEF Reachable, QueuedFor, pending, tab
      <4>2. CASE x \in ToSet(call.tiles)
        BY <2>1, <4>1, <4>2
      <4>3. CASE x \notin ToSet(call.tiles)
        BY <2>1, <3>2, <4>1, <4>3 DEF Covered
      <4> QED
        BY <4>2, <4>3
    <3> QED
      BY <2>3, <3>3 DEF Covered, NoCall
  <2> QED
    BY <1>10, <2>2, <2>3 DEF QueueThrows
<1>11. ASSUME BatchEnds PROVE Covered'
  <2>1. /\ UNCHANGED <<messages, delivered, session, known, online, missed>>
        /\ awaiting' = IF call.by = "send" THEN awaiting \cup call.batch ELSE awaiting
        /\ call' = IF call.tiles = <<>> THEN NoCall ELSE [call EXCEPT !.batch = {}]
    BY <1>11 DEF BatchEnds, statuses, tab, customers, history
  <2>2. call'.tiles = call.tiles
    BY <1>0, <2>1 DEF TypeFacts, CallType, NoCall
  <2>3. awaiting \cup Sending \subseteq awaiting'
    BY <2>1 DEF Sending
  <2>4. ToSet(call'.todo) = {}
    BY <1>0, <1>11, <2>1 DEF BatchEnds, TypeFacts, CallType, NoCall
  <2> QED
    BY <2>1, <2>2, <2>3, <2>4, SameCovered DEF Reachable, Todo
<1>12. ASSUME NextTile PROVE Covered'
  <2> DEFINE h == Head(call.tiles)
             S == Deliverable(h)
  <2>1. /\ h \in Tiles /\ Tail(call.tiles) \in Seq(Tiles) /\ S \in SUBSET Ids
        /\ ToSet(call.tiles) = {h} \cup ToSet(Tail(call.tiles))
    BY <1>0, <1>12, NextOf DEF NextTile, TypeFacts, CallType, Deliverable, QueuedFor
  <2>2. /\ Deliver("claim", S, Tail(call.tiles))
        /\ UNCHANGED <<dir, tileOf, live, session, known, online, awaiting, missed>>
    BY <1>12 DEF NextTile, messages, pending, tab, customers, history
  <2>3. Reachable(h) => S = QueuedFor(h)
    BY DEF Deliverable
  <2>4. call.by = "claim"
    BY <1>0, <1>12 DEF NextTile, CallShape
  <2> HIDE DEF h, S
  <2>5. call'.by = "claim" /\ call'.tiles = Tail(call.tiles) /\ delivered' = delivered \cup (S \cap live)
    BY <1>a, <1>c, <2>1, <2>2
  <2>6. \A x \in Tiles : QueuedFor(x)' \subseteq QueuedFor(x) \ S
    BY <2>2, <2>5 DEF QueuedFor
  <2>7. (\A x \in Tiles : Reachable(x)' = Reachable(x)) /\ Sending = {} /\ Sending' = {}
    BY <2>2, <2>4, <2>5 DEF Reachable, Sending
  <2>8. ASSUME NEW x \in Tiles, Reachable(x), x \notin ToSet(Tail(call.tiles))
        PROVE  QueuedFor(x)' \subseteq awaiting \cup missed
    <3>1. CASE x = h
      BY <2>3, <2>6, <2>8, <3>1
    <3>2. CASE x # h
      BY <2>1, <2>6, <2>7, <2>8, <3>2 DEF Covered
    <3> QED
      BY <3>1, <3>2
  <2> QED
    BY <2>2, <2>5, <2>7, <2>8 DEF Covered
<1>13. ASSUME SessionEnds \/ Crash PROVE Covered'
  BY <1>13, <1>b, ClosedCovered DEF SessionEnds, Crash, Restart, NoCall
<1>14. ASSUME NEW keep \in BOOLEAN, Reset(keep) PROVE Covered'
  <2>1. live' = {} /\ call' = call /\ Quiet
    BY <1>14 DEF Reset
  <2> QED
    BY <1>b, <2>1 DEF Covered, QueuedFor
<1>15. ASSUME NEW m \in Ids, AnswerAborted(m) PROVE Covered'
  <2>1. /\ UNCHANGED <<messages, delivered, session, known, online, call>> /\ Quiet
        /\ awaiting' = awaiting \ {m} /\ missed' = missed \cup {m}
    BY <1>15 DEF AnswerAborted, statuses, tab, customers
  <2>2. awaiting \cup Sending \cup missed \subseteq awaiting' \cup Sending' \cup missed'
    BY <2>1 DEF Sending
  <2> QED
    BY <1>b, <2>1, <2>2, SameCovered DEF Reachable
<1>16. ASSUME \/ \E m \in Ids : MarkInboundRead(m)
              \/ \E t \in Tiles, on \in BOOLEAN : SetAutoReply(t, on)
              \/ \E b \in Businesses : RegisterBusiness(b) \/ DeleteBusiness(b)
       PROVE  Covered'
  <2>1. Quiet /\ UNCHANGED <<messages, delivered, session, known, online, call, awaiting, missed>>
    BY <1>16 DEF MarkInboundRead, SetAutoReply, RegisterBusiness, DeleteBusiness,
                 statuses, tab, pending, customers, history
  <2> QED
    BY <1>b, <2>1, SameCovered DEF Sending, Reachable
<1>17. ASSUME CreateGroup \/ DeleteGroup PROVE Covered'
  <2>1. session' = "none" /\ call' = call /\ Quiet
    BY <1>0, <1>17 DEF CreateGroup, DeleteGroup, tab, MsgShape, TypeFacts
  <2> QED
    BY <1>b, <2>1, ClosedCovered
<1>18. CASE UNCHANGED vars
  <2>1. UNCHANGED <<messages, bizOf, delivered, session, known, online, call, awaiting, missed, registered>>
    BY <1>18 DEF vars, messages, statuses, tab, pending, customers, history
  <2>2. call'.by = "send" => \A m \in Todo' : bizOf'[m] \in registered'
    BY <2>1 DEF Covered, Todo
  <2> QED
    BY <2>1, <2>2, SameCovered DEF Sending, Reachable
<1> QED
  BY <1>1, <1>2, <1>3, <1>4, <1>5, <1>6, <1>7, <1>8, <1>9, <1>10, <1>11, <1>12, <1>13, <1>14, <1>15,
     <1>16, <1>17, <1>18 DEF Next, OtherStep

\* Claim, flush and finish leave no gap between them: a message to a customer who
\* can be reached is delivered, or its answer is under way, or was aborted, or the
\* claim threw before it.
THEOREM NobodyStrandedHolds == Spec => []NobodyStranded
<1>1. Init => Covered
  BY DEF Init, Covered, Reachable, NoCall
<1>2. Shape /\ Covered => NobodyStranded
  <2> SUFFICES ASSUME Shape, Covered PROVE NobodyStranded
    OBVIOUS
  <2>1. Quiet => call.by = "none" /\ ToSet(call.tiles) = {}
    BY NothingToDo DEF Shape, CallShape, Quiet, NoCall
  <2> QED
    BY <2>1 DEF Covered, NobodyStranded, Sending
<1> QED
  BY <1>1, <1>2, ShapeHolds, StepKeepsCovered, PTL DEF Spec

-----------------------------------------------------------------------------
(* The webhooks: WebhooksMatchTransitions and OutboxInOrder.                *)

LEMMA BeingQueuedIs == BeingQueued = {Job(m, call.kind) : m \in Todo}
BY DEF BeingQueued, Todo, ToSet

LEMMA SameJob ==
    ASSUME NEW m, NEW n, NEW j, NEW k, Job(m, j) = Job(n, k)
    PROVE  m = n /\ j = k
<1>1. Job(m, j).msg = m /\ Job(n, k).msg = n /\ Job(m, j).kind = j /\ Job(n, k).kind = k
  BY DEF Job
<1> QED
  BY <1>1

\* What is owed, by message and kind.
LEMMA OwedIs ==
    ASSUME NEW m, NEW kind
    PROVE  Job(m, kind) \in Owed <=>
             \/ kind = "sent" /\ m \in live /\ dir[m] = "out"
             \/ kind = "delivered" /\ m \in delivered
             \/ kind = "read" /\ m \in read /\ dir[m] = "out"
             \/ kind = "inbound" /\ m \in live /\ dir[m] = "in"
BY SameJob DEF Owed

LEMMA OwedIsJobs == \A j \in Owed : \E m, kind : j = Job(m, kind)
BY DEF Owed

\* A transition happens, with one webhook for each message it is about.
LEMMA MoreOwed ==
    ASSUME WebhooksMatchTransitions, UNCHANGED <<outbox, lost>>, BeingQueued = {},
           Owed' = Owed \cup BeingQueued', Owed \cap BeingQueued' = {}
    PROVE  WebhooksMatchTransitions'
BY DEF WebhooksMatchTransitions

\* No transition happens.
LEMMA SameOwed ==
    ASSUME WebhooksMatchTransitions, UNCHANGED <<outbox, lost, call>>, Owed' = Owed
    PROVE  WebhooksMatchTransitions'
<1>1. BeingQueued' = BeingQueued
  BY DEF BeingQueued
<1> QED
  BY <1>1 DEF WebhooksMatchTransitions

LEMMA SameMessagesOwed ==
    ASSUME UNCHANGED <<messages, delivered, read>>
    PROVE  Owed' = Owed
BY DEF Owed, messages

LEMMA NoneBeingQueued ==
    ASSUME call.todo = <<>>
    PROVE  BeingQueued = {}
BY NothingToDo DEF BeingQueued

\* What is left to queue goes down with the call.
LEMMA LostOwed ==
    ASSUME WebhooksMatchTransitions, UNCHANGED <<messages, delivered, read, outbox>>, Lose,
           call' = NoCall
    PROVE  WebhooksMatchTransitions'
<1>1. lost' = lost \cup BeingQueued
  BY DEF Lose, BeingQueued
<1>2. BeingQueued' = {}
  BY NothingToDo DEF BeingQueued, NoCall
<1>3. Owed' = Owed
  BY SameMessagesOwed
<1> QED
  BY <1>1, <1>2, <1>3 DEF WebhooksMatchTransitions

LEMMA StoreOwed ==
    ASSUME TypeFacts, Shape, WebhooksMatchTransitions, NEW d \in {"in", "out"},
           NEW b \in Businesses, NEW t \in Tiles, Store(d, b, t),
           UNCHANGED <<delivered, read, outbox, lost>>, call = NoCall,
           call'.todo = <<next>>, call'.kind = IF d = "out" THEN "sent" ELSE "inbound"
    PROVE  WebhooksMatchTransitions'
<1>1. /\ next \in Ids /\ live' = live \cup {next} /\ live \in SUBSET Ids
      /\ next \notin live /\ next \notin delivered /\ next \notin read
      /\ dir'[next] = d
      /\ \A m \in Ids \ {next} : dir'[m] = dir[m]
      /\ read \in SUBSET Ids
  BY NewId DEF TypeFacts
<1>2. BeingQueued = {} /\ call.todo = <<>>
  BY NoneBeingQueued DEF NoCall
<1>3. BeingQueued' = {Job(next, call'.kind)}
  <2>1. DOMAIN call'.todo = {1} /\ call'.todo[1] = next
    OBVIOUS
  <2> QED
    BY <2>1 DEF BeingQueued
<1>4. \A m, kind : Job(m, kind) \in Owed' <=> Job(m, kind) \in Owed \/ Job(m, kind) = Job(next, call'.kind)
  <2> SUFFICES ASSUME NEW m, NEW kind
               PROVE  Job(m, kind) \in Owed' <=> Job(m, kind) \in Owed \/ Job(m, kind) = Job(next, call'.kind)
    OBVIOUS
  <2>1. /\ Job(m, kind) = Job(next, call'.kind) <=> m = next /\ kind = call'.kind
    BY SameJob
  <2>2. Job(m, kind) \in Owed' <=>
             \/ kind = "sent" /\ m \in live' /\ dir'[m] = "out"
             \/ kind = "delivered" /\ m \in delivered'
             \/ kind = "read" /\ m \in read' /\ dir'[m] = "out"
             \/ kind = "inbound" /\ m \in live' /\ dir'[m] = "in"
    BY SameJob DEF Owed
  <2> QED
    BY <1>1, <2>1, <2>2, OwedIs
<1>5. Owed' = Owed \cup {Job(next, call'.kind)}
  <2>1. \A j \in Owed' : \E m, kind : j = Job(m, kind)
    BY DEF Owed
  <2> QED
    BY <1>4, <2>1, OwedIsJobs
<1>6. Job(next, call'.kind) \notin Owed
  BY <1>1, OwedIs
<1> QED
  BY <1>2, <1>3, <1>5, <1>6, MoreOwed

LEMMA DeliverOwed ==
    ASSUME TypeFacts, Shape, WebhooksMatchTransitions, NEW by \in Callers, NEW S \in SUBSET Ids,
           NEW tiles \in Seq(Tiles), Deliver(by, S, tiles), call.todo = <<>>,
           UNCHANGED <<messages, read, outbox, lost>>
    PROVE  WebhooksMatchTransitions'
<1>1. /\ Fresh(S) \in SUBSET Ids /\ live \in SUBSET Ids /\ "delivered" \in Kinds
      /\ UNCHANGED <<dir, live>>
  BY DEF TypeFacts, Fresh, Kinds, messages
<1>2. /\ call'.kind = "delivered" /\ ToSet(call'.todo) = Fresh(S)
      /\ delivered' = delivered \cup Fresh(S)
  BY <1>1, StartFacts DEF Deliver
<1>3. BeingQueued' = {Job(m, "delivered") : m \in Fresh(S)}
  BY <1>2 DEF BeingQueued, ToSet
<1>4. Owed' = Owed \cup {Job(m, "delivered") : m \in Fresh(S)}
  BY <1>1, <1>2 DEF Owed
<1>5. \A m \in Fresh(S) : Job(m, "delivered") \notin Owed
  BY OwedIs DEF Fresh
<1> QED
  BY <1>3, <1>4, <1>5, NoneBeingQueued, MoreOwed

LEMMA StepKeepsOwed ==
    TypeOK /\ Shape /\ WebhooksMatchTransitions /\ [Next]_vars => WebhooksMatchTransitions'
<1> SUFFICES ASSUME TypeOK, Shape, WebhooksMatchTransitions, [Next]_vars PROVE WebhooksMatchTransitions'
  OBVIOUS
<1>0. TypeFacts /\ MsgShape /\ CallShape /\ TodoShape
  BY TypeGives DEF Shape
<1>a. "finish" \in Callers /\ "claim" \in Callers /\ "flush" \in Callers
  BY DEF Callers
<1>b. Quiet => call = NoCall /\ call.todo = <<>>
  BY <1>0 DEF Quiet, CallShape, NoCall
<1>1. ASSUME NEW b \in Businesses, NEW t \in Tiles, Accept(b, t) PROVE WebhooksMatchTransitions'
  <2>1. /\ Store("out", b, t) /\ Quiet /\ call'.todo = <<next>> /\ call'.kind = "sent"
        /\ UNCHANGED <<delivered, read, outbox, lost>>
    BY <1>1 DEF Accept, statuses, webhooks
  <2> QED
    BY <1>0, <1>b, <2>1, StoreOwed
<1>2. ASSUME NEW by, NEW b \in Businesses, NEW t \in Tiles, TakeInbound(by, b, t), Quiet,
             UNCHANGED <<delivered, read, outbox, lost>>
      PROVE  WebhooksMatchTransitions'
  <2>1. Store("in", b, t) /\ call'.todo = <<next>> /\ call'.kind = "inbound"
    BY <1>2 DEF TakeInbound
  <2> QED
    BY <1>0, <1>2, <1>b, <2>1, StoreOwed
<1>3. ASSUME NEW b \in Businesses, NEW t \in Tiles, Inbound(b, t) PROVE WebhooksMatchTransitions'
  BY <1>2, <1>3 DEF Inbound, statuses, webhooks
<1>4. ASSUME NEW m \in Ids, TimerFires(m) PROVE WebhooksMatchTransitions'
  <2>1. Quiet /\ UNCHANGED <<delivered, read, outbox, lost>>
    BY <1>4 DEF TimerFires, statuses, webhooks
  <2>2. CASE TakeInbound("timer", bizOf[m], tileOf[m]) /\ bizOf[m] \in registered /\ Reachable(tileOf[m])
    <3>1. bizOf[m] \in Businesses /\ tileOf[m] \in Tiles
      BY <2>2 DEF TypeOK, Reachable
    <3> QED
      BY <1>2, <2>1, <2>2, <3>1
  <2>3. CASE UNCHANGED <<messages, pushes, call>>
    BY <2>1, <2>3, SameOwed, SameMessagesOwed
  <2> QED
    BY <1>4, <2>2, <2>3 DEF TimerFires
<1>5. ASSUME NEW m \in Ids, Finish(m) PROVE WebhooksMatchTransitions'
  <2>1. Quiet /\ UNCHANGED <<messages, read, outbox, lost>>
    BY <1>5 DEF Finish, webhooks
  <2>2. CASE Deliver("finish", {m}, <<>>)
    BY <1>0, <1>a, <1>b, <2>1, <2>2, NothingToDo, DeliverOwed
  <2>3. CASE UNCHANGED <<delivered, call>>
    BY <2>1, <2>3, SameOwed, SameMessagesOwed
  <2> QED
    BY <1>5, <2>2, <2>3 DEF Finish
<1>6. ASSUME NEW t \in Tiles, NEW on \in BOOLEAN, Presence(t, on) PROVE WebhooksMatchTransitions'
  <2>1. Quiet /\ UNCHANGED <<messages, read, outbox, lost>>
    BY <1>6 DEF Presence, webhooks
  <2>2. CASE Deliver("flush", QueuedFor(t), <<>>)
    <3>1. QueuedFor(t) \in SUBSET Ids
      BY <1>0 DEF QueuedFor, TypeFacts
    <3> QED
      BY <1>0, <1>a, <1>b, <2>1, <2>2, <3>1, NothingToDo, DeliverOwed
  <2>3. CASE UNCHANGED <<delivered, call>>
    BY <2>1, <2>3, SameOwed, SameMessagesOwed
  <2> QED
    BY <1>6, <2>2, <2>3 DEF Presence
<1>7. ASSUME NEW t \in Tiles, NEW b \in Businesses, ChatRead(t, b) PROVE WebhooksMatchTransitions'
  <2> DEFINE S == UnreadDelivered(t, b)
  <2>1. S \in SUBSET Ids /\ {} \in SUBSET Ids /\ <<>> \in Seq(Tiles) /\ live \in SUBSET Ids
        /\ "frame" \in Callers /\ "read" \in Kinds
    BY <1>0, NothingToDo DEF UnreadDelivered, TypeFacts, Callers, Kinds
  <2>2. \A m \in S : m \notin read /\ dir[m] = "out"
    BY DEF UnreadDelivered
  <2>3. /\ Start("frame", "read", S, {}, <<>>) /\ read' = read \cup S /\ Quiet
        /\ UNCHANGED <<dir, live, delivered, outbox, lost>>
    BY <1>7 DEF ChatRead, messages, webhooks
  <2> HIDE DEF S
  <2>4. call'.kind = "read" /\ ToSet(call'.todo) = S
    BY <2>1, <2>3, StartFacts
  <2>5. BeingQueued' = {Job(m, "read") : m \in S}
    BY <2>4 DEF BeingQueued, ToSet
  <2>6. Owed' = Owed \cup {Job(m, "read") : m \in S}
    BY <2>2, <2>3 DEF Owed
  <2>7. \A m \in S : Job(m, "read") \notin Owed
    BY <2>2, OwedIs
  <2> QED
    BY <1>b, <2>3, <2>5, <2>6, <2>7, NoneBeingQueued, MoreOwed
<1>8. ASSUME NEW m \in Ids, MarkInboundRead(m) PROVE WebhooksMatchTransitions'
  <2>1. /\ dir[m] = "in" /\ read' = read \cup {m}
        /\ UNCHANGED <<dir, live, delivered, outbox, lost, call>>
    BY <1>8 DEF MarkInboundRead, messages, webhooks
  <2>2. Owed' = Owed
    BY <2>1 DEF Owed
  <2> QED
    BY <2>1, <2>2, SameOwed
<1>9. ASSUME QueueWebhook PROVE WebhooksMatchTransitions'
  <2> DEFINE h == Head(call.todo)
             J == Job(h, call.kind)
  <2>1. /\ call.todo # <<>> /\ outbox' = Append(outbox, J)
        /\ call'.todo = Tail(call.todo) /\ call'.kind = call.kind
        /\ UNCHANGED <<messages, delivered, read, lost>>
    BY <1>0, <1>9 DEF QueueWebhook, statuses, TypeFacts, CallType
  <2>2. call.todo \in Seq(Ids) /\ IsInjective(call.todo) /\ call.kind \in Kinds /\ outbox \in Seq(Jobs)
    BY <1>0 DEF TodoShape, TypeFacts, CallType
  <2>3. /\ h \in Ids
        /\ Todo = {h} \cup ToSet(call'.todo) /\ h \notin ToSet(call'.todo)
    BY <2>1, <2>2, NextOf DEF Todo
  <2>4. /\ BeingQueued = {Job(m, call.kind) : m \in Todo}
        /\ BeingQueued' = {Job(m, call.kind) : m \in ToSet(call'.todo)}
    BY <2>1, BeingQueuedIs DEF BeingQueued, ToSet
  <2>5. J \in Jobs
    BY <2>2, <2>3 DEF Job, Jobs
  <2> HIDE DEF h, J
  <2>6. BeingQueued = {J} \cup BeingQueued' /\ J \notin BeingQueued'
    BY <2>3, <2>4, SameJob DEF J
  <2>7. J \notin ToSet(outbox)
    BY <2>6 DEF WebhooksMatchTransitions
  <2>8. ToSet(outbox') = ToSet(outbox) \cup {J} /\ IsInjective(outbox')
    BY <2>1, <2>2, <2>5, <2>7, OneMore DEF WebhooksMatchTransitions
  <2>9. Owed' = Owed
    BY <2>1, SameMessagesOwed
  <2> QED
    BY <2>1, <2>6, <2>8, <2>9 DEF WebhooksMatchTransitions
<1>10. ASSUME QueueThrows PROVE WebhooksMatchTransitions'
  <2>1. Lose /\ call' = NoCall /\ UNCHANGED <<messages, delivered, read, outbox>>
    BY <1>10 DEF QueueThrows, Restart, statuses
  <2> QED
    BY <2>1, LostOwed
<1>11. ASSUME Crash PROVE WebhooksMatchTransitions'
  <2>1. Lose /\ call' = NoCall /\ UNCHANGED <<messages, delivered, read, outbox>>
    BY <1>11 DEF Crash, Restart, statuses
  <2> QED
    BY <2>1, LostOwed
<1>12. ASSUME BatchEnds PROVE WebhooksMatchTransitions'
  <2>1. /\ UNCHANGED <<messages, delivered, read, outbox, lost>>
        /\ call.todo = <<>> /\ call'.todo = <<>>
    BY <1>0, <1>12 DEF BatchEnds, statuses, webhooks, TypeFacts, CallType, NoCall
  <2>2. BeingQueued = {} /\ BeingQueued' = {}
    BY <2>1, NoneBeingQueued, NothingToDo DEF BeingQueued
  <2> QED
    BY <2>1, <2>2, SameMessagesOwed, MoreOwed
<1>13. ASSUME NextTile PROVE WebhooksMatchTransitions'
  <2>1. Tail(call.tiles) \in Seq(Tiles) /\ Deliverable(Head(call.tiles)) \in SUBSET Ids
    BY <1>0, <1>13, NextOf DEF NextTile, TypeFacts, CallType, Deliverable, QueuedFor
  <2> QED
    BY <1>0, <1>13, <1>a, <2>1, DeliverOwed DEF NextTile, webhooks
<1>14. ASSUME NEW keep \in BOOLEAN, Reset(keep) PROVE WebhooksMatchTransitions'
  <2>1. /\ live' = {} /\ delivered' = {} /\ read' = {} /\ outbox' = <<>> /\ lost' = {}
        /\ call'.todo = <<>>
    BY <1>14, <1>b DEF Reset
  <2>2. BeingQueued' = {} /\ Owed' = {}
    BY <2>1, NothingToDo DEF BeingQueued, Owed
  <2>3. ToSet(outbox') = {} /\ IsInjective(outbox')
    BY <2>1, NothingToDo
  <2> QED
    BY <2>1, <2>2, <2>3 DEF WebhooksMatchTransitions
<1>15. ASSUME Claim PROVE WebhooksMatchTransitions'
  <2>1. /\ UNCHANGED <<messages, delivered, read, outbox, lost>>
        /\ call.todo = <<>> /\ call'.todo = <<>>
    BY <1>15, <1>b DEF Claim, statuses, webhooks
  <2>2. BeingQueued = {} /\ BeingQueued' = {}
    BY <2>1, NoneBeingQueued, NothingToDo DEF BeingQueued
  <2> QED
    BY <2>1, <2>2, SameMessagesOwed, MoreOwed
<1>16. ASSUME \/ \E m \in Ids : AnswerAborted(m)
              \/ \E t \in Tiles, on \in BOOLEAN : SetAutoReply(t, on)
              \/ \E b \in Businesses : RegisterBusiness(b) \/ DeleteBusiness(b)
              \/ SocketEnds \/ SessionEnds \/ CreateGroup \/ DeleteGroup
       PROVE  WebhooksMatchTransitions'
  <2>1. UNCHANGED <<messages, delivered, read, outbox, lost, call>>
    BY <1>16 DEF AnswerAborted, SetAutoReply, RegisterBusiness, DeleteBusiness, SocketEnds, SessionEnds,
                 CreateGroup, DeleteGroup, statuses, webhooks
  <2> QED
    BY <2>1, SameOwed, SameMessagesOwed
<1>17. CASE UNCHANGED vars
  <2>1. UNCHANGED <<messages, delivered, read, outbox, lost, call>>
    BY <1>17 DEF vars, statuses, webhooks
  <2> QED
    BY <2>1, SameOwed, SameMessagesOwed
<1> QED
  BY <1>1, <1>3, <1>4, <1>5, <1>6, <1>7, <1>8, <1>9, <1>10, <1>11, <1>12, <1>13, <1>14, <1>15, <1>16, <1>17
     DEF Next, OtherStep

LEMMA OwedHolds == Spec => [](TypeOK /\ Shape /\ WebhooksMatchTransitions)
<1>1. Init => WebhooksMatchTransitions
  <2> SUFFICES ASSUME Init PROVE WebhooksMatchTransitions
    OBVIOUS
  <2>1. live = {} /\ delivered = {} /\ read = {} /\ outbox = <<>> /\ lost = {} /\ call.todo = <<>>
    BY DEF Init, NoCall
  <2>2. BeingQueued = {} /\ Owed = {}
    BY <2>1, NoneBeingQueued DEF Owed
  <2> QED
    BY <2>1, <2>2, NothingToDo DEF WebhooksMatchTransitions
<1> QED
  BY <1>1, ShapeHolds, StepKeepsOwed, PTL DEF Spec

\* Every transition of a message has its webhook once: queued, in the hands of
\* the running call, or lost with a call that threw or a crash.
THEOREM WebhooksMatchTransitionsHolds == Spec => []WebhooksMatchTransitions
BY OwedHolds, PTL

\* What is queued is owed, for a message that is live.
LEMMA QueuedFacts ==
    ASSUME TypeFacts, Shape, WebhooksMatchTransitions, NEW p \in DOMAIN outbox
    PROVE  /\ outbox[p] = Job(outbox[p].msg, outbox[p].kind)
           /\ outbox[p].msg \in Ids /\ outbox[p].kind \in Kinds
           /\ outbox[p] \in Owed /\ outbox[p] \notin BeingQueued
           /\ outbox[p].msg \in live /\ outbox[p].msg < next
<1> DEFINE j == outbox[p]
<1>1. j \in Jobs
  BY DEF TypeFacts
<1>2. j = Job(j.msg, j.kind) /\ j.msg \in Ids /\ j.kind \in Kinds
  BY <1>1 DEF Jobs, Job
<1>3. j \in Owed /\ j \notin BeingQueued
  BY DEF WebhooksMatchTransitions, ToSet
<1> HIDE DEF j
<1>4. j.msg \in live
  BY <1>2, <1>3, OwedIs DEF Shape, MsgShape
<1>5. j.msg < next
  BY <1>4 DEF Shape, MsgShape
<1> QED
  BY <1>2, <1>3, <1>4, <1>5 DEF j

\* The next webhook of a call comes after those of its message and, when it
\* announces the message, after those of every message.
LEMMA NextWebhook ==
    ASSUME TypeFacts, Shape, WebhooksMatchTransitions, call.todo # <<>>,
           NEW p \in DOMAIN outbox
    PROVE  LET i == outbox[p]
               h == Head(call.todo)
           IN  /\ i.msg = h => Rank(i.kind) < Rank(call.kind)
               /\ Rank(call.kind) = 1 => i.msg < h
<1> DEFINE i == outbox[p]
           h == Head(call.todo)
           k == call.kind
<1>1. /\ i = Job(i.msg, i.kind) /\ i.msg \in Ids /\ i.kind \in Kinds
      /\ i \in Owed /\ i \notin BeingQueued /\ i.msg < next
  BY QueuedFacts
<1>2. call.todo \in Seq(Ids) /\ k \in Kinds
  BY DEF TypeFacts, CallType
<1>3. h \in Ids /\ h \in Todo
  BY <1>2, NextOf DEF Todo
<1>4. Job(h, k) \in BeingQueued
  BY <1>3, BeingQueuedIs
<1>5. /\ k = "sent" => dir[h] = "out" /\ h = next - 1 /\ h \notin delivered /\ h \notin read
      /\ k = "inbound" => dir[h] = "in" /\ h = next - 1
      /\ k = "delivered" => h \in delivered /\ h \notin read
      /\ k = "read" => h \in read /\ dir[h] = "out"
      /\ \A m \in delivered : dir[m] = "out"
  BY <1>3 DEF Shape, TodoShape, MsgShape
<1> HIDE DEF i, h
<1>6. i.msg = h => i.kind # k
  BY <1>1, <1>4
<1>7. \/ i.kind = "sent" /\ dir[i.msg] = "out"
      \/ i.kind = "delivered" /\ i.msg \in delivered
      \/ i.kind = "read" /\ i.msg \in read /\ dir[i.msg] = "out"
      \/ i.kind = "inbound" /\ dir[i.msg] = "in"
  BY <1>1, OwedIs
<1>8. k = "sent" \/ k = "delivered" \/ k = "read" \/ k = "inbound"
  BY <1>2 DEF Kinds
<1>9. ASSUME i.msg = h
      PROVE  \/ k = "delivered" /\ (i.kind = "sent" \/ i.kind = "inbound")
             \/ k = "read" /\ (i.kind = "sent" \/ i.kind = "inbound" \/ i.kind = "delivered")
  BY <1>5, <1>6, <1>7, <1>8, <1>9
<1>10. /\ Rank("sent") = 1 /\ Rank("inbound") = 1 /\ Rank("delivered") = 2 /\ Rank("read") = 3
  BY DEF Rank
<1>11. i.msg = h => Rank(i.kind) < Rank(k)
  BY <1>9, <1>10
<1>12. Rank(k) = 1 => h = next - 1 /\ i.msg # h
  BY <1>5, <1>8, <1>9, <1>10
<1>13. next \in Int /\ h \in Int /\ i.msg \in Int
  BY <1>1, <1>3 DEF TypeFacts, Ids
<1>14. Rank(k) = 1 => i.msg < h
  BY <1>1, <1>12, <1>13
<1> QED
  BY <1>11, <1>14 DEF i, h

\* Nothing is queued: the messages of queued webhooks keep their conversations.
LEMMA SameOrder ==
    ASSUME TypeFacts, Shape, WebhooksMatchTransitions, OutboxInOrder, UNCHANGED outbox,
           \A m \in live : bizOf'[m] = bizOf[m] /\ tileOf'[m] = tileOf[m]
    PROVE  OutboxInOrder'
<1>1. \A p, q \in DOMAIN outbox :
        SameConversation(outbox[p].msg, outbox[q].msg)' => SameConversation(outbox[p].msg, outbox[q].msg)
  BY QueuedFacts DEF SameConversation
<1> QED
  BY <1>1 DEF OutboxInOrder

\* storeMessage() and what surrounds it leave the conversations of live messages.
LEMMA ConversationsStay ==
    ASSUME TypeFacts, Shape, [Next]_vars
    PROVE  \A m \in live : bizOf'[m] = bizOf[m] /\ tileOf'[m] = tileOf[m]
<1>0. next \notin live
  <2>1. \A m \in live : m < next
    BY DEF Shape, MsgShape
  <2>2. next \in Int
    BY DEF TypeFacts
  <2> QED
    BY <2>1, <2>2
<1>1. ASSUME NEW d, NEW b, NEW t, Store(d, b, t)
      PROVE  \A m \in live : bizOf'[m] = bizOf[m] /\ tileOf'[m] = tileOf[m]
  BY <1>0, <1>1 DEF Store, TypeFacts
<1>2. ASSUME NEW by, NEW b, NEW t, TakeInbound(by, b, t)
      PROVE  \A m \in live : bizOf'[m] = bizOf[m] /\ tileOf'[m] = tileOf[m]
  BY <1>1, <1>2 DEF TakeInbound
<1>3. CASE UNCHANGED <<bizOf, tileOf>>
  BY <1>3
<1>4. ASSUME NEW b \in Businesses, NEW t \in Tiles, Accept(b, t) \/ Inbound(b, t)
      PROVE  \A m \in live : bizOf'[m] = bizOf[m] /\ tileOf'[m] = tileOf[m]
  BY <1>1, <1>2, <1>4 DEF Accept, Inbound
<1>5. ASSUME NEW x \in Ids, TimerFires(x)
      PROVE  \A m \in live : bizOf'[m] = bizOf[m] /\ tileOf'[m] = tileOf[m]
  BY <1>2, <1>5 DEF TimerFires, messages
<1>6. \/ UNCHANGED <<bizOf, tileOf>>
      \/ \E b \in Businesses, t \in Tiles : Accept(b, t) \/ Inbound(b, t)
      \/ \E x \in Ids : TimerFires(x)
  BY DEF Next, OtherStep, vars, messages, ChatRead, Finish, AnswerAborted, MarkInboundRead, Presence,
         SetAutoReply, Claim, SocketEnds, SessionEnds, QueueWebhook, QueueThrows, BatchEnds, NextTile,
         Crash, Reset, RegisterBusiness, DeleteBusiness, CreateGroup, DeleteGroup
<1> QED
  BY <1>3, <1>4, <1>5, <1>6

LEMMA StepKeepsOrder ==
    TypeOK /\ Shape /\ WebhooksMatchTransitions /\ OutboxInOrder /\ [Next]_vars => OutboxInOrder'
<1> SUFFICES ASSUME TypeOK, Shape, WebhooksMatchTransitions, OutboxInOrder, [Next]_vars
             PROVE  OutboxInOrder'
  OBVIOUS
<1>0. /\ TypeFacts
      /\ \A m \in live : bizOf'[m] = bizOf[m] /\ tileOf'[m] = tileOf[m]
  BY TypeGives, ConversationsStay
<1>1. CASE UNCHANGED outbox
  BY <1>0, <1>1, SameOrder
<1>2. CASE outbox' = <<>>
  BY <1>2 DEF OutboxInOrder
<1>3. CASE QueueWebhook
  <2> DEFINE h == Head(call.todo)
             J == Job(h, call.kind)
  <2>1. /\ call.todo # <<>> /\ outbox' = Append(outbox, J)
        /\ UNCHANGED <<bizOf, tileOf>>
    BY <1>3 DEF QueueWebhook, messages
  <2>2. outbox \in Seq(Jobs) /\ J.msg = h /\ J.kind = call.kind
    BY <1>0 DEF TypeFacts, Job
  <2>3. \A p \in DOMAIN outbox :
          /\ outbox[p].msg = J.msg => Rank(outbox[p].kind) < Rank(J.kind)
          /\ Rank(J.kind) = 1 => outbox[p].msg < J.msg
    BY <1>0, <2>1, <2>2, NextWebhook
  <2> HIDE DEF h, J
  <2>4. /\ Len(outbox) \in Nat
        /\ DOMAIN outbox = 1 .. Len(outbox) /\ DOMAIN outbox' = 1 .. Len(outbox) + 1
        /\ outbox'[Len(outbox) + 1] = J
        /\ \A p \in DOMAIN outbox : outbox'[p] = outbox[p]
    BY <2>1, <2>2
  <2>6. ASSUME NEW p \in DOMAIN outbox', NEW q \in DOMAIN outbox', p < q
        PROVE  /\ outbox'[p].msg = outbox'[q].msg => Rank(outbox'[p].kind) < Rank(outbox'[q].kind)
               /\ (SameConversation(outbox'[p].msg, outbox'[q].msg)
                     /\ Rank(outbox'[p].kind) = 1 /\ Rank(outbox'[q].kind) = 1)
                    => outbox'[p].msg < outbox'[q].msg
    <3>1. p \in DOMAIN outbox /\ (q \in DOMAIN outbox \/ q = Len(outbox) + 1)
      BY <2>4, <2>6
    <3>2. CASE q \in DOMAIN outbox
      <4>1. outbox'[p] = outbox[p] /\ outbox'[q] = outbox[q]
        BY <2>4, <3>1, <3>2
      <4> QED
        BY <2>6, <3>1, <3>2, <4>1 DEF OutboxInOrder
    <3>3. CASE q = Len(outbox) + 1
      BY <2>3, <2>4, <3>1, <3>3
    <3> QED
      BY <3>1, <3>2, <3>3
  <2> QED
    <3>1. \A i, j : (bizOf'[i] = bizOf'[j] /\ tileOf'[i] = tileOf'[j]) <=> SameConversation(i, j)
      BY <2>1 DEF SameConversation
    <3> QED
      BY <2>6, <3>1 DEF OutboxInOrder, SameConversation
<1>4. UNCHANGED outbox \/ outbox' = <<>> \/ QueueWebhook
  BY DEF Next, OtherStep, vars, webhooks, Accept, Inbound, ChatRead, Finish, AnswerAborted, TimerFires,
         MarkInboundRead, Presence, SetAutoReply, Claim, SocketEnds, SessionEnds, QueueThrows,
         BatchEnds, NextTile, Crash, Reset, RegisterBusiness, DeleteBusiness, CreateGroup, DeleteGroup
<1> QED
  BY <1>1, <1>2, <1>3, <1>4

\* Comdove is told of a message before its delivery and of that before its
\* reading, and of the messages of a conversation in their seq order.
THEOREM OutboxInOrderHolds == Spec => []OutboxInOrder
<1>1. Init => OutboxInOrder
  BY DEF Init, OutboxInOrder
<1> QED
  BY <1>1, OwedHolds, StepKeepsOrder, PTL DEF Spec
===============================================================================
