------------------------------- MODULE Delivery -------------------------------
(***************************************************************************)
(* What happens to a message: the send endpoint (meta/messages.route.ts),   *)
(* the lifecycle (core/lifecycle.ts) on the message store                   *)
(* (core/messages.ts), delivery to the tiles of one group and its           *)
(* auto-replies (core/delivery.ts), the frames of its session               *)
(* (ws/group-events.ts), the bubbles the bus sends (core/bus.ts), and the   *)
(* routes that reset, register and delete.                                  *)
(*                                                                         *)
(* A callback that queues webhooks is cut in steps, one per webhook, since  *)
(* it may throw half-way and the process may die half-way: `call' says what *)
(* it has left to do.  While a call is under way nothing but a crash comes  *)
(* in between.  The dispatcher's side of enqueue() is module Dispatcher.    *)
(***************************************************************************)
EXTENDS Integers, Sequences, FiniteSets, SequencesExt

CONSTANTS
    Businesses,     \* business numbers
    TileOrder,      \* the numbers of the group, by position
    Nobody,         \* business and tile of a message id not handed out yet
    HistoryLimit,   \* SNAPSHOT_HISTORY_PER_TILE
    MaxMsgs,        \* bound: messages stored in a behaviour
    MaxCrashes      \* bound: process crashes in a behaviour

Tiles == ToSet(TileOrder)
Ids == 1 .. MaxMsgs

ASSUME NamesAssumption == Nobody \notin Businesses /\ Nobody \notin Tiles
ASSUME OrderAssumption == TileOrder \in Seq(Tiles) /\ IsInjective(TileOrder)
ASSUME LimitAssumption == HistoryLimit \in Nat \ {0}
ASSUME BoundsAssumption == MaxMsgs \in Nat /\ MaxCrashes \in Nat

Kinds == {"sent", "delivered", "read", "inbound"}
Job(m, kind) == [msg |-> m, kind |-> kind]
Jobs == [msg : Ids, kind : Kinds]

Callers == {"none", "send", "finish", "claim", "flush", "frame", "timer"}
NoCall == [by |-> "none", kind |-> "sent", todo |-> <<>>, batch |-> {}, tiles |-> <<>>]

VARIABLES
    \* tables messages and conversations; ids are handed out in seq order
    dir, bizOf, tileOf, next, live, delivered, read,
    \* table webhook_jobs in the order of its ids; the webhooks of live messages
    \* that were owed when a call threw or the process died (history)
    outbox, lost,
    \* messages whose 200 is under way: `finish' has not fired; auto-reply timers
    awaiting, timers,
    \* the session of the group in the index, and the bubbles its tab has got
    session, pushes,
    \* tables groups, customers (with its flags) and business_numbers
    known, online, auto, registered,
    \* the callback that is running, what the bound counts, and the messages that
    \* the running session missed: their answer was aborted, or the claim that
    \* would have delivered them threw (history)
    call, crashes, missed

messages  == <<dir, bizOf, tileOf, next, live>>
statuses  == <<delivered, read>>
webhooks  == <<outbox, lost>>
pending   == <<awaiting, timers>>
tab       == <<session, pushes>>
customers == <<known, online, auto>>
history   == <<crashes, missed>>
vars == <<messages, statuses, webhooks, pending, tab, customers, registered, call, history>>

TypeOK ==
    /\ dir \in [Ids -> {"none", "out", "in"}]
    /\ bizOf \in [Ids -> Businesses \cup {Nobody}]
    /\ tileOf \in [Ids -> Tiles \cup {Nobody}]
    /\ next \in 1 .. MaxMsgs + 1
    /\ live \in SUBSET Ids /\ delivered \in SUBSET Ids /\ read \in SUBSET Ids
    /\ outbox \in Seq(Jobs) /\ lost \in SUBSET Jobs
    /\ awaiting \in SUBSET Ids
    /\ timers \in [Ids -> Nat]
    /\ session \in {"none", "open", "ending"}
    /\ pushes \in [Ids -> Nat]
    /\ known \in BOOLEAN /\ online \in SUBSET Tiles /\ auto \in SUBSET Tiles
    /\ registered \in SUBSET Businesses
    /\ call \in [by : Callers, kind : Kinds, todo : Seq(Ids), batch : SUBSET Ids,
                 tiles : Seq(Tiles)]
    /\ crashes \in 0 .. MaxCrashes /\ missed \in SUBSET Ids

Init ==
    /\ dir = [m \in Ids |-> "none"]
    /\ bizOf = [m \in Ids |-> Nobody]
    /\ tileOf = [m \in Ids |-> Nobody]
    /\ next = 1
    /\ live = {} /\ delivered = {} /\ read = {}
    /\ outbox = <<>> /\ lost = {}
    /\ awaiting = {}
    /\ timers = [m \in Ids |-> 0]
    /\ session = "none"
    /\ pushes = [m \in Ids |-> 0]
    /\ known = FALSE /\ online = {} /\ auto = {}
    /\ registered = {}
    /\ call = NoCall
    /\ crashes = 0 /\ missed = {}

-----------------------------------------------------------------------------
Quiet == call.by = "none"

\* sessionFor() finds a session: the group is claimed and the tile's flag is on.
Reachable(t) == session # "none" /\ known /\ t \in online

SameConversation(i, j) == bizOf[i] = bizOf[j] /\ tileOf[i] = tileOf[j]

\* Conversations are numbered when their first message comes in.
OlderConversation(i, j) ==
    \E k \in live : /\ SameConversation(i, k)
                    /\ \A l \in live : SameConversation(j, l) => k < l

\* ORDER BY conversation_id, seq
Before(i, j) ==
    OlderConversation(i, j) \/ (SameConversation(i, j) /\ i < j)

QueuedForWiped(t) == {m \in Ids \ delivered : dir[m] = "out" /\ tileOf[m] = t}  \* mutant
\* queuedFor(): the outbound messages of a tile that are not delivered.
QueuedFor(t) == {m \in live \ delivered : dir[m] = "out" /\ tileOf[m] = t}

UnreadAny(t, b) ==                                                \* mutant
    {m \in live \ read : dir[m] = "out" /\ tileOf[m] = t /\ bizOf[m] = b}
\* unreadDelivered(): those of one chat that are delivered and not read.
UnreadDelivered(t, b) ==
    {m \in (live \cap delivered) \ read : dir[m] = "out" /\ tileOf[m] = t /\ bizOf[m] = b}

\* session.send of the bubbles of S: a socket that is not open drops them.
Push(S) ==
    pushes' = [m \in Ids |-> IF session = "open" /\ m \in S THEN pushes[m] + 1 ELSE pushes[m]]

\* storeMessage() hands out the next id.
Store(d, b, t) ==
    /\ next <= MaxMsgs
    /\ dir' = [dir EXCEPT ![next] = d]
    /\ bizOf' = [bizOf EXCEPT ![next] = b]
    /\ tileOf' = [tileOf EXCEPT ![next] = t]
    /\ next' = next + 1
    /\ live' = live \cup {next}

\* The messages of S as a query returns them.
InOrder(S) ==
    {q \in [1 .. Cardinality(S) -> S] :
        /\ ToSet(q) = S
        /\ \A i, k \in DOMAIN q : i < k => Before(q[i], q[k])}

Start(by, kind, S, batch, tiles) ==
    \E q \in InOrder(S) :
        call' = [by |-> by, kind |-> kind, todo |-> q, batch |-> batch, tiles |-> tiles]

FreshAny(S) == S \cap live                                        \* mutant
\* delivered() re-reads its messages: it drops those wiped or delivered since.
Fresh(S) == (S \cap live) \ delivered

\* delivered(S), then autoReply() of each of S: the marks come first, all at once.
Deliver(by, S, tiles) ==
    /\ delivered' = delivered \cup Fresh(S)
    /\ Start(by, "delivered", Fresh(S), S, tiles)

-----------------------------------------------------------------------------
\* POST /messages that validates: store, then queue the `sent' webhook.
Accept(b, t) ==
    /\ Quiet /\ known /\ b \in registered
    /\ Store("out", b, t)
    /\ call' = [by |-> "send", kind |-> "sent", todo |-> <<next>>, batch |-> {next}, tiles |-> <<>>]
    /\ UNCHANGED <<statuses, webhooks, pending, tab, customers, registered, history>>

\* The answer is out: `finish' fires and deliver() runs.
Finish(m) ==
    /\ Quiet /\ m \in awaiting
    /\ awaiting' = awaiting \ {m}
    /\ \/ /\ Reachable(tileOf[m])
          /\ Push({m})
          /\ Deliver("finish", {m}, <<>>)
       \/ /\ ~Reachable(tileOf[m])
          /\ UNCHANGED <<pushes, delivered, call>>
    /\ UNCHANGED <<messages, read, webhooks, timers, session, customers, registered, history>>

\* Comdove hangs up before the answer is out: `finish' never fires.
AnswerAborted(m) ==
    /\ Quiet /\ m \in awaiting
    /\ awaiting' = awaiting \ {m}
    /\ missed' = missed \cup {m}
    /\ UNCHANGED <<messages, statuses, webhooks, timers, tab, customers, registered, call, crashes>>

\* lifecycle.inbound(): store, queue the webhook, send the bubble to the tab.
TakeInbound(by, b, t) ==
    /\ Store("in", b, t)
    /\ Push({next})
    /\ call' = [by |-> by, kind |-> "inbound", todo |-> <<next>>, batch |-> {}, tiles |-> <<>>]

\* message.send of a tile, or POST /api/inject, which asks for neither session
\* nor flag.
Inbound(b, t) ==
    /\ Quiet /\ known /\ b \in registered
    /\ TakeInbound("frame", b, t)
    /\ UNCHANGED <<statuses, webhooks, pending, session, customers, registered, history>>

\* An auto-reply's delay is over: the reply is sent if the tile is reachable and
\* the business is still there; a missing one is caught and logged.
TimerFires(m) ==
    /\ Quiet /\ timers[m] > 0
    /\ timers' = [timers EXCEPT ![m] = @ - 1]
    /\ \/ /\ Reachable(tileOf[m]) /\ bizOf[m] \in registered
          /\ TakeInbound("timer", bizOf[m], tileOf[m])
       \/ /\ ~(Reachable(tileOf[m]) /\ bizOf[m] \in registered)
          /\ UNCHANGED <<messages, pushes, call>>
    /\ UNCHANGED <<statuses, webhooks, awaiting, session, customers, registered, history>>

\* chat.read on a tile that is online.
ChatRead(t, b) ==
    /\ Quiet /\ session = "open" /\ known /\ t \in online /\ b \in registered
    /\ UnreadDelivered(t, b) # {}
    /\ read' = read \cup UnreadDelivered(t, b)
    /\ Start("frame", "read", UnreadDelivered(t, b), {}, <<>>)
    /\ UNCHANGED <<messages, delivered, webhooks, pending, tab, customers, registered, history>>

\* Mark-as-read by Comdove: no webhook.
MarkInboundRead(m) ==
    /\ Quiet /\ m \in live \ read /\ dir[m] = "in" /\ bizOf[m] \in registered
    /\ read' = read \cup {m}
    /\ UNCHANGED <<messages, delivered, webhooks, pending, tab, customers, registered, call, history>>

FlushNever(t) == FALSE                                            \* mutant
\* flushTile(): only with a session, and only a queue that is not empty.
Flushes(t) == session # "none" /\ QueuedFor(t) # {}

\* tile.presence or POST /api/presence: set the flag; going online flushes.
Presence(t, on) ==
    /\ Quiet /\ known
    /\ online' = IF on THEN online \cup {t} ELSE online \ {t}
    /\ \/ /\ on /\ Flushes(t)
          /\ Push(QueuedFor(t))
          /\ Deliver("flush", QueuedFor(t), <<>>)
       \/ /\ ~(on /\ Flushes(t))
          /\ UNCHANGED <<pushes, delivered, call>>
    /\ missed' = IF on THEN missed \ QueuedFor(t) ELSE missed
    /\ UNCHANGED <<messages, read, webhooks, pending, session, known, auto, registered, crashes>>

SetAutoReply(t, on) ==
    /\ Quiet /\ known
    /\ auto' = IF on THEN auto \cup {t} ELSE auto \ {t}
    /\ UNCHANGED <<messages, statuses, webhooks, pending, tab, known, online, registered, call, history>>

\* The history of a tile: all of its messages but the queue.
Past(t) == {m \in live \ QueuedFor(t) : tileOf[m] = t}

SlicesOldest(t) ==                                                \* mutant
    {T \in SUBSET Past(t) :
        /\ IF Cardinality(Past(t)) <= HistoryLimit THEN T = Past(t) ELSE Cardinality(T) = HistoryLimit
        /\ \A i \in Past(t) \ T, j \in T : ~(SameConversation(i, j) /\ i < j)}
\* The newest HistoryLimit of it, in the order of created_at: within a
\* conversation that is their seq order; messages of two conversations may come
\* either way about, since the clock may not have moved between them.
Slices(t) ==
    {T \in SUBSET Past(t) :
        /\ IF Cardinality(Past(t)) <= HistoryLimit THEN T = Past(t) ELSE Cardinality(T) = HistoryLimit
        /\ \A i \in Past(t) \ T, j \in T : ~(SameConversation(i, j) /\ j < i)}

\* The bubbles a snapshot shows as arrived: the newest history of every tile, and
\* the queue of a tile that is online, which is marked delivered right after.
Snapshots ==
    {S \in SUBSET live :
        \A t \in Tiles : \E T \in Slices(t) :
            {m \in S : tileOf[m] = t} = T \cup (IF t \in online THEN QueuedFor(t) ELSE {})}

\* group.claim: the snapshot, then deliverQueued() from tile to tile.
Claim ==
    /\ Quiet /\ known /\ session = "none"
    /\ session' = "open"
    /\ \E S \in Snapshots : pushes' = [m \in Ids |-> IF m \in S THEN 1 ELSE 0]
    /\ call' = [by |-> "claim", kind |-> "delivered", todo |-> <<>>, batch |-> {}, tiles |-> TileOrder]
    /\ missed' = {}
    /\ UNCHANGED <<messages, statuses, webhooks, pending, customers, registered, crashes>>

\* The socket is no longer open; its close event is still to come.
SocketEnds ==
    /\ Quiet /\ session = "open"
    /\ session' = "ending"
    /\ UNCHANGED <<messages, statuses, webhooks, pending, pushes, customers, registered, call, history>>

NoPushes == pushes' = [m \in Ids |-> 0]

\* The session closes and leaves the index.
SessionEnds ==
    /\ Quiet /\ session # "none"
    /\ session' = "none"
    /\ NoPushes
    /\ UNCHANGED <<messages, statuses, webhooks, pending, customers, registered, call, history>>

-----------------------------------------------------------------------------
\* queueStatus() or enqueue() of the call's next message.
QueueWebhook ==
    /\ call.todo # <<>>
    /\ bizOf[Head(call.todo)] \in registered
    /\ outbox' = Append(outbox, Job(Head(call.todo), call.kind))
    /\ call' = [call EXCEPT !.todo = Tail(@)]
    /\ UNCHANGED <<messages, statuses, lost, pending, tab, customers, registered, history>>

\* The webhooks the running call still owes are never queued.
Lose == lost' = lost \cup {Job(call.todo[i], call.kind) : i \in DOMAIN call.todo}

\* The process goes down and comes up: its memory is lost, its tables are not.
Restart ==
    /\ awaiting' = {}
    /\ timers' = [m \in Ids |-> 0]
    /\ session' = "none"
    /\ NoPushes
    /\ call' = NoCall

\* queueStatus() throws: the next message's business number was deleted.  The
\* rest of the call does not happen: its webhooks, its auto-replies, the tiles
\* after this one.  A /ws frame or a route catches it; a listener of `finish'
\* does not, and the process dies of it.
QueueThrows ==
    /\ call.todo # <<>>
    /\ bizOf[Head(call.todo)] \notin registered
    /\ Lose
    /\ missed' = missed \cup UNION {QueuedFor(t) : t \in ToSet(call.tiles)}
    /\ \/ call.by = "finish" /\ Restart
       \/ call.by # "finish" /\ call' = NoCall /\ UNCHANGED <<pending, tab>>
    /\ UNCHANGED <<messages, statuses, outbox, customers, registered, crashes>>

StartsTimerAny(m) == m \in call.batch /\ tileOf[m] \in auto           \* mutant
\* autoReply() of a message that has just been delivered.
StartsTimer(m) == m \in call.batch /\ call.kind = "delivered" /\ tileOf[m] \in auto

\* The webhooks of a batch are queued.  A send has its answer under way now;
\* delivered messages start the timer of their tile's auto-reply.
BatchEnds ==
    /\ call.by # "none" /\ call.todo = <<>>
    /\ call.batch # {} \/ call.tiles = <<>>
    /\ awaiting' = IF call.by = "send" THEN awaiting \cup call.batch ELSE awaiting
    /\ timers' = [m \in Ids |-> IF StartsTimer(m) THEN timers[m] + 1 ELSE timers[m]]
    /\ call' = IF call.tiles = <<>> THEN NoCall ELSE [call EXCEPT !.batch = {}]
    /\ UNCHANGED <<messages, statuses, webhooks, tab, customers, registered, history>>

DeliverableOffline(t) == QueuedFor(t)                             \* mutant
DeliverableNever(t) == {}                                         \* mutant
Deliverable(t) == IF Reachable(t) THEN QueuedFor(t) ELSE {}

\* The next turn of deliverQueued()'s loop.
NextTile ==
    /\ call.todo = <<>> /\ call.batch = {} /\ call.tiles # <<>>
    /\ Deliver("claim", Deliverable(Head(call.tiles)), Tail(call.tiles))
    /\ UNCHANGED <<messages, read, webhooks, pending, tab, customers, registered, history>>

Crash ==
    /\ crashes < MaxCrashes
    /\ crashes' = crashes + 1
    /\ Lose
    /\ Restart
    /\ UNCHANGED <<messages, statuses, outbox, customers, registered, missed>>

-----------------------------------------------------------------------------
\* POST /reset wipes messages and webhooks; unless numbers are kept the group,
\* its tiles and the businesses go too and its session is disconnected.  What
\* waits for `finish' or for a timer is not touched.
Reset(keep) ==
    /\ Quiet
    /\ live' = {} /\ delivered' = {} /\ read' = {}
    /\ outbox' = <<>> /\ lost' = {}
    /\ missed' = {}
    /\ NoPushes
    /\ \/ keep /\ UNCHANGED <<session, customers, registered>>
       \/ /\ ~keep
          /\ session' = "none"
          /\ known' = FALSE /\ online' = {} /\ auto' = {}
          /\ registered' = {}
    /\ UNCHANGED <<dir, bizOf, tileOf, next, pending, call, crashes>>

RegisterBusiness(b) ==
    /\ Quiet /\ b \notin registered
    /\ registered' = registered \cup {b}
    /\ UNCHANGED <<messages, statuses, webhooks, pending, tab, customers, call, history>>

DeleteBusiness(b) ==
    /\ Quiet /\ b \in registered
    /\ registered' = registered \ {b}
    /\ UNCHANGED <<messages, statuses, webhooks, pending, tab, customers, call, history>>

\* New tiles are online and reply by hand.
CreateGroup ==
    /\ Quiet /\ ~known
    /\ known' = TRUE /\ online' = Tiles /\ auto' = {}
    /\ UNCHANGED <<messages, statuses, webhooks, pending, tab, registered, call, history>>

\* Only a group without a session; its tiles go with it, its messages stay.
DeleteGroup ==
    /\ Quiet /\ known /\ session = "none"
    /\ known' = FALSE /\ online' = {} /\ auto' = {}
    /\ UNCHANGED <<messages, statuses, webhooks, pending, tab, registered, call, history>>

\* The steps that leave the table of webhooks as it is.
OtherStep ==
    \/ \E b \in Businesses, t \in Tiles : Accept(b, t) \/ Inbound(b, t) \/ ChatRead(t, b)
    \/ \E m \in Ids : Finish(m) \/ AnswerAborted(m) \/ TimerFires(m) \/ MarkInboundRead(m)
    \/ \E t \in Tiles, on \in BOOLEAN : Presence(t, on) \/ SetAutoReply(t, on)
    \/ Claim \/ SocketEnds \/ SessionEnds
    \/ QueueThrows \/ BatchEnds \/ NextTile
    \/ Crash
    \/ \E b \in Businesses : RegisterBusiness(b) \/ DeleteBusiness(b)
    \/ CreateGroup \/ DeleteGroup

Next ==
    \/ QueueWebhook
    \/ \E keep \in BOOLEAN : Reset(keep)
    \/ OtherStep

Spec == Init /\ [][Next]_vars

\* A callback runs to its end, and an answer that is not aborted goes out.
Fairness ==
    /\ WF_vars(QueueWebhook) /\ WF_vars(QueueThrows)
    /\ WF_vars(BatchEnds) /\ WF_vars(NextTile)
    /\ \A m \in Ids : SF_vars(Finish(m))

FairSpec == Spec /\ Fairness

-----------------------------------------------------------------------------
\* The webhooks a stored message gives rise to: one for each of its transitions.
Owed == {Job(m, "sent") : m \in {i \in live : dir[i] = "out"}}
        \cup {Job(m, "delivered") : m \in delivered}
        \cup {Job(m, "read") : m \in {i \in read : dir[i] = "out"}}
        \cup {Job(m, "inbound") : m \in {i \in live : dir[i] = "in"}}

BeingQueued == {Job(call.todo[i], call.kind) : i \in DOMAIN call.todo}

\* Every transition of a message gets its webhook exactly once, or is in the
\* hands of the running call, or went down with a call that threw or a crash:
\* no transition is announced twice, and none that did not happen.
WebhooksMatchTransitions ==
    /\ ToSet(outbox) \cup BeingQueued \cup lost = Owed
    /\ ToSet(outbox) \cap (BeingQueued \cup lost) = {}
    /\ BeingQueued \cap lost = {}
    /\ IsInjective(outbox)

Rank(kind) == CASE kind = "delivered" -> 2 [] kind = "read" -> 3 [] OTHER -> 1

\* Comdove is told of a message before it is told that it was delivered, and of
\* that before it is told that it was read; and of the messages of a
\* conversation, either way, in their seq order.
OutboxInOrder ==
    \A p, q \in DOMAIN outbox : p < q =>
        LET i == outbox[p]
            j == outbox[q]
        IN  /\ i.msg = j.msg => Rank(i.kind) < Rank(j.kind)
            /\ (SameConversation(i.msg, j.msg) /\ Rank(i.kind) = 1 /\ Rank(j.kind) = 1)
                 => i.msg < j.msg

\* What Comdove was told has reached its customer, and what the customer sent.
Arrived == {m \in live : m \in delivered \/ dir[m] = "in"}

\* The tab has HistoryLimit bubbles or more of m's tile that are not older
\* messages of m's own conversation.
CutOff(m) ==
    Cardinality({i \in Arrived : /\ tileOf[i] = tileOf[m] /\ pushes[i] > 0
                                 /\ ~(SameConversation(i, m) /\ i < m)}) >= HistoryLimit

\* A tab on an open socket has every message that has arrived, whichever of
\* snapshot, flush, live push and echo had to bring it, but for the ones its
\* snapshot was cut before: a message is missing only if HistoryLimit others of
\* its tile are there that are no older.
TabComplete ==
    (Quiet /\ session = "open") => \A m \in Arrived : pushes[m] > 0 \/ CutOff(m)

\* A message to a customer who can be reached is delivered, or its answer is
\* still under way and will deliver it: claim, flush and finish leave no gap
\* between them.  Left behind are only messages whose answer was aborted, or
\* that a claim threw before, since the group was claimed and the customer came
\* online: a new claim, or going online again, brings every one of them.
NobodyStranded ==
    Quiet => \A t \in Tiles : Reachable(t) => QueuedFor(t) \subseteq awaiting \cup missed

\* A customer gets messages only while online in a claimed group.
DeliveredOnlyOnline ==
    [][\A m \in delivered' \ delivered : session # "none" /\ tileOf[m] \in online']_vars

\* A reply is on its way only to a message that has reached its customer, or
\* that a reset has wiped since: its timer outlives everything but the process,
\* and no flush, claim or send starts one for a message that is still queued.
RepliesAnswerDelivered ==
    \A m \in live : timers[m] > 0 => dir[m] = "out" /\ m \in delivered

\* After a reset only the answer of a send that was under way can still bring a
\* wiped message into a tab: no snapshot and no flush does.
WipedStaysWiped ==
    [][\A m \in Ids : (pushes'[m] > pushes[m] /\ m \notin live') => m \in awaiting]_vars

\* A message to a customer who can be reached gets delivered in the end, unless
\* its own answer is aborted or the claim that is to deliver it throws first.
ReachableGetsDelivered ==
    \A m \in Ids :
        (m \in live /\ dir[m] = "out" /\ m \notin delivered /\ Reachable(tileOf[m]))
            ~> (m \notin live \/ m \in delivered \/ ~Reachable(tileOf[m]) \/ m \in missed)

-----------------------------------------------------------------------------
\* "One webhook per transition", and of a deleted number only its own
\* conversations "simply stop receiving": no message of a number that is still
\* there loses its webhook.
OneWebhookPerTransition ==
    [][\A j \in lost' \ lost : bizOf[j.msg] \notin registered]_vars

\* "A flush would show them twice": no bubble is shown twice in a tab.
NoBubbleTwice == \A m \in live : pushes[m] <= 1
===============================================================================
