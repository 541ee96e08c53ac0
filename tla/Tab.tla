---------------------------------- MODULE Tab ----------------------------------
(***************************************************************************)
(* What the tab of a claimed group shows of one tile: the snapshot it gets  *)
(* with group.claimed (ws/store-groups.ts, ws/wire.ts) and the frames that  *)
(* keep it current: message.new, queue.flush, message.status, tile.presence *)
(* and tile.autoreply (core/delivery.ts, core/bus.ts, ws/group-events.ts).  *)
(*                                                                         *)
(* The tab is the external client: it keys bubbles by wamid, starts from    *)
(* each snapshot, adds the bubbles it is sent and puts each tick on its     *)
(* bubble.  A callback is one action; module Delivery cuts them in steps.   *)
(***************************************************************************)
EXTENDS Integers, FiniteSets

CONSTANTS
    Businesses,     \* business numbers, each with its display number
    Nobody,         \* the business of a message that is not there yet
    HistoryLimit,   \* SNAPSHOT_HISTORY_PER_TILE
    MaxMsgs         \* bound: messages in a behaviour

ASSUME NamesAssumption == Nobody \notin Businesses
ASSUME LimitAssumption == HistoryLimit \in Nat \ {0}
ASSUME BoundAssumption == MaxMsgs \in Nat

Ids == 1 .. MaxMsgs
Statuses == {"sent", "delivered", "read"}

VARIABLES
    \* tables messages and conversations, in order of arrival
    dir, at, bizOf, next, live, delivered, read,
    registered,     \* table business_numbers
    \* the tile's row: whether its group exists, its flag, whether it replies
    known, online, auto,
    awaiting,       \* messages whose `finish' is still to come
    \* the session of the group, the tab's bubbles, and the tile's row in it
    session, bubbles, tile,
    stale,          \* history: bubbles whose last tick the server never sent
    missed          \* history: whose answer was aborted while the tab was there

messages == <<dir, at, bizOf, next, live>>
marks    == <<delivered, read>>
row      == <<known, online, auto>>
tab      == <<session, bubbles, tile, stale, missed>>
vars     == <<messages, marks, registered, row, awaiting, tab>>

TypeOK ==
    /\ dir \in [Ids -> {"none", "out", "in"}]
    /\ at \in [Ids -> Nat]
    /\ bizOf \in [Ids -> Businesses \cup {Nobody}]
    /\ next \in 1 .. MaxMsgs + 1
    /\ live \in SUBSET Ids /\ delivered \in SUBSET Ids /\ read \in SUBSET Ids
    /\ registered \in SUBSET Businesses
    /\ known \in BOOLEAN /\ online \in BOOLEAN /\ auto \in BOOLEAN
    /\ awaiting \in SUBSET Ids
    /\ session \in {"none", "open", "ending"}
    /\ bubbles \in [Ids -> Statuses \cup {"none"}]
    /\ tile \in [online : BOOLEAN, auto : BOOLEAN]
    /\ stale \in SUBSET Ids /\ missed \in SUBSET Ids

Blank == [m \in Ids |-> "none"]

Init ==
    /\ dir = [m \in Ids |-> "none"]
    /\ at = [m \in Ids |-> 0]
    /\ bizOf = [m \in Ids |-> Nobody]
    /\ next = 1
    /\ live = {} /\ delivered = {} /\ read = {}
    /\ registered = {}
    /\ known = FALSE /\ online = FALSE /\ auto = FALSE
    /\ awaiting = {}
    /\ session = "none" /\ bubbles = Blank
    /\ tile = [online |-> FALSE, auto |-> FALSE]
    /\ stale = {} /\ missed = {}

-----------------------------------------------------------------------------
StatusOf(m) ==
    IF m \in read THEN "read" ELSE IF m \in delivered THEN "delivered" ELSE "sent"

\* sessionFor(): the group is claimed and the tile's flag is on.
Reachable == session # "none" /\ known /\ online

\* queuedFor(): outbound and not delivered.
Queued == {m \in live \ delivered : dir[m] = "out"}

\* The history of a snapshot is everything but the queue.
Past == live \ Queued

\* A message's place in its conversation; a reset begins every one anew.
Seq(m) == Cardinality({i \in live : bizOf[i] = bizOf[m] /\ i <= m})

\* ORDER BY created_at, seq: messages that tie are in no order.
After(i, j) == at[i] > at[j] \/ (at[i] = at[j] /\ Seq(i) > Seq(j))

\* The newest HistoryLimit of the history.
Slices ==
    {T \in SUBSET Past :
        /\ IF Cardinality(Past) <= HistoryLimit THEN T = Past ELSE Cardinality(T) = HistoryLimit
        /\ \A i \in Past \ T, j \in T : ~After(i, j)}

UnreadDelivered(b) == {m \in (live \cap delivered) \ read : dir[m] = "out" /\ bizOf[m] = b}

\* A socket that is not open drops its frames.
Shows(new) == bubbles' = IF session = "open" THEN new ELSE bubbles

\* message.status for each of S: only a bubble that is there takes its tick.
Ticked(shown, S, status) ==
    [m \in Ids |-> IF m \in S /\ shown[m] # "none" THEN status ELSE shown[m]]

\* message.new or queue.flush of S, as they were when they were read.
With(shown, S) == [m \in Ids |-> IF m \in S THEN "sent" ELSE shown[m]]

\* delivered() announces conversation after conversation and throws at the first
\* whose business is gone: which others came before it depends on their age.
Announceable(S) ==
    IF \A m \in S : bizOf[m] \in registered THEN {S}
    ELSE {{m \in S : bizOf[m] \in before} : before \in SUBSET registered}

\* delivered(S) after the frame that left the tab with `shown'.
Deliver(shown, S) ==
    /\ delivered' = delivered \cup S
    /\ \E told \in Announceable(S) :
          /\ Shows(Ticked(shown, told, "delivered"))
          /\ stale' = stale \cup (S \ told)

\* storeMessage(), for a customer and a business that are there.
Store(d, b) ==
    /\ next <= MaxMsgs
    /\ known /\ b \in registered
    /\ dir' = [dir EXCEPT ![next] = d]
    /\ bizOf' = [bizOf EXCEPT ![next] = b]
    /\ \E tick \in {0, 1} :
           at' = [at EXCEPT ![next] = IF next = 1 THEN 0 ELSE at[next - 1] + tick]
    /\ next' = next + 1
    /\ live' = live \cup {next}

-----------------------------------------------------------------------------
\* A send that validates: stored, and delivered when its answer is out.
Accept(b) ==
    /\ Store("out", b)
    /\ awaiting' = awaiting \cup {next}
    /\ UNCHANGED <<marks, registered, row, tab>>

NoTab == session' = "none" /\ bubbles' = Blank /\ stale' = {} /\ missed' = {}

\* The process goes down and comes up again.
Restart ==
    /\ awaiting' = {}
    /\ NoTab
    /\ UNCHANGED tile

\* deliver() in `finish' pushes the message it was given, as it was stored.  One
\* that was wiped, or that a claim or a flush has delivered since, gets no tick:
\* its bubble goes back to `sent'.
Finish(m) ==
    /\ m \in awaiting
    /\ awaiting' = awaiting \ {m}
    /\ \/ ~Reachable /\ UNCHANGED <<delivered, tab>>
       \/ /\ Reachable /\ m \in Queued /\ bizOf[m] \in registered
          /\ Deliver(With(bubbles, {m}), {m})
          /\ UNCHANGED <<session, tile, missed>>
       \/ /\ Reachable /\ m \notin Queued
          /\ Shows(With(bubbles, {m}))
          /\ stale' = stale \cup {m}
          /\ UNCHANGED <<delivered, session, tile, missed>>
    /\ UNCHANGED <<messages, read, registered, row>>

\* The same for a message whose business is gone: the throw ends the process.
FinishThrows(m) ==
    /\ m \in awaiting \cap Queued
    /\ Reachable /\ bizOf[m] \notin registered
    /\ delivered' = delivered \cup {m}
    /\ Restart
    /\ UNCHANGED <<messages, read, registered, row>>

\* Comdove hangs up: `finish' never fires.
AnswerAborted(m) ==
    /\ m \in awaiting
    /\ awaiting' = awaiting \ {m}
    /\ missed' = missed \cup {m}
    /\ UNCHANGED <<messages, marks, registered, row, session, bubbles, tile, stale>>

\* message.send, POST /api/inject or an auto-reply: the bus echoes the bubble.
Inbound(b) ==
    /\ Store("in", b)
    /\ Shows(With(bubbles, {next}))
    /\ UNCHANGED <<marks, registered, row, awaiting, session, tile, stale, missed>>

TicksForgotten(S) == UNCHANGED bubbles                            \* mutant
\* announce(read): the tick of each of S.
Ticks(S) == Shows(Ticked(bubbles, S, "read"))

\* chat.read by the tab of a tile that is online.
ChatRead(b) ==
    /\ session = "open" /\ known /\ online /\ b \in registered
    /\ UnreadDelivered(b) # {}
    /\ read' = read \cup UnreadDelivered(b)
    /\ Ticks(UnreadDelivered(b))
    /\ UNCHANGED <<messages, delivered, registered, row, awaiting, session, tile, stale, missed>>

\* Mark-as-read by Comdove: the customer's own bubble is ticked.
MarkInboundRead(m) ==
    /\ m \in live \ read /\ dir[m] = "in" /\ bizOf[m] \in registered
    /\ read' = read \cup {m}
    /\ Ticks({m})
    /\ UNCHANGED <<messages, delivered, registered, row, awaiting, session, tile, stale, missed>>

\* The echo of tile.presence and of tile.autoreply, by frame or by route.
Told(field, value) ==
    tile' = IF session = "open" THEN [tile EXCEPT ![field] = value] ELSE tile

FlushSilent == UNCHANGED <<bubbles, stale>> /\ delivered' = delivered \cup Queued  \* mutant
\* queue.flush, then the ticks.
Flush == Deliver(With(bubbles, Queued), Queued)

\* tile.presence or POST /api/presence.
Presence(on) ==
    /\ known
    /\ online' = on
    /\ Told("online", on)
    /\ IF on /\ session # "none" THEN Flush ELSE UNCHANGED <<delivered, bubbles, stale>>
    /\ UNCHANGED <<messages, read, registered, known, auto, awaiting, session, missed>>

\* tile.autoreply or PUT auto-reply.
SetAutoReply(on) ==
    /\ known
    /\ auto' = on
    /\ Told("auto", on)
    /\ UNCHANGED <<messages, marks, registered, known, online, awaiting, session, bubbles, stale,
                   missed>>

\* group.claim: the snapshot, then deliverQueued().
Claim ==
    /\ known /\ session = "none"
    /\ session' = "open"
    /\ tile' = [online |-> online, auto |-> auto]
    /\ \E slice \in Slices :
          LET shown  == [m \in Ids |-> IF m \in slice \cup Queued THEN StatusOf(m) ELSE "none"]
              queue  == IF online THEN Queued ELSE {}
          IN  /\ delivered' = delivered \cup queue
              /\ \E told \in Announceable(queue) :
                    /\ bubbles' = Ticked(shown, told, "delivered")
                    /\ stale' = queue \ told
    /\ missed' = {}
    /\ UNCHANGED <<messages, read, registered, row, awaiting>>

\* The socket is no longer open; its close event is still to come.
SocketEnds ==
    /\ session = "open"
    /\ session' = "ending"
    /\ UNCHANGED <<messages, marks, registered, row, awaiting, bubbles, tile, stale, missed>>

SessionEnds ==
    /\ session # "none"
    /\ NoTab
    /\ UNCHANGED <<messages, marks, registered, row, awaiting, tile>>

Crash ==
    /\ Restart
    /\ UNCHANGED <<messages, marks, registered, row>>

\* POST /reset: a tab whose group stays gets an empty snapshot, any other is
\* disconnected.
Reset(keep) ==
    /\ live' = {} /\ delivered' = {} /\ read' = {}
    /\ \/ /\ keep
          /\ Shows(Blank) /\ stale' = {} /\ missed' = {}
          /\ UNCHANGED <<registered, row, session, tile>>
       \/ /\ ~keep
          /\ registered' = {} /\ known' = FALSE /\ online' = FALSE /\ auto' = FALSE
          /\ NoTab
          /\ UNCHANGED tile
    /\ UNCHANGED <<dir, at, bizOf, next, awaiting>>

RegisterBusiness(b) ==
    /\ b \notin registered
    /\ registered' = registered \cup {b}
    /\ UNCHANGED <<messages, marks, row, awaiting, tab>>

DeleteBusiness(b) ==
    /\ b \in registered
    /\ registered' = registered \ {b}
    /\ UNCHANGED <<messages, marks, row, awaiting, tab>>

\* A new tile is online and replies by hand.
CreateGroup ==
    /\ ~known
    /\ known' = TRUE /\ online' = TRUE /\ auto' = FALSE
    /\ UNCHANGED <<messages, marks, registered, awaiting, tab>>

DeleteGroup ==
    /\ known /\ session = "none"
    /\ known' = FALSE /\ online' = FALSE /\ auto' = FALSE
    /\ UNCHANGED <<messages, marks, registered, awaiting, tab>>

Next ==
    \/ \E b \in Businesses : Accept(b) \/ Inbound(b) \/ ChatRead(b)
    \/ \E m \in Ids : Finish(m) \/ FinishThrows(m) \/ AnswerAborted(m) \/ MarkInboundRead(m)
    \/ \E on \in BOOLEAN : Presence(on) \/ SetAutoReply(on)
    \/ Claim \/ SocketEnds \/ SessionEnds
    \/ Crash
    \/ \E keep \in BOOLEAN : Reset(keep)
    \/ \E b \in Businesses : RegisterBusiness(b) \/ DeleteBusiness(b)
    \/ CreateGroup \/ DeleteGroup

Spec == Init /\ [][Next]_vars

-----------------------------------------------------------------------------
\* The ticks keep up with the database: every bubble of an open tab shows the
\* status of its message, whichever of snapshot, push, flush, claim and read
\* came last, save those whose business went away under them and those that
\* were pushed after a claim or a flush had delivered them.
BubblesCurrent ==
    session = "open" => \A m \in live \ stale : bubbles[m] \in {"none", StatusOf(m)}

\* A queued message that the tab need not have been sent: the tile is offline,
\* or the answer to its send is still to go out, or never went out.
Withheld(m) == m \in Queued /\ (~online \/ m \in awaiting \/ m \in missed)

\* A claim shows the newest of the history and the whole queue.  Of these an open
\* tab lacks only messages that are withheld: whatever has reached the history is
\* there already, though the history was cut when the tab was opened.  What it has
\* bears the status a claim would show, save the bubbles in `stale'; and its flag
\* and auto-reply are those of the tile's row.
ReclaimAddsOnlyWithheld ==
    session = "open" =>
        /\ \E slice \in Slices :
              \A m \in slice \cup Queued :
                  \/ bubbles[m] = StatusOf(m)
                  \/ bubbles[m] # "none" /\ m \in stale
                  \/ bubbles[m] = "none" /\ Withheld(m)
        /\ tile = [online |-> online, auto |-> auto]
===============================================================================
