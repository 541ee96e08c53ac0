------------------------------- MODULE AdminLog -------------------------------
(***************************************************************************)
(* The admin log: GET /api/log (core/messages.ts, api/traffic.route.ts) and *)
(* the frames that keep it current on the admins' sockets                   *)
(* (ws/admin-feed.ts, fed through core/bus.ts by the lifecycle, the         *)
(* dispatcher and the Meta face).                                           *)
(*                                                                         *)
(* A row is a message or a rejected request; ids follow the order of        *)
(* arrival.  What a message shows is its status and its webhooks, its       *)
(* business and its customer's group, joined at the moment of reading.  An  *)
(* admin is a socket and the table of messages it keeps, by wamid, from the *)
(* frames and from GET /api/log, whose answer comes on another connection   *)
(* and may be late.  A rejected request has no wamid and is in no table: it *)
(* is added whenever it is sent.  A callback is one action.                 *)
(***************************************************************************)
EXTENDS Integers, FiniteSets, FiniteSetsExt

CONSTANTS
    Admins,         \* sockets that may subscribe
    Businesses,     \* business numbers
    Nobody,         \* the business of a row that is not there yet, or gone
    Groups,         \* groups that the customer of the messages may be in
    NoGroup,        \* the group of a customer that is not there
    Unknown,        \* a row an admin has not been sent
    DefaultLimit,   \* DEFAULT_LOG_LIMIT
    MaxLimit,       \* MAX_LOG_LIMIT
    MaxRows         \* bound: rows in a behaviour

ASSUME NamesAssumption == Nobody \notin Businesses /\ NoGroup \notin Groups
ASSUME LimitsAssumption ==
    /\ DefaultLimit \in Nat \ {0} /\ MaxLimit \in Nat /\ DefaultLimit <= MaxLimit
ASSUME BoundAssumption == MaxRows \in Nat

Rows == 1 .. MaxRows
Kinds == {"sent", "delivered", "read", "inbound"}
\* A webhook: not queued, queued, tried without a verdict, or with its verdict.
JobStates == {"none", "pending", "tried", "finished"}
Statuses == {"sent", "delivered", "read"}
Entries == [status : Statuses, webhooks : [Kinds -> JobStates],
            business : Businesses \cup {Nobody}, group : Groups \cup {NoGroup}]
Tables == [Rows -> Entries \cup {Unknown}]

ASSUME UnknownAssumption == Unknown \notin Entries

VARIABLES
    \* tables messages and rejected_requests: what a row is, when it came, its
    \* business, which rows are there, their marks; table webhook_jobs by row
    dir, at, biz, next, live, delivered, read, jobs,
    registered,     \* table business_numbers
    group,          \* table customers: the group of the one customer
    \* the feed: its sockets and the wamids already sent as log.entry
    admins, announced,
    \* what each socket was sent: its table, the log.entry frames per row, and
    \* the first row that could come after it had subscribed
    view, entries, from,
    answer,         \* what the answer of GET /api/log on its way will add to it
    \* history, kept while somebody listens: rows whose last change was never
    \* announced, rows whose business or group came or went since they were
    missed, renamed

table == <<dir, at, biz, next, live, delivered, read, jobs>>
names == <<registered, group>>
feed  == <<admins, announced, view, entries, from, answer>>
gaps  == <<missed, renamed>>
vars  == <<table, names, feed, gaps>>

TypeOK ==
    /\ dir \in [Rows -> {"none", "outbound", "inbound", "rejected"}]
    /\ at \in [Rows -> Nat]
    /\ biz \in [Rows -> Businesses \cup {Nobody}]
    /\ next \in 1 .. MaxRows + 1
    /\ live \in SUBSET Rows /\ delivered \in SUBSET Rows /\ read \in SUBSET Rows
    /\ jobs \in [Rows -> [Kinds -> JobStates]]
    /\ registered \in SUBSET Businesses
    /\ group \in Groups \cup {NoGroup}
    /\ admins \in SUBSET Admins
    /\ announced \in SUBSET Rows
    /\ view \in [Admins -> Tables] /\ answer \in [Admins -> Tables]
    /\ entries \in [Admins -> [Rows -> Nat]]
    /\ from \in [Admins -> 1 .. MaxRows + 1]
    /\ missed \in SUBSET Rows /\ renamed \in SUBSET Rows

Nothing == [r \in Rows |-> Unknown]

Init ==
    /\ dir = [r \in Rows |-> "none"]
    /\ at = [r \in Rows |-> 0]
    /\ biz = [r \in Rows |-> Nobody]
    /\ next = 1
    /\ live = {} /\ delivered = {} /\ read = {}
    /\ jobs = [r \in Rows |-> [k \in Kinds |-> "none"]]
    /\ registered = {} /\ group = NoGroup
    /\ admins = {} /\ announced = {}
    /\ view = [a \in Admins |-> Nothing] /\ answer = [a \in Admins |-> Nothing]
    /\ entries = [a \in Admins |-> [r \in Rows |-> 0]]
    /\ from = [a \in Admins |-> 1]
    /\ missed = {} /\ renamed = {}

-----------------------------------------------------------------------------
StatusOf(r) ==
    IF r \in read THEN "read" ELSE IF r \in delivered THEN "delivered" ELSE "sent"

\* toLogEntry(): the joins find what is there now.
EntryOf(r) == [status |-> StatusOf(r), webhooks |-> jobs[r],
               business |-> IF biz[r] \in registered THEN biz[r] ELSE Nobody,
               group |-> group]

Messages == {r \in live : dir[r] # "rejected"}

IntroducesAgain(S) == S                                            \* mutant
\* log.entry for a row that was not announced, log.update for one that was.
Introduces(S) == S \ announced

\* With nobody listening, a change leaves no trace in the feed.
Announce(S) == IF admins = {} THEN announced ELSE announced \cup S

\* A subscriber puts the messages of S into its table, and keeps them there when
\* an answer comes that was asked for before the frame.
Sent(S) ==
    LET upto(a) == IF a \in admins THEN S \cap Messages' ELSE {}
    IN  /\ view' = [a \in Admins |-> [r \in Rows |->
                       IF r \in upto(a) THEN EntryOf(r)' ELSE view[a][r]]]
        /\ answer' = [a \in Admins |-> [r \in Rows |->
                       IF r \in upto(a) THEN Unknown ELSE answer[a][r]]]
Counted(fresh) ==
    entries' = [a \in Admins |-> [r \in Rows |->
                   IF a \in admins /\ r \in fresh THEN entries[a][r] + 1 ELSE entries[a][r]]]

BroadcastNewOnly(S, fresh) == Sent(S \cap fresh) /\ Counted(fresh)   \* mutant
\* Every subscriber is sent the rows of S as they are after the step, those of
\* `fresh' as log.entry, the others as log.update.
Broadcast(S, fresh) == Sent(S) /\ Counted(fresh)

\* bus.emit(log.changed) of each row of S, through logChanged().  An attempt
\* followed by its verdict emits twice; the second frame has the last word.
LogChanged(S) ==
    /\ Broadcast(S, Introduces(S))
    /\ announced' = Announce(S)
    /\ missed' = missed \ S /\ renamed' = renamed \ S
    /\ UNCHANGED <<admins, from>>

Store(d, b) ==
    /\ next <= MaxRows
    /\ dir' = [dir EXCEPT ![next] = d]
    /\ biz' = [biz EXCEPT ![next] = b]
    /\ \E tick \in {0, 1} :
           at' = [at EXCEPT ![next] = IF next = 1 THEN 0 ELSE at[next - 1] + tick]
    /\ next' = next + 1
    /\ live' = live \cup {next}

\* enqueue() of one webhook of kind k for each row of S.
Queue(S, k) ==
    jobs' = [r \in Rows |-> IF r \in S THEN [jobs[r] EXCEPT ![k] = "pending"] ELSE jobs[r]]

\* lifecycle.accept() and lifecycle.inbound(): store, queue, announce.
NewMessage(d, b) ==
    /\ b \in registered /\ group # NoGroup
    /\ Store(d, b)
    /\ Queue({next}, IF d = "outbound" THEN "sent" ELSE "inbound")
    /\ UNCHANGED <<delivered, read, names>>
    /\ LogChanged({next})

\* A send that fails validation: logged, broadcast once, never announced.  It has
\* neither marks nor webhooks, and nothing is joined to it.
Rejected ==
    /\ Store("rejected", Nobody)
    /\ UNCHANGED <<delivered, read, jobs, names, admins, announced, from, gaps>>
    /\ Broadcast({next}, {next})

Queued == {r \in live \ delivered : dir[r] = "outbound"}

\* delivered() throws at the first message whose business is gone: which of the
\* others came before it depends on their conversations.
Announceable(S) ==
    IF \A r \in S : biz[r] \in registered THEN {S}
    ELSE SUBSET {r \in S : biz[r] \in registered}

\* lifecycle.delivered() of a live push, a flush or a claim: all marks first,
\* then webhook and announcement of one message after the other.
Deliver(S) ==
    /\ group # NoGroup
    /\ S # {} /\ S \subseteq Queued
    /\ delivered' = delivered \cup S
    /\ UNCHANGED <<dir, at, biz, next, live, read, names, admins, from>>
    /\ \E told \in Announceable(S) :
          /\ Queue(told, "delivered")
          /\ Broadcast(told, Introduces(told))
          /\ announced' = Announce(told)
          /\ missed' = IF admins = {} THEN {} ELSE (missed \ told) \cup (S \ told)
          /\ renamed' = renamed \ told

\* lifecycle.read() of a chat.
Read(b, S) ==
    /\ b \in registered /\ group # NoGroup
    /\ S # {} /\ S \subseteq {r \in (live \cap delivered) \ read : dir[r] = "outbound" /\ biz[r] = b}
    /\ read' = read \cup S
    /\ Queue(S, "read")
    /\ UNCHANGED <<dir, at, biz, next, live, delivered, names>>
    /\ LogChanged(S)

\* Mark-as-read by Comdove: announced, but no webhook.
MarkInboundRead(r) ==
    /\ r \in live \ read /\ dir[r] = "inbound" /\ biz[r] \in registered
    /\ read' = read \cup {r}
    /\ UNCHANGED <<dir, at, biz, next, live, delivered, jobs, names>>
    /\ LogChanged({r})

\* The job is under way, and the one before it in its message's line is over.
Due(r, k) ==
    /\ jobs[r][k] \in {"pending", "tried"}
    /\ k = "delivered" => jobs[r]["sent"] = "finished"
    /\ k = "read" => jobs[r]["delivered"] \in {"none", "finished"}

\* The dispatcher records an attempt, and perhaps a verdict (module Dispatcher).
Attempt(r, k, state) ==
    /\ Due(r, k)
    /\ jobs' = [jobs EXCEPT ![r][k] = state]
    /\ UNCHANGED <<dir, at, biz, next, live, delivered, read, names>>
    /\ LogChanged({r})

-----------------------------------------------------------------------------
\* The tables of the sockets of S are empty, and an answer on its way is dropped:
\* log.reset, or the socket is gone.  Every row there may be comes after that.
Forget(S) ==
    /\ view' = [a \in Admins |-> IF a \in S THEN Nothing ELSE view[a]]
    /\ answer' = [a \in Admins |-> IF a \in S THEN Nothing ELSE answer[a]]
    /\ entries' = [a \in Admins |-> IF a \in S THEN [r \in Rows |-> 0] ELSE entries[a]]
    /\ from' = [a \in Admins |-> IF a \in S THEN 1 ELSE from[a]]

\* admin.subscribe: the feed sends the lists (module Sessions), not the log.
Subscribe(a) ==
    /\ a \notin admins
    /\ admins' = admins \cup {a}
    /\ from' = [from EXCEPT ![a] = next]
    /\ UNCHANGED <<table, names, announced, view, entries, answer, gaps>>

\* The socket closes.
Unsubscribe(a) ==
    /\ a \in admins
    /\ admins' = admins \ {a}
    /\ Forget({a})
    /\ IF admins = {a} THEN missed' = {} /\ renamed' = {} ELSE UNCHANGED gaps
    /\ UNCHANGED <<table, names, announced>>

\* The limit of a query: a number is clamped, anything else is the default.
Clamp(raw) == IF raw < 1 THEN 1 ELSE IF raw > MaxLimit THEN MaxLimit ELSE raw
NotANumber == MaxLimit + 2
Limit(raw) == IF raw = NotANumber THEN DefaultLimit ELSE Clamp(raw)

\* ORDER BY time DESC LIMIT k: rows of one millisecond are in no order.
Newest(S, k) ==
    {T \in SUBSET S : /\ Cardinality(T) = (IF Cardinality(S) < k THEN Cardinality(S) ELSE k)
                      /\ \A r \in S \ T, t \in T : at[r] <= at[t]}

MergedUnsorted(m, r, k) == {T \in SUBSET (m \cup r) : m \subseteq T /\ Cardinality(T) <= k}  \* mutant
\* The newest k of both; a stable sort keeps messages before rejected requests.
Merged(m, r, k) == {T \in Newest(m \cup r, k) : \A x \in m \ T, y \in T \cap r : at[x] < at[y]}

\* What getLog(k) may answer.
LogAnswers(k) ==
    UNION {Merged(m, r, k) : m \in Newest(Messages, k), r \in Newest(live \ Messages, k)}

\* GET /api/log by a subscriber: the server reads; the answer is on its way.
GetLog(a, raw) ==
    /\ a \in admins /\ answer[a] = Nothing
    /\ \E rows \in LogAnswers(Limit(raw)) :
          answer' = [answer EXCEPT ![a] =
                        [r \in Rows |-> IF r \in rows \cap Messages THEN EntryOf(r) ELSE Unknown]]
    /\ UNCHANGED <<table, names, admins, announced, view, entries, from, gaps>>

\* The answer comes: the client lays it over its table, but for the messages of
\* which it has had a frame since it asked.
LogArrives(a) ==
    /\ answer[a] # Nothing
    /\ view' = [view EXCEPT ![a] =
                   [r \in Rows |-> IF answer[a][r] # Unknown THEN answer[a][r] ELSE @[r]]]
    /\ answer' = [answer EXCEPT ![a] = Nothing]
    /\ UNCHANGED <<table, names, admins, announced, entries, from, gaps>>

\* DELETE FROM messages, rejected_requests, webhook_jobs.
Empty ==
    /\ dir' = [r \in Rows |-> "none"] /\ at' = [r \in Rows |-> 0]
    /\ biz' = [r \in Rows |-> Nobody]
    /\ live' = {} /\ delivered' = {} /\ read' = {}
    /\ jobs' = [r \in Rows |-> [k \in Kinds |-> "none"]]

\* POST /reset: the tables are wiped, the feed starts afresh with log.reset.
Reset(keep) ==
    /\ Empty
    /\ IF keep THEN UNCHANGED names ELSE registered' = {} /\ group' = NoGroup
    /\ announced' = {}
    /\ Forget(admins)
    /\ missed' = {} /\ renamed' = {}
    /\ UNCHANGED <<next, admins>>

\* The process goes down and comes up: no sockets, an empty set of wamids.
Crash ==
    /\ admins' = {} /\ announced' = {}
    /\ Forget(Admins)
    /\ missed' = {} /\ renamed' = {}
    /\ UNCHANGED <<table, names>>

\* Numbers and groups come and go without a frame for the messages joined to them.
Renamed(S) == renamed' = IF admins = {} THEN {} ELSE renamed \cup (S \cap Messages)

RegisterBusiness(b) ==
    /\ b \notin registered
    /\ registered' = registered \cup {b}
    /\ Renamed({r \in Rows : biz[r] = b})
    /\ UNCHANGED <<table, group, feed, missed>>

DeleteBusiness(b) ==
    /\ b \in registered
    /\ registered' = registered \ {b}
    /\ Renamed({r \in Rows : biz[r] = b})
    /\ UNCHANGED <<table, group, feed, missed>>

CreateGroup(g) ==
    /\ group = NoGroup
    /\ group' = g
    /\ Renamed(Rows)
    /\ UNCHANGED <<table, registered, feed, missed>>

DeleteGroup ==
    /\ group # NoGroup
    /\ group' = NoGroup
    /\ Renamed(Rows)
    /\ UNCHANGED <<table, registered, feed, missed>>

Next ==
    \/ \E d \in {"outbound", "inbound"}, b \in Businesses : NewMessage(d, b)
    \/ Rejected
    \/ \E S \in SUBSET Rows : Deliver(S)
    \/ \E b \in Businesses, S \in SUBSET Rows : Read(b, S)
    \/ \E r \in Rows : MarkInboundRead(r)
    \/ \E r \in Rows, k \in Kinds, state \in {"tried", "finished"} : Attempt(r, k, state)
    \/ \E a \in Admins : Subscribe(a)
    \/ \E a \in Admins : Unsubscribe(a)
    \/ \E a \in Admins, raw \in 0 .. NotANumber : GetLog(a, raw)
    \/ \E a \in Admins : LogArrives(a)
    \/ \E keep \in BOOLEAN : Reset(keep)
    \/ Crash
    \/ \E b \in Businesses : RegisterBusiness(b)
    \/ \E b \in Businesses : DeleteBusiness(b)
    \/ \E g \in Groups : CreateGroup(g)
    \/ DeleteGroup

Spec == Init /\ [][Next]_vars

-----------------------------------------------------------------------------
\* What e shows of a message is what the database has.  Its business and its group
\* may be older: nothing is sent when a number or a group comes or goes.
Shows(e, r) ==
    \/ e = EntryOf(r)
    \/ /\ r \in renamed /\ e # Unknown
       /\ e.status = StatusOf(r) /\ e.webhooks = jobs[r]

\* A subscriber's table needs no second look at the log: every message that came
\* after it had subscribed is there, and each message it has, by frame or by an
\* answer however late, is shown as the database has it, unless the callback that
\* changed the message threw before it could announce it.  A message that a reset
\* has wiped is in no table.
ViewsCurrent ==
    /\ \A a \in admins, r \in Messages \ missed :
           (r >= from[a] \/ view[a][r] # Unknown) => Shows(view[a][r], r)
    /\ \A a \in Admins, r \in Rows : view[a][r] # Unknown => r \in Messages

\* log.entry introduces a row and log.update replaces one, whoever was listening
\* when: a socket is never told twice that a row is new, and a row that came
\* after the socket had subscribed is introduced before it is updated.
IntroducedOnce ==
    \A a \in admins, r \in live :
        /\ entries[a][r] <= 1
        /\ r >= from[a] => entries[a][r] = 1

\* GET /api/log cuts two lists, merges them and cuts again: whatever the limit,
\* the answer holds that many rows, if there are so many, and leaves out no row
\* that is newer than one it has.
LogIsNewest == \A k \in 1 .. MaxLimit : LogAnswers(k) \subseteq Newest(live, k)
===============================================================================
