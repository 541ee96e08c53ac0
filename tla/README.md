# Comdove fake backend: formal model

The repository is one Node process that stands in for Meta's WhatsApp Cloud API while
Comdove is developed against it. Comdove sends messages to it through Meta's
endpoints; a person plays the customers in browser tabs on `/ws`; what happens to each
message goes back to Comdove as signed webhooks; an admin page watches and controls it
all. State is in one SQLite file and in the process's maps.

This directory models that process in TLA+, checks the models with TLC and proves
properties of them with TLAPS. Source paths below are relative to the repository.

## 1. Inventory

| Part | Source | State | Operations |
|---|---|---|---|
| Webhook dispatcher | `src/webhooks/dispatcher.ts` | `queues`, `running`, `waiting`, `idleWaiters`, abort controller | `enqueue`, `resume`, `pump`, `runHead`, `idle`, `cancelAll` |
| Job store | `src/webhooks/job-store.ts` | tables `webhook_jobs`, `webhook_attempts` | `insert`, `addAttempt`, `finish`, `pending` |
| `/ws` server | `src/ws/server.ts` | `clients` with `alive` and the session | connect, frame, close, error, pong, heartbeat |
| Session | `src/ws/session.ts` | `role`, `closed` | claim, subscribe, the group frames, `send`, `close`, `disconnect` |
| Lock | `src/ws/lock.ts` | group → session | `claim`, `release`, `isLocked` |
| Session index | `src/ws/session-index.ts` | group → session | `add`, `remove`, `of` |
| Admin feed | `src/ws/admin-feed.ts` | `subscribers`, `announced` | `subscribe`, lists, `log.entry` / `log.update` |
| Live wiring | `src/live.ts` | none of its own | the hooks of claim, release, bus and reset |
| Registry | `src/core/registry.ts` | tables `business_numbers`, `groups`, `customers` (with the tile flags), `keyword_replies` | create/delete business and group, `reset`, lookups |
| Message lifecycle | `src/core/lifecycle.ts` | none of its own | `accept`, `delivered`, `read`, `inbound`, `markInboundRead` |
| Message store | `src/core/messages.ts` | tables `conversations`, `messages`, `rejected_requests` | `storeMessage`, `setDelivered`, `setRead`, `queuedFor`, `unreadDelivered`, `getLog` |
| Delivery | `src/core/delivery.ts` | auto-reply timers | `deliver`, `deliverQueued`, `flushTile` |
| Tile events | `src/ws/group-events.ts` | none (flags are columns of `customers`) | `message.send`, `chat.read`, `tile.presence`, `tile.autoreply` |
| Bus | `src/core/bus.ts` | none | turns lifecycle events into frames of tabs and admins |
| Snapshot | `src/ws/store-groups.ts` | none | history, queue and unread counts of each tile, sent with `group.claimed` and at a reset |
| Meta face | `src/meta/*.ts`, `src/meta-face.ts` | none | the send endpoint and its validation |
| Control API | `src/api/*.ts` | none | the HTTP routes of the admin page |
| Auto-reply | `src/core/autoreply.ts` | none | `pickReply`, `computeReply` |
| Contract | `src/contract/*.ts` | none | the frame parser, types and name lists |
| Envelopes, signing, handshake | `src/webhooks/*.ts` | none | pure functions, or one stateless exchange |

**How they interact.** The send endpoint answers 200 and calls `deliver` in the
response's `finish` event. `deliver` asks the session index for the session of the
tile's group and the registry for the tile's flag, pushes the bubble, and calls the
lifecycle, which writes the store and then enqueues a webhook. The dispatcher writes a
job row and pumps. Sessions call the lock, the index, delivery and the admin feed
through hooks. Routes publish on the live engine, which sends the admins
`groups.update` and `numbers.update`. A reset cancels the dispatcher, wipes the
tables, and refreshes or disconnects the sessions in one handler.

**What is hard.** Node runs one callback at a time, so there are no data races. The
difficulty lies between callbacks and within those that throw:

* the dispatcher keeps four structures in step with each other and with a table, over
  timers, fetch answers, resets and restarts;
* a claim, a close, a heartbeat, a reset and a socket error may come in any order, and
  four tables must stay in step;
* `deliver` runs after the answer, so a claim, a flush, a reset or a crash may fall
  between acceptance and delivery;
* several handlers change memory or tables first and may throw later;
* what a browser shows is put together from a snapshot or a GET and from the frames
  sent since, by the same wamid, over resets and reconnects.

**What makes each part correct.** Dispatcher: per conversation, webhooks reach Comdove
in order, at least once, each with one verdict, and never stall; the pool is used
fully. Sessions: one active session per group, the lock, the index and the roles
agree, a dead browser releases, the admins' lists are current. Delivery and lifecycle:
every reachable message becomes delivered, one webhook per transition, statuses only
advance, and the tab shows each message. Registry: ids are not reused while they still
mean something, a number plays one part only, and locked groups are kept. Feed: a
first entry per message comes before its updates, and an admin's table keeps up with
the database. Tab: every tick is current, and claiming again would show nothing but
what is withheld. Requests: the errors come in the documented order, but for two
departures that are named, and what is accepted fits the layers below.

`PROJECT.json` lists every component with its status and every hazard with its line.

## 2. Plan

The order was that of importance: first the core, whose interleavings are the hardest
to test, then what feeds it and what watches it.

| Module | Models | Proofs |
|---|---|---|
| `Dispatcher` | dispatcher, job store, boot | `DispatcherProofs` |
| `WebhookStream` | what the dispatcher promises, abstractly | `DispatcherProofs` (refinement) |
| `Sessions` | sockets, sessions, lock, index, the feed's lists, the group part of the registry | `SessionsProofs` |
| `Delivery` | send endpoint, lifecycle, store, delivery, tile flags, timers, step by step | `DeliveryProofs` |
| `EndToEnd` | `Delivery` on top of `WebhookStream`: what Comdove may conclude | `ServerProofs` |
| `Server` | `Delivery` on top of `Dispatcher`: the process as it runs | `ServerProofs` (refinement) |
| `Registry` | numbers, `phone_number_id`, groups and tiles, under which id a message is filed | `RegistryProofs` |
| `Requests` | send validation, errors, frame parser, auto-reply route, choice of an auto-reply | `RequestsProofs` |
| `AdminLog` | `GET /api/log`, `log.entry`, `log.update`, `log.reset`, the set `announced` | `AdminLogProofs` |
| `Tab` | snapshot, bubbles, ticks, flush and tile frames as a tab puts them together | `TabProofs` |

`MC<module>` instantiates each for TLC, with one `.cfg` per run.

**How they compose.** `Delivery` hands its webhooks to a sequence `outbox` in the
order of `enqueue`; `Dispatcher` starts from `enqueue`. `Server` puts the two together
as `composeServer()` does, and `EndToEnd` puts `Delivery` on the abstract stream that
the dispatcher promises (section 6). The chain, each arrow proved for all values of
the constants:

* `Server` => `Dispatch!Spec` => `ImplementsStream` (the dispatcher inside the
  server);
* `Server` => `System` => `Spec` of `Delivery` (the messages inside the server);
* `Server` => `System` => `Stream!Spec` and `ComdoveFollows` (the two together).

`Sessions` and `Delivery` meet at the hooks `onClaim` and `onRelease`, `Registry` and
`Sessions` at the lock table (`Lock` and `Unlock` are what the sessions do to it).
`AdminLog` and `Tab` are views of the state that `Delivery` and `Dispatcher` change:
they take each callback as one action, with the outcomes (all announced, or some and
then a throw) that `Delivery` finds by steps, and add what the browser was sent. For
the sessions `LockMatchesRole` already says what an abstract lock service would.

## 3. Dispatcher

### State and actions

`conv`, `state`, `tries` and `nextId` are the two tables. `queues`, `running` and
`waiting` are the dispatcher's own. `phase[c]` and `n[c]` are the program counter and
the loop variable of the one `runHead` a conversation may have. `held` marks the
queued jobs whose `notBefore` still lies ahead. `received` and `late` stand for
Comdove: it may take a POST after the sender has given it up. `sent` is history, and
so is `dropped`: the jobs that a failed store write has taken out of their queue.

An action is everything between two awaits. `Push` is `push()` with its `pump()`;
`Release` is the `finally` block of the task with `pump`, the waiting line and
`settleIdle()`. The boot loop of `resume()` is cut in one action per row (`Resume`,
`BootDone`); while `mode = "booting"` no other action of the process is enabled, so
the cut adds no behaviour. The loop at the end of the `finally` block is replaced by
one admission (`Heir`), which is right because nobody waits while a slot is free;
`SlotsFullWhenWaiting` states that, the runs check it and `SlotsHold` proves it.

A crash may fall between the attempt row and the verdict (`torn`). A store write may
throw (`StoreWriteFails`): the job leaves its queue without a verdict, its row stays
pending, and the next boot sends it again.

### Runs

| Run | Instance | Shows |
|---|---|---|
| `dispatcher_safety` | 2 conversations, 1 slot, 3 jobs, 2 attempts, 1 crash, 1 store error | nobody in line is forgotten (`NobodyLost`) and no slot is idle meanwhile (`SlotsFullWhenWaiting`); memory and table agree (`QueuesMirrorStore`); order (`NoOvertaking`, `FirstReceiptInOrder`); no verdict without its reason (`VerdictsEarned`); the dispatcher implements `WebhookStream` (`ImplementsStream`) |
| `dispatcher_service` | 2 conversations, 1 slot, 2 jobs, 2 attempts, 1 crash, 1 store error, with fairness | each job settles unless a failed write drops it (`EveryJobSettles`), `idle()` resolves (`IdleResolves`) |

**Refinement.** `WebhookStream` knows jobs, conversations, verdicts and three sets:
the jobs that Comdove has been offered, those it has taken, and those whose verdict
could not be written. A job is offered only as the first of its conversation without a
verdict, `ok` is said only of a job that was taken. The mapping is direct: `conv`,
`state` as the verdicts, `sent` as what was offered, `received` as what was taken,
`dropped` as it is. Slots, queues, sleeps, backoffs, retries, crashes and the boot are
stutters, or offers. The stream is honest about failed store writes: a job whose
verdict could not be written is dropped, later jobs of its conversation pass it, and
it may still get its verdict after a boot. No other job ever loses its place.

Why these bounds are enough: order between jobs of one conversation needs two jobs,
competition for a slot a second conversation and a third job. One crash and one failed
write each fall at every point of the run. Two attempts give a backoff and a last
attempt. With one slot, two conversations already make the line of those waiting for
it; longer lines and more slots are covered by the proofs, which hold for any number
of either.

**Fairness.** `SleepEnds` and `BackoffEnds` are `setTimeout` callbacks. `AttemptEnds`
is fair because each fetch carries a timeout (`src/webhooks/dispatcher.ts:115`): an
attempt ends whatever Comdove does. `Resume` and `BootDone` are fair because the
service restarts always (`infra/server/user_data.sh.tftpl:90`) and the loop is
synchronous. Enqueues, resets, late POSTs and crashes are not fair. Nothing is assumed
of Comdove.

### Proofs

`DispatcherProofs` proves for any number of conversations, slots, attempts, jobs,
crashes and failed store writes.

* `TypeCorrect`, `NobodyLostHolds`, `SlotsHold` and `NoStrandedIdleHolds` follow from
  one inductive invariant, the slot accounting (`IInv`): the queues that are not empty
  are those of conversations running or in line, no conversation is in both, the line
  has no duplicates, and somebody in line means a full pool. `NobodyLost` alone is not
  inductive: `Heir` admits one conversation only, which is right only while the pool
  was full.
* `QueuesMirrorStoreHolds` and `NoOvertakingHolds` add (`JInv`) that queues are
  sorted, hold pending jobs of their own conversation and all of those but the dropped
  ones, and that what has been sent is a head, settled or dropped.
* `FirstReceiptInOrderHolds`: what Comdove has taken, or may still take late, was
  sent, and what was sent is ordered (`WireInv`).
* `VerdictsEarnedHolds`: the invariant counts attempts. Those recorded for the job a
  task is at are as many as its loop has made in this process life, plus at most what
  the crashes so far account for (`Budget`), since a boot starts the loop of a pending
  job anew; a job that waits in its queue has no more than that budget. Without the
  second half the bound is not inductive. A dropped job comes back only through a
  boot, so its earlier attempts are within the budget of the crash.
* `VerdictsFinalHolds`: a verdict changes only when a reset wipes its row.
* `ImplementsStreamHolds`: the refinement above, one lemma per action of the stream.
  What it takes from the invariants is gathered in `Sound`.

## 4. Sessions

### State and actions

`sock` is the state of the socket and `peer` whether the browser is there. `alive`,
`role`, `closed`, `lock` and `index` are the code's. `feed` is the set of subscribers.
`shown[a]` is the last pair of lists sent to admin `a`, so that staleness can be
stated. `missed` is history: a lock changed with no list sent. `actor` is history: who
last acted on a tile.

A socket is used once: a browser that reconnects is another member of `Conns`.
`closing` is a socket that the server has asked to close while the peer's frames still
come in; `ending` one that only has its close event left. Of the `ws` library three
things are assumed: frames may still arrive while CLOSING, none after an error, and
every terminated, failed or closed socket reports `close` in the end (`ws` has a close
timeout).

`Claim` is one action with the outcome `ok`: when `deliverQueued` throws, lock, role
and index stay set and the lists are not sent.

### Runs

| Run | Instance | Shows |
|---|---|---|
| `sessions_safety` | 2 groups, 2 sockets, crashes and resets without bound, with fairness | lock, index and roles agree (`LockMatchesRole`, `IndexMirrorsLock`, `LockedGroupsExist`), no lock is stuck (`NeverWedged`), admins see the lists as they are (`AdminListsCurrent`), frames of an open socket act under the lock (`OpenSessionActsAsHolder`), a dead browser releases its group (`DeadPeerReleases`) |
| `sessions_oneactive` | 1 group, 2 sockets | counterexample, see findings |

The state space is finite without bounds: each socket connects once. Two sockets are
two rivals, or a tab and an admin, in any order; two groups let a reset, a delete and
a claim concern different groups. The proofs hold for any number of both.

**Fairness.** The heartbeat is a `setInterval` (`src/ws/server.ts`), and
`SocketCloses` is the assumption on `ws` above. Frames, pongs and peers are not fair.

### Proofs

`SessionsProofs` proves for any set of groups and sockets: `SessionTypesCorrect`,
`LockMatchesRoleHolds`, `IndexMirrorsLockHolds`, `LockedGroupsExistHolds`,
`FeedIsOpenAdminsHolds`, `NeverWedgedHolds`, `AdminListsCurrentHolds`,
`OpenSessionActsAsHolderHolds`. The inductive invariant `SInv` is the conjunction of
the first five and `SocketsAgree`: a closed session has a socket that is closing,
ending or gone, and a gone socket has a closed session. Without it a close event could
come from a session that still holds a lock, or a lock could belong to a socket that
will report nothing.

## 5. Delivery

### State and actions

`dir`, `bizOf`, `tileOf`, `live`, `delivered` and `read` are the columns of `messages`
and `conversations`; a message is a number in the order of storing, which within a
conversation is its `seq`. `outbox` is `webhook_jobs` in the order of its ids.
`awaiting` are the messages whose answer has not fired `finish`. `timers[m]` counts
the auto-reply timers that `m` has started. `session` is the entry of the group in the
index, `ending` when its socket is no longer open (frames sent to it are dropped).
`pushes[m]` counts the bubbles that the current tab has got for `m`. One group stands
for all, because groups share no tile, no session and no conversation. A snapshot has
the whole queue of a tile and of its history the newest `HistoryLimit`, the code's
`SNAPSHOT_HISTORY_PER_TILE` (`Past`, `Slices`); messages of two conversations may bear
the same time, so they are in no order. `lost` and `missed` are history: webhooks that
a throw or a crash took, and the messages that the running session has been left
without, because their answer was aborted or the claim threw before it came to them.

A chat is marked as read by the session of an open socket here; that a closing one
still acts, and what comes of it, is the subject of `Sessions`
(`OpenSessionActsAsHolder` and the first finding).

Most callbacks change a table and then queue webhooks one by one. Each of those is a
step, for two reasons: `queueStatus` throws when the message's business number was
deleted, and the process may die in between. `call` is what the running callback has
left to do: messages still owed a webhook (`todo`), the batch whose auto-replies
follow (`batch`), the tiles still to be looked at (`tiles`). While it runs, only
`Crash` may come in between.

`QueueThrows` has two outcomes. A `/ws` frame or a route catches the exception and
drops the rest of the call. In the `finish` listener nobody catches it and the process
ends (`Restart`); `src/` installs no handler for uncaught exceptions.

### Runs

| Run | Instance | Shows |
|---|---|---|
| `delivery_tiles` | 1 business, 2 tiles, 2 messages, a history of 1, within the bound `Short`, with fairness | webhooks are queued in order, also those of two messages of one conversation (`OutboxInOrder`), a claim that goes from tile to tile delivers to those online and to no other (`DeliveredOnlyOnline`), the tab is complete but for the cut (`TabComplete`), nobody is stranded (`NobodyStranded`), a reachable message is delivered (`ReachableGetsDelivered`) |
| `delivery_onewebhook` | 2 businesses, 1 tile, 2 messages | counterexample, see findings |
| `delivery_bubbletwice` | 1 business, 1 tile, 2 messages | counterexample, see findings |

The other safety properties of this module (`WebhooksMatchTransitions`,
`RepliesAnswerDelivered`, `WipedStaysWiped`) are checked where all of the server runs,
in `server` (section 6): two messages there are enough for a throw that takes a second
message with it, two businesses for a throw whose rest is still fine. There a crash
can fall at every step, and tiles reply by themselves at any time. `delivery_tiles` is
bounded in both (the constraint `Short`: a crash is the last thing to happen, and one
tile replies by itself, until there are two messages), so that it can have two
messages, which may be of one conversation or of two. A history of 1 stands for one of
50: with two messages of a tile the cut leaves one out. Resets, deletes, claims,
toggles and socket losses are not bounded. What grows (ids, timers, pushes) grows with
messages.

**Fairness.** A callback runs to its end (`QueueWebhook`, `QueueThrows`, `BatchEnds`,
`NextTile`): nothing can stop it. `Finish` is strongly fair: it waits for the event
loop, which other callbacks take in turn. That an answer may never finish is a step of
its own, `AnswerAborted`. Claims and presence are not fair.

### What holds

The webhooks in the table, those the running call owes and those a throw or crash took
with it are exactly the transitions of the stored messages, each once. Comdove hears
of a message before its `delivered` and of that before its `read`, and of the messages
of a conversation in their order. An open tab has every delivered message and every
reply, unless `HistoryLimit` others of the tile that are not older are there
(`CutOff`): nothing but the cut of its snapshot keeps a message from it. Whoever can
be reached has no queued message but those whose answer is under way or in `missed`; a
new claim, or the tile coming online, empties that.

### Proofs

`DeliveryProofs` proves the type invariant and every safety property of the module for
any number of businesses, tiles, messages and crashes. The base is `Shape`, true of
every message (ids lie below `next`; what is delivered or read is stored; a session
has its group), of the running call and of what it owes. On it rest

* `WebhooksMatchTransitionsHolds`: with `Shape` the property is inductive.
  `OutboxInOrderHolds` follows from it, one appended webhook at a time
  (`NextWebhook`).
* `TabCompleteHolds` and `NobodyStrandedHolds`: a claim shows and delivers tile after
  tile, so in mid-call neither holds of the tiles still to come. `Shown` and `Covered`
  say what holds in between: a tile is finished or still in `call.tiles`, a message of
  a live push is in `call.batch`. `SnapshotShows` gets `CutOff` from the cut, and
  `CutOffStays` says that later messages do not undo it.
* `RepliesAnswerDeliveredHolds`, `DeliveredOnlyOnlineHolds`, `WipedStaysWipedHolds`,
  from `Shape` alone.

That a query returns each message once and in order is a lemma (`InOrder`).

## 6. The server as a whole

### State and actions

Two questions need both halves. Comdove's: what may it conclude from a webhook it
gets? The order of a conversation is made in two places, by the lifecycle as its
handlers run and by the dispatcher, so neither half can answer. And the wiring's: does
the dispatcher, inside the server, still get the use that its own proofs assume, and
the server what it assumes of the dispatcher?

`EndToEnd` (`System`) puts the messages of `Delivery` on the stream. A webhook of
`outbox` is row `wiped + p` of `webhook_jobs`; `wiped` counts the ids that resets have
used up, since the column is `AUTOINCREMENT`. For the same reason a conversation is
its business, its tile and the value of `wiped` it was made under: after a reset the
same two numbers make another conversation, with another id.

`Server` has the real dispatcher in that place (`Dispatch`, an instance of
`Dispatcher`), with its queues, slots, sleeps, attempts, retries and its boot. One
event loop runs both: `ServerEnqueues` is `enqueue()` inside a callback, and only
`accept()` gives its webhook a `notBefore` (`Holds`); `DispatcherWorks` are timers and
answers between callbacks; `ServerResets` cancels, wipes and refreshes in one handler;
`ServerDies` takes both down, be it a crash or an exception in a `finish` listener,
after which nothing is served before the boot loop has run. Only tests call `idle()`,
so the composition never does.

`ComdoveFollows` says what may be concluded from a webhook about a message that is not
wiped: the message made that transition; Comdove was told before of the message's
earlier transitions and of every earlier message of its conversation. Told means heard
of, or refused until the attempts ran out, or its webhook went down: with a call that
threw or a crash before it was queued, or with a verdict that could not be written.

### Run

| Run | Instance | Shows |
|---|---|---|
| `server` | 2 businesses, 1 tile, 2 messages, a history of 2, 3 jobs, 2 slots, 1 attempt, 1 crash | webhooks are the transitions, each once (`WebhooksMatchTransitions`); auto-replies answer what was delivered (`RepliesAnswerDelivered`); a wiped message returns through a late `finish` only (`WipedStaysWiped`); Comdove's conclusions (`ComdoveFollows`); the server implements `System` (`ImplementsSystem`) |

Three jobs are two messages of one conversation and a third webhook that follows or
overtakes. With two slots two conversations are under way at once, so an identity of
conversations that is too fine is found out. With one attempt a POST is taken, late,
or refused for good; retries and failed store writes are in `dispatcher_safety`, and
the proofs have both here too. A callback begins only while ids are left for a webhook
of every message (`IdsLeft`), and one that an exception would end with the process
only while a restart is left: no call is cut short by a bound.

### Proofs

`ServerProofs`, for any businesses, tiles, messages, slots, attempts, crashes, store
errors and jobs:

* `SystemImplementsDelivery`: `System` hides nothing from `Delivery`, so every theorem
  of section 5 holds of it.
* `SystemKeepsToStream`: the server uses the stream as it may. `Linked` ties the rows
  to the stream: the ids handed out are those of `wiped` and `outbox`, each with the
  conversation of its message, and what is older has been wiped.
* `ComdoveFollowsHolds`: `ComdoveInv` joins the order of the stream (`InStreamOrder`:
  what was taken was offered, and what is older in its conversation has its verdict or
  was dropped) with that of the outbox (`OutboxInOrder`), and adds
  `IntroductionsFirst`: whatever is queued before the first webhook of a message is
  about an older one.
* `ServerRunsDispatcher`: every step of `Server` is one of `Dispatcher`, or none, so
  the theorems of section 3 hold of the dispatcher in the server.
* `ImplementsSystemHolds`: step by step, `Server` refines `System`. The refinement
  needs what both halves know of themselves (`Known`) and that the next id of the
  table is the next row of the outbox (`Numbered`).
* `ServerComdoveFollows` combines the two: what Comdove may conclude from the server
  with its slots, retries, late POSTs, restarts and failed writes.

## 7. Registry and requests

### State and actions

`Registry` has the tables of the registry as functions: `businesses`
(`phone_number_id` to display number), `groups`, `customers` (number to group), and
`rules`, the customers with keyword rules. `locked` is the lock table as
`deleteGroup()` reads it. `messages` has one row for all messages that agree in
`phone_number_id`, customer and business number. `chosen` and `handed` are history:
the `MOCK-PN` ids that callers supplied and those that were generated.

An id `MOCK-PN-n` is the number `n`, any other id a model value; that a caller may
supply a digit string, which may be another's display number, is kept by taking the
numbers themselves among the supplied ids. Slugs are a function from names to ids
(`Slug`), so two names may collide. `Find` is `getBusiness()`: of its two terms SQLite
answers the first from its index first. `digitsOnly()` is left out, as numbers come
cleaned; an id with other characters whose digits happen to be a number of eight
digits or more is not among the supplied ids.

`Requests` takes one request at a time: `Answer` is the send endpoint, the body parser
with its error handler and then `Validate`, the pipeline; `ParseClientEvent` and
`PutAutoReply` are the parser of the frames and the route that shares it. A request is
a record of what the code tests for; the registry is fixed, and what an accepted
request does is left to the other modules. `AcceptedInputFits` compares the parser
with the limits of the lifecycle and the CHECKs of the schema.

`PipelineOrder` compares the nested tests with the numbered list at the head of
`src/meta/validate.ts`, which is that of `docs/BACKEND-BUILD-PLAN.md:365-373`:
`FailsStep` is the list as it is written. The code departs from it in two ways, which
the property names, so that a pass says that there is no third.

* Step 5 of the list is for texts, and the plan (line 415) refuses every other type;
  the code accepts templates, and a comment there says so (`validate.ts:71`). `AsText`
  takes a template for the text that is made of it. So the head of `validate.ts`, the
  plan and `docs/WS-345-seed-broadcast-harness.md:324` are out of date on this point.
* The list has "Body is JSON" in step 3. A body that `express.json()` cannot parse
  never gets to `validate()`: it is refused before step 0, even when the header asks
  for another error or the number is unknown, and the refusal is not in the admin log
  (`meta/messages.route.ts:33,71`). A body of another content type or a JSON array
  does get there, and fails in step 3.

`ComputeReply` is the choice of an auto-reply and `Replied` what becomes of it:
`RepliesAsConfigured` says that the first rule that matches, or the echo, is said to
the letter, and that a tile is silent only when nothing is due or what is due does not
fit. Neither a rule's reply nor the text of a template has a limit of its own, so one
longer than 4096 characters ends in silence (the timer catches and logs the error,
`src/core/delivery.ts`).

### Runs

| Run | Instance | Shows |
|---|---|---|
| `registry_safety` | 3 numbers, 3 names, 2 group ids, 2 businesses, `MOCK-PN-1` and `-2`, 2 message rows | no number plays two parts (`NumbersDisjoint`), no customer, rule or group is left over (`NoOrphans`), a `phone_number_id` keeps its business while it has conversations (`OneBusinessPerConversation`), a message is filed under its own business (`FiledUnlessAmbiguous`) |
| `requests` | 2 businesses, one under the number of the other, 1 customer, every combination of the fields tested | `PipelineOrder`, `AcceptedInputFits`, `RepliesAsConfigured` |

Three numbers are two businesses and a customer, or a group of two and a business. A
supplied id may be `MOCK-PN-1` or one of the numbers. Two rows are what
`OneBusinessPerConversation` compares. Deletes, locks, rules and resets are not
bounded.

### Proofs

`RegistryProofs` proves for any numbers, names, ids and bounds: `TablesTyped`,
`DisjointAlways`, `NoOrphansEver`, `ConversationsKeepTheirBusiness`, `LockedTilesStay`
and `FiledRight`. The assumptions are that a number is never of the form `MOCK-PN-n`
and that `NoId` is neither a number nor an id. The inductive invariant `RInv` adds two
facts to the checked ones: a locked group exists, without which a new group could take
over a lock, and a row under a generated id bears the number registered under that id,
if any (`RowsMatchTable`), without which the next message could meet an older one of
another business.

`RequestsProofs` proves `PipelineOrderHolds`, `AcceptedInputFitsHolds` and
`RepliesAsConfiguredHolds` for any businesses, customers and messages. The invariant
`Answered` says that the answer at hand is the operator's for the request at hand; the
rest is about the operators. Nothing is assumed of the registry, where an id that a
client supplied may be another business's number (the second business of the run has
such an id): `AbsentAssumption` only keeps the value for "nothing found" apart from
the ids.

## 8. The admin log

### State and actions

A row of `AdminLog` is a message or a rejected request. What a message shows is its
status and its webhooks, and, joined when it is read, its business and its customer's
group (`EntryOf`). `dir`, `at`, `biz`, `live`, `delivered`, `read` and `jobs` are the
tables of the messages; the clock does not go back, and two rows may bear the same
millisecond. `registered` and `group` are what is joined: one customer stands for all,
in one group or in none. `admins` and `announced` are the feed's.

An admin's page is external. It keeps a table by wamid (`view[a]`), as
`docs/TESTING-P1.md:285-290` asks: `log.entry` and `log.update` put a message in it,
and the answer of `GET /api/log`, "the initial load + fallback"
(`docs/UI-API-GUIDE.md:110`), is laid over it. That answer comes on another
connection. `GetLog` is the server's read, `answer[a]` what is on its way and
`LogArrives` its arrival, with any frames in between. Of the page this is assumed: it
subscribes before it asks, it has one request under way at a time, it keeps a frame
over an answer that it had asked for before the frame came, and at `log.reset` it
forgets its table and the answer to come. A page that lays a late answer over a newer
frame shows an old row, and nothing the server does would mend it. Frames themselves
arrive at once, since they come in order on one socket.

A rejected request has no wamid: it is broadcast once, never announced, never updated,
in no table, and only the number of its `log.entry` frames is kept (`entries`).

`missed` and `renamed` are history. In `missed` are the messages whose callback threw
before it could announce them. In `renamed` are those whose business or group came or
went after they were last announced: `deleteBusinessNumber()` and `deleteGroup()` send
the admins the new lists, but no frame for the log, so the names in a row that is on
screen may be old until its next frame. `ViewsCurrent` says that these two are the
only ways to be behind, and that the second concerns nothing but the names. Both are
kept only while somebody listens.

### Run

| Run | Instance | Shows |
|---|---|---|
| `adminlog` | 1 admin, 2 businesses, 1 group, 2 rows, limits 1 and 2 | a table needs no second look at the log (`ViewsCurrent`), each row is introduced once and before its updates (`IntroducedOnce`), cutting two lists, merging and cutting again loses no newer row (`LogIsNewest`) |

Admins share nothing but `announced`, so one that comes and goes meets what it missed
while away; two businesses let one throw and one announce. `DEFAULT_LOG_LIMIT` is 1
and `MAX_LOG_LIMIT` 2, so that a limit cuts, and every raw value of the query below,
at and above them is tried. The constraint `Short` bounds the rest: TLC does not go on
from a verdict but of the first message's `sent`, from an attempt without a verdict, a
read, or the end of a group that has messages (each of these still is taken, at any
point, and its result checked), nor from an answer that holds both messages.
Deliveries, GETs, resets, crashes and the coming and going of numbers are bounded by
the rows only.

### Proofs

`AdminLogProofs`, for any sockets, businesses, groups, rows and limits: `LogTyped`,
`ViewsCurrentHolds`, `IntroducedOnceHolds`. `LInv` adds that a socket outside the feed
has an empty table and no answer to come, that nothing is announced or owed for a row
that is not stored, that a row not announced was introduced to nobody
(`NewIsUnannounced`), and that an answer on its way holds nothing older than a table
may hold (`AnswersCurrent`): a change of a message takes it out of the answer by its
frame, or puts it in `missed` or `renamed`. `NewIsUnannounced` is what makes
`announced`, one set for all sockets, sufficient. `LogIsNewestHolds` needs no
invariant but the types: it is about the cut, with cardinalities.

## 9. The tab

### State and actions

`Tab` is one tile of a claimed group as its browser shows it. The tab is external: it
keys bubbles by wamid, starts from each snapshot, adds the bubbles it is sent and puts
each tick on its bubble, as the events' contract asks. The tables are those of
`Delivery`; a callback is one action here. A snapshot has the newest
`SNAPSHOT_HISTORY_PER_TILE` messages of the history and the whole queue (`Slices`);
messages that tie in time and place are in no order. `missed` is history: the messages
whose answer was aborted since the group was claimed or the tile came online. So is
`stale`: the bubbles whose last tick the server never sends, because `deliver()`
pushed them as `sent` after a claim or a flush had delivered them, or because their
business was deleted and the announcement threw. `FinishThrows` is the `finish`
listener in which nobody catches that, and the process ends. Unread counts are left
out.

### Run

| Run | Instance | Shows |
|---|---|---|
| `tab` | 2 businesses, 2 messages, a history of 1 | every tick is current (`BubblesCurrent`); claiming again would add nothing but queued messages that are withheld (`ReclaimAddsOnlyWithheld`) |

A history of 1 stands for one of 50: with two messages the cut already leaves one out.
Two businesses are two conversations of one tile, one of which may lose its number.
Claims, resets, presence, reads and crashes are not bounded.

A claim shows the newest of the history and the whole queue, and
`ReclaimAddsOnlyWithheld` covers both. An open tab lacks nothing of the history slice.
Of the queue it lacks only what is withheld from it (`Withheld`): the messages of an
offline tile, and those whose answer is to come or was aborted. What it has bears the
status that a claim would show, but for the bubbles in `stale`.

### Proofs

`TabProofs` proves both properties for any businesses, history and number of messages.

* `BubblesCurrentHolds`: `TInv` adds `Facts`: nothing is known, awaited or shown of a
  message before it is stored, and an outbound message is read only when delivered.
* `ReclaimAddsOnlyWithheldHolds`: `Kept` says that the bubbles of some slice of the
  history are there. The history grows by what was delivered or sent, and all of that
  is shown; `CutGrows` shows that the newest of the grown history are then among what
  was there and what was added. That a finite set, under an order with ties, has a cut
  at all (`CutExists`) is proved with a minimal set of what is left over, since the
  subsets of a finite set are well-founded; this takes the place of an induction.
  `QueueExplained` is the part about the queue.

## 10. Findings

* **Two sessions may act on one group** (`sessions_oneactive`). `disconnect()` closes
  a session but leaves its role. After a reset that wipes the groups, and a new group
  with the old name, frames still in flight from the old tab are handled.
* **A deleted business number costs other messages their webhooks**
  (`delivery_onewebhook`). `delivered()` marks the whole batch, then throws at the
  first message of the deleted number. The rest is delivered and never announced: the
  trace deletes one of two numbers, and a message of the other loses its webhook. From
  a `finish` listener the exception ends the process. A crash between the two steps
  has the same effect on the webhooks.
* **A message may be shown and answered twice** (`delivery_bubbletwice`). A claim, or
  a tile coming online, between a send and its `finish` delivers the message;
  `deliver()` then pushes it again and starts a second auto-reply. The webhook is not
  doubled (`Fresh`).

Behaviours that the models contain and no run singles out: a conversation with more to
send keeps its slot, since `pump(cid)` runs before the line is served
(`src/webhooks/dispatcher.ts:166`; each job still settles, as traffic is finite in a
run); a claim whose queue delivery throws leaves the group locked with no list sent to
the admins (`missed`, `src/live.ts:123`); two sends on two connections are delivered
in the order in which their answers finish (`Finish`); a message whose business's
display number was given to another business as `phone_number_id` is filed under that
other one (`Filed`, the case that `FiledUnlessAmbiguous` leaves out,
`src/core/messages.ts:55`); a frame dropped while the socket closes counts as
delivered (`session` is `ending`); an answer that is aborted strands its message until
the next claim or presence change (`AnswerAborted`, `missed`); a number or a group
that is deleted stays in the rows of the admins' logs until their next frame
(`renamed`); templates are accepted where the documents know texts only, and malformed
JSON is refused before every documented step (`PipelineOrder`, section 7); the
`finish` listener of a send survives a reset and may push a wiped message into a fresh
tab (`WipedStaysWiped` names it as the one way back); a generated `phone_number_id`
may come back: once it is deleted, the highest id is free again if no conversation
bears it (`RegisterGenerated`).

## 11. Limits

**Model-checked only**: liveness (`EveryJobSettles`, `IdleResolves`,
`DeadPeerReleases`, `ReachableGetsDelivered`), since TLAPS does not reach liveness
under fairness. Every other property of a passing run is proved for all values of the
constants. The type invariants of `Delivery` and `Registry` are proved and no run
repeats them. The three counterexamples are TLC's.

**Bounds.** `MaxJobs`, `MaxMsgs`, `MaxRows`, `MaxMessages`, `MaxMock`, `MaxCrashes`,
`MaxRestarts` and `MaxStoreErrors` are bounds of the models, not of the program.
`MaxParallel`, `MaxAttempts`, `MaxBusinesses`, `MaxGroupSize`, `HistoryLimit`,
`DefaultLimit` and `MaxLimit` are the program's own limits, made small. The proofs
leave all of them open, and know nothing of the constraints `Short` (sections 5 and 8)
that two runs add.

**Not modelled**:

* envelopes, signing and the webhook handshake: formatting, an HMAC and one stateless
  exchange;
* the development stand-ins and tools (`src/dev`, `tools`): doubles for tests and
  scripts run by hand against the server;
* infrastructure (Terraform and shell), but for the service's restart;
* reading the environment, mount order, the API description, HTTP parsing, text and
  layout of messages, unread counts, labels of businesses in log entries. They keep no
  state that the properties could tell apart.

A task of the dispatcher that a reset has aborted is dropped by the model at once. In
the code it ends later and finds new maps and nothing of its own: conversation ids are
not reused (`AUTOINCREMENT`). SQLite is taken to be atomic per statement, which is
what `better-sqlite3` gives in one process.
