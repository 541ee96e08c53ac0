------------------------------ MODULE Dispatcher ------------------------------
(***************************************************************************)
(* The outgoing webhook dispatcher (webhooks/dispatcher.ts) on top of the   *)
(* SQLite job store (webhooks/job-store.ts).                                *)
(*                                                                         *)
(* Every conversation owns a FIFO queue of jobs; at most MaxParallel        *)
(* conversations have a task ("runHead") at a time, the others with work    *)
(* stand in `waiting'.  A task sleeps until its job's notBefore, POSTs the  *)
(* job to Comdove up to MaxAttempts times with a backoff in between, records*)
(* each attempt and finally the verdict.                                    *)
(*                                                                         *)
(* Node runs one callback at a time, so an action here is everything the    *)
(* code does between two awaits: the callbacks that interleave are timers,  *)
(* fetch answers, enqueues, resets, and the crash of the process, which     *)
(* keeps the job rows and loses everything else.                            *)
(***************************************************************************)
EXTENDS Integers, Sequences, FiniteSets, SequencesExt

CONSTANTS
    Convs,          \* conversation ids that may ever get a webhook
    NoConv,         \* the conversation of a job id not handed out yet
    MaxParallel,    \* o.maxParallel
    MaxAttempts,    \* retryDelays.length + 1
    MaxJobs,        \* bound: job ids handed out in a behaviour
    MaxCrashes,     \* bound: process crashes in a behaviour
    MaxStoreErrors  \* bound: failed store writes in a behaviour

ASSUME ConvsAssumption == IsFiniteSet(Convs) /\ NoConv \notin Convs
ASSUME LimitsAssumption == MaxParallel \in Nat \ {0} /\ MaxAttempts \in Nat \ {0}
ASSUME BoundsAssumption ==
    MaxJobs \in Nat /\ MaxCrashes \in Nat /\ MaxStoreErrors \in Nat

JobIds == 1 .. MaxJobs

JobStates == {"absent", "pending", "ok", "failed", "deleted"}

\* Where a conversation's task stands: no task; asleep until notBefore; a POST
\* that Comdove has not taken yet; a POST that Comdove has taken but whose
\* answer is not in; asleep between two attempts.
Phases == {"none", "sleep", "sent", "handled", "backoff"}

VARIABLES
    \* table webhook_jobs, and the rows of webhook_attempts counted per job
    conv, state, tries, nextId,
    \* memory of the process
    queues, running, waiting, phase, n, held, idleWaiting,
    \* whether index.ts is still in its resume loop, and the next id to resume
    mode, cursor,
    \* Comdove: jobs it has taken, and abandoned POSTs it may still take;
    \* `sent' is history: the jobs that have ever been put on the wire
    received, late, sent,
    \* what the bounds count, and history: the jobs that a failed store write
    \* has ever left without a verdict
    crashes, storeErrors, dropped

storeVars  == <<conv, state, tries, nextId>>
slotVars   == <<queues, running, waiting>>
taskVars   == <<phase, n, held>>
bootVars   == <<mode, cursor>>
comdove    == <<received, late>>
failures   == <<crashes, storeErrors, dropped>>
vars == <<storeVars, slotVars, taskVars, idleWaiting, bootVars, comdove, sent, failures>>

TypeOK ==
    /\ conv \in [JobIds -> Convs \cup {NoConv}]
    /\ state \in [JobIds -> JobStates]
    /\ tries \in [JobIds -> Nat]
    /\ nextId \in 1 .. MaxJobs + 1
    /\ queues \in [Convs -> Seq(JobIds)]
    /\ running \in SUBSET Convs
    /\ waiting \in Seq(Convs)
    /\ phase \in [Convs -> Phases]
    /\ n \in [Convs -> 0 .. MaxAttempts]
    /\ held \in SUBSET JobIds
    /\ idleWaiting \in BOOLEAN
    /\ mode \in {"up", "booting"}
    /\ cursor \in 1 .. MaxJobs + 1
    /\ received \in SUBSET JobIds
    /\ late \in SUBSET JobIds
    /\ sent \in SUBSET JobIds
    /\ crashes \in 0 .. MaxCrashes
    /\ storeErrors \in 0 .. MaxStoreErrors
    /\ dropped \in SUBSET JobIds

Init ==
    /\ conv = [j \in JobIds |-> NoConv]
    /\ state = [j \in JobIds |-> "absent"]
    /\ tries = [j \in JobIds |-> 0]
    /\ nextId = 1
    /\ queues = [c \in Convs |-> <<>>]
    /\ running = {}
    /\ waiting = <<>>
    /\ phase = [c \in Convs |-> "none"]
    /\ n = [c \in Convs |-> 0]
    /\ held = {}
    /\ idleWaiting = FALSE
    /\ mode = "up"
    /\ cursor = 1
    /\ received = {}
    /\ late = {}
    /\ sent = {}
    /\ crashes = 0
    /\ storeErrors = 0
    /\ dropped = {}

-----------------------------------------------------------------------------
Pending == {j \in JobIds : state[j] = "pending"}

\* A reset deletes the conversation rows, whose ids are AUTOINCREMENT: nothing
\* is ever enqueued again for a conversation that lost a job to a reset.
Gone(c) == \E j \in JobIds : conv[j] = c /\ state[j] = "deleted"

\* runHead starts on job j of conversation d, the conversations of `freed'
\* having just left their slot.  h is the set of jobs whose notBefore lies
\* ahead: such a job sleeps, unless its time has come while it was queued.
Begin(d, j, freed, h) ==
    \E ph \in IF j \in h THEN {"sleep", "sent"} ELSE {"sent"} :
        /\ phase' = [c \in Convs |-> IF c = d THEN ph
                                     ELSE IF c \in freed THEN "none" ELSE phase[c]]
        /\ n' = [c \in Convs |-> IF c = d THEN 1
                                 ELSE IF c \in freed THEN 0 ELSE n[c]]
        /\ sent' = IF ph = "sent" THEN sent \cup {j} ELSE sent
        /\ held' = h \ {j}

SlotFreeOffByOne == Cardinality(running) <= MaxParallel     \* mutant
SlotFree == Cardinality(running) < MaxParallel

JoinLineTwice(c) == Append(waiting, c)                      \* mutant
JoinLine(c) == IF Contains(waiting, c) THEN waiting ELSE Append(waiting, c)

\* push, with the pump at its end: queue job j behind its conversation, then
\* start, or line up for a slot, or leave it to the task that is running.
Push(c, j, h) ==
    /\ queues' = [queues EXCEPT ![c] = Append(@, j)]
    /\ \/ /\ c \in running
          /\ held' = h
          /\ UNCHANGED <<running, waiting, phase, n, sent>>
       \/ /\ c \notin running /\ ~SlotFree
          /\ waiting' = JoinLine(c)
          /\ held' = h
          /\ UNCHANGED <<running, phase, n, sent>>
       \/ /\ c \notin running /\ SlotFree
          /\ waiting' = RemoveFirst(waiting, c)
          /\ running' = running \cup {c}
          /\ Begin(c, Head(queues'[c]), {}, h)

\* settleIdle: callers of idle() stay only while there is work.
Busy == running # {} \/ \E c \in Convs : queues[c] # <<>>
SettleIdleNever == UNCHANGED idleWaiting                    \* mutant
SettleIdle == idleWaiting' = (idleWaiting /\ Busy')

HeirAdmitsNobody(c) == IF Tail(queues[c]) # <<>> THEN {c} ELSE {}        \* mutant

\* Who takes the slot that c's task leaves: c itself when it has more to send,
\* else the longest-waiting conversation, else nobody.  The code loops while a
\* slot is free and somebody waits; nobody waits while a slot is free
\* (SlotsFullWhenWaiting), so one freed slot admits one conversation.
Heir(c) ==
    IF Tail(queues[c]) # <<>> THEN {c}
    ELSE IF waiting # <<>> THEN {Head(waiting)} ELSE {}

\* The `finally' of a task: drop its job, hand the slot on, settle idle().
Release(c) ==
    /\ queues' = [queues EXCEPT ![c] = Tail(@)]
    /\ running' = (running \ {c}) \cup Heir(c)
    /\ waiting' = IF Heir(c) \subseteq {c} THEN waiting ELSE Tail(waiting)
    /\ \/ \E d \in Heir(c) : Begin(d, Head(queues'[d]), {c}, held)
       \/ /\ Heir(c) = {}
          /\ phase' = [phase EXCEPT ![c] = "none"]
          /\ n' = [n EXCEPT ![c] = 0]
          /\ UNCHANGED <<held, sent>>
    /\ SettleIdle

-----------------------------------------------------------------------------
\* enqueue(): insert the row, push the job.  `hold' says that notBefore lies in
\* the future.
Enqueue(c, hold) ==
    /\ mode = "up"
    /\ nextId <= MaxJobs
    /\ ~Gone(c)
    /\ conv' = [conv EXCEPT ![nextId] = c]
    /\ state' = [state EXCEPT ![nextId] = "pending"]
    /\ nextId' = nextId + 1
    /\ Push(c, nextId, IF hold THEN held \cup {nextId} ELSE held)
    /\ UNCHANGED <<tries, idleWaiting, bootVars, comdove, failures>>

\* The sleep until notBefore is over: the first POST goes out.
SleepEnds(c) ==
    /\ mode = "up"
    /\ phase[c] = "sleep"
    /\ phase' = [phase EXCEPT ![c] = "sent"]
    /\ sent' = sent \cup {Head(queues[c])}
    /\ UNCHANGED <<storeVars, slotVars, n, held, idleWaiting, bootVars, comdove, failures>>

\* Comdove takes the POST that is on the wire.
Handle(c) ==
    /\ mode = "up"
    /\ phase[c] = "sent"
    /\ phase' = [phase EXCEPT ![c] = "handled"]
    /\ received' = received \cup {Head(queues[c])}
    /\ UNCHANGED <<storeVars, slotVars, n, held, idleWaiting, bootVars, late, sent, failures>>

\* Comdove takes a POST that the dispatcher has given up on (timeout, abort, crash).
HandleLate(j) ==
    /\ j \in late
    /\ late' = late \ {j}
    /\ received' = received \cup {j}
    /\ UNCHANGED <<storeVars, slotVars, taskVars, idleWaiting, bootVars, sent, failures>>

\* A POST that nobody took may stay with Comdove when the dispatcher drops it.
Abandon(j, ph, open) ==
    /\ open => ph = "sent"
    /\ late' = IF open THEN late \cup {j} ELSE late

Answered200AnyAnswer(c) == phase[c] \in {"sent", "handled"}  \* mutant
Answered200(c) == phase[c] = "handled"

AttemptsLeftOffByOne(c) == n[c] <= MaxAttempts              \* mutant
AttemptsLeft(c) == n[c] < MaxAttempts

FinishForgotten(j, verdict) == state                        \* mutant
Finish(j, verdict) == [state EXCEPT ![j] = verdict]

\* The answer is 200: attempt row, verdict ok, next job.
AttemptOk(c) ==
    LET j == Head(queues[c]) IN
    /\ mode = "up"
    /\ Answered200(c)
    /\ tries' = [tries EXCEPT ![j] = @ + 1]
    /\ state' = Finish(j, "ok")
    /\ Release(c)
    /\ UNCHANGED <<conv, nextId, bootVars, comdove, failures>>

\* Any other answer, no answer within the timeout, or no connection, and
\* attempts are left: attempt row, then the backoff.
AttemptMissed(c, open) ==
    LET j == Head(queues[c]) IN
    /\ mode = "up"
    /\ phase[c] \in {"sent", "handled"}
    /\ AttemptsLeft(c)
    /\ tries' = [tries EXCEPT ![j] = @ + 1]
    /\ phase' = [phase EXCEPT ![c] = "backoff"]
    /\ Abandon(j, phase[c], open)
    /\ UNCHANGED <<conv, state, nextId, slotVars, n, held, idleWaiting, bootVars, received, sent, failures>>

\* The same at the last attempt: verdict failed, next job.
LastAttemptMissed(c, open) ==
    LET j == Head(queues[c]) IN
    /\ mode = "up"
    /\ phase[c] \in {"sent", "handled"}
    /\ ~AttemptsLeft(c)
    /\ tries' = [tries EXCEPT ![j] = @ + 1]
    /\ state' = Finish(j, "failed")
    /\ Abandon(j, phase[c], open)
    /\ Release(c)
    /\ UNCHANGED <<conv, nextId, bootVars, received, failures>>

\* The backoff is over: the next POST of the same job goes out.
BackoffEnds(c) ==
    /\ mode = "up"
    /\ phase[c] = "backoff"
    /\ phase' = [phase EXCEPT ![c] = "sent"]
    /\ n' = [n EXCEPT ![c] = @ + 1]
    /\ UNCHANGED <<storeVars, slotVars, held, idleWaiting, bootVars, comdove, sent, failures>>

\* A store write throws after the attempt: addAttempt (no row), or finish after
\* the row went in.  The error is reported and the queue moves on; the job's row
\* stays pending with no task behind it until the next boot.
StoreWriteFails(c, atFinish, open) ==
    LET j == Head(queues[c]) IN
    /\ mode = "up"
    /\ storeErrors < MaxStoreErrors
    /\ phase[c] \in {"sent", "handled"}
    /\ atFinish => (phase[c] = "handled" \/ ~AttemptsLeft(c))
    /\ tries' = IF atFinish THEN [tries EXCEPT ![j] = @ + 1] ELSE tries
    /\ Abandon(j, phase[c], open)
    /\ Release(c)
    /\ storeErrors' = storeErrors + 1
    /\ dropped' = dropped \cup {j}
    /\ UNCHANGED <<conv, state, nextId, bootVars, received, crashes>>

\* idle(): resolves at once when nothing is left, else a caller is registered.
Idle ==
    /\ mode = "up"
    /\ idleWaiting' = Busy
    /\ UNCHANGED <<storeVars, slotVars, taskVars, bootVars, comdove, sent, failures>>

-----------------------------------------------------------------------------
\* Jobs whose POST is on the wire and not taken yet.
OnWire == {Head(queues[c]) : c \in {d \in Convs : phase[d] = "sent"}}

\* Memory is cleared: by cancelAll() and by a crash.  Aborted POSTs may stay
\* with Comdove.
DropMemory ==
    /\ queues' = [c \in Convs |-> <<>>]
    /\ running' = {}
    /\ waiting' = <<>>
    /\ phase' = [c \in Convs |-> "none"]
    /\ n' = [c \in Convs |-> 0]
    /\ held' = {}
    /\ SettleIdle
    /\ \E open \in SUBSET OnWire : late' = late \cup open

\* POST /reset: cancelAll(), then the rows are deleted, in one handler.  The
\* aborted tasks end on the maps that cancelAll() replaced and change nothing.
Reset ==
    /\ mode = "up"
    /\ DropMemory
    /\ state' = [j \in JobIds |-> IF state[j] = "absent" THEN "absent" ELSE "deleted"]
    /\ tries' = [j \in JobIds |-> 0]
    /\ UNCHANGED <<conv, nextId, bootVars, received, sent, failures>>

\* Jobs whose attempt may be over without its verdict being written yet.
InFlight == {Head(queues[c]) : c \in {d \in Convs : phase[d] \in {"sent", "handled"}}}

\* The process dies, possibly between the attempt row and the verdict of one
\* job (`torn'); the service manager brings it back in its resume loop.
Crash ==
    /\ crashes < MaxCrashes
    /\ DropMemory
    /\ \E torn \in {{}} \cup {{j} : j \in InFlight} :
           tries' = [j \in JobIds |-> IF j \in torn THEN tries[j] + 1 ELSE tries[j]]
    /\ mode' = "booting"
    /\ cursor' = 1
    /\ crashes' = crashes + 1
    /\ UNCHANGED <<conv, state, nextId, received, sent, storeErrors, dropped>>

ResumableUnordered(j) == j >= cursor /\ state[j] = "pending"      \* mutant
Resumable(j) ==
    /\ j >= cursor
    /\ state[j] = "pending"
    /\ \A i \in cursor .. j - 1 : state[i] # "pending"

\* One turn of resume()'s loop: the next pending row in id order is pushed,
\* eligible at once.  The loop runs inside one callback: while it does, no
\* other action of the process is enabled.
Resume(j) ==
    /\ mode = "booting"
    /\ Resumable(j)
    /\ Push(conv[j], j, held)
    /\ cursor' = j + 1
    /\ UNCHANGED <<storeVars, idleWaiting, mode, comdove, failures>>

BootDone ==
    /\ mode = "booting"
    /\ \A j \in cursor .. MaxJobs : state[j] # "pending"
    /\ mode' = "up"
    /\ cursor' = 1
    /\ UNCHANGED <<storeVars, slotVars, taskVars, idleWaiting, comdove, sent, failures>>

-----------------------------------------------------------------------------
AttemptEnds(c) ==
    \/ AttemptOk(c)
    \/ \E open \in BOOLEAN : AttemptMissed(c, open)
    \/ \E open \in BOOLEAN : LastAttemptMissed(c, open)
    \/ \E atFinish \in BOOLEAN, open \in BOOLEAN : StoreWriteFails(c, atFinish, open)

Next ==
    \/ \E c \in Convs, hold \in BOOLEAN : Enqueue(c, hold)
    \/ \E c \in Convs : SleepEnds(c)
    \/ \E c \in Convs : Handle(c)
    \/ \E j \in JobIds : HandleLate(j)
    \/ \E c \in Convs : AttemptEnds(c)
    \/ \E c \in Convs : BackoffEnds(c)
    \/ Idle
    \/ Reset
    \/ Crash
    \/ \E j \in JobIds : Resume(j)
    \/ BootDone

Spec == Init /\ [][Next]_vars

\* Timers fire, the request timeout ends every attempt, and the service manager
\* restarts the process, whose boot loop runs to its end.
Fairness ==
    /\ \A c \in Convs : /\ WF_vars(SleepEnds(c))
                        /\ WF_vars(AttemptEnds(c))
                        /\ WF_vars(BackoffEnds(c))
    /\ \A j \in JobIds : WF_vars(Resume(j))
    /\ WF_vars(BootDone)

FairSpec == Spec /\ Fairness

-----------------------------------------------------------------------------
\* Nobody is lost: the conversations with queued work are exactly those that
\* hold a slot or stand in line; nobody is in line twice or next to its own
\* task, and a task exists for every slot holder.  (A wakeup lost in pump or in
\* the finally block would leave queued work with nobody to move it.)
NobodyLost ==
    /\ \A c \in Convs : queues[c] # <<>> <=> (c \in running \/ Contains(waiting, c))
    /\ \A c \in running : ~Contains(waiting, c)
    /\ \A i, k \in 1 .. Len(waiting) : waiting[i] = waiting[k] => i = k
    /\ \A c \in Convs : c \in running <=> phase[c] # "none"

\* The cap holds, and nobody stands in line while a slot is free: work conservation.
SlotsFullWhenWaiting ==
    /\ Cardinality(running) <= MaxParallel
    /\ waiting # <<>> => Cardinality(running) = MaxParallel

\* Memory and table agree: a queue holds pending jobs of its own conversation
\* in id order, and every pending row is in its queue or still ahead of the boot
\* loop, unless a failed store write has left it behind.
QueuesMirrorStore ==
    /\ \A c \in Convs, j \in JobIds :
           Contains(queues[c], j) => (conv[j] = c /\ state[j] = "pending")
    /\ \A c \in Convs : \A i, k \in 1 .. Len(queues[c]) : i < k => queues[c][i] < queues[c][k]
    /\ \A j \in Pending : \/ Contains(queues[conv[j]], j)
                          \/ mode = "booting" /\ j >= cursor
                          \/ j \in dropped

\* "A `sent' in retry backoff can never be overtaken by `delivered'": once a job
\* has been put on the wire, every earlier job of its conversation has its
\* verdict, or was left without one by a failed store write of its own.
NoOvertaking ==
    \A i \in JobIds, j \in sent :
        (i < j /\ conv[i] = conv[j]) => (state[i] # "pending" \/ i \in dropped)

\* A verdict is earned: ok only for a job that Comdove took, failed only after
\* every attempt was made and recorded; and no restart stretches the attempts of
\* one process life beyond the limit.
VerdictsEarned ==
    \A j \in JobIds :
        /\ state[j] = "ok" => j \in received
        /\ state[j] = "failed" => tries[j] >= MaxAttempts
        /\ tries[j] <= MaxAttempts * (crashes + 1)

\* A caller of idle() is only kept while there is work that will wake it.
NoStrandedIdle == idleWaiting => running # {}

\* Comdove first hears of a job before it hears of any later job of the same
\* conversation, unless the earlier job has run out of attempts, was wiped or was
\* dropped: the order a reader of the stream relies on, late POSTs and restarts
\* included.
FirstReceiptInOrder ==
    [][\A i, j \in JobIds :
          (/\ i < j
           /\ conv[i] = conv[j]
           /\ i \in received' \ received
           /\ j \in received) => (state[i] \in {"failed", "deleted"} \/ i \in dropped)]_vars

\* A verdict is final: a job that has one is never tried again, not by a
\* restart either, and only a reset takes it away.
VerdictsFinal ==
    [][\A j \in JobIds : state[j] \in {"ok", "failed"} =>
          \/ state'[j] = state[j] /\ tries'[j] = tries[j]
          \/ state'[j] = "deleted"]_vars

\* Every webhook gets its verdict (or is wiped), across timeouts, restarts and
\* a full pool, unless a store write of its own fails.
EveryJobSettles ==
    \A j \in JobIds : (state[j] = "pending") ~> (state[j] # "pending" \/ j \in dropped)

\* idle() resolves once the traffic stops.
IdleResolves == idleWaiting ~> ~idleWaiting

\* The dispatcher as its clients see it: the job rows are the verdicts, a job is
\* offered when it has been on the wire, and taken when Comdove has handled it.
Stream == INSTANCE WebhookStream WITH
              conv <- conv, verdicts <- state, offered <- sent, taken <- received,
              dropped <- dropped

\* The pool, the queues, retries, restarts, late POSTs and failed store writes
\* together look like one ordered stream per conversation.
ImplementsStream == Stream!Spec
===============================================================================
