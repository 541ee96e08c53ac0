------------------------------ MODULE EndToEnd ------------------------------
(***************************************************************************)
(* The server put together (compose.ts, meta-face.ts): the messages of      *)
(* module Delivery and, behind the dispatcher's interface, the stream of    *)
(* webhooks that module Dispatcher implements.  Every enqueue() of the      *)
(* lifecycle submits a job to the stream, a reset cancels the stream and    *)
(* wipes the tables, and everything else the two do on their own.           *)
(*                                                                         *)
(* The question is Comdove's: what may it conclude from a webhook it gets?  *)
(***************************************************************************)
EXTENDS Delivery

CONSTANT MaxJobs    \* bound: webhook job ids handed out in a behaviour

ASSUME MaxJobsAssumption == MaxJobs \in Nat

VARIABLES
    \* webhook_jobs ids that resets have used up: row p of `outbox' has id wiped + p
    wiped,
    \* the stream
    conv, verdicts, offered, taken, dropped

stream == <<conv, verdicts, offered, taken, dropped>>
systemVars == <<vars, wiped, stream>>

RowAsConversation(m) == <<bizOf[m], tileOf[m], m>>                \* mutant
\* A reset deletes the conversation rows and their ids are AUTOINCREMENT: the
\* jobs wiped so far tell a conversation from one of the same two numbers before.
ConversationOf(m) == <<bizOf[m], tileOf[m], wiped>>
Conversations == Businesses \X Tiles \X (0 .. MaxJobs)

Stream == INSTANCE WebhookStream WITH Convs <- Conversations, NoConv <- Nobody

SystemInit == Init /\ wiped = 0 /\ Stream!Init

-----------------------------------------------------------------------------
Row(p) == wiped + p

\* The jobs the stream offers in a step.
SomeOffered == \E new \in SUBSET (Stream!JobIds \ offered) : offered' = offered \cup new

\* queueStatus() or inbound() reaches dispatcher.enqueue().
Enqueue ==
    /\ Row(Len(outbox)) < MaxJobs
    /\ QueueWebhook
    /\ SomeOffered
    /\ Stream!Submit(Row(Len(outbox) + 1), ConversationOf(Head(call.todo)))
    /\ UNCHANGED wiped

\* POST /reset: cancelAll(), resetAll(), afterReset().
ResetAll(keep) ==
    /\ Reset(keep)
    /\ wiped' = Row(Len(outbox))
    /\ Stream!Wipe

\* Bound: a callback begins only while there are ids left for a webhook of every
\* message.
IdsLeft == Quiet => Row(Len(outbox)) + MaxMsgs <= MaxJobs

\* Every other step of the server leaves the job table alone.
ServerStep ==
    /\ UNCHANGED <<wiped, stream>>
    /\ IdsLeft
    /\ OtherStep

\* The dispatcher at work, between the server's callbacks: POSTs, answers,
\* retries, verdicts, restarts.
DispatcherStep ==
    /\ Quiet
    /\ UNCHANGED <<vars, wiped>>
    /\ SomeOffered
    /\ \/ Stream!Offer
       \/ \E j \in Stream!JobIds : Stream!Drop(j)
       \/ \E j \in Stream!JobIds, verdict \in {"ok", "failed"} : Stream!Settle(j, verdict)

\* Comdove takes a webhook, at any time; taking it again changes nothing.
ComdoveStep ==
    /\ UNCHANGED <<vars, wiped>>
    /\ \E j \in Stream!JobIds \ taken : Stream!Take(j)

SystemNext ==
    \/ Enqueue
    \/ \E keep \in BOOLEAN : ResetAll(keep)
    \/ DispatcherStep
    \/ ComdoveStep
    \/ ServerStep

System == SystemInit /\ [][SystemNext]_systemVars

-----------------------------------------------------------------------------
\* The rows about one transition: there is at most one.
RowsOf(m, kind) == {Row(p) : p \in {q \in DOMAIN outbox : outbox[q] = Job(m, kind)}}

Heard(m, kind) == RowsOf(m, kind) \cap taken # {}

\* Comdove has heard of this transition, or has refused it until the attempts ran
\* out, or its webhook went down: with a call that threw or a crash before it was
\* queued, or with a verdict that could not be written.
Told(m, kind) ==
    \/ Heard(m, kind)
    \/ \E j \in RowsOf(m, kind) : verdicts[j] = "failed" \/ j \in dropped
    \/ Job(m, kind) \in lost

Introduction(m) == IF dir[m] = "in" THEN "inbound" ELSE "sent"

\* What Comdove may conclude from a webhook it has taken about a message that is
\* not wiped: the message made that transition; Comdove was told of the message's
\* earlier transitions before; and of every earlier message of its conversation.
ComdoveFollows ==
    \A m \in Ids, kind \in Kinds : Heard(m, kind) =>
        /\ Job(m, kind) \in Owed
        /\ kind # "inbound" => Told(m, "sent")
        /\ kind = "read" => Told(m, "delivered")
        /\ \A i \in live : (i < m /\ SameConversation(i, m)) => Told(i, Introduction(i))
=============================================================================
