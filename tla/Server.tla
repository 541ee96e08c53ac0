-------------------------------- MODULE Server --------------------------------
(***************************************************************************)
(* The process as it runs: the messages of module Delivery with the real    *)
(* dispatcher of module Dispatcher behind them, where module EndToEnd has   *)
(* only the stream that the dispatcher promises.  One event loop runs both, *)
(* so the dispatcher's callbacks fall between those of the server; one      *)
(* crash takes both down; one reset empties both.                           *)
(***************************************************************************)
EXTENDS EndToEnd

CONSTANTS
    MaxParallel, MaxAttempts,       \* of the dispatcher
    MaxStoreErrors, MaxRestarts     \* bounds of the dispatcher

ASSUME ConversationsAssumption == IsFiniteSet(Conversations) /\ Nobody \notin Conversations
ASSUME DispatcherAssumption ==
    /\ MaxParallel \in Nat \ {0} /\ MaxAttempts \in Nat \ {0}
    /\ MaxStoreErrors \in Nat /\ MaxRestarts \in Nat

VARIABLES
    \* of the dispatcher, next to the variables it shares with the stream
    tries, nextId, queues, running, waiting, phase, n, held, idleWaiting,
    mode, cursor, late, restarts, storeErrors

Dispatch == INSTANCE Dispatcher
            WITH Convs <- Conversations, NoConv <- Nobody, MaxCrashes <- MaxRestarts,
                 state <- verdicts, sent <- offered, received <- taken, crashes <- restarts

memory == <<queues, running, waiting, phase, n, held, idleWaiting, mode, cursor>>
dispatcher == <<stream, memory, tries, nextId, late, restarts, storeErrors>>
serverVars == <<vars, wiped, dispatcher>>

ServerInit == Init /\ wiped = 0 /\ Dispatch!Init

-----------------------------------------------------------------------------
\* Only accept() gives its webhook a notBefore, STATUS_WEBHOOK_DELAY_MS from now.
Holds == IF call.kind = "sent" THEN BOOLEAN ELSE {FALSE}

ServerEnqueues ==
    /\ QueueWebhook
    /\ \E hold \in Holds : Dispatch!Enqueue(ConversationOf(Head(call.todo)), hold)
    /\ UNCHANGED wiped

ServerResets(keep) ==
    /\ Reset(keep)
    /\ wiped' = Row(Len(outbox))
    /\ Dispatch!Reset

\* A crash, or an exception in a `finish' listener: every map is lost.
ServerDies ==
    /\ IdsLeft
    /\ Crash \/ (call.by = "finish" /\ QueueThrows)
    /\ Dispatch!Crash
    /\ UNCHANGED wiped

\* Bound: a callback that an exception would end with the process begins only
\* while a restart is left.
ServerWorks ==
    /\ mode = "up"
    /\ call.by = "finish" => call.todo = <<>>
    /\ IdsLeft
    /\ OtherStep
    /\ crashes' = crashes
    /\ (Quiet /\ call'.by = "finish") => restarts < MaxRestarts
    /\ UNCHANGED <<wiped, dispatcher>>

\* Timers and answers of the conversations that have a task, and the boot loop.
\* Only tests call idle().
DispatcherWorks ==
    /\ Quiet
    /\ \/ \E c \in running :
              \/ Dispatch!SleepEnds(c) \/ Dispatch!AttemptEnds(c) \/ Dispatch!BackoffEnds(c)
       \/ \E j \in Dispatch!JobIds : Dispatch!Resume(j)
       \/ Dispatch!BootDone
    /\ UNCHANGED <<vars, wiped>>

ComdoveTakes ==
    /\ \/ \E c \in running : Dispatch!Handle(c)
       \/ \E j \in Dispatch!JobIds : Dispatch!HandleLate(j)
    /\ UNCHANGED <<vars, wiped>>

ServerNext ==
    \/ ServerEnqueues
    \/ \E keep \in BOOLEAN : ServerResets(keep)
    \/ ServerDies
    \/ ServerWorks
    \/ DispatcherWorks
    \/ ComdoveTakes

Server == ServerInit /\ [][ServerNext]_serverVars

\* With the dispatcher for the stream, the server is still the system that
\* Comdove draws its conclusions from.
ImplementsSystem == System
===============================================================================
