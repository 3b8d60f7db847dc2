------------------------------ MODULE MCMessaging ------------------------------
(***************************************************************************)
(* The sending and the receiving end of the queues: the relay of the       *)
(* outbox over Service Bus or over SQS, and the processor over the Redis   *)
(* or the in-memory store.  One of the four runs in a behaviour; the       *)
(* broker that is between them is not modelled.                            *)
(*                                                                         *)
(* Relay: four events, three of one topic and one of another.  A batch     *)
(* holds two of them, so a cycle may mix topics and leave events to the    *)
(* next one, and an SQS chunk holds one, so a group may go out in two      *)
(* requests.                                                               *)
(*                                                                         *)
(* Processor: three calls for at most two messages, so a message may come  *)
(* twice while another one passes; two may be in flight, so a third call   *)
(* waits.  Two handlers show a first one that is done when the second one  *)
(* raises.  The calls and the messages are interchangeable: of all ways to *)
(* give messages to calls, two are left up to a renaming.                  *)
(***************************************************************************)
EXTENDS Outbox

CONSTANTS
    e1, e2, e3, e4, accounts, contacts, \* the events, and their topics
    Call, Message,
    c3, m1, m2,                         \* of them
    NumHandlers, MaxHandlerRetries, MaxConcurrent, MaxRedisFaults, MaxMemoryFaults, MaxExpiries

VARIABLES
    part,   \* what runs: "bus", "sqs", "redis" or "memory"
    msg, callPc, attempt, at, lock, entry, ran, dead, expiries, callFaults

outboxVars == <<saved, status, retries, received, pc, fetched, group, todo, faults>>
queueVars  == <<msg, callPc, attempt, at, lock, entry, ran, dead, expiries, callFaults>>

MCEvent == {e1, e2, e3, e4}

MCTopicOf == [e \in MCEvent |-> IF e = e4 THEN contacts ELSE accounts]

Sqs == INSTANCE Outbox WITH Adapter <- "SQS"
Redis == INSTANCE QueueProcessor
            WITH pc <- callPc, faults <- callFaults, MaxRetries <- MaxHandlerRetries,
                 Store <- "redis", MaxFaults <- MaxRedisFaults
Memory == INSTANCE QueueProcessor
            WITH pc <- callPc, faults <- callFaults, MaxRetries <- MaxHandlerRetries,
                 Store <- "memory", MaxFaults <- MaxMemoryFaults

\* The relay that is extended is the one over Service Bus.
ASSUME BusAssumption == Adapter = "ServiceBus"

ASSUME QueueAssumption ==
    Redis!BoundAssumption /\ Redis!StoreAssumption
        /\ Memory!BoundAssumption /\ Memory!StoreAssumption

OneMessage  == [c \in Call |-> m1]
TwoMessages == [OneMessage EXCEPT ![c3] = m2]

MCInit ==
    /\ Init
    /\ msg \in {OneMessage, TwoMessages}
    /\ Redis!Init
    /\ part \in {"redis", "memory"} \/ (part \in {"bus", "sqs"} /\ msg = OneMessage)

\* The relay waits when all events are published and none is pending.
BusStep    == part = "bus" /\ (Next \/ UNCHANGED outboxVars)
SqsStep    == part = "sqs" /\ (Sqs!Next \/ UNCHANGED outboxVars)
RedisStep  == part = "redis" /\ Redis!Next
MemoryStep == part = "memory" /\ Memory!Next

MCNext ==
    \/ (BusStep \/ SqsStep) /\ UNCHANGED <<part, queueVars>>
    \/ (RedisStep \/ MemoryStep) /\ UNCHANGED <<part, outboxVars>>

\* The steps that are taken as long as there is one to take.  Of the two brokers and the
\* two stores, one each: relay and calls are the same program over the other.
Progress ==
    \/ part = "sqs" /\ Sqs!RelayStep /\ UNCHANGED <<part, queueVars>>
    \/ part = "memory" /\ (\E c \in Call : Memory!Step(c)) /\ UNCHANGED <<part, outboxVars>>

MCSpec ==
    /\ MCInit /\ [][MCNext]_<<part, outboxVars, queueVars>>
    /\ WF_<<part, outboxVars, queueVars>>(Progress)

\* The relay over Service Bus alone; it never waits for anything but its own calls.
BusSpec ==
    /\ MCInit /\ part = "bus" /\ [][MCNext]_<<part, outboxVars, queueVars>>
    /\ WF_outboxVars(part = "bus" /\ RelayStep /\ UNCHANGED <<part, queueVars>>)

-------------------------------------------------------------------------------
\* Over Service Bus an event the store calls published is with the broker, whatever
\* raised or was cancelled on the way there, and the first deliveries within a topic
\* come in the order of publication; over SQS, where single entries may be refused,
\* neither holds.  Over both an event comes twice only after a fault.
RelayIsFaithful ==
    /\ part = "bus" => TypeOK /\ PublishedWasDelivered /\ FirstDeliveriesInOrder
    /\ part = "sqs" => Sqs!TypeOK
    /\ part \in {"bus", "sqs"} => DuplicatesNeedFaults

\* Two calls work on one message only when its lock ran out meanwhile.  What the store
\* says of a message is what became of it: a success was handled by every handler and
\* is not in the dead-letter sink.  Retries and redeliveries run the handlers in order,
\* and a bounded number of times.
QueueIsTruthful ==
    part \in {"redis", "memory"} =>
        /\ IF part = "redis" THEN Redis!TypeOK ELSE Memory!TypeOK
        /\ Redis!OneCallPerMessage
        /\ Redis!SuccessMeansHandled /\ Redis!DeadIsNotSuccess
        /\ Redis!HandlerRunsBounded /\ Redis!RegistrationOrderKept

\* The relay gets through to every pending event, and every call of process ends.
MessagesEnd ==
    /\ part = "sqs" => Sqs!EveryEventHandled
    /\ part = "memory" => Memory!CallsEnd
===============================================================================
