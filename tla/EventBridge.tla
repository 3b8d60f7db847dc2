------------------------------ MODULE EventBridge ------------------------------
(***************************************************************************)
(* Domain events on their way to the audit log: EventPublisherAdapter with *)
(* its transports (src/adapters/outbound/event_publisher_adapter.py), a    *)
(* broker, and EventListenerAdapter, whose listener moves messages into    *)
(* the queue of InMemoryEventBus, which calls the handlers                 *)
(* (src/adapters/inbound/event_listener_adapter.py).  The brokers are      *)
(* external.  Of the handlers only the one for "*" is ever called: the     *)
(* others are subscribed in lower case.                                    *)
(***************************************************************************)
EXTENDS Integers, Sequences, FiniteSets, SequencesExt

CONSTANTS
    NumEvents,
    Transports,     \* "kafka" or "service_bus"
    MaxAttempts,    \* max_retries of the publisher
    QueueSize,      \* max_queue_size of the bus
    MaxStarts, MaxFaults    \* bounds on starts of the listener, and on failing steps

BridgeAssumption ==
    /\ {NumEvents, MaxStarts, MaxFaults} \subseteq Nat
    /\ {MaxAttempts, QueueSize} \subseteq Nat \ {0}
    /\ Transports \subseteq {"kafka", "service_bus"}

VARIABLES
    transport,
    event,      \* the event publish_all is at
    attempt,
    buffer,     \* the buffer of the Kafka producer
    broker,     \* the messages of the topic
    unsent,     \* events whose delivery failed after publish had returned
    file,       \* the dead letter file
    raised,     \* publish_all has raised
    listener,   \* "down", "poll" or "put"
    offset,     \* the message of the broker the listener is at
    done,       \* messages committed or completed
    queue,      \* the queue of the bus
    bus,        \* "down" or "run"
    stopping,   \* stop_event
    audited,    \* the messages written to the audit log, in order
    failed,     \* messages whose audit entry could not be written
    abandoned,  \* messages left in the queue by a stop or a crash
    starts, faults

publisherVars == <<event, attempt, buffer, unsent, file, raised>>
listenerVars ==
    <<listener, offset, done, queue, bus, stopping, audited, failed, abandoned, starts>>
vars == <<transport, publisherVars, broker, listenerVars, faults>>

Event == 1..NumEvents
Fault == faults < MaxFaults /\ faults' = faults + 1

Init ==
    /\ transport \in Transports
    /\ event = 1 /\ attempt = 1
    /\ buffer = {} /\ broker = <<>> /\ unsent = {} /\ file = {} /\ raised = FALSE
    /\ listener = "down" /\ offset = 0 /\ done = {} /\ queue = <<>> /\ bus = "down"
    /\ stopping = FALSE /\ audited = <<>> /\ failed = {} /\ abandoned = {}
    /\ starts = 0 /\ faults = 0

-------------------------------------------------------------------------------
NextEvent == event' = event + 1 /\ attempt' = 1

\* publish of the transport returns: Kafka has the event in its buffer, and
\* Service Bus has stored it.
PublishReturns ==
    /\ event <= NumEvents /\ ~raised
    /\ IF transport = "kafka"
       THEN buffer' = buffer \union {event} /\ UNCHANGED broker
       ELSE broker' = Append(broker, event) /\ UNCHANGED buffer
    /\ NextEvent
    /\ UNCHANGED <<transport, unsent, file, raised, listenerVars, faults>>

\* The event is stored only by attempts that fail for good.
PublishRaises_Forget ==
    /\ event <= NumEvents /\ ~raised
    /\ Fault
    /\ broker' \in IF transport = "kafka" THEN {broker} ELSE {broker, Append(broker, event)}
    /\ NextEvent
    /\ UNCHANGED <<transport, buffer, unsent, file, raised, listenerVars>>

\* publish of the transport raises: a full buffer, or an answer that was lost.
\* After the last attempt the event is appended to the file, the error of which
\* nobody catches.
PublishRaises ==
    /\ event <= NumEvents /\ ~raised
    /\ Fault
    /\ broker' \in IF transport = "kafka" THEN {broker} ELSE {broker, Append(broker, event)}
    /\ \/ /\ attempt < MaxAttempts
          /\ attempt' = attempt + 1
          /\ UNCHANGED <<event, file, raised>>
       \/ /\ attempt = MaxAttempts
          /\ \/ file' = file \union {event} /\ NextEvent /\ UNCHANGED raised
             \/ raised' = TRUE /\ UNCHANGED <<file, event, attempt>>
    /\ UNCHANGED <<transport, buffer, unsent, listenerVars>>

\* The producer sends what it holds; failures reach on_delivery, which logs them.
ProducerSends ==
    \E e \in buffer :
        /\ buffer' = buffer \ {e}
        /\ \/ broker' = Append(broker, e) /\ UNCHANGED <<unsent, faults>>
           \/ Fault /\ unsent' = unsent \union {e} /\ UNCHANGED broker
        /\ UNCHANGED <<transport, event, attempt, file, raised, listenerVars>>

-------------------------------------------------------------------------------
Undone == {i \in 1..Len(broker) : i \notin done}

Start ==
    /\ listener = "down" /\ bus = "down" /\ queue = <<>> /\ starts < MaxStarts
    /\ starts' = starts + 1
    /\ listener' = "poll" /\ bus' = "run" /\ stopping' = FALSE
    /\ offset' = 0
    /\ UNCHANGED <<transport, publisherVars, broker, done, queue, audited, failed,
                   abandoned, faults>>

\* The listener does not look at stop_event.
Poll_Blind ==
    /\ listener = "poll"
    /\ offset' \in {i \in Undone : transport = "kafka" =>
                        i > offset /\ \A j \in Undone : j > offset => i <= j}
    /\ listener' = "put"
    /\ UNCHANGED <<transport, publisherVars, broker, done, queue, bus, stopping, audited,
                   failed, abandoned, starts, faults>>

\* The next message after the offset, or for Service Bus any that is not completed.
Poll ==
    /\ listener = "poll"
    /\ IF stopping
       THEN listener' = "down" /\ UNCHANGED offset
       ELSE /\ offset' \in {i \in Undone : transport = "kafka" =>
                                /\ i > offset
                                /\ \A j \in Undone : j > offset => i <= j}
            /\ listener' = "put"
    /\ UNCHANGED <<transport, publisherVars, broker, done, queue, bus, stopping, audited,
                   failed, abandoned, starts, faults>>

\* publish of the bus waits for room in the queue.  Then the offset is committed,
\* though no handler has seen the event; a message not completed comes again.
Put ==
    /\ listener = "put"
    /\ Len(queue) < QueueSize
    /\ queue' = Append(queue, offset)
    /\ \/ done' = done \union (IF transport = "kafka" THEN 1..offset ELSE {offset})
          /\ listener' = "poll"
          /\ UNCHANGED faults
       \/ /\ Fault
          /\ listener' = IF transport = "kafka" THEN "down" ELSE "poll"
          /\ UNCHANGED done
    /\ UNCHANGED <<transport, publisherVars, broker, offset, bus, stopping, audited, failed,
                   abandoned, starts>>

\* The bus takes an event and runs the handlers, whose errors are logged.
Dispatch ==
    /\ bus = "run"
    /\ IF stopping
       THEN bus' = "down" /\ UNCHANGED <<queue, audited, failed, faults>>
       ELSE /\ queue # <<>>
            /\ queue' = Tail(queue)
            /\ \/ audited' = Append(audited, Head(queue)) /\ UNCHANGED <<failed, faults>>
               \/ Fault /\ failed' = failed \union {Head(queue)} /\ UNCHANGED audited
            /\ UNCHANGED bus
    /\ UNCHANGED <<transport, publisherVars, broker, listener, offset, done, stopping,
                   abandoned, starts>>

Stop ==
    /\ listener # "down" /\ bus = "run" /\ ~stopping
    /\ stopping' = TRUE
    /\ UNCHANGED <<transport, publisherVars, broker, listener, offset, done, queue, bus,
                   audited, failed, abandoned, starts, faults>>

\* gather returns, or the process dies: what is in the queue is gone.
End ==
    /\ \/ listener = "down" /\ bus = "down" /\ queue # <<>> /\ UNCHANGED faults
       \/ listener # "down" /\ Fault
       \/ listener = "down" /\ bus = "run" /\ UNCHANGED faults
    /\ listener' = "down" /\ bus' = "down"
    /\ abandoned' = abandoned \union ToSet(queue)
    /\ queue' = <<>>
    /\ UNCHANGED <<transport, publisherVars, broker, offset, done, stopping, audited,
                   failed, starts>>

Work == PublishReturns \/ ProducerSends \/ Start \/ Poll \/ Put \/ Dispatch

\* The listener waits for room in a queue that nobody empties any more.
Stuck == listener = "put" /\ bus = "down" /\ Len(queue) = QueueSize

Quiet == (event > NumEvents \/ raised) /\ buffer = {}
Idle == /\ Quiet
        /\ \/ listener = "down" /\ bus = "down" /\ queue = <<>> /\ starts = MaxStarts
           \/ listener = "poll" /\ bus = "run" /\ queue = <<>>
           \/ Stuck
        /\ UNCHANGED vars

Next == Work \/ PublishRaises \/ Stop \/ End \/ Idle

Spec == Init /\ [][Next]_vars
FairSpec == Spec /\ WF_vars(Work)

-------------------------------------------------------------------------------
\* The types of the variables.
TypeOK ==
    /\ transport \in Transports
    /\ event \in 1..NumEvents + 1 /\ attempt \in 1..MaxAttempts /\ raised \in BOOLEAN
    /\ buffer \union unsent \union file \union ToSet(broker) \subseteq Event
    /\ listener \in {"down", "poll", "put"} /\ bus \in {"down", "run"} /\ stopping \in BOOLEAN
    /\ offset \in 0..Len(broker) /\ Len(queue) <= QueueSize
    /\ done \union ToSet(queue) \union ToSet(audited) \union failed \union abandoned
          \subseteq 1..Len(broker)
    /\ starts \in 0..MaxStarts /\ faults \in 0..MaxFaults

\* An event publish_all is past is in the topic, on its way to it, in the dead
\* letter file, or in none of them because on_delivery only logs.
NoEventVanishes ==
    \A e \in 1..event - 1 : e \in buffer \union ToSet(broker) \union unsent \union file

\* A message that will not be delivered again is in the audit log or waits in the
\* queue, unless a stop or a crash left it there or its entry could not be written.
DoneIsAudited ==
    done \subseteq ToSet(queue) \union ToSet(audited) \union abandoned \union failed

\* The audit log has the messages of a topic in the broker's order; one that is
\* delivered again is so before any later one.
AuditsInOrder ==
    transport = "kafka" =>
        \A i, j \in DOMAIN audited : i < j => audited[i] <= audited[j]

\* A listener that was stopped is down, unless it waits for room in a queue which
\* nobody empties any more.
StopEnds == stopping ~> (~stopping \/ (listener = "down" /\ bus = "down") \/ Stuck)

-------------------------------------------------------------------------------
\* stop_event ends the adapter: "Consume events from the queue until stop_event is
\* set."  The listener waits for ever when the queue is full.
StopAlwaysEnds == stopping ~> (~stopping \/ (listener = "down" /\ bus = "down"))
===============================================================================
