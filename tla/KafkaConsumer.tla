----------------------------- MODULE KafkaConsumer -----------------------------
(***************************************************************************)
(* KafkaEventConsumer (src/integrations/event_consumers/kafka_consumer.py) *)
(* on one partition: the messages are handled one after the other, offsets *)
(* are committed behind them without waiting, failed messages go to the    *)
(* producer of the dead letter topic, which has a buffer of its own.  The  *)
(* broker and the two client libraries are external.                       *)
(***************************************************************************)
EXTENDS Integers, FiniteSets

CONSTANTS
    NumMessages,
    HandlerCounts,  \* how many handlers the topic may have
    Dlq,            \* the possible answers to: is a dead letter topic configured?
    MaxStarts,      \* starts of the consumer
    MaxFaults       \* bound on failing handlers, sends and commits, and on crashes

ConsumerAssumption ==
    /\ {NumMessages, MaxStarts, MaxFaults} \union HandlerCounts \subseteq Nat
    /\ Dlq \subseteq BOOLEAN

VARIABLES
    hasDlq,
    numHandlers,
    pc,         \* "down", "poll", "handle" or "stopping"
    hand,       \* the handler that runs
    position,   \* messages poll has returned since the partition was assigned
    asked,      \* the offset of the last commit requested
    committed,  \* the offset the broker holds
    runs,       \* how often all handlers have run on a message
    buffered,   \* messages in the buffer of the dead letter producer
    dlq,        \* messages in the dead letter topic
    dropped,    \* messages that were given up by a stop, a crash or a failing send
    skipped,    \* messages of a topic without handlers
    commitLost, \* a commit was requested and never reached the broker
    starts, faults

vars == <<hasDlq, numHandlers, pc, hand, position, asked, committed, runs, buffered, dlq, dropped,
          skipped, commitLost, starts, faults>>

Message == 1..NumMessages
Fault == faults < MaxFaults /\ faults' = faults + 1

Init ==
    /\ hasDlq \in Dlq /\ numHandlers \in HandlerCounts
    /\ pc = "down" /\ hand = 1
    /\ position = 0 /\ asked = 0 /\ committed = 0
    /\ runs = [m \in Message |-> 0]
    /\ buffered = {} /\ dlq = {} /\ dropped = {} /\ skipped = {}
    /\ commitLost = FALSE
    /\ starts = 0 /\ faults = 0

Start ==
    /\ pc = "down" /\ starts < MaxStarts
    /\ starts' = starts + 1
    /\ pc' = "poll"
    /\ position' = committed /\ asked' = committed
    /\ UNCHANGED <<hasDlq, numHandlers, hand, committed, runs, buffered, dlq, dropped,
                   skipped, commitLost, faults>>

\* _commit_offset: asynchronous, and the exception of a refused request is logged.
CommitOffset == asked' = position

\* A message nobody has a handler for is committed and forgotten.
Poll ==
    /\ pc = "poll" /\ position < NumMessages
    /\ position' = position + 1
    /\ IF numHandlers = 0
       THEN skipped' = skipped \union {position'} /\ asked' = position' /\ UNCHANGED <<pc, hand>>
       ELSE pc' = "handle" /\ hand' = 1 /\ UNCHANGED <<skipped, asked>>
    /\ UNCHANGED <<hasDlq, numHandlers, committed, runs, buffered, dlq, dropped,
                   commitLost, starts, faults>>

HandlerReturns ==
    /\ pc = "handle"
    /\ IF hand < numHandlers
       THEN hand' = hand + 1 /\ UNCHANGED <<pc, runs, asked>>
       ELSE /\ runs' = [runs EXCEPT ![position] = @ + 1]
            /\ CommitOffset
            /\ pc' = "poll"
            /\ UNCHANGED hand
    /\ UNCHANGED <<hasDlq, numHandlers, position, committed, buffered, dlq, dropped,
                   skipped, commitLost, starts, faults>>

\* The offset is committed although the message was not given to the producer.
HandlerRaises_CommitFirst ==
    /\ pc = "handle"
    /\ Fault
    /\ CommitOffset
    /\ IF hasDlq THEN pc' = "poll" ELSE pc' = "stopping"
    /\ UNCHANGED <<hasDlq, numHandlers, hand, position, committed, runs, buffered, dlq,
                   dropped, skipped, commitLost, starts>>

\* The value cannot be read, or a handler raises.  Without a dead letter topic
\* the consumer stops; so it does if the buffer of the producer is full.  A
\* KafkaException of the producer is swallowed by the loop, which goes on.
HandlerRaises ==
    /\ pc = "handle"
    /\ Fault
    /\ \/ hasDlq /\ buffered' = buffered \union {position} /\ CommitOffset /\ pc' = "poll"
          /\ UNCHANGED dropped
       \/ ~hasDlq /\ pc' = "stopping" /\ UNCHANGED <<buffered, dropped, asked>>
       \/ hasDlq /\ pc' = "stopping" /\ UNCHANGED <<buffered, dropped, asked>>
       \/ hasDlq /\ pc' = "poll" /\ dropped' = dropped \union {position}
             /\ UNCHANGED <<buffered, asked>>
    /\ UNCHANGED <<hasDlq, numHandlers, hand, position, committed, runs, dlq, skipped,
                   commitLost, starts>>

\* The task is cancelled.  The thread in poll may still be given a message.
Cancel ==
    /\ pc \in {"poll", "handle"}
    /\ pc' = "stopping"
    /\ position' \in IF pc = "poll" /\ position < NumMessages
                     THEN {position, position + 1} ELSE {position}
    /\ UNCHANGED <<hasDlq, numHandlers, hand, asked, committed, runs, buffered, dlq,
                   dropped, skipped, commitLost, starts, faults>>

\* commit() without a message commits the position, whatever became of its message.
CommitPosition ==
    \/ committed' = position /\ UNCHANGED <<commitLost, faults>>
    \/ Fault /\ UNCHANGED committed /\ commitLost' = (commitLost \/ committed < position)

AtHand == {m \in Message : m <= position /\ m > asked}

\* The producer is flushed for ten seconds; what it still holds is lost.
Shutdown ==
    /\ pc = "stopping"
    /\ CommitPosition
    /\ dropped' = dropped \union AtHand
    /\ pc' = "down" /\ asked' = committed'
    /\ UNCHANGED <<hasDlq, numHandlers, hand, position, runs, buffered, dlq, skipped, starts>>

\* The partition leaves and returns, inside poll.
Rebalance ==
    /\ pc = "poll"
    /\ Fault
    /\ \/ committed' = position /\ UNCHANGED commitLost
       \/ UNCHANGED committed /\ commitLost' = (commitLost \/ committed < position)
    /\ position' = committed' /\ asked' = committed'
    /\ UNCHANGED <<hasDlq, numHandlers, pc, hand, runs, buffered, dlq, dropped, skipped, starts>>

Crash ==
    /\ pc # "down"
    /\ Fault
    /\ commitLost' = (commitLost \/ committed < asked)
    /\ dropped' = dropped \union buffered
    /\ buffered' = {}
    /\ pc' = "down" /\ asked' = committed
    /\ UNCHANGED <<hasDlq, numHandlers, hand, position, committed, runs, dlq, skipped, starts>>

\* The broker carries out the last commit it was asked for.
CommitArrives ==
    /\ committed < asked
    /\ committed' = asked
    /\ UNCHANGED <<hasDlq, numHandlers, pc, hand, position, asked, runs, buffered, dlq,
                   dropped, skipped, commitLost, starts, faults>>

\* A dead letter is stored, or refused, which nobody is told.
DeadLetterLeaves ==
    \E m \in buffered :
        /\ buffered' = buffered \ {m}
        /\ \/ dlq' = dlq \union {m} /\ UNCHANGED <<dropped, faults>>
           \/ Fault /\ dropped' = dropped \union {m} /\ UNCHANGED dlq
        /\ UNCHANGED <<hasDlq, numHandlers, pc, hand, position, asked, committed, runs,
                       skipped, commitLost, starts>>

Work == Start \/ Poll \/ HandlerReturns \/ HandlerRaises \/ Shutdown
Broker == CommitArrives \/ DeadLetterLeaves

Idle == pc = "down" /\ starts = MaxStarts /\ buffered = {} /\ UNCHANGED vars
Waiting == pc = "poll" /\ position = NumMessages /\ buffered = {} /\ UNCHANGED vars

Next == Work \/ Broker \/ Cancel \/ Rebalance \/ Crash \/ Idle \/ Waiting

Spec == Init /\ [][Next]_vars

\* Handlers return or raise, and the broker answers.
FairSpec == Spec /\ WF_vars(Work) /\ WF_vars(Broker)

-------------------------------------------------------------------------------
\* The types of the variables.
TypeOK ==
    /\ hasDlq \in Dlq /\ numHandlers \in HandlerCounts
    /\ pc \in {"down", "poll", "handle", "stopping"}
    /\ position \in 0..NumMessages /\ asked \in 0..NumMessages /\ committed \in 0..NumMessages
    /\ runs \in [Message -> Nat]
    /\ buffered \union dlq \union dropped \union skipped \subseteq Message
    /\ commitLost \in BOOLEAN
    /\ starts \in 0..MaxStarts /\ faults \in 0..MaxFaults

\* A message the group will not see again was handled, is on its way to the dead
\* letter topic or there, had no handler, or was given up by one of the steps
\* that note it: a stop, a crash, a failing send.
CommittedIsAccountedFor ==
    \A m \in 1..committed : runs[m] > 0 \/ m \in buffered \union dlq \union dropped \union skipped

\* Handlers run again on a message they have finished only after a commit was lost.
HandledTwiceNeedsLostCommit == \A m \in Message : runs[m] > 1 => commitLost

\* A consumer that is up gets to the last message or goes down.
ConsumerGetsOn == []<>(pc = "down" \/ position = NumMessages)

-------------------------------------------------------------------------------
\* "Stopping consumer to prevent offset advancement": without a dead letter topic
\* a message that was not handled is never passed.  The commit of _shutdown passes it.
FailedMessageIsNotPassed ==
    ~hasDlq => \A m \in 1..committed : runs[m] > 0 \/ m \in skipped
===============================================================================
