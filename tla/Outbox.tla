-------------------------------- MODULE Outbox --------------------------------
(***************************************************************************)
(* The outbox of src/integrations/message_queues/event_publisher.py: the   *)
(* publishers that save events, InMemoryOutboxStore, the one OutboxRelay   *)
(* that polls it, and the two broker adapters.  An action is what happens  *)
(* between two awaits of the relay.                                        *)
(***************************************************************************)
EXTENDS Integers, Sequences, SequencesExt, FiniteSets

CONSTANTS
    Event,      \* the events that may be published
    TopicOf,    \* the topic of each
    Adapter,    \* "ServiceBus" or "SQS"
    BatchSize,  \* batch_size of the relay
    ChunkSize,  \* messages in one send_message_batch of SQS, 10 in the code
    MaxRetries, \* max_retries of the relay
    MaxFaults   \* bound on broker errors, store errors and cancellations

ASSUME AdapterAssumption == Adapter \in {"ServiceBus", "SQS"}
ASSUME SizeAssumption    == {BatchSize, ChunkSize} \subseteq Nat \ {0}
ASSUME BoundAssumption   == {MaxRetries, MaxFaults} \subseteq Nat

VARIABLES
    saved,      \* the saved events in the order of the store's dictionary
    status,     \* their EventStatus; "absent" before they are saved
    retries,    \* their retry_count
    received,   \* what the broker received, in order
    pc,         \* where the relay stands; "stopped" when its task is gone
    fetched,    \* events of this cycle whose topic has not come yet
    group,      \* the events of the topic at hand
    todo,       \* those of them still to be sent, or still to be marked
    faults      \* faults injected so far

store == <<saved, status, retries>>
relay == <<pc, fetched, group, todo>>
vars  == <<store, received, relay, faults>>

-------------------------------------------------------------------------------
Take(s, n) == SubSeq(s, 1, IF Len(s) < n THEN Len(s) ELSE n)

Drop(s, n) == SubSeq(s, n + 1, Len(s))

\* The elements of s that are in S, in their order.
Only(s, S) ==
    LET F[i \in 0..Len(s)] ==
            IF i = 0 THEN <<>>
            ELSE IF s[i] \in S THEN Append(F[i - 1], s[i]) ELSE F[i - 1]
    IN  F[Len(s)]

Pending == {e \in Event : status[e] = "pending"}

\* get_pending that cuts the list before it filters it.
GetPending_LimitFirst == Only(Take(saved, BatchSize), Pending)

\* get_pending that hands out the youngest events first.
GetPending_NewestFirst == Take(Only(Reverse(saved), Pending), BatchSize)

\* get_pending: the oldest pending events; failed ones are not among them.
GetPending == Take(Only(saved, Pending), BatchSize)

Init ==
    /\ saved = <<>>
    /\ status = [e \in Event |-> "absent"]
    /\ retries = [e \in Event |-> 0]
    /\ received = <<>>
    /\ pc = "idle"
    /\ fetched = <<>> /\ group = <<>> /\ todo = <<>>
    /\ faults = 0

\* publish_to_outbox.
Publish(e) ==
    /\ status[e] = "absent"
    /\ saved' = Append(saved, e)
    /\ status' = [status EXCEPT ![e] = "pending"]
    /\ UNCHANGED <<retries, received, relay, faults>>

\* by_topic: the events that share the topic of the first one come first.
TakeGroup(events) ==
    LET sameTopic == {e \in Event : TopicOf[e] = TopicOf[Head(events)]}
    IN  /\ group' = Only(events, sameTopic)
        /\ todo' = group'
        /\ fetched' = Only(events, Event \ sameTopic)
        /\ pc' = "send"

EndCycle(label) == pc' = label /\ fetched' = <<>> /\ group' = <<>> /\ todo' = <<>>

NextGroup == IF fetched = <<>> THEN EndCycle("idle") ELSE TakeGroup(fetched)

\* A cycle begins; when nothing is pending it is over at once.
Fetch ==
    /\ pc = "idle"
    /\ GetPending # <<>>
    /\ TakeGroup(GetPending)
    /\ UNCHANGED <<store, received, faults>>

-------------------------------------------------------------------------------
\* One request to the broker: all messages of the group to Service Bus, the
\* next chunk of them to SQS.
Request == IF Adapter = "SQS" THEN Take(todo, ChunkSize) ELSE todo

\* The answers a request may get: Service Bus takes a batch or none of it, SQS
\* may refuse single entries, which the adapter logs.
Accepted ==
    IF Adapter = "SQS"
    THEN {Only(Request, S) : S \in SUBSET ToSet(Request)}
    ELSE {Request}

\* send_batch goes on to the next chunk, or returns to the relay.
Send ==
    /\ pc = "send"
    /\ \E accepted \in Accepted : received' = received \o accepted
    /\ LET rest == Drop(todo, Len(Request))
       IN  IF rest = <<>> THEN pc' = "mark" /\ todo' = group
                          ELSE todo' = rest /\ UNCHANGED pc
    /\ UNCHANGED <<store, fetched, group, faults>>

\* send_batch raises; the broker may have the messages nevertheless.
SendRaises ==
    /\ pc = "send"
    /\ faults < MaxFaults
    /\ faults' = faults + 1
    /\ \E accepted \in Accepted \union {<<>>} : received' = received \o accepted
    /\ pc' = "fail"
    /\ todo' = group
    /\ UNCHANGED <<store, fetched, group>>

AfterMark == IF Tail(todo) = <<>> THEN NextGroup
                                  ELSE todo' = Tail(todo) /\ UNCHANGED <<pc, fetched, group>>

\* One mark_published for the whole group.
MarkPublished_First ==
    /\ pc = "mark"
    /\ status' = [status EXCEPT ![Head(todo)] = "published"]
    /\ NextGroup
    /\ UNCHANGED <<saved, retries, received, faults>>

\* mark_published of the next event of the group.
MarkPublished ==
    /\ pc = "mark"
    /\ status' = [status EXCEPT ![Head(todo)] = "published"]
    /\ AfterMark
    /\ UNCHANGED <<saved, retries, received, faults>>

\* The error branch taken for a group that went out.
MarkFailed_AsPublished ==
    /\ pc = "fail"
    /\ status' = [status EXCEPT ![Head(todo)] = "published"]
    /\ AfterMark
    /\ UNCHANGED <<saved, retries, received, faults>>

\* mark_failed of the next event of the group, in the except clause.
MarkFailed ==
    /\ pc = "fail"
    /\ LET e == Head(todo)
       IN  /\ status' = [status EXCEPT ![e] =
                            IF retries[e] >= MaxRetries THEN "dead_letter" ELSE "failed"]
           /\ retries' = [retries EXCEPT ![e] = @ + 1]
    /\ AfterMark
    /\ UNCHANGED <<saved, received, faults>>

\* The store raises: in mark_published it is the except clause that goes on,
\* with the whole group, and in mark_failed the cycle is over.
StoreRaises ==
    /\ faults < MaxFaults
    /\ faults' = faults + 1
    /\ \/ pc = "mark" /\ pc' = "fail" /\ todo' = group /\ UNCHANGED <<fetched, group>>
       \/ pc = "fail" /\ EndCycle("idle")
    /\ UNCHANGED <<store, received>>

\* The task of the relay is cancelled at an await, and started again.  A stop()
\* is a cancellation between two cycles.
Cancel ==
    /\ pc # "stopped"
    /\ faults < MaxFaults
    /\ faults' = faults + 1
    /\ \/ UNCHANGED received
       \/ pc = "send" /\ \E accepted \in Accepted : received' = received \o accepted
    /\ EndCycle("stopped")
    /\ UNCHANGED store

Restart ==
    /\ pc = "stopped"
    /\ EndCycle("idle")
    /\ UNCHANGED <<store, received, faults>>

RelayStep == Fetch \/ Send \/ MarkPublished \/ MarkFailed

Next ==
    \/ \E e \in Event : Publish(e)
    \/ RelayStep
    \/ SendRaises
    \/ StoreRaises
    \/ Cancel
    \/ Restart

Spec == Init /\ [][Next]_vars

\* The relay is a loop that never waits for anything but its own calls.
FairSpec == Spec /\ WF_vars(RelayStep)

-------------------------------------------------------------------------------
\* The types of the variables.
TypeOK ==
    /\ saved \in Seq(Event)
    /\ status \in [Event -> {"absent", "pending", "published", "failed", "dead_letter"}]
    /\ retries \in [Event -> Nat]
    /\ received \in Seq(Event)
    /\ pc \in {"idle", "send", "mark", "fail", "stopped"}
    /\ {fetched, group, todo} \subseteq Seq(Event)
    /\ faults \in 0..MaxFaults

Deliveries(e) == {i \in DOMAIN received : received[i] = e}

\* An event the store calls published is with the broker, whatever raised or was
\* cancelled on the way there.
PublishedWasDelivered == \A e \in Event : status[e] = "published" => Deliveries(e) # {}

\* The broker gets an event twice only for a fault: each error or cancellation
\* explains one more delivery of it.
DuplicatesNeedFaults == \A e \in Event : Cardinality(Deliveries(e)) <= 1 + faults

\* The first deliveries within a topic come in the order of publication, but for
\* events the relay has given up or not yet got through.
FirstDeliveriesInOrder ==
    \A i, j \in DOMAIN saved :
        LET e == saved[i]
            f == saved[j]
        IN  i < j /\ TopicOf[e] = TopicOf[f] /\ Deliveries(f) # {}
            => \/ status[e] \in {"failed", "dead_letter"}
               \/ \E k \in Deliveries(e) : \A l \in Deliveries(f) : k < l

\* While the relay stays up, no pending event is left behind for ever: batches,
\* topics and failing groups never keep the relay from an older or a younger one.
EveryEventHandled ==
    <>[](pc # "stopped") =>
        \A e \in Event : status[e] = "pending" ~> status[e] # "pending"

\* "Guarantees at-least-once delivery."
AtLeastOnce ==
    <>[](pc # "stopped") =>
        \A e \in Event : status[e] = "pending" ~> Deliveries(e) # {}

===============================================================================
