---------------------------- MODULE PlatformEvents -----------------------------
(***************************************************************************)
(* SalesforcePlatformEventConsumer (src/integrations/event_consumers/      *)
(* salesforce_platform_events.py): handshake, subscribe, then long polls   *)
(* whose events are dispatched and their replay ids stored, in Redis or in *)
(* the memory of the process.  Salesforce is external: it retains every    *)
(* event and numbers them.                                                 *)
(***************************************************************************)
EXTENDS Integers, FiniteSets

CONSTANTS
    NumEvents,
    Stores,         \* "redis" or "memory"
    MaxReconnect,   \* max_reconnect_attempts
    MaxStarts, MaxFaults    \* bounds on starts and on failing steps

ReplayAssumption ==
    /\ {NumEvents, MaxReconnect, MaxStarts, MaxFaults} \subseteq Nat
    /\ Stores \subseteq {"redis", "memory"}

VARIABLES
    config,     \* the replay id of the configuration
    store,
    pc,         \* "down", "handshake", "subscribe", "connect", "batch" or "save"
    running,
    replay,     \* the local variable of _consume_loop
    saved,      \* what the replay store holds, 0 if nothing
    published,  \* events Salesforce has
    feed,       \* the last event Salesforce has sent on the subscription
    event,      \* the last event of the batch that was dispatched
    attempts,   \* _reconnect_attempts
    runs,       \* calls of the callback for each event
    missed,     \* events a subscription to new events left out
    unsaved,    \* events dispatched whose replay id was not stored
    starts, faults

vars == <<config, store, pc, running, replay, saved, published, feed, event, attempts,
          runs, missed, unsaved, starts, faults>>

Event == 1..NumEvents
ReplayIds == {-1, -2}   \* what the configuration may ask for: new events, or all
Fault == faults < MaxFaults /\ faults' = faults + 1

Init ==
    /\ config \in ReplayIds /\ store \in Stores
    /\ pc = "down" /\ running = FALSE
    /\ replay = config /\ saved = 0
    /\ published = 0 /\ feed = 0 /\ event = 0 /\ attempts = 0
    /\ runs = [e \in Event |-> 0]
    /\ missed = {} /\ unsaved = {}
    /\ starts = 0 /\ faults = 0

Publish ==
    /\ published < NumEvents
    /\ published' = published + 1
    /\ UNCHANGED <<config, store, pc, running, replay, saved, feed, event, attempts, runs,
                   missed, unsaved, starts, faults>>

\* What the store holds is not read.
Start_FromConfig ==
    /\ pc = "down" /\ starts < MaxStarts
    /\ starts' = starts + 1
    /\ running' = TRUE
    /\ saved' = IF store = "redis" THEN saved ELSE 0
    /\ replay' = config
    /\ pc' = "handshake"
    /\ attempts' = 0
    /\ UNCHANGED <<config, store, published, feed, event, runs, missed, unsaved, faults>>

\* A store in memory is a new one at each start.
Start ==
    /\ pc = "down" /\ starts < MaxStarts
    /\ starts' = starts + 1
    /\ running' = TRUE
    /\ saved' = IF store = "redis" THEN saved ELSE 0
    /\ replay' = IF saved' = 0 THEN config ELSE saved'
    /\ pc' = "handshake"
    /\ attempts' = 0
    /\ UNCHANGED <<config, store, published, feed, event, runs, missed, unsaved, faults>>

Handshake ==
    /\ pc = "handshake"
    /\ pc' = "subscribe"
    /\ UNCHANGED <<config, store, running, replay, saved, published, feed, event, attempts,
                   runs, missed, unsaved, starts, faults>>

Subscribe ==
    /\ pc = "subscribe"
    /\ feed' = CASE replay = -1 -> published [] replay = -2 -> 0 [] OTHER -> replay
    /\ missed' = IF replay = -1 THEN missed \union {e \in 1..published : runs[e] = 0} ELSE missed
    /\ attempts' = 0
    /\ pc' = "connect"
    /\ UNCHANGED <<config, store, running, replay, saved, published, event, runs, unsaved,
                   starts, faults>>

\* One long poll: everything published since the last one, or nothing yet.
Connect ==
    /\ pc = "connect"
    /\ IF running
       THEN feed < published /\ event' = feed /\ feed' = published /\ pc' = "batch"
       ELSE pc' = "down" /\ UNCHANGED <<event, feed>>
    /\ UNCHANGED <<config, store, running, replay, saved, published, attempts, runs, missed,
                   unsaved, starts, faults>>

\* The callback's exceptions are logged.  Nobody looks at running within a batch.
Dispatch ==
    /\ pc = "batch"
    /\ IF event < feed
       THEN /\ event' = event + 1
            /\ runs' = [runs EXCEPT ![event'] = @ + 1]
            /\ pc' = "save"
       ELSE pc' = "connect" /\ UNCHANGED <<event, runs>>
    /\ UNCHANGED <<config, store, running, replay, saved, published, feed, attempts, missed,
                   unsaved, starts, faults>>

\* No error of Redis is caught; it may have stored the id all the same.
Save ==
    /\ pc = "save"
    /\ replay' = event
    /\ \/ saved' = event /\ pc' = "batch" /\ UNCHANGED <<unsaved, faults>>
       \/ Fault /\ pc' = "down" /\ unsaved' = unsaved \union {event}
          /\ saved' \in {saved, event}
    /\ UNCHANGED <<config, store, running, published, feed, event, attempts, runs, missed, starts>>

\* "reconnect: none" of /meta/connect, wherever it stands in the answer, ends the
\* consumer; so does a status other than 2xx.
Refused ==
    /\ pc \in {"handshake", "subscribe", "connect", "batch"}
    /\ Fault
    /\ pc' = "down"
    /\ UNCHANGED <<config, store, running, replay, saved, published, feed, event, attempts,
                   runs, missed, unsaved, starts>>

\* The number of attempts is not compared with the limit.
ConnectionLost_Forever ==
    /\ pc \in {"handshake", "subscribe", "connect"}
    /\ Fault
    /\ attempts' = attempts + 1
    /\ pc' = IF running THEN "handshake" ELSE "down"
    /\ UNCHANGED <<config, store, running, replay, saved, published, feed, event, runs,
                   missed, unsaved, starts>>

\* A lost connection starts over with a handshake.
ConnectionLost ==
    /\ pc \in {"handshake", "subscribe", "connect"}
    /\ Fault
    /\ attempts' = attempts + 1
    /\ pc' = IF attempts' <= MaxReconnect /\ running THEN "handshake" ELSE "down"
    /\ UNCHANGED <<config, store, running, replay, saved, published, feed, event, runs,
                   missed, unsaved, starts>>

Stop ==
    /\ pc # "down" /\ running
    /\ running' = FALSE
    /\ UNCHANGED <<config, store, pc, replay, saved, published, feed, event, attempts, runs,
                   missed, unsaved, starts, faults>>

\* The task is cancelled or the process dies, at any await.
Crash ==
    /\ pc # "down"
    /\ Fault
    /\ pc' = "down"
    /\ unsaved' = IF pc = "save" THEN unsaved \union {event} ELSE unsaved
    /\ UNCHANGED <<config, store, running, replay, saved, published, feed, event, attempts,
                   runs, missed, starts>>

Work == Start \/ Handshake \/ Subscribe \/ Connect \/ Dispatch \/ Save

Idle == /\ published = NumEvents
        /\ \/ pc = "down" /\ starts = MaxStarts
           \/ pc = "connect" /\ feed = NumEvents
        /\ UNCHANGED vars

Next == Work \/ Publish \/ Refused \/ ConnectionLost \/ Stop \/ Crash \/ Idle

Spec == Init /\ [][Next]_vars

\* Requests and callbacks return, and the consumer is started again.
FairSpec == Spec /\ WF_vars(Work)

-------------------------------------------------------------------------------
\* The types of the variables.
TypeOK ==
    /\ config \in ReplayIds /\ store \in Stores
    /\ pc \in {"down", "handshake", "subscribe", "connect", "batch", "save"}
    /\ running \in BOOLEAN
    /\ replay \in {-1, -2} \union Event
    /\ {saved, published, feed, event} \subseteq 0..NumEvents
    /\ attempts \in 0..MaxReconnect + 1
    /\ runs \in [Event -> Nat]
    /\ missed \union unsaved \subseteq Event
    /\ starts \in 0..MaxStarts /\ faults \in 0..MaxFaults

\* The stored replay id stands for dispatched events alone, save those a
\* subscription to new events left out, and with an id in Redis no later
\* subscription leaves one out.
NothingPassedOver ==
    /\ \A e \in 1..saved : runs[e] > 0 \/ e \in missed
    /\ config = -2 => missed = {}
    /\ store = "redis" /\ saved > 0 => \A e \in missed : e < saved

\* With Redis an event is dispatched again only if its replay id was not stored.
SeenTwiceNeedsUnsaved ==
    store = "redis" => \A e \in Event : runs[e] > 1 => \E f \in unsaved : f <= e

\* A consumer that is up gets to the last event or goes down.
ConsumerGetsOn == []<>(pc = "down" \/ (pc = "connect" /\ feed = published))

-------------------------------------------------------------------------------
\* "so the consumer can resume after a restart without missing events": a
\* reconnection, or a restart, before the first event was stored subscribes to
\* new events once more.
NothingMissedAfterStart == store = "redis" /\ starts > 1 => missed = {}
===============================================================================
