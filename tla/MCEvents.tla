-------------------------------- MODULE MCEvents -------------------------------
(***************************************************************************)
(* The program's three ways to take events from outside: KafkaConsumer,    *)
(* PlatformEvents (P) and EventBridge (B).  One of them runs in a          *)
(* behaviour, the others rest in an initial state: they share nothing.     *)
(*                                                                         *)
(* Three messages for the consumers, so that one can be handled while one  *)
(* before it is uncommitted and one behind it unread; three starts, so     *)
(* that a failure, a crash and a clean run can follow each other.  The     *)
(* queue of the bridge holds one event, so that it can be full.            *)
(***************************************************************************)
EXTENDS KafkaConsumer

CONSTANTS
    NumEvents, Stores, MaxReconnect, Transports, MaxAttempts, QueueSize,
    MaxBridgeStarts, MaxBridgeFaults

VARIABLES
    part,   \* the component that runs
    config, store, peerPc, running, replay, saved, published, feed, event, attempts,
    calls, missed, unsaved, peerStarts, peerFaults,
    transport, current, attempt, buffer, broker, unsent, file, raised, listener, offset,
    done, queue, bus, stopping, audited, failed, abandoned, bridgeStarts, bridgeFaults

P == INSTANCE PlatformEvents
        WITH pc <- peerPc, runs <- calls, starts <- peerStarts, faults <- peerFaults
B == INSTANCE EventBridge
        WITH event <- current, starts <- bridgeStarts, faults <- bridgeFaults,
             MaxStarts <- MaxBridgeStarts, MaxFaults <- MaxBridgeFaults

peerVars == <<config, store, peerPc, running, replay, saved, published, feed, event, attempts,
              calls, missed, unsaved, peerStarts, peerFaults>>
bridgeVars == <<transport, current, attempt, buffer, broker, unsent, file, raised, listener,
                offset, done, queue, bus, stopping, audited, failed, abandoned, bridgeStarts,
                bridgeFaults>>

ASSUME EventsAssumption == ConsumerAssumption /\ P!ReplayAssumption /\ B!BridgeAssumption

MCInit ==
    /\ Init /\ P!Init /\ B!Init
    /\ part \in {"kafka", "platform", "bridge"}
    /\ part # "kafka" => hasDlq /\ numHandlers = 0
    /\ part # "platform" => config = -1 /\ store = "redis"
    /\ part # "bridge" => transport = "kafka"

KafkaStep    == part = "kafka" /\ Next
PlatformStep == part = "platform" /\ P!Next
BridgeStep   == part = "bridge" /\ B!Next

MCNext ==
    \/ KafkaStep /\ UNCHANGED <<part, peerVars, bridgeVars>>
    \/ PlatformStep /\ UNCHANGED <<part, vars, bridgeVars>>
    \/ BridgeStep /\ UNCHANGED <<part, vars, peerVars>>

\* The steps that are taken as long as there is one to take.
Progress ==
    \/ part = "kafka" /\ (Work \/ Broker) /\ UNCHANGED <<part, peerVars, bridgeVars>>
    \/ part = "platform" /\ P!Work /\ UNCHANGED <<part, vars, bridgeVars>>
    \/ part = "bridge" /\ B!Work /\ UNCHANGED <<part, vars, peerVars>>

MCSpec ==
    /\ MCInit /\ [][MCNext]_<<part, vars, peerVars, bridgeVars>>
    /\ WF_<<part, vars, peerVars, bridgeVars>>(Progress)

-------------------------------------------------------------------------------
\* No committed offset, stored replay id or completed message passes over an event,
\* but for the reasons each of the three modules gives; what the bridge was given to
\* publish is in one of the places it names.
NothingIsPassedOver ==
    CASE part = "kafka"    -> TypeOK /\ CommittedIsAccountedFor
      [] part = "platform" -> P!TypeOK /\ P!NothingPassedOver
      [] part = "bridge"   -> B!TypeOK /\ B!DoneIsAudited /\ B!NoEventVanishes

\* A handler or callback sees an event again only after what says that it has seen it
\* was lost: a commit in Kafka, a replay id in Redis; and the audit log gets the events
\* of a topic in their order.
SecondSightNeedsLoss ==
    CASE part = "kafka"    -> HandledTwiceNeedsLostCommit
      [] part = "platform" -> P!SeenTwiceNeedsUnsaved
      [] part = "bridge"   -> B!AuditsInOrder

\* A consumer that is up gets to the last event or goes down, and a bridge that was
\* stopped goes down unless its listener waits for room in a full queue.
EventsGetOn == ConsumerGetsOn /\ P!ConsumerGetsOn /\ B!StopEnds
===============================================================================
