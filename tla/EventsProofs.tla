------------------------------ MODULE EventsProofs -----------------------------
(***************************************************************************)
(* Proofs about the three consumers of events, for any number of messages, *)
(* starts and failures.                                                    *)
(*                                                                         *)
(* What the runs check is not inductive.  That a committed offset passes   *)
(* over nothing rests on what the consumer holds in its hands: the offset  *)
(* that was asked for, the message that is being handled, the event whose  *)
(* replay id is being stored, the message the listener puts into the       *)
(* queue.  KafkaInv, PeerInv and BridgeInv say what each of these places   *)
(* stands for; only one of the components runs, the others keep theirs.    *)
(***************************************************************************)
EXTENDS MCEvents, Sequences, TLAPS

-------------------------------------------------------------------------------
(* The Kafka consumer.                                                     *)

\* What may have become of a message the group does not see again.
AccountedFor(m) == runs[m] > 0 \/ m \in buffered \union dlq \union dropped \union skipped

\* The offsets are in order, and everything behind the last commit that was asked for is
\* accounted for; while messages are polled and handled, so is everything polled before.
Accounts ==
    /\ committed <= asked /\ asked <= position
    /\ pc = "down" => asked = committed
    /\ \A m \in 1..asked : AccountedFor(m)
    /\ pc = "poll" => \A m \in 1..position : AccountedFor(m)
    /\ pc = "handle" => asked < position /\ \A m \in 1..position - 1 : AccountedFor(m)

\* As long as every commit that was asked for has reached the broker, or still may, the
\* handlers have run once on messages behind it and not at all on others.
RunsOnce ==
    ~commitLost => \A m \in Message : runs[m] <= 1 /\ (runs[m] > 0 => m <= asked)

KafkaInv == TypeOK /\ Accounts /\ RunsOnce

\* Nothing has been read yet.
LEMMA KafkaInit ==
    ASSUME ConsumerAssumption, Init
    PROVE  KafkaInv
<1> USE DEF ConsumerAssumption, Init
<1>1. TypeOK
  <2>1. runs \in [Message -> Nat]
    OBVIOUS
  <2>2. buffered \union dlq \union dropped \union skipped \subseteq Message
    OBVIOUS
  <2>3. {NumMessages, MaxStarts, MaxFaults} \subseteq Nat
    OBVIOUS
  <2>4. starts \in 0..MaxStarts /\ faults \in 0..MaxFaults
    BY <2>3
  <2>5. position \in 0..NumMessages /\ asked \in 0..NumMessages /\ committed \in 0..NumMessages
    BY <2>3
  <2> QED
    BY <2>1, <2>2, <2>4, <2>5 DEF TypeOK
<1>2. Accounts
  BY DEF Accounts
<1>3. RunsOnce
  BY DEF RunsOnce
<1> QED
  BY <1>1, <1>2, <1>3 DEF KafkaInv

\* The bookkeeping of a step.
LEMMA KafkaTypes ==
    ASSUME ConsumerAssumption, KafkaInv, Next
    PROVE  TypeOK'
<1> USE DEF ConsumerAssumption, KafkaInv, TypeOK
<1>0. NumMessages \in Nat /\ MaxStarts \in Nat /\ MaxFaults \in Nat
  OBVIOUS
<1>1. Fault => faults' \in 0..MaxFaults
  BY <1>0 DEF Fault
<1>2. CASE Start
  BY <1>0, <1>2 DEF Start
<1>3. CASE Poll
  <2>1. position' \in 1..NumMessages
    BY <1>0, <1>3 DEF Poll
  <2> QED
    BY <1>3, <2>1 DEF Poll, Message
<1>4. pc = "handle" => position \in Message
  BY <1>0 DEF Accounts, Message
<1>5. CASE HandlerReturns
  BY <1>4, <1>5 DEF HandlerReturns, CommitOffset
<1>6. CASE HandlerRaises
  BY <1>1, <1>4, <1>6 DEF HandlerRaises, CommitOffset
<1>7. CASE Cancel
  <2>1. position' \in 0..NumMessages
    BY <1>0, <1>7 DEF Cancel
  <2> QED
    BY <1>7, <2>1 DEF Cancel
<1>8. CASE Shutdown
  <2>1. /\ committed' \in {committed, position} /\ faults' \in 0..MaxFaults
        /\ commitLost' \in BOOLEAN
    BY <1>1, <1>8 DEF Shutdown, CommitPosition
  <2> QED
    BY <1>8, <2>1 DEF Shutdown, AtHand
<1>9. CASE Rebalance
  BY <1>1, <1>9 DEF Rebalance
<1>10. CASE Crash
  BY <1>1, <1>10 DEF Crash
<1>11. CASE CommitArrives
  BY <1>11 DEF CommitArrives
<1>12. CASE DeadLetterLeaves
  BY <1>1, <1>12 DEF DeadLetterLeaves
<1>13. CASE UNCHANGED vars
  BY <1>13 DEF vars
<1> QED
  BY <1>2, <1>3, <1>5, <1>6, <1>7, <1>8, <1>9, <1>10, <1>11, <1>12, <1>13
  DEF Next, Work, Broker, Idle, Waiting

\* A step keeps the accounts.
LEMMA KafkaAccounts ==
    ASSUME ConsumerAssumption, KafkaInv, Next
    PROVE  Accounts'
<1> USE DEF KafkaInv
<1>0. /\ position \in Nat /\ asked \in Nat /\ committed \in Nat
      /\ NumMessages \in Nat /\ position <= NumMessages
  BY DEF TypeOK, ConsumerAssumption
<1>1. ASSUME Next, NEW m \in Message, AccountedFor(m) PROVE AccountedFor(m)'
  <2> USE DEF AccountedFor
  <2>1. CASE HandlerReturns
    BY <1>1, <2>1 DEF HandlerReturns, TypeOK
  <2>2. CASE DeadLetterLeaves
    BY <1>1, <2>2 DEF DeadLetterLeaves
  <2>3. CASE Start \/ Poll \/ HandlerRaises \/ Shutdown \/ CommitArrives
    BY <1>1, <2>3 DEF Start, Poll, HandlerRaises, Shutdown, CommitArrives
  <2>4. CASE Cancel \/ Rebalance \/ Crash \/ UNCHANGED vars
    BY <1>1, <2>4 DEF Cancel, Rebalance, Crash, vars
  <2> QED
    BY <2>1, <2>2, <2>3, <2>4 DEF Next, Work, Broker, Idle, Waiting
<1>2. \A m \in 1..position : m \in Message
  BY <1>0 DEF Message
<1>3. \A m \in 1..asked : AccountedFor(m)'
  BY <1>0, <1>1, <1>2 DEF Accounts
<1>4. pc = "poll" => \A m \in 1..position : AccountedFor(m)'
  BY <1>1, <1>2 DEF Accounts
<1>5. pc = "handle" => \A m \in 1..position - 1 : AccountedFor(m)'
  BY <1>0, <1>1, <1>2 DEF Accounts
<1>6. CASE Start
  BY <1>0, <1>3, <1>6 DEF Start, Accounts
<1>7. CASE Poll
  <2>1. position' = position + 1 /\ committed' = committed /\ pc = "poll"
    BY <1>7 DEF Poll
  <2>2. CASE numHandlers = 0
    <3>0. PICK p \in Nat : p = position + 1
      BY <1>0
    <3>1. AccountedFor(p)'
      BY <1>7, <2>2, <3>0 DEF Poll, AccountedFor
    <3>2. \A m \in 1..p : m \in 1..position \/ m = p
      BY <1>0, <3>0
    <3>3. \A m \in 1..p : AccountedFor(m)'
      BY <1>4, <2>1, <3>1, <3>2
    <3>4. position' = p /\ asked' = p /\ committed' = committed /\ pc' = "poll"
      BY <1>7, <2>2, <3>0 DEF Poll
    <3>5. committed <= p
      BY <1>0, <3>0 DEF Accounts
    <3> QED
      BY <3>0, <3>3, <3>4, <3>5 DEF Accounts
  <2>3. CASE numHandlers # 0
    <3>1. asked' = asked /\ pc' = "handle" /\ position' - 1 = position
      BY <1>0, <1>7, <2>1, <2>3 DEF Poll
    <3> QED
      BY <1>0, <1>3, <1>4, <2>1, <3>1 DEF Accounts
  <2> QED
    BY <2>2, <2>3
<1>8. CASE HandlerReturns
  <2>1. CASE hand < numHandlers
    BY <1>0, <1>3, <1>5, <1>8, <2>1 DEF HandlerReturns, Accounts
  <2>2. CASE ~(hand < numHandlers)
    <3>1. /\ position' = position /\ asked' = position /\ committed' = committed
          /\ pc' = "poll" /\ pc = "handle"
      BY <1>8, <2>2 DEF HandlerReturns, CommitOffset
    <3>2. position \in Message
      BY <1>0, <3>1 DEF Accounts, TypeOK, Message
    <3>3. AccountedFor(position)'
      BY <1>8, <2>2, <3>1, <3>2 DEF HandlerReturns, AccountedFor, TypeOK
    <3>4. \A m \in 1..position : m \in 1..position - 1 \/ m = position
      BY <1>0
    <3> QED
      BY <1>0, <1>5, <3>1, <3>3, <3>4 DEF Accounts
  <2> QED
    BY <2>1, <2>2
<1>9. CASE HandlerRaises
  <2>1. pc = "handle" /\ position' = position /\ committed' = committed
    BY <1>9 DEF HandlerRaises
  <2>2. \A m \in 1..position : m \in 1..position - 1 \/ m = position
    BY <1>0
  <2>3. CASE hasDlq /\ buffered' = buffered \union {position} /\ CommitOffset /\ pc' = "poll"
    <3>1. AccountedFor(position)'
      BY <2>3, <2>1 DEF AccountedFor
    <3> QED
      BY <1>0, <1>5, <2>1, <2>2, <2>3, <3>1 DEF Accounts, CommitOffset
  <2>4. CASE pc' = "stopping" /\ asked' = asked
    BY <1>0, <1>3, <2>1, <2>4 DEF Accounts
  <2>5. CASE pc' = "poll" /\ dropped' = dropped \union {position} /\ asked' = asked
    <3>1. AccountedFor(position)'
      BY <2>5, <2>1 DEF AccountedFor
    <3> QED
      BY <1>0, <1>3, <1>5, <2>1, <2>2, <2>5, <3>1 DEF Accounts
  <2> QED
    BY <1>9, <2>3, <2>4, <2>5 DEF HandlerRaises
<1>10. CASE Cancel
  <2>1. position' \in {position, position + 1} /\ asked' = asked /\ committed' = committed
        /\ pc' = "stopping"
    BY <1>10 DEF Cancel
  <2> QED
    BY <1>0, <1>3, <2>1 DEF Accounts
<1>11. CASE Shutdown
  <2>1. /\ committed' \in {committed, position} /\ asked' = committed' /\ position' = position
        /\ pc' = "down" /\ dropped' = dropped \union AtHand
    BY <1>11 DEF Shutdown, CommitPosition
  <2>2. ASSUME NEW m \in 1..position PROVE AccountedFor(m)'
    <3>1. CASE m <= asked
      BY <1>0, <1>3, <3>1
    <3>2. CASE ~(m <= asked)
      <4>1. m \in AtHand
        BY <1>0, <1>2, <3>2 DEF AtHand
      <4> QED
        BY <2>1, <4>1 DEF AccountedFor
    <3> QED
      BY <3>1, <3>2
  <2> QED
    BY <1>0, <2>1, <2>2 DEF Accounts
<1>12. CASE Rebalance
  <2>1. /\ committed' \in {committed, position} /\ asked' = committed' /\ position' = committed'
        /\ pc' = "poll" /\ pc = "poll"
    BY <1>12 DEF Rebalance
  <2> QED
    BY <1>0, <1>4, <2>1 DEF Accounts
<1>13. CASE Crash
  BY <1>0, <1>3, <1>13 DEF Crash, Accounts
<1>14. CASE CommitArrives
  BY <1>0, <1>3, <1>4, <1>5, <1>14 DEF CommitArrives, Accounts
<1>15. CASE DeadLetterLeaves
  <2>1. UNCHANGED <<pc, position, asked, committed>>
    BY <1>15 DEF DeadLetterLeaves
  <2> QED
    BY <1>0, <1>3, <1>4, <1>5, <2>1 DEF Accounts
<1>16. CASE UNCHANGED vars
  BY <1>16, <1>3, <1>4, <1>5 DEF vars, Accounts
<1> QED
  BY <1>6, <1>7, <1>8, <1>9, <1>10, <1>11, <1>12, <1>13, <1>14, <1>15, <1>16
  DEF Next, Work, Broker, Idle, Waiting

\* A step keeps the runs of the handlers behind what was committed.
LEMMA KafkaRuns ==
    ASSUME ConsumerAssumption, KafkaInv, Next
    PROVE  RunsOnce'
<1> USE DEF KafkaInv, RunsOnce
<1>0. position \in Nat /\ asked \in Nat /\ committed \in Nat
  BY DEF TypeOK, ConsumerAssumption
<1>1. CASE HandlerReturns
  <2>1. CASE hand < numHandlers
    BY <1>1, <2>1 DEF HandlerReturns
  <2>2. CASE ~(hand < numHandlers)
    <3>1. /\ runs' = [runs EXCEPT ![position] = runs[position] + 1] /\ asked' = position
          /\ commitLost' = commitLost /\ asked < position
      BY <1>1, <2>2 DEF HandlerReturns, CommitOffset, Accounts
    <3>2. \A m \in Message : m \in Int
      BY DEF Message
    <3> QED
      BY <1>0, <3>1, <3>2 DEF TypeOK
  <2> QED
    BY <2>1, <2>2
<1>2. ASSUME runs' = runs, asked' >= asked, asked' \in Nat, commitLost' = commitLost
      PROVE  RunsOnce'
  <2>1. \A m \in Message : m \in Int
    BY DEF Message
  <2> QED
    BY <1>0, <1>2, <2>1
<1>3. CASE Start
  BY <1>0, <1>2, <1>3 DEF Start, Accounts
<1>4. CASE Poll
  BY <1>0, <1>2, <1>4 DEF Poll, Accounts
<1>5. CASE HandlerRaises
  BY <1>0, <1>2, <1>5 DEF HandlerRaises, CommitOffset, Accounts
<1>6. CASE Cancel \/ CommitArrives \/ UNCHANGED vars
  BY <1>0, <1>2, <1>6 DEF Cancel, CommitArrives, vars
<1>7. CASE DeadLetterLeaves
  BY <1>0, <1>2, <1>7 DEF DeadLetterLeaves
<1>8. CASE Shutdown
  <2>1. \/ asked' = position /\ commitLost' = commitLost
        \/ asked' = committed /\ commitLost' = (commitLost \/ committed < position)
    BY <1>8 DEF Shutdown, CommitPosition
  <2>2. runs' = runs
    BY <1>8 DEF Shutdown
  <2>3. CASE asked' = position /\ commitLost' = commitLost
    BY <1>0, <1>2, <2>2, <2>3 DEF Accounts
  <2>4. CASE asked' = committed /\ commitLost' = (commitLost \/ committed < position)
    <3>1. CASE committed < position
      BY <2>4, <3>1
    <3>2. CASE ~(committed < position)
      <4>1. commitLost' = commitLost
        BY <2>4, <3>2 DEF TypeOK
      <4>2. asked' >= asked
        BY <1>0, <2>4, <3>2 DEF Accounts
      <4> QED
        BY <1>0, <1>2, <2>2, <2>4, <4>1, <4>2
    <3> QED
      BY <3>1, <3>2
  <2> QED
    BY <2>1, <2>3, <2>4
<1>9. CASE Rebalance
  <2>1. \/ asked' = position /\ commitLost' = commitLost
        \/ asked' = committed /\ commitLost' = (commitLost \/ committed < position)
    BY <1>9 DEF Rebalance
  <2>2. runs' = runs
    BY <1>9 DEF Rebalance
  <2>3. CASE asked' = position /\ commitLost' = commitLost
    BY <1>0, <1>2, <2>2, <2>3 DEF Accounts
  <2>4. CASE asked' = committed /\ commitLost' = (commitLost \/ committed < position)
    <3>1. CASE committed < position
      BY <2>4, <3>1
    <3>2. CASE ~(committed < position)
      <4>1. commitLost' = commitLost
        BY <2>4, <3>2 DEF TypeOK
      <4>2. asked' >= asked
        BY <1>0, <2>4, <3>2 DEF Accounts
      <4> QED
        BY <1>0, <1>2, <2>2, <2>4, <4>1, <4>2
    <3> QED
      BY <3>1, <3>2
  <2> QED
    BY <2>1, <2>3, <2>4
<1>10. CASE Crash
  <2>1. asked' = committed /\ commitLost' = (commitLost \/ committed < asked) /\ runs' = runs
    BY <1>10 DEF Crash
  <2>2. CASE committed < asked
    BY <2>1, <2>2
  <2>3. CASE ~(committed < asked)
    <3>1. commitLost' = commitLost
      BY <2>1, <2>3 DEF TypeOK
    <3>2. asked' >= asked
      BY <1>0, <2>1, <2>3
    <3> QED
      BY <1>0, <1>2, <2>1, <3>1, <3>2
  <2> QED
    BY <2>2, <2>3
<1> QED
  BY <1>1, <1>3, <1>4, <1>5, <1>6, <1>7, <1>8, <1>9, <1>10
  DEF Next, Work, Broker, Idle, Waiting

\* The invariant is inductive, and says what is asked of the consumer.
LEMMA KafkaKept ==
    /\ ConsumerAssumption /\ KafkaInv /\ Next => KafkaInv'
    /\ KafkaInv => TypeOK /\ CommittedIsAccountedFor /\ HandledTwiceNeedsLostCommit
<1>1. ConsumerAssumption /\ KafkaInv /\ Next => KafkaInv'
  BY KafkaTypes, KafkaAccounts, KafkaRuns DEF KafkaInv
<1>2. ASSUME KafkaInv PROVE CommittedIsAccountedFor /\ HandledTwiceNeedsLostCommit
  <2>1. asked \in Int /\ committed \in Int /\ committed <= asked
    BY <1>2 DEF KafkaInv, TypeOK, Accounts
  <2>2. CommittedIsAccountedFor
    BY <1>2, <2>1 DEF KafkaInv, Accounts, AccountedFor, CommittedIsAccountedFor
  <2>3. HandledTwiceNeedsLostCommit
    BY <1>2 DEF KafkaInv, TypeOK, RunsOnce, HandledTwiceNeedsLostCommit
  <2> QED
    BY <2>2, <2>3
<1> QED
  BY <1>1, <1>2 DEF KafkaInv

-------------------------------------------------------------------------------
(* The consumer of platform events.                                        *)

\* The callback has had the event, or a subscription to new events left it out.
Seen(e) == calls[e] > 0 \/ e \in missed

\* The positions in the stream.
PeerBounds ==
    /\ feed <= published /\ event <= published /\ saved <= published /\ replay <= published
    /\ peerPc \in {"batch", "save"} => event <= feed
    /\ peerPc = "save" => event > 0
    /\ peerPc # "down" => attempts <= MaxReconnect
    /\ \A m \in missed : m <= published
    /\ replay \in P!Event \/ replay = config

\* What every position a subscription may begin at stands for.
PeerSeen ==
    /\ \A e \in 1..saved : Seen(e)
    /\ \A e \in 1..replay : Seen(e)
    /\ peerPc = "connect" => \A e \in 1..feed : Seen(e)
    /\ peerPc \in {"batch", "save"} => \A e \in 1..event : Seen(e)

\* Events are left out only before the position a consumer has, and with a stored
\* position no more are.
PeerMissed ==
    /\ config = -2 => missed = {}
    /\ replay > 0 => \A m \in missed : m < replay
    /\ peerPc = "connect" => \A m \in missed : m <= feed
    /\ peerPc = "batch" => \A m \in missed : m <= event
    /\ peerPc = "save" => \A m \in missed : m < event
    /\ store = "redis" /\ saved > 0 =>
          /\ replay >= saved /\ \A m \in missed : m < saved
          /\ peerPc = "connect" => saved <= feed
          /\ peerPc \in {"batch", "save"} => saved <= event

\* Before the first event whose replay id was not stored, an event was dispatched once,
\* and then its id or a later one is stored, or is the one that is being stored.
PeerRuns ==
    store = "redis" =>
        \A e \in P!Event : (\A f \in unsaved : f > e) =>
            /\ calls[e] <= 1
            /\ calls[e] > 0 => e <= saved \/ (peerPc = "save" /\ e = event)

PeerInv == P!TypeOK /\ PeerBounds /\ PeerSeen /\ PeerMissed /\ PeerRuns

\* Nothing has been published yet.
LEMMA PeerInit ==
    ASSUME P!ReplayAssumption, P!Init
    PROVE  PeerInv
<1> USE DEF P!ReplayAssumption, P!Init, P!ReplayIds, P!Event
<1>1. NumEvents \in Nat /\ MaxReconnect \in Nat /\ MaxStarts \in Nat /\ MaxFaults \in Nat
  OBVIOUS
<1>2. P!TypeOK
  <2>1. calls \in [P!Event -> Nat]
    OBVIOUS
  <2>2. missed \union unsaved \subseteq P!Event
    OBVIOUS
  <2>3. {saved, published, feed, event} \subseteq 0..NumEvents
    BY <1>1
  <2>4. attempts \in 0..MaxReconnect + 1 /\ peerStarts \in 0..MaxStarts
        /\ peerFaults \in 0..MaxFaults
    BY <1>1
  <2>5. config \in P!ReplayIds /\ store \in Stores /\ peerPc = "down" /\ running \in BOOLEAN
        /\ replay \in {-1, -2}
    OBVIOUS
  <2> QED
    BY <2>1, <2>2, <2>3, <2>4, <2>5 DEF P!TypeOK
<1>3. PeerBounds
  BY <1>1 DEF PeerBounds
<1>4. PeerSeen /\ PeerMissed /\ PeerRuns
  BY <1>1 DEF PeerSeen, PeerMissed, PeerRuns
<1> QED
  BY <1>2, <1>3, <1>4 DEF PeerInv

\* The positions are numbers.
LEMMA PeerNumbers ==
    ASSUME P!ReplayAssumption, PeerInv
    PROVE  /\ NumEvents \in Nat /\ MaxReconnect \in Nat /\ MaxStarts \in Nat /\ MaxFaults \in Nat
           /\ saved \in Nat /\ published \in Nat /\ feed \in Nat /\ event \in Nat
           /\ attempts \in Nat /\ replay \in Int
           /\ published <= NumEvents
  BY DEF PeerInv, P!TypeOK, P!ReplayAssumption, P!Event

\* The bookkeeping of a step.
LEMMA PeerTypes ==
    ASSUME P!ReplayAssumption, PeerInv, P!Next
    PROVE  P!TypeOK' /\ PeerBounds'
<1>0. /\ NumEvents \in Nat /\ MaxReconnect \in Nat /\ MaxStarts \in Nat /\ MaxFaults \in Nat
      /\ saved \in Nat /\ published \in Nat /\ feed \in Nat /\ event \in Nat
      /\ attempts \in Nat /\ replay \in Int
      /\ published <= NumEvents
  BY PeerNumbers
<1>t. P!TypeOK /\ PeerBounds
  BY DEF PeerInv
<1> USE <1>0, <1>t DEF P!TypeOK, PeerBounds, P!Event, P!ReplayIds
<1>1. P!Fault => peerFaults' \in 0..MaxFaults
  BY DEF P!Fault
<1>2. CASE P!Start
  BY <1>2 DEF P!Start
<1>3. CASE P!Handshake
  BY <1>3 DEF P!Handshake
<1>4. CASE P!Subscribe
  <2>1. feed' \in 0..NumEvents /\ feed' <= published
    BY <1>4 DEF P!Subscribe
  <2>2. missed' \subseteq P!Event /\ \A m \in missed' : m <= published
    <3>1. \A m \in missed' : m \in missed \/ m \in 1..published
      BY <1>4 DEF P!Subscribe
    <3>2. 1..published \subseteq P!Event /\ missed \subseteq P!Event
      OBVIOUS
    <3>3. \A m \in missed : m <= published
      OBVIOUS
    <3> HIDE <1>0, <1>t DEF P!TypeOK, PeerBounds, P!Event
    <3> QED
      BY <3>1, <3>2, <3>3
  <2>3. UNCHANGED <<config, store, running, replay, saved, published, event, calls, unsaved,
                    peerStarts, peerFaults>>
        /\ attempts' = 0 /\ peerPc' = "connect"
    BY <1>4 DEF P!Subscribe
  <2>4. P!TypeOK'
    <3>1. missed' \union unsaved' \subseteq P!Event
      BY <2>2, <2>3
    <3>2. {saved', published', feed', event'} \subseteq 0..NumEvents
      BY <2>1, <2>3
    <3> QED
      BY <2>3, <3>1, <3>2
  <2>5. PeerBounds'
    BY <2>1, <2>2, <2>3
  <2> QED
    BY <2>4, <2>5
<1>5. CASE P!Connect
  BY <1>5 DEF P!Connect
<1>6. CASE P!Dispatch
  <2>1. event < feed => event' = event + 1 /\ event' \in P!Event /\ event' <= feed
    BY <1>6 DEF P!Dispatch
  <2>2. calls' \in [P!Event -> Nat]
    <3>1. PICK n \in Int : n = event + 1
      OBVIOUS
    <3>2. calls' = [calls EXCEPT ![n] = calls[n] + 1] \/ calls' = calls
      BY <1>6, <3>1 DEF P!Dispatch
    <3>3. calls \in [P!Event -> Nat]
      OBVIOUS
    <3> HIDE DEF P!TypeOK, PeerBounds
    <3> QED
      BY <3>2, <3>3
  <2>3. {saved, published, feed, event'} \subseteq 0..NumEvents
    BY <1>6, <2>1 DEF P!Dispatch
  <2>4. UNCHANGED <<config, store, running, replay, saved, published, feed, attempts, missed,
                    unsaved, peerStarts, peerFaults>>
        /\ peerPc = "batch" /\ peerPc' \in {"save", "connect"}
        /\ (peerPc' = "save" => event < feed)
    BY <1>6 DEF P!Dispatch
  <2>5. P!TypeOK'
    BY <2>2, <2>3, <2>4
  <2>6. PeerBounds'
    <3>1. event' <= published
      BY <1>6, <2>1 DEF P!Dispatch
    <3>2. peerPc' = "save" => event' <= feed /\ event' > 0
      BY <2>1, <2>4
    <3> QED
      BY <2>4, <3>1, <3>2
  <2> QED
    BY <2>5, <2>6
<1>7. CASE P!Save
  BY <1>1, <1>7 DEF P!Save
<1>8. CASE P!Publish
  <2>1. published' = published + 1 /\ published' <= NumEvents
    BY <1>8 DEF P!Publish
  <2>2. \A m \in missed : m \in Int
    OBVIOUS
  <2>3. UNCHANGED <<config, store, peerPc, running, replay, saved, feed, event, attempts, calls,
                    missed, unsaved, peerStarts, peerFaults>>
    BY <1>8 DEF P!Publish
  <2> QED
    BY <2>1, <2>2, <2>3
<1>9. CASE P!Refused
  BY <1>1, <1>9 DEF P!Refused
<1>10. CASE P!ConnectionLost
  BY <1>1, <1>10 DEF P!ConnectionLost
<1>11. CASE P!Stop
  BY <1>11 DEF P!Stop
<1>12. CASE P!Crash
  BY <1>1, <1>12 DEF P!Crash
<1>13. CASE UNCHANGED P!vars
  BY <1>13 DEF P!vars
<1> QED
  BY <1>2, <1>3, <1>4, <1>5, <1>6, <1>7, <1>8, <1>9, <1>10, <1>11, <1>12, <1>13
  DEF P!Next, P!Work, P!Idle

\* What was seen stays so, and the positions stand for what was seen.
LEMMA PeerKeepsSeen ==
    ASSUME P!ReplayAssumption, PeerInv, P!Next
    PROVE  PeerSeen'
<1> USE DEF PeerInv
<1>1. ASSUME NEW e \in P!Event, Seen(e) PROVE Seen(e)'
  <2> USE <1>1 DEF Seen
  <2>1. CASE P!Dispatch
    BY <2>1, PeerNumbers DEF P!Dispatch, P!TypeOK
  <2>2. CASE P!Subscribe
    BY <2>2 DEF P!Subscribe
  <2>3. CASE P!Start \/ P!Handshake \/ P!Connect \/ P!Save
    BY <2>3 DEF P!Start, P!Handshake, P!Connect, P!Save
  <2>4. CASE P!Publish \/ P!Refused \/ P!ConnectionLost \/ P!Stop \/ P!Crash \/ UNCHANGED P!vars
    BY <2>4 DEF P!Publish, P!Refused, P!ConnectionLost, P!Stop, P!Crash, P!vars
  <2> QED
    BY <2>1, <2>2, <2>3, <2>4 DEF P!Next, P!Work, P!Idle
<1>2. \A n \in Int : n <= published => \A e \in 1..n : e \in P!Event
  BY PeerNumbers DEF P!Event
<1>3. \A e \in 1..saved : Seen(e)'
  BY <1>1, <1>2, PeerNumbers DEF PeerSeen, PeerBounds
<1>4. \A e \in 1..replay : Seen(e)'
  BY <1>1, <1>2, PeerNumbers DEF PeerSeen, PeerBounds
<1>5. peerPc = "connect" => \A e \in 1..feed : Seen(e)'
  BY <1>1, <1>2, PeerNumbers DEF PeerSeen, PeerBounds
<1>6. peerPc \in {"batch", "save"} => \A e \in 1..event : Seen(e)'
  BY <1>1, <1>2, PeerNumbers DEF PeerSeen, PeerBounds
<1>7. CASE P!Start
  <2>1. config < 0
    BY DEF P!TypeOK, P!ReplayIds
  <2> QED
    <3>1. /\ UNCHANGED <<calls, missed>> /\ peerPc' = "handshake"
          /\ saved' \in {saved, 0} /\ replay' \in {config, saved'}
      BY <1>7 DEF P!Start
    <3>2. \A e \in 1..saved' : Seen(e)'
      BY <1>3, <3>1
    <3>3. \A e \in 1..replay' : Seen(e)'
      BY <2>1, <3>1, <3>2 DEF P!TypeOK, P!ReplayIds
    <3> QED
      BY <3>1, <3>2, <3>3 DEF PeerSeen
<1>8. CASE P!Handshake
  BY <1>3, <1>4, <1>8 DEF P!Handshake, PeerSeen
<1>9. CASE P!Subscribe
  <2>1. ASSUME NEW e \in 1..feed' PROVE Seen(e)'
    <3>1. CASE replay = -1
      <4>1. feed' = published /\ calls' = calls
            /\ missed' = missed \union {x \in 1..published : calls[x] = 0}
        BY <1>9, <3>1 DEF P!Subscribe
      <4>2. e \in 1..published /\ calls[e] \in Nat
        BY <2>1, <4>1, <1>2, PeerNumbers DEF P!TypeOK
      <4> QED
        BY <4>1, <4>2 DEF Seen
    <3>2. CASE replay # -1
      BY <1>4, <1>9, <2>1, <3>2, PeerNumbers DEF P!Subscribe
    <3> QED
      BY <3>1, <3>2
  <2> QED
    BY <1>3, <1>4, <1>9, <2>1 DEF P!Subscribe, PeerSeen
<1>10. CASE P!Connect
  BY <1>3, <1>4, <1>5, <1>10 DEF P!Connect, PeerSeen
<1>11. CASE P!Dispatch
  <2>1. CASE event < feed
    <3>0. PICK n \in Nat : n = event + 1
      BY PeerNumbers
    <3>1. event' = n /\ peerPc' = "save" /\ UNCHANGED <<saved, replay, feed>> /\ n \in P!Event
      BY <1>11, <2>1, <3>0, PeerNumbers DEF P!Dispatch, PeerBounds, P!Event
    <3>2. Seen(n)'
      BY <1>11, <2>1, <3>0, <3>1 DEF P!Dispatch, Seen, P!TypeOK
    <3>3. \A e \in 1..n : e \in 1..event \/ e = n
      BY <3>0, PeerNumbers
    <3>4. peerPc = "batch"
      BY <1>11 DEF P!Dispatch
    <3>5. \A e \in 1..n : Seen(e)'
      BY <1>6, <3>2, <3>3, <3>4
    <3> QED
      BY <1>3, <1>4, <3>1, <3>5 DEF PeerSeen
  <2>2. CASE ~(event < feed)
    <3>1. /\ event = feed /\ peerPc = "batch" /\ peerPc' = "connect"
          /\ UNCHANGED <<saved, replay, feed>>
      BY <1>11, <2>2, PeerNumbers DEF P!Dispatch, PeerBounds
    <3> QED
      BY <1>3, <1>4, <1>6, <3>1 DEF PeerSeen
  <2> QED
    BY <2>1, <2>2
<1>12. CASE P!Save
  <2>1. /\ peerPc = "save" /\ replay' = event /\ saved' \in {saved, event} /\ event' = event
        /\ peerPc' \in {"batch", "down"}
    BY <1>12 DEF P!Save
  <2> QED
    BY <1>3, <1>6, <2>1 DEF PeerSeen
<1>13. CASE P!Publish \/ P!Stop \/ UNCHANGED P!vars
  <2>1. UNCHANGED <<peerPc, saved, replay, feed, event>>
    BY <1>13 DEF P!Publish, P!Stop, P!vars
  <2> QED
    BY <1>3, <1>4, <1>5, <1>6, <2>1 DEF PeerSeen
<1>14. CASE P!Refused \/ P!ConnectionLost \/ P!Crash
  <2>1. UNCHANGED <<saved, replay>> /\ peerPc' \in {"down", "handshake"}
    BY <1>14 DEF P!Refused, P!ConnectionLost, P!Crash
  <2> QED
    BY <1>3, <1>4, <2>1 DEF PeerSeen
<1> QED
  BY <1>7, <1>8, <1>9, <1>10, <1>11, <1>12, <1>13, <1>14 DEF P!Next, P!Work, P!Idle

\* Events are left out at the beginning alone.
LEMMA PeerKeepsMissed ==
    ASSUME P!ReplayAssumption, PeerInv, P!Next
    PROVE  PeerMissed'
<1> USE PeerNumbers DEF PeerInv, PeerMissed
<1>0. /\ \A m \in missed : m \in Nat
      /\ \A e \in P!Event : e \in Nat /\ e > 0
  BY DEF P!TypeOK, P!Event
<1>1. CASE P!Start
  <2>1. config \in {-1, -2}
    BY DEF P!TypeOK, P!ReplayIds
  <2> QED
    BY <1>0, <1>1, <2>1 DEF P!Start, P!TypeOK
<1>2. CASE P!Handshake
  BY <1>2 DEF P!Handshake
<1>3. CASE P!Subscribe
  <2>1. replay \in {-1, -2} \/ replay > 0
    BY <1>0 DEF P!TypeOK
  <2>2. CASE replay = -1
    <3>1. /\ feed' = published /\ \A m \in missed' : m <= published
          /\ config = -1 /\ ~(store = "redis" /\ saved > 0)
      BY <1>0, <1>3, <2>2 DEF P!Subscribe, PeerBounds
    <3> QED
      BY <1>3, <2>2, <3>1 DEF P!Subscribe
  <2>3. CASE replay = -2
    <3>1. missed' = missed /\ missed = {} /\ ~(store = "redis" /\ saved > 0)
      BY <1>0, <1>3, <2>3 DEF P!Subscribe, PeerBounds
    <3> QED
      BY <1>3, <2>3, <3>1 DEF P!Subscribe
  <2>4. CASE replay > 0
    BY <1>0, <1>3, <2>4 DEF P!Subscribe
  <2> QED
    BY <2>1, <2>2, <2>3, <2>4
<1>4. CASE P!Connect
  BY <1>4 DEF P!Connect
<1>5. CASE P!Dispatch
  BY <1>0, <1>5 DEF P!Dispatch, PeerBounds
<1>6. CASE P!Save
  <2>1. /\ peerPc = "save" /\ replay' = event /\ saved' \in {saved, event}
        /\ peerPc' \in {"batch", "down"} /\ UNCHANGED <<event, missed, config, store>>
    BY <1>6 DEF P!Save
  <2> QED
    BY <1>0, <2>1 DEF PeerBounds
<1>7. CASE P!Publish \/ P!Stop \/ UNCHANGED P!vars
  <2>1. UNCHANGED <<peerPc, saved, replay, feed, event, missed, config, store>>
    BY <1>7 DEF P!Publish, P!Stop, P!vars
  <2> QED
    BY <2>1
<1>8. CASE P!Refused \/ P!ConnectionLost \/ P!Crash
  <2>1. UNCHANGED <<saved, replay, missed, config, store>> /\ peerPc' \in {"down", "handshake"}
    BY <1>8 DEF P!Refused, P!ConnectionLost, P!Crash
  <2> QED
    BY <2>1
<1> QED
  BY <1>1, <1>2, <1>3, <1>4, <1>5, <1>6, <1>7, <1>8 DEF P!Next, P!Work, P!Idle

\* A step keeps the runs of the callback before what was not stored.
LEMMA PeerKeepsRuns ==
    ASSUME P!ReplayAssumption, PeerInv, P!Next
    PROVE  PeerRuns'
<1> USE DEF PeerInv, PeerRuns
<1>0. \A e \in P!Event : e \in Nat /\ e > 0 /\ calls[e] \in Nat
  BY DEF P!TypeOK, P!Event
<1>1. UNCHANGED store
  BY DEF P!Next, P!Work, P!Idle, P!vars, P!Start, P!Handshake, P!Subscribe, P!Connect,
         P!Dispatch, P!Save, P!Publish, P!Refused, P!ConnectionLost, P!Stop, P!Crash
<1>2. CASE P!Dispatch
  <2>1. CASE event < feed
    <3>0. PICK n \in Nat : n = event + 1
      BY PeerNumbers
    <3>1. /\ event' = n /\ peerPc' = "save" /\ peerPc = "batch" /\ n \in P!Event
          /\ UNCHANGED <<saved, unsaved>>
          /\ calls' = [calls EXCEPT ![n] = calls[n] + 1]
      BY <1>2, <2>1, <3>0, PeerNumbers DEF P!Dispatch, PeerBounds, P!Event
    <3>2. store = "redis" => saved < n
      BY <3>0, <3>1, PeerNumbers DEF PeerMissed
    <3> QED
      BY <1>0, <1>1, <3>1, <3>2, PeerNumbers DEF P!TypeOK
  <2>2. CASE ~(event < feed)
    BY <1>1, <1>2, <2>2 DEF P!Dispatch
  <2> QED
    BY <2>1, <2>2
<1>3. CASE P!Save
  <2>1. /\ peerPc = "save" /\ UNCHANGED <<calls, event>> /\ event \in P!Event
        /\ \/ saved' = event /\ unsaved' = unsaved
           \/ saved' \in {saved, event} /\ unsaved' = unsaved \union {event}
    BY <1>3, PeerNumbers DEF P!Save, PeerBounds, P!Event
  <2>2. store = "redis" => saved <= event
    BY <2>1, PeerNumbers DEF PeerMissed
  <2> QED
    BY <1>0, <1>1, <2>1, <2>2, PeerNumbers
<1>4. CASE P!Crash
  <2>1. /\ UNCHANGED <<calls, event, saved>>
        /\ unsaved' = IF peerPc = "save" THEN unsaved \union {event} ELSE unsaved
    BY <1>4 DEF P!Crash
  <2> QED
    BY <1>0, <1>1, <2>1, PeerNumbers
<1>5. CASE P!Start
  <2>1. UNCHANGED <<calls, unsaved>> /\ peerPc = "down" /\ (store = "redis" => saved' = saved)
    BY <1>5 DEF P!Start
  <2> QED
    BY <1>1, <2>1
<1>6. CASE P!Handshake \/ P!Subscribe \/ P!Connect \/ P!Refused \/ P!ConnectionLost
  <2>1. UNCHANGED <<calls, unsaved, saved>> /\ peerPc # "save"
    BY <1>6 DEF P!Handshake, P!Subscribe, P!Connect, P!Refused, P!ConnectionLost
  <2> QED
    BY <1>1, <2>1
<1>7. CASE P!Publish \/ P!Stop \/ UNCHANGED P!vars
  <2>1. UNCHANGED <<calls, unsaved, saved, peerPc, event>>
    BY <1>7 DEF P!Publish, P!Stop, P!vars
  <2> QED
    BY <1>1, <2>1
<1> QED
  BY <1>2, <1>3, <1>4, <1>5, <1>6, <1>7 DEF P!Next, P!Work, P!Idle

\* The invariant is inductive, and says what is asked of the consumer.
LEMMA PeerKept ==
    /\ P!ReplayAssumption /\ PeerInv /\ P!Next => PeerInv'
    /\ P!ReplayAssumption /\ PeerInv =>
          P!TypeOK /\ P!NothingPassedOver /\ P!SeenTwiceNeedsUnsaved
<1>1. P!ReplayAssumption /\ PeerInv /\ P!Next => PeerInv'
  BY PeerTypes, PeerKeepsSeen, PeerKeepsMissed, PeerKeepsRuns DEF PeerInv
<1>2. ASSUME P!ReplayAssumption, PeerInv
      PROVE  P!NothingPassedOver /\ P!SeenTwiceNeedsUnsaved
  <2>1. P!NothingPassedOver
    BY <1>2 DEF PeerInv, PeerSeen, Seen, PeerMissed, P!NothingPassedOver
  <2>2. ASSUME store = "redis", NEW e \in P!Event, calls[e] > 1
        PROVE  \E f \in unsaved : f <= e
    <3>1. unsaved \subseteq P!Event /\ calls[e] \in Nat
      BY <1>2 DEF PeerInv, P!TypeOK
    <3>2. \A f \in unsaved : f \in Int /\ e \in Int
      BY <3>1 DEF P!Event
    <3> QED
      BY <1>2, <2>2, <3>1, <3>2 DEF PeerInv, PeerRuns
  <2> QED
    BY <2>1, <2>2 DEF P!SeenTwiceNeedsUnsaved
<1> QED
  BY <1>1, <1>2 DEF PeerInv

-------------------------------------------------------------------------------
(* The bridge to the audit log.                                            *)

\* What a longer or a shorter sequence has.
LEMMA AppendedSet ==
    ASSUME NEW S, NEW s \in Seq(S), NEW e \in S
    PROVE  /\ Append(s, e) \in Seq(S) /\ Len(Append(s, e)) = Len(s) + 1
           /\ \A i \in 1..Len(s) : Append(s, e)[i] = s[i]
           /\ Append(s, e)[Len(s) + 1] = e
           /\ B!ToSet(Append(s, e)) = B!ToSet(s) \union {e}
<1>1. /\ Append(s, e) \in Seq(S) /\ Len(Append(s, e)) = Len(s) + 1 /\ Len(s) \in Nat
      /\ \A i \in 1..Len(s) : Append(s, e)[i] = s[i]
      /\ Append(s, e)[Len(s) + 1] = e
      /\ DOMAIN s = 1..Len(s) /\ DOMAIN Append(s, e) = 1..Len(s) + 1
  OBVIOUS
<1>2. B!ToSet(Append(s, e)) = B!ToSet(s) \union {e}
  BY <1>1 DEF B!ToSet
<1> QED
  BY <1>1, <1>2

LEMMA RemovedFirst ==
    ASSUME NEW S, NEW s \in Seq(S), s # <<>>
    PROVE  /\ Head(s) = s[1] /\ Head(s) \in S
           /\ Tail(s) \in Seq(S) /\ Len(Tail(s)) = Len(s) - 1 /\ Len(s) \in Nat \ {0}
           /\ \A i \in 1..Len(s) - 1 : Tail(s)[i] = s[i + 1]
           /\ B!ToSet(s) = B!ToSet(Tail(s)) \union {Head(s)}
<1>1. /\ Head(s) = s[1] /\ Head(s) \in S
      /\ Tail(s) \in Seq(S) /\ Len(Tail(s)) = Len(s) - 1 /\ Len(s) \in Nat \ {0}
      /\ \A i \in 1..Len(s) - 1 : Tail(s)[i] = s[i + 1]
      /\ DOMAIN s = 1..Len(s) /\ DOMAIN Tail(s) = 1..Len(s) - 1
  OBVIOUS
<1>2. ASSUME NEW i \in 1..Len(s) PROVE s[i] \in B!ToSet(Tail(s)) \union {Head(s)}
  <2>1. i = 1 \/ (i - 1 \in 1..Len(s) - 1 /\ Tail(s)[i - 1] = s[i])
    BY <1>1
  <2> QED
    BY <1>1, <2>1 DEF B!ToSet
<1>3. \A i \in 1..Len(s) - 1 : Tail(s)[i] \in B!ToSet(s)
  <2>1. \A i \in 1..Len(s) - 1 : i + 1 \in 1..Len(s) /\ Tail(s)[i] = s[i + 1]
    BY <1>1
  <2> QED
    BY <1>1, <2>1 DEF B!ToSet
<1>4. Head(s) \in B!ToSet(s)
  BY <1>1 DEF B!ToSet
<1> QED
  BY <1>1, <1>2, <1>3, <1>4 DEF B!ToSet

LEMMA EmptySet ==
    /\ B!ToSet(<<>>) = {}
    /\ \A S : <<>> \in Seq(S) /\ Len(<<>>) = 0
  BY DEF B!ToSet

\* The sequences are sequences of messages.
BridgeTypes ==
    /\ B!TypeOK
    /\ broker \in Seq(B!Event)
    /\ queue \in Seq(Nat) /\ audited \in Seq(Nat)
    /\ listener = "put" => offset \in 1..Len(broker)

\* The offsets of a Kafka topic: what is behind the listener is committed, and what the
\* queue and the audit log have comes behind committed messages alone.
Commits ==
    transport = "kafka" =>
        /\ listener = "poll" => \A i \in 1..offset : i \in done
        /\ listener = "put" => offset \notin done /\ \A i \in 1..offset - 1 : i \in done
        /\ \A w \in B!ToSet(audited) \union B!ToSet(queue) : \A i \in 1..w - 1 : i \in done

\* The audit log with the queue behind it has the order of the topic.
InOrder ==
    transport = "kafka" =>
        /\ \A i, j \in 1..Len(audited) : i < j => audited[i] <= audited[j]
        /\ \A i, j \in 1..Len(queue) : i < j => queue[i] <= queue[j]
        /\ \A i \in 1..Len(audited), j \in 1..Len(queue) : audited[i] <= queue[j]

BridgeInv == BridgeTypes /\ B!NoEventVanishes /\ B!DoneIsAudited /\ Commits /\ InOrder

\* Nothing has been published, and nothing is queued.
LEMMA BridgeInit ==
    ASSUME B!BridgeAssumption, B!Init
    PROVE  BridgeInv
<1> USE EmptySet DEF B!BridgeAssumption, B!Init
<1>1. NumEvents \in Nat /\ MaxAttempts \in Nat \ {0} /\ MaxBridgeFaults \in Nat
      /\ MaxBridgeStarts \in Nat /\ QueueSize \in Nat
  OBVIOUS
<1>2. B!TypeOK
  <2>1. current \in 1..NumEvents + 1 /\ attempt \in 1..MaxAttempts
        /\ bridgeStarts \in 0..MaxBridgeStarts /\ bridgeFaults \in 0..MaxBridgeFaults
    BY <1>1
  <2>2. buffer \union unsent \union file \union B!ToSet(broker) \subseteq B!Event
    OBVIOUS
  <2>3. offset \in 0..Len(broker) /\ Len(queue) <= QueueSize
    BY <1>1
  <2>4. done \union B!ToSet(queue) \union B!ToSet(audited) \union failed \union abandoned
          \subseteq 1..Len(broker)
    OBVIOUS
  <2> QED
    BY <2>1, <2>2, <2>3, <2>4 DEF B!TypeOK
<1>3. BridgeTypes
  BY <1>2 DEF BridgeTypes
<1>4. B!NoEventVanishes /\ B!DoneIsAudited
  BY DEF B!NoEventVanishes, B!DoneIsAudited
<1>5. Commits /\ InOrder
  BY DEF Commits, InOrder
<1> QED
  BY <1>3, <1>4, <1>5 DEF BridgeInv

\* The numbers among the constants and the variables.
LEMMA BridgeNumbers ==
    ASSUME B!BridgeAssumption, BridgeInv
    PROVE  /\ NumEvents \in Nat /\ MaxAttempts \in Nat \ {0} /\ MaxBridgeFaults \in Nat
           /\ MaxBridgeStarts \in Nat /\ QueueSize \in Nat \ {0}
           /\ current \in Nat \ {0} /\ attempt \in Nat \ {0} /\ offset \in Nat
           /\ Len(broker) \in Nat /\ Len(queue) \in Nat /\ Len(audited) \in Nat
           /\ \A e : e \in B!Event <=> e \in Nat /\ 1 <= e /\ e <= NumEvents
  BY DEF BridgeInv, BridgeTypes, B!TypeOK, B!BridgeAssumption, B!Event

Publishing == B!PublishReturns \/ B!PublishRaises \/ B!ProducerSends
Listening == B!Start \/ B!Poll \/ B!Put \/ B!Dispatch \/ B!Stop \/ B!End

LEMMA BridgeSteps ==
    ASSUME B!Next
    PROVE  Publishing \/ Listening \/ UNCHANGED B!vars
  BY DEF B!Next, B!Work, B!Idle, Publishing, Listening

\* A step of the publisher or its producer leaves the listener alone, adds at most one
\* message to the topic, and loses no event.
LEMMA Published ==
    ASSUME B!BridgeAssumption, BridgeInv, Publishing
    PROVE  /\ UNCHANGED <<transport, B!listenerVars>>
           /\ broker' \in Seq(B!Event) /\ Len(broker') \in Nat /\ Len(broker) <= Len(broker')
           /\ current' \in 1..NumEvents + 1 /\ attempt' \in 1..MaxAttempts /\ raised' \in BOOLEAN
           /\ buffer' \union unsent' \union file' \union B!ToSet(broker') \subseteq B!Event
           /\ bridgeFaults' \in 0..MaxBridgeFaults
           /\ B!NoEventVanishes'
<1> USE BridgeNumbers
<1>0. /\ broker \in Seq(B!Event) /\ raised \in BOOLEAN
      /\ current \in 1..NumEvents + 1 /\ attempt \in 1..MaxAttempts
      /\ bridgeFaults \in 0..MaxBridgeFaults
      /\ buffer \subseteq B!Event /\ unsent \subseteq B!Event /\ file \subseteq B!Event
      /\ B!ToSet(broker) \subseteq B!Event
  BY DEF BridgeInv, BridgeTypes, B!TypeOK
<1>1. \A e \in 1..current - 1 : e \in buffer \union B!ToSet(broker) \union unsent \union file
  BY DEF BridgeInv, B!NoEventVanishes
<1>2. ASSUME NEW e \in B!Event
      PROVE  /\ Append(broker, e) \in Seq(B!Event) /\ Len(Append(broker, e)) = Len(broker) + 1
             /\ B!ToSet(Append(broker, e)) = B!ToSet(broker) \union {e}
  BY <1>0, AppendedSet
<1>3. B!Fault => bridgeFaults' \in 0..MaxBridgeFaults
  BY <1>0 DEF B!Fault
<1>4. B!NextEvent /\ current <= NumEvents =>
          /\ current' \in 1..NumEvents + 1 /\ attempt' \in 1..MaxAttempts
          /\ \A e \in 1..current' - 1 : e \in 1..current - 1 \/ e = current
  BY <1>0 DEF B!NextEvent
<1>5. CASE B!PublishReturns
  <2>1. current <= NumEvents /\ current \in B!Event
    BY <1>5 DEF B!PublishReturns
  <2>2. /\ B!NextEvent
        /\ UNCHANGED <<transport, unsent, file, raised, B!listenerVars, bridgeFaults>>
        /\ \/ buffer' = buffer \union {current} /\ broker' = broker
           \/ buffer' = buffer /\ broker' = Append(broker, current)
    BY <1>5 DEF B!PublishReturns
  <2>3. /\ broker' \in Seq(B!Event) /\ Len(broker') \in Nat /\ Len(broker) <= Len(broker')
        /\ B!ToSet(broker') \subseteq B!Event
        /\ buffer' \union B!ToSet(broker') = buffer \union B!ToSet(broker) \union {current}
    <3>1. CASE buffer' = buffer \union {current} /\ broker' = broker
      BY <1>0, <2>1, <3>1
    <3>2. CASE buffer' = buffer /\ broker' = Append(broker, current)
      <4>1. B!ToSet(broker') = B!ToSet(broker) \union {current}
        BY <1>2, <2>1, <3>2
      <4>2. broker' \in Seq(B!Event) /\ Len(broker') = Len(broker) + 1
        BY <1>2, <2>1, <3>2
      <4> QED
        BY <1>0, <2>1, <3>2, <4>1, <4>2
    <3> QED
      BY <2>2, <3>1, <3>2
  <2>4. B!NoEventVanishes'
    BY <1>1, <1>4, <2>1, <2>2, <2>3 DEF B!NoEventVanishes
  <2> QED
    BY <1>0, <1>4, <2>1, <2>2, <2>3, <2>4
<1>6. CASE B!PublishRaises
  <2>1. current <= NumEvents /\ current \in B!Event
    BY <1>6 DEF B!PublishRaises
  <2>2. /\ UNCHANGED <<transport, buffer, unsent, B!listenerVars>> /\ B!Fault
        /\ broker' \in {broker, Append(broker, current)}
        /\ \/ attempt < MaxAttempts /\ attempt' = attempt + 1 /\ UNCHANGED <<current, file, raised>>
           \/ file' = file \union {current} /\ B!NextEvent /\ UNCHANGED raised
           \/ raised' = TRUE /\ UNCHANGED <<file, current, attempt>>
    BY <1>6 DEF B!PublishRaises
  <2>3. /\ broker' \in Seq(B!Event) /\ Len(broker') \in Nat /\ Len(broker) <= Len(broker')
        /\ B!ToSet(broker') \subseteq B!Event /\ B!ToSet(broker) \subseteq B!ToSet(broker')
    <3>1. CASE broker' = broker
      BY <1>0, <3>1
    <3>2. CASE broker' = Append(broker, current)
      <4>1. B!ToSet(broker') = B!ToSet(broker) \union {current}
        BY <1>2, <2>1, <3>2
      <4>2. broker' \in Seq(B!Event) /\ Len(broker') = Len(broker) + 1
        BY <1>2, <2>1, <3>2
      <4> QED
        BY <1>0, <2>1, <4>1, <4>2
    <3> QED
      BY <2>2, <3>1, <3>2
  <2>4. /\ current' \in 1..NumEvents + 1 /\ attempt' \in 1..MaxAttempts /\ raised' \in BOOLEAN
        /\ file' \subseteq B!Event
        /\ \A e \in 1..current' - 1 : e \in 1..current - 1 \/ e \in file'
        /\ file \subseteq file'
    <3>1. CASE /\ attempt < MaxAttempts /\ attempt' = attempt + 1
               /\ UNCHANGED <<current, file, raised>>
      BY <1>0, <3>1
    <3>2. CASE file' = file \union {current} /\ B!NextEvent /\ UNCHANGED raised
      BY <1>0, <1>4, <2>1, <3>2
    <3>3. CASE raised' = TRUE /\ UNCHANGED <<file, current, attempt>>
      BY <1>0, <3>3
    <3> QED
      BY <2>2, <3>1, <3>2, <3>3
  <2>5. B!NoEventVanishes'
    BY <1>1, <2>2, <2>3, <2>4 DEF B!NoEventVanishes
  <2> QED
    BY <1>0, <1>3, <2>2, <2>3, <2>4, <2>5
<1>7. CASE B!ProducerSends
  <2>1. PICK e \in buffer :
          /\ buffer' = buffer \ {e}
          /\ \/ broker' = Append(broker, e) /\ UNCHANGED <<unsent, bridgeFaults>>
             \/ B!Fault /\ unsent' = unsent \union {e} /\ UNCHANGED broker
          /\ UNCHANGED <<transport, current, attempt, file, raised, B!listenerVars>>
    BY <1>7 DEF B!ProducerSends
  <2>2. e \in B!Event
    BY <1>0
  <2>3. /\ broker' \in Seq(B!Event) /\ Len(broker') \in Nat /\ Len(broker) <= Len(broker')
        /\ B!ToSet(broker') \subseteq B!Event /\ unsent' \subseteq B!Event
        /\ buffer \union B!ToSet(broker) \union unsent
              \subseteq buffer' \union B!ToSet(broker') \union unsent'
    <3>1. CASE broker' = Append(broker, e) /\ UNCHANGED unsent
      <4>1. B!ToSet(broker') = B!ToSet(broker) \union {e}
        BY <1>2, <2>2, <3>1
      <4>2. broker' \in Seq(B!Event) /\ Len(broker') = Len(broker) + 1
        BY <1>2, <2>2, <3>1
      <4> QED
        BY <1>0, <2>1, <2>2, <3>1, <4>1, <4>2
    <3>2. CASE unsent' = unsent \union {e} /\ broker' = broker
      BY <1>0, <2>1, <2>2, <3>2
    <3> QED
      BY <2>1, <3>1, <3>2
  <2>4. B!NoEventVanishes'
    BY <1>1, <2>1, <2>3 DEF B!NoEventVanishes
  <2> QED
    BY <1>0, <1>3, <2>1, <2>3, <2>4
<1> QED
  BY <1>5, <1>6, <1>7 DEF Publishing

\* A step of the publisher keeps the invariant.
LEMMA PublishingKeeps ==
    ASSUME B!BridgeAssumption, BridgeInv, Publishing
    PROVE  BridgeInv'
<1>1. UNCHANGED <<transport, listener, offset, done, queue, bus, stopping, audited, failed,
                  abandoned, bridgeStarts>>
  BY Published DEF B!listenerVars
<1>2. Len(broker) \in Nat /\ Len(broker') \in Nat /\ Len(broker) <= Len(broker')
      /\ broker' \in Seq(B!Event)
  BY Published, BridgeNumbers
<1>3. 1..Len(broker) \subseteq 1..Len(broker') /\ 0..Len(broker) \subseteq 0..Len(broker')
  BY <1>2
<1>4. B!TypeOK'
  BY <1>1, <1>3, Published DEF BridgeInv, BridgeTypes, B!TypeOK
<1>5. BridgeTypes'
  BY <1>1, <1>2, <1>3, <1>4 DEF BridgeInv, BridgeTypes
<1>6. B!DoneIsAudited' /\ Commits' /\ InOrder'
  BY <1>1 DEF BridgeInv, B!DoneIsAudited, Commits, InOrder
<1> QED
  BY <1>5, <1>6, Published DEF BridgeInv

\* Taking a message from the broker keeps the invariant: everything before it is committed.
LEMMA PollKeeps ==
    ASSUME B!BridgeAssumption, BridgeInv, B!Poll
    PROVE  BridgeTypes' /\ B!DoneIsAudited' /\ Commits' /\ InOrder'
<1> USE BridgeNumbers
<1>1. /\ UNCHANGED <<transport, B!publisherVars, broker, done, queue, bus, stopping, audited,
                     failed, abandoned, bridgeStarts, bridgeFaults>>
      /\ listener = "poll"
      /\ \/ listener' = "down" /\ offset' = offset
         \/ /\ listener' = "put" /\ offset' \in 1..Len(broker) /\ offset' \notin done
            /\ transport = "kafka" =>
                  \A j \in 1..Len(broker) : j \notin done /\ j > offset => offset' <= j
  BY DEF B!Poll, B!Undone
<1>2. BridgeTypes'
  <2>1. offset' \in 0..Len(broker) /\ (listener' = "put" => offset' \in 1..Len(broker))
    BY <1>1 DEF BridgeInv, BridgeTypes, B!TypeOK
  <2> QED
    BY <1>1, <2>1 DEF BridgeInv, BridgeTypes, B!TypeOK, B!publisherVars
<1>3. B!DoneIsAudited' /\ InOrder'
  BY <1>1 DEF BridgeInv, B!DoneIsAudited, InOrder
<1>4. ASSUME transport = "kafka", listener' = "put", NEW i \in 1..offset' - 1
      PROVE  i \in done
  <2>1. offset' \in 1..Len(broker) /\ i \in 1..Len(broker) /\ i < offset'
    BY <1>1, <1>4
  <2>2. CASE i <= offset
    BY <1>1, <1>4, <2>1, <2>2 DEF BridgeInv, Commits
  <2>3. CASE ~(i <= offset)
    BY <1>1, <1>4, <2>1, <2>3
  <2> QED
    BY <2>2, <2>3
<1>5. Commits'
  BY <1>1, <1>4 DEF BridgeInv, Commits
<1> QED
  BY <1>2, <1>3, <1>5

\* What the queue and the audit log of a Kafka bridge have is not behind the message the
\* listener holds.
LEMMA NothingLater ==
    ASSUME B!BridgeAssumption, BridgeInv, transport = "kafka", listener = "put"
    PROVE  /\ \A i \in 1..Len(queue) : queue[i] <= offset
           /\ \A i \in 1..Len(audited) : audited[i] <= offset
<1>1. /\ queue \in Seq(Nat) /\ audited \in Seq(Nat) /\ offset \in Nat /\ offset > 0
      /\ offset \notin done
  BY BridgeNumbers DEF BridgeInv, BridgeTypes, Commits
<1>2. ASSUME NEW w \in Nat, w \in B!ToSet(audited) \union B!ToSet(queue) PROVE w <= offset
  <2>1. ~(offset \in 1..w - 1)
    BY <1>1, <1>2 DEF BridgeInv, Commits
  <2> QED
    BY <1>1, <2>1
<1>3. /\ \A i \in 1..Len(queue) : queue[i] \in B!ToSet(queue) /\ queue[i] \in Nat
      /\ \A i \in 1..Len(audited) : audited[i] \in B!ToSet(audited) /\ audited[i] \in Nat
  BY <1>1 DEF B!ToSet
<1> QED
  BY <1>2, <1>3

\* Putting the message into the queue keeps the invariant, whether it is committed or not.
LEMMA PutKeeps ==
    ASSUME B!BridgeAssumption, BridgeInv, B!Put
    PROVE  BridgeTypes' /\ B!DoneIsAudited' /\ Commits' /\ InOrder'
<1>0. offset \in Nat /\ Len(queue) \in Nat /\ Len(broker) \in Nat /\ QueueSize \in Nat
      /\ MaxBridgeFaults \in Nat
  BY BridgeNumbers
<1>1. /\ UNCHANGED <<transport, B!publisherVars, broker, offset, bus, stopping, audited, failed,
                     abandoned, bridgeStarts>>
      /\ listener = "put" /\ Len(queue) < QueueSize
      /\ queue' = Append(queue, offset)
      /\ \/ /\ done' = done \union (IF transport = "kafka" THEN 1..offset ELSE {offset})
            /\ listener' = "poll" /\ bridgeFaults' = bridgeFaults
         \/ /\ B!Fault /\ done' = done
            /\ listener' = IF transport = "kafka" THEN "down" ELSE "poll"
  BY DEF B!Put
<1>2. /\ queue \in Seq(Nat) /\ audited \in Seq(Nat) /\ broker \in Seq(B!Event)
      /\ offset \in 1..Len(broker)
  BY <1>0, <1>1 DEF BridgeInv, BridgeTypes
<1>3. /\ queue' \in Seq(Nat) /\ Len(queue') = Len(queue) + 1
      /\ \A i \in 1..Len(queue) : queue'[i] = queue[i]
      /\ queue'[Len(queue) + 1] = offset
      /\ B!ToSet(queue') = B!ToSet(queue) \union {offset}
  <2>1. offset \in Nat
    BY <1>0, <1>2
  <2>2. queue' = Append(queue, offset)
    BY <1>0, <1>1
  <2>3. /\ Append(queue, offset) \in Seq(Nat) /\ Len(Append(queue, offset)) = Len(queue) + 1
        /\ \A i \in 1..Len(queue) : Append(queue, offset)[i] = queue[i]
        /\ Append(queue, offset)[Len(queue) + 1] = offset
    BY <1>0, <1>2, <2>1
  <2>4. B!ToSet(Append(queue, offset)) = B!ToSet(queue) \union {offset}
    BY <1>2, <2>1, AppendedSet, SMTT(30)
  <2> QED
    BY <1>0, <2>2, <2>3, <2>4
<1>4. done' \subseteq done \union 1..offset /\ done \subseteq done'
  BY <1>0, <1>1, <1>2
<1>5. BridgeTypes'
  <2>0. bridgeFaults \in 0..MaxBridgeFaults
    BY DEF BridgeInv, BridgeTypes, B!TypeOK
  <2>1. bridgeFaults' \in 0..MaxBridgeFaults
    BY <1>0, <1>1, <2>0 DEF B!Fault
  <2>2. Len(queue') <= QueueSize
    BY <1>0, <1>1, <1>3
  <2>3. 1..offset \subseteq 1..Len(broker) /\ {offset} \subseteq 1..Len(broker)
    BY <1>0, <1>2
  <2>4. done \union B!ToSet(queue) \union B!ToSet(audited) \union failed \union abandoned
           \subseteq 1..Len(broker)
    BY DEF BridgeInv, BridgeTypes, B!TypeOK
  <2>5. done' \union B!ToSet(queue') \union B!ToSet(audited) \union failed \union abandoned
           \subseteq 1..Len(broker)
    BY <1>0, <1>3, <1>4, <2>3, <2>4
  <2>6. listener' \in {"down", "poll"}
    BY <1>0, <1>1
  <2>7. B!TypeOK'
    BY <1>0, <1>1, <2>1, <2>2, <2>5, <2>6 DEF BridgeInv, BridgeTypes, B!TypeOK, B!publisherVars
  <2> QED
    BY <1>0, <1>1, <1>2, <1>3, <2>6, <2>7 DEF BridgeTypes
<1>6. CASE transport = "kafka"
  <2>1. \A i \in 1..offset - 1 : i \in done
    BY <1>0, <1>1, <1>6 DEF BridgeInv, Commits
  <2>2. \A i \in 1..offset : i \in 1..offset - 1 \/ i = offset
    BY <1>0, <1>2
  <2>3. \A i \in done' : i \in done \/ i = offset
    BY <1>0, <1>1, <1>6, <2>1, <2>2
  <2>4. B!DoneIsAudited'
    BY <1>0, <1>1, <1>3, <2>3 DEF BridgeInv, B!DoneIsAudited
  <2>5. listener' # "put" /\ (listener' = "poll" => \A i \in 1..offset : i \in done')
    BY <1>0, <1>1, <1>6
  <2>6. ASSUME NEW w \in B!ToSet(audited) \union B!ToSet(queue'), NEW i \in 1..w - 1
        PROVE  i \in done
    <3>1. CASE w = offset
      BY <1>0, <2>1, <2>6, <3>1
    <3>2. CASE w # offset
      BY <1>0, <1>3, <1>6, <2>6, <3>2 DEF BridgeInv, Commits
    <3> QED
      BY <1>0, <3>1, <3>2
  <2>7. Commits'
    BY <1>0, <1>1, <1>4, <2>5, <2>6 DEF Commits
  <2>8. InOrder'
    <3>1. \A i \in 1..Len(queue) + 1 : i \in 1..Len(queue) \/ i = Len(queue) + 1
      BY <1>0
    <3>2. /\ \A i \in 1..Len(queue) : queue[i] \in Nat /\ queue[i] <= offset
          /\ \A i \in 1..Len(audited) : audited[i] \in Nat /\ audited[i] <= offset
      <4>1. /\ \A i \in 1..Len(queue) : queue[i] <= offset
            /\ \A i \in 1..Len(audited) : audited[i] <= offset
        BY <1>0, <1>1, <1>6, NothingLater
      <4>2. /\ \A i \in 1..Len(queue) : queue[i] \in Nat
            /\ \A i \in 1..Len(audited) : audited[i] \in Nat
        BY <1>0, <1>2
      <4> QED
        BY <1>0, <4>1, <4>2
    <3>3. ASSUME NEW i \in 1..Len(queue) + 1, NEW j \in 1..Len(queue) + 1, i < j
          PROVE  queue'[i] <= queue'[j]
      <4>1. i \in 1..Len(queue) /\ queue'[i] = queue[i]
        <5>1. Len(queue) \in Nat /\ i <= Len(queue)
          BY <1>0, <3>3
        <5> QED
          BY <1>0, <1>3, <5>1
      <4>2. CASE j \in 1..Len(queue)
        BY <1>0, <1>3, <1>6, <3>3, <4>1, <4>2 DEF BridgeInv, InOrder
      <4>3. CASE j = Len(queue) + 1
        BY <1>0, <1>3, <3>2, <4>1, <4>3
      <4> QED
        BY <1>0, <3>1, <4>2, <4>3
    <3>4. \A i \in 1..Len(audited), j \in 1..Len(queue) + 1 : audited[i] <= queue'[j]
      BY <1>0, <1>3, <1>6, <3>1, <3>2 DEF BridgeInv, InOrder
    <3> QED
      BY <1>0, <1>1, <1>3, <1>6, <3>3, <3>4 DEF BridgeInv, InOrder
  <2> QED
    BY <1>0, <1>5, <2>4, <2>7, <2>8
<1>7. CASE transport # "kafka"
  <2>1. \A i \in done' : i \in done \/ i = offset
    BY <1>0, <1>1, <1>7
  <2>2. B!DoneIsAudited'
    BY <1>0, <1>1, <1>3, <2>1 DEF BridgeInv, B!DoneIsAudited
  <2> QED
    BY <1>0, <1>1, <1>5, <1>7, <2>2 DEF Commits, InOrder
<1> QED
  BY <1>0, <1>6, <1>7

\* Taking an event from the queue keeps the invariant, whether it is written or not.
LEMMA DispatchKeeps ==
    ASSUME B!BridgeAssumption, BridgeInv, B!Dispatch
    PROVE  BridgeTypes' /\ B!DoneIsAudited' /\ Commits' /\ InOrder'
<1>1. /\ UNCHANGED <<transport, B!publisherVars, broker, listener, offset, done, stopping,
                     abandoned, bridgeStarts>>
      /\ \/ bus' = "down" /\ UNCHANGED <<queue, audited, failed, bridgeFaults>>
         \/ /\ queue # <<>> /\ queue' = Tail(queue) /\ bus' = bus
            /\ \/ audited' = Append(audited, Head(queue)) /\ UNCHANGED <<failed, bridgeFaults>>
               \/ B!Fault /\ failed' = failed \union {Head(queue)} /\ audited' = audited
  BY DEF B!Dispatch
<1>2. /\ queue \in Seq(Nat) /\ audited \in Seq(Nat) /\ Len(queue) \in Nat /\ Len(audited) \in Nat
      /\ Len(queue) <= QueueSize /\ QueueSize \in Nat /\ MaxBridgeFaults \in Nat
  BY BridgeNumbers DEF BridgeInv, BridgeTypes, B!TypeOK
<1>3. CASE bus' = "down" /\ UNCHANGED <<queue, audited, failed, bridgeFaults>>
  <2>1. BridgeTypes'
    BY <1>1, <1>3 DEF BridgeInv, BridgeTypes, B!TypeOK, B!publisherVars
  <2>2. B!DoneIsAudited' /\ Commits' /\ InOrder'
    BY <1>1, <1>3 DEF BridgeInv, B!DoneIsAudited, Commits, InOrder
  <2> QED
    BY <2>1, <2>2
<1>4. CASE /\ queue # <<>> /\ queue' = Tail(queue) /\ bus' = bus
           /\ \/ audited' = Append(audited, Head(queue)) /\ UNCHANGED <<failed, bridgeFaults>>
              \/ B!Fault /\ failed' = failed \union {Head(queue)} /\ audited' = audited
  <2>1. /\ Head(queue) = queue[1] /\ Head(queue) \in Nat
        /\ queue' \in Seq(Nat) /\ Len(queue') = Len(queue) - 1 /\ Len(queue) > 0
        /\ \A i \in 1..Len(queue) - 1 : queue'[i] = queue[i + 1]
    BY <1>2, <1>4
  <2>2. B!ToSet(queue) = B!ToSet(queue') \union {Head(queue)}
    BY <1>2, <1>4, RemovedFirst
  <2>3. CASE audited' = Append(audited, Head(queue)) /\ UNCHANGED <<failed, bridgeFaults>>
    <3>1. /\ audited' \in Seq(Nat) /\ Len(audited') = Len(audited) + 1
          /\ \A i \in 1..Len(audited) : audited'[i] = audited[i]
          /\ audited'[Len(audited) + 1] = Head(queue)
      BY <1>2, <2>1, <2>3
    <3>2. B!ToSet(audited') = B!ToSet(audited) \union {Head(queue)}
      BY <1>2, <2>1, <2>3, AppendedSet
    <3>3. done \union B!ToSet(queue') \union B!ToSet(audited') \union failed \union abandoned
             \subseteq 1..Len(broker)
      BY <2>2, <3>2 DEF BridgeInv, BridgeTypes, B!TypeOK
    <3>4. Len(queue') <= QueueSize
      BY <1>2, <2>1
    <3>5. BridgeTypes'
      BY <1>1, <1>4, <2>1, <2>3, <3>1, <3>3, <3>4
      DEF BridgeInv, BridgeTypes, B!TypeOK, B!publisherVars
    <3>6. B!DoneIsAudited' /\ Commits'
      BY <1>1, <2>2, <2>3, <3>2 DEF BridgeInv, B!DoneIsAudited, Commits
    <3>7. ASSUME transport = "kafka" PROVE InOrder'
      <4>1. \A i \in 1..Len(audited) + 1 : i \in 1..Len(audited) \/ i = Len(audited) + 1
        BY <1>2
      <4>2. 1 \in 1..Len(queue) /\ \A i \in 1..Len(queue) - 1 :
                i + 1 \in 1..Len(queue) /\ 1 < i + 1
        BY <1>2, <2>1
      <4>3. \A i, j \in 1..Len(audited) + 1 : i < j => audited'[i] <= audited'[j]
        <5> TAKE i, j \in 1..Len(audited) + 1
        <5> HAVE i < j
        <5>1. i \in 1..Len(audited)
          BY <1>2
        <5>0. audited'[i] = audited[i]
          BY <3>1, <5>1
        <5>2. CASE j \in 1..Len(audited)
          BY <3>1, <3>7, <5>0, <5>1, <5>2 DEF BridgeInv, InOrder
        <5>3. CASE j = Len(audited) + 1
          BY <2>1, <3>1, <3>7, <4>2, <5>0, <5>1, <5>3 DEF BridgeInv, InOrder
        <5> QED
          BY <4>1, <5>2, <5>3
      <4>4. \A i, j \in 1..Len(queue) - 1 : i < j => queue'[i] <= queue'[j]
        <5> TAKE i, j \in 1..Len(queue) - 1
        <5> HAVE i < j
        <5>1. i + 1 < j + 1
          BY <1>2
        <5> QED
          BY <2>1, <3>7, <4>2, <5>1 DEF BridgeInv, InOrder
      <4>5. \A i \in 1..Len(audited) + 1, j \in 1..Len(queue) - 1 : audited'[i] <= queue'[j]
        <5> TAKE i \in 1..Len(audited) + 1, j \in 1..Len(queue) - 1
        <5>1. queue'[j] = queue[j + 1] /\ j + 1 \in 1..Len(queue) /\ 1 < j + 1
          BY <2>1, <4>2
        <5>2. CASE i \in 1..Len(audited)
          BY <3>1, <3>7, <5>1, <5>2 DEF BridgeInv, InOrder
        <5>3. CASE i = Len(audited) + 1
          BY <2>1, <3>1, <3>7, <4>2, <5>1, <5>3 DEF BridgeInv, InOrder
        <5> QED
          BY <4>1, <5>2, <5>3
      <4> QED
        BY <2>1, <3>1, <4>3, <4>4, <4>5 DEF InOrder
    <3>8. InOrder'
      BY <1>1, <3>7 DEF InOrder
    <3> QED
      BY <3>5, <3>6, <3>8
  <2>4. CASE B!Fault /\ failed' = failed \union {Head(queue)} /\ audited' = audited
    <3>0. bridgeFaults \in 0..MaxBridgeFaults
      BY DEF BridgeInv, BridgeTypes, B!TypeOK
    <3>1. bridgeFaults' \in 0..MaxBridgeFaults
      BY <1>2, <2>4, <3>0 DEF B!Fault
    <3>2. done \union B!ToSet(queue') \union B!ToSet(audited) \union failed' \union abandoned
             \subseteq 1..Len(broker)
      BY <2>2, <2>4 DEF BridgeInv, BridgeTypes, B!TypeOK
    <3>3. Len(queue') <= QueueSize
      BY <1>2, <2>1
    <3>4. BridgeTypes'
      BY <1>1, <1>4, <2>1, <2>4, <3>1, <3>2, <3>3
      DEF BridgeInv, BridgeTypes, B!TypeOK, B!publisherVars
    <3>5. B!DoneIsAudited' /\ Commits'
      BY <1>1, <2>2, <2>4 DEF BridgeInv, B!DoneIsAudited, Commits
    <3>6. \A i \in 1..Len(queue) - 1 : i + 1 \in 1..Len(queue) /\ queue'[i] = queue[i + 1]
      BY <1>2, <2>1
    <3>7. \A i, j \in 1..Len(queue) - 1 : i < j => i + 1 < j + 1
      BY <1>2
    <3>8. InOrder'
      BY <1>1, <2>1, <2>4, <3>6, <3>7 DEF BridgeInv, InOrder
    <3> QED
      BY <3>4, <3>5, <3>8
  <2> QED
    BY <1>4, <2>3, <2>4
<1> QED
  BY <1>1, <1>3, <1>4

\* So do the start, the request to stop, and the end, which empties the queue.
LEMMA OthersKeep ==
    ASSUME B!BridgeAssumption, BridgeInv, B!Start \/ B!Stop \/ B!End
    PROVE  BridgeTypes' /\ B!DoneIsAudited' /\ Commits' /\ InOrder'
<1>1. CASE B!Start
  <2>1. /\ UNCHANGED <<transport, B!publisherVars, broker, done, queue, audited, failed,
                       abandoned, bridgeFaults>>
        /\ bridgeStarts' = bridgeStarts + 1 /\ bridgeStarts < MaxBridgeStarts
        /\ listener' = "poll" /\ bus' = "run" /\ stopping' = FALSE /\ offset' = 0
    BY <1>1 DEF B!Start
  <2>2. bridgeStarts' \in 0..MaxBridgeStarts /\ offset' \in 0..Len(broker)
    <3>1. bridgeStarts \in 0..MaxBridgeStarts
      BY DEF BridgeInv, BridgeTypes, B!TypeOK
    <3> QED
      BY <2>1, <3>1, BridgeNumbers
  <2>3. BridgeTypes'
    BY <2>1, <2>2 DEF BridgeInv, BridgeTypes, B!TypeOK, B!publisherVars
  <2>4. B!DoneIsAudited' /\ Commits' /\ InOrder'
    BY <2>1 DEF BridgeInv, B!DoneIsAudited, Commits, InOrder
  <2> QED
    BY <2>3, <2>4
<1>2. CASE B!Stop
  <2>1. /\ UNCHANGED <<transport, B!publisherVars, broker, listener, offset, done, queue, bus,
                       audited, failed, abandoned, bridgeStarts, bridgeFaults>>
        /\ stopping' = TRUE
    BY <1>2 DEF B!Stop
  <2>2. BridgeTypes'
    BY <2>1 DEF BridgeInv, BridgeTypes, B!TypeOK, B!publisherVars
  <2>3. B!DoneIsAudited' /\ Commits' /\ InOrder'
    BY <2>1 DEF BridgeInv, B!DoneIsAudited, Commits, InOrder
  <2> QED
    BY <2>2, <2>3
<1>3. CASE B!End
  <2>1. /\ UNCHANGED <<transport, B!publisherVars, broker, offset, done, stopping, audited,
                       failed, bridgeStarts>>
        /\ B!Fault \/ bridgeFaults' = bridgeFaults
        /\ listener' = "down" /\ bus' = "down" /\ queue' = <<>>
        /\ abandoned' = abandoned \union B!ToSet(queue)
    BY <1>3 DEF B!End
  <2>2. /\ queue' \in Seq(Nat) /\ Len(queue') = 0 /\ B!ToSet(queue') = {}
    BY <2>1, EmptySet
  <2>3. bridgeFaults \in 0..MaxBridgeFaults /\ MaxBridgeFaults \in Nat /\ QueueSize \in Nat
    BY BridgeNumbers DEF BridgeInv, BridgeTypes, B!TypeOK
  <2>4. bridgeFaults' \in 0..MaxBridgeFaults /\ Len(queue') <= QueueSize
    BY <2>1, <2>2, <2>3 DEF B!Fault
  <2>5. done \union B!ToSet(queue') \union B!ToSet(audited) \union failed \union abandoned'
           \subseteq 1..Len(broker)
    BY <2>1, <2>2 DEF BridgeInv, BridgeTypes, B!TypeOK
  <2>6. BridgeTypes'
    BY <2>1, <2>2, <2>4, <2>5 DEF BridgeInv, BridgeTypes, B!TypeOK, B!publisherVars
  <2>7. B!DoneIsAudited' /\ Commits'
    BY <2>1, <2>2 DEF BridgeInv, B!DoneIsAudited, Commits
  <2>8. InOrder'
    BY <2>1, <2>2 DEF BridgeInv, InOrder
  <2> QED
    BY <2>6, <2>7, <2>8
<1> QED
  BY <1>1, <1>2, <1>3

\* The invariant is inductive, and says what is asked of the bridge.
LEMMA BridgeKept ==
    /\ B!BridgeAssumption /\ BridgeInv /\ B!Next => BridgeInv'
    /\ BridgeInv => B!TypeOK /\ B!DoneIsAudited /\ B!NoEventVanishes /\ B!AuditsInOrder
<1>1. ASSUME B!BridgeAssumption, BridgeInv, Listening PROVE BridgeInv'
  <2>1. UNCHANGED <<B!publisherVars, broker>>
    BY <1>1 DEF Listening, B!Start, B!Poll, B!Put, B!Dispatch, B!Stop, B!End
  <2>2. B!NoEventVanishes'
    BY <1>1, <2>1 DEF BridgeInv, B!NoEventVanishes, B!publisherVars
  <2> QED
    BY <1>1, <2>2, PollKeeps, PutKeeps, DispatchKeeps, OthersKeep DEF BridgeInv, Listening
<1>2. ASSUME BridgeInv, UNCHANGED B!vars PROVE BridgeInv'
  <2>1. UNCHANGED <<transport, B!publisherVars, broker, bridgeFaults, listener, offset, done,
                    queue, bus, stopping, audited, failed, abandoned, bridgeStarts>>
    BY <1>2 DEF B!vars, B!listenerVars
  <2>2. BridgeTypes' /\ B!NoEventVanishes'
    BY <1>2, <2>1 DEF BridgeInv, BridgeTypes, B!TypeOK, B!publisherVars, B!NoEventVanishes
  <2>3. B!DoneIsAudited' /\ Commits' /\ InOrder'
    BY <1>2, <2>1 DEF BridgeInv, B!DoneIsAudited, Commits, InOrder
  <2> QED
    BY <2>2, <2>3 DEF BridgeInv
<1>3. ASSUME BridgeInv PROVE B!AuditsInOrder
  <2>1. DOMAIN audited = 1..Len(audited)
    BY <1>3 DEF BridgeInv, BridgeTypes
  <2> QED
    BY <1>3, <2>1 DEF BridgeInv, InOrder, B!AuditsInOrder
<1> QED
  BY <1>1, <1>2, <1>3, BridgeSteps, PublishingKeeps DEF BridgeInv, BridgeTypes

-------------------------------------------------------------------------------
(* The three together.                                                     *)

EventsInv ==
    /\ part \in {"kafka", "platform", "bridge"}
    /\ KafkaInv /\ PeerInv /\ BridgeInv

\* A component that does not run keeps what it has.
LEMMA EventsRest ==
    /\ KafkaInv /\ UNCHANGED vars => KafkaInv'
    /\ PeerInv /\ UNCHANGED peerVars => PeerInv'
    /\ BridgeInv /\ UNCHANGED bridgeVars => BridgeInv'
<1>1. ASSUME KafkaInv, UNCHANGED vars PROVE KafkaInv'
  <2>1. TypeOK' /\ RunsOnce'
    BY <1>1 DEF vars, KafkaInv, TypeOK, RunsOnce
  <2>2. Accounts'
    BY <1>1 DEF vars, KafkaInv, Accounts, AccountedFor
  <2> QED
    BY <2>1, <2>2 DEF KafkaInv
<1>2. ASSUME PeerInv, UNCHANGED peerVars PROVE PeerInv'
  <2>1. P!TypeOK' /\ PeerBounds'
    BY <1>2 DEF peerVars, PeerInv, P!TypeOK, PeerBounds
  <2>2. PeerSeen' /\ PeerMissed'
    BY <1>2 DEF peerVars, PeerInv, PeerSeen, Seen, PeerMissed
  <2>3. PeerRuns'
    BY <1>2 DEF peerVars, PeerInv, PeerRuns
  <2> QED
    BY <2>1, <2>2, <2>3 DEF PeerInv
<1>3. ASSUME BridgeInv, UNCHANGED bridgeVars PROVE BridgeInv'
  <2>1. BridgeTypes' /\ B!NoEventVanishes'
    BY <1>3 DEF bridgeVars, BridgeInv, BridgeTypes, B!TypeOK, B!NoEventVanishes
  <2>2. B!DoneIsAudited' /\ Commits' /\ InOrder'
    BY <1>3 DEF bridgeVars, BridgeInv, B!DoneIsAudited, Commits, InOrder
  <2> QED
    BY <2>1, <2>2 DEF BridgeInv
<1> QED
  BY <1>1, <1>2, <1>3

LEMMA EventsStart ==
    ASSUME MCInit
    PROVE  EventsInv
<1>1. ConsumerAssumption /\ P!ReplayAssumption /\ B!BridgeAssumption
  BY EventsAssumption
<1>2. Init /\ P!Init /\ B!Init /\ part \in {"kafka", "platform", "bridge"}
  BY DEF MCInit
<1> QED
  BY <1>1, <1>2, KafkaInit, PeerInit, BridgeInit DEF EventsInv

LEMMA EventsKept ==
    ASSUME EventsInv, [MCNext]_<<part, vars, peerVars, bridgeVars>>
    PROVE  EventsInv'
<1>1. ConsumerAssumption /\ P!ReplayAssumption /\ B!BridgeAssumption
  BY EventsAssumption
<1>2. CASE KafkaStep /\ UNCHANGED <<part, peerVars, bridgeVars>>
  BY <1>1, <1>2, KafkaKept, EventsRest DEF EventsInv, KafkaStep
<1>3. CASE PlatformStep /\ UNCHANGED <<part, vars, bridgeVars>>
  BY <1>1, <1>3, PeerKept, EventsRest DEF EventsInv, PlatformStep
<1>4. CASE BridgeStep /\ UNCHANGED <<part, vars, peerVars>>
  BY <1>1, <1>4, BridgeKept, EventsRest DEF EventsInv, BridgeStep
<1>5. CASE UNCHANGED <<part, vars, peerVars, bridgeVars>>
  BY <1>5, EventsRest DEF EventsInv
<1> QED
  BY <1>2, <1>3, <1>4, <1>5 DEF MCNext

LEMMA EventsMean == EventsInv => NothingIsPassedOver /\ SecondSightNeedsLoss
<1>1. ConsumerAssumption /\ P!ReplayAssumption /\ B!BridgeAssumption
  BY EventsAssumption
<1>2. ASSUME EventsInv PROVE NothingIsPassedOver /\ SecondSightNeedsLoss
  <2>1. /\ TypeOK /\ CommittedIsAccountedFor /\ HandledTwiceNeedsLostCommit
        /\ P!TypeOK /\ P!NothingPassedOver /\ P!SeenTwiceNeedsUnsaved
        /\ B!TypeOK /\ B!DoneIsAudited /\ B!NoEventVanishes /\ B!AuditsInOrder
    BY <1>1, <1>2, KafkaKept, PeerKept, BridgeKept DEF EventsInv
  <2> QED
    BY <1>2, <2>1 DEF EventsInv, NothingIsPassedOver, SecondSightNeedsLoss
<1> QED
  BY <1>2

\* No committed offset, stored replay id or completed message ever passes over an event
\* but for the reasons the three components give, however their failures, crashes and
\* restarts are mixed.
THEOREM OffsetsAreHonest == MCSpec => []NothingIsPassedOver
<1>1. MCInit => EventsInv
  BY EventsStart
<1>2. EventsInv /\ [MCNext]_<<part, vars, peerVars, bridgeVars>> => EventsInv'
  BY EventsKept
<1>3. EventsInv => NothingIsPassedOver
  BY EventsMean
<1> QED
  BY <1>1, <1>2, <1>3, PTL DEF MCSpec

\* An event is handled or dispatched a second time only after the commit or the replay id
\* that says it was seen got lost, and the audit log has the order of the topic.
THEOREM RepetitionsHaveCauses == MCSpec => []SecondSightNeedsLoss
<1>1. MCInit => EventsInv
  BY EventsStart
<1>2. EventsInv /\ [MCNext]_<<part, vars, peerVars, bridgeVars>> => EventsInv'
  BY EventsKept
<1>3. EventsInv => SecondSightNeedsLoss
  BY EventsMean
<1> QED
  BY <1>1, <1>2, <1>3, PTL DEF MCSpec

============================================================================
