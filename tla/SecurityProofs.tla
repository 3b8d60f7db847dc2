---------------------------- MODULE SecurityProofs -----------------------------
(***************************************************************************)
(* Proofs about what guards the program, for any clients, runs, readers,   *)
(* users, roles, loggers and bounds: ApiGateway, SecretsManager (which     *)
(* MCSecurity instantiates as S), AuditLogs (as A), AccessControl (as R),  *)
(* and the run that holds them.                                            *)
(***************************************************************************)
EXTENDS MCSecurity, SequenceTheorems, FiniteSetTheorems, NaturalsInduction,
        WellFoundedInduction, TLAPS

-------------------------------------------------------------------------------
(* The secrets.                                                            *)

\* The values the fields of a call take.
Flag == BOOLEAN
Tries == 0..MaxRetries - 1
Moment == 0..SecretTime
Number == 0..MaxVersion
Place == {"new", "send", "answer", "served", "failed"}

Call == [pc : Place, bypass : Flag, backend : S!Backend, attempt : Tries, sent : Moment,
         version : Number]

\* What the invariants need of the variables beyond their type.
SecretShape ==
    /\ S!TypeOK
    /\ entry # S!Nothing => entry.version > 0
    /\ reader \in [Reader -> Call]
    /\ \A b \in S!Backend, v \in 1..MaxVersion : until[b][v] <= clock

\* What is cached was held when its request was sent, which is a request's time before.
EntryIsHeld ==
    entry # S!Nothing =>
        /\ entry.at <= clock
        /\ S!HeldSince(entry.backend, entry.version, entry.at - Timeout)

\* So was what is under way.
UnderWay(q) ==
    q.pc = "answer" =>
        /\ q.version > 0
        /\ q.sent <= clock /\ clock <= q.sent + Timeout
        /\ S!HeldSince(q.backend, q.version, q.sent)

AnswersAreHeld == \A r \in Reader : UnderWay(reader[r])

SecretInv == SecretShape /\ EntryIsHeld /\ AnswersAreHeld

\* What the assumption on the bounds of the secrets says.
LEMMA SecretBounds ==
    /\ NumBackends \in 1..2 /\ CacheTtl \in Nat \ {0} /\ MaxRetries \in Nat \ {0}
    /\ MaxVersion \in Nat \ {0} /\ Timeout \in Nat /\ SecretTime \in Nat /\ MaxFaults \in Nat
  BY GuardsAssumption DEF S!SecretsAssumption

\* The simplest values of a call.
LEMMA CallValues ==
    /\ TRUE \in Flag /\ FALSE \in Flag /\ 1 \in S!Backend
    /\ 0 \in Tries /\ 0 \in Moment /\ 0 \in Number
    /\ \A s \in {"new", "send", "answer", "served", "failed"} : s \in Place
  BY SecretBounds DEF Flag, S!Backend, Tries, Moment, Number, Place

\* A call that begins has the type of a call.
LEMMA NewIsCall == S!New \in Call
  BY CallValues DEF S!New, Call

\* Nothing is cached or asked for.
LEMMA SecretInit == S!Init => SecretInv
<1> SUFFICES ASSUME S!Init PROVE SecretInv
  OBVIOUS
<1>1. S!Nothing \in [version : 0..MaxVersion, backend : S!Backend, at : 0..SecretTime]
  BY SecretBounds DEF S!Nothing, S!Backend
<1>2. \A r \in Reader : /\ reader[r].pc \in {"new", "send", "answer", "served", "failed"}
                        /\ reader[r].attempt \in 0..MaxRetries - 1
                        /\ reader[r].pc # "answer"
  BY SecretBounds DEF S!Init, S!New
<1>3. S!TypeOK
  BY <1>1, <1>2, SecretBounds DEF S!Init, S!TypeOK
<1>4. reader \in [Reader -> Call]
  BY NewIsCall DEF S!Init
<1>5. \A b \in S!Backend, v \in 1..MaxVersion : until[b][v] <= clock
  BY DEF S!Init
<1>6. entry = S!Nothing
  BY DEF S!Init
<1> QED
  BY <1>2, <1>3, <1>4, <1>5, <1>6 DEF SecretInv, SecretShape, EntryIsHeld, AnswersAreHeld, UnderWay

\* A call that ends, or goes on after an error, has nothing under way.
LEMMA EndedCalls ==
    ASSUME reader \in [Reader -> Call], NEW r \in Reader,
           NEW b \in S!Backend, NEW v \in Number, NEW bypass \in Flag
    PROVE  /\ \E q \in Call :
                 S!Served(r, v, b, bypass) = [reader EXCEPT ![r] = q] /\ q.pc # "answer"
           /\ \E q \in Call : /\ S!Raise(r) = [reader EXCEPT ![r] = q]
                             /\ q.pc # "answer" /\ q.pc # "served"
<1>0. reader[r] \in Call
  OBVIOUS
<1>1. \E q \in Call : S!Served(r, v, b, bypass) = [reader EXCEPT ![r] = q] /\ q.pc # "answer"
  <2> DEFINE q == [S!New EXCEPT !.pc = "served", !.version = v, !.backend = b, !.bypass = bypass]
  <2>1. q \in Call
    BY NewIsCall, CallValues DEF Call
  <2>2. q.pc # "answer" /\ S!Served(r, v, b, bypass) = [reader EXCEPT ![r] = q]
    BY DEF S!Served, S!New
  <2> QED
    BY <2>1, <2>2
<1>2. \E q \in Call : /\ S!Failed(r) = [reader EXCEPT ![r] = q]
                     /\ q.pc # "answer" /\ q.pc # "served"
  <2> DEFINE q == [S!New EXCEPT !.pc = "failed"]
  <2>1. q \in Call
    BY NewIsCall, CallValues DEF Call
  <2>2. q.pc = "failed" /\ S!Failed(r) = [reader EXCEPT ![r] = q]
    BY DEF S!Failed, S!New
  <2> QED
    BY <2>1, <2>2
<1>3. CASE reader[r].attempt + 1 < MaxRetries
  <2> DEFINE q == [reader[r] EXCEPT !.pc = "send", !.sent = 0, !.version = 0, !.attempt = @ + 1]
  <2>1. reader[r].attempt + 1 \in Tries
    BY <1>0, <1>3, SecretBounds DEF Call, Tries
  <2>2. q \in Call /\ q.pc = "send"
    BY <1>0, <2>1, CallValues DEF Call
  <2>3. S!Raise(r) = [reader EXCEPT ![r] = q]
    BY <1>3 DEF S!Raise
  <2> QED
    BY <1>1, <2>2, <2>3
<1>4. CASE ~(reader[r].attempt + 1 < MaxRetries) /\ reader[r].backend < NumBackends
  <2> DEFINE q == [reader[r] EXCEPT !.pc = "send", !.sent = 0, !.version = 0, !.attempt = 0,
                                    !.backend = @ + 1]
  <2>1. reader[r].backend + 1 \in S!Backend
    BY <1>0, <1>4, SecretBounds DEF Call, S!Backend
  <2>2. q \in Call /\ q.pc = "send"
    BY <1>0, <2>1, CallValues DEF Call
  <2>3. S!Raise(r) = [reader EXCEPT ![r] = q]
    BY <1>4 DEF S!Raise
  <2> QED
    BY <1>1, <2>2, <2>3
<1>5. CASE ~(reader[r].attempt + 1 < MaxRetries) /\ ~(reader[r].backend < NumBackends)
  BY <1>1, <1>2, <1>5 DEF S!Raise
<1> QED
  BY <1>3, <1>4, <1>5

\* A secret that was held stays held since then, whatever is rotated.
LEMMA StillHeld ==
    ASSUME SecretInv, [S!Next]_(S!vars)
    PROVE  \A b \in S!Backend, v \in 1..MaxVersion, t \in Int :
               t <= clock /\ (v = stored[b] \/ until[b][v] >= t) =>
                   v = stored'[b] \/ until'[b][v] >= t
<1>1. CASE UNCHANGED <<stored, until>>
  BY <1>1
<1>2. ASSUME NEW x \in S!Backend, S!Rotate(x),
             NEW b \in S!Backend, NEW v \in 1..MaxVersion, NEW t \in Int,
             t <= clock, v = stored[b] \/ until[b][v] >= t
      PROVE  v = stored'[b] \/ until'[b][v] >= t
  BY <1>2 DEF S!Rotate, SecretInv, SecretShape, S!TypeOK
<1> QED
  BY <1>1, <1>2 DEF S!Next, S!Work, S!Step, S!Get, S!Read, S!Answer, S!Error, S!NotifyRotation,
                    S!Tick, S!Rest, S!vars

\* What is cached stays held, for as long as it stays.
LEMMA EntryStaysHeld ==
    ASSUME SecretInv, [S!Next]_(S!vars), entry' = entry \/ entry' = S!Nothing,
           clock' \in Nat, clock' >= clock
    PROVE  EntryIsHeld'
<1> SUFFICES ASSUME entry # S!Nothing, entry' = entry PROVE EntryIsHeld'
  BY DEF EntryIsHeld, S!Nothing
<1>1. /\ entry.version \in 1..MaxVersion /\ entry.backend \in S!Backend
      /\ entry.at \in Nat /\ entry.at <= clock /\ clock \in Nat
      /\ entry.version = stored[entry.backend]
         \/ until[entry.backend][entry.version] >= entry.at - Timeout
  BY SecretBounds DEF SecretInv, SecretShape, EntryIsHeld, S!TypeOK, S!HeldSince
<1>2. entry.at - Timeout \in Int /\ entry.at - Timeout <= clock
  BY <1>1, SecretBounds
<1>3. \/ entry.version = stored'[entry.backend]
      \/ until'[entry.backend][entry.version] >= entry.at - Timeout
  BY <1>1, <1>2, StillHeld
<1> QED
  BY <1>1, <1>3 DEF EntryIsHeld, S!HeldSince

\* What the type says of what is under way.
LEMMA UnderWayMeans ==
    ASSUME SecretInv, NEW x \in Reader, reader[x].pc = "answer"
    PROVE  /\ reader[x] \in Call
           /\ reader[x].version \in 1..MaxVersion /\ reader[x].backend \in S!Backend
           /\ reader[x].sent \in Nat /\ reader[x].sent <= clock
           /\ clock <= reader[x].sent + Timeout
           /\ reader[x].version = stored[reader[x].backend]
              \/ until[reader[x].backend][reader[x].version] >= reader[x].sent
<1>1. reader[x] \in Call
  BY DEF SecretInv, SecretShape
<1>2. reader[x].version \in Number /\ reader[x].sent \in Moment /\ reader[x].backend \in S!Backend
  BY <1>1 DEF Call
<1> QED
  BY <1>1, <1>2, SecretBounds
     DEF SecretInv, AnswersAreHeld, UnderWay, S!HeldSince, Number, Moment

\* The last moment a version was held is a moment.
LEMMA UntilIsTime ==
    ASSUME SecretInv, NEW b \in S!Backend, NEW v \in 1..MaxVersion
    PROVE  until[b][v] \in Nat
  BY SecretBounds DEF SecretInv, SecretShape, S!TypeOK

\* So does what is under way, while the clock stands still.
LEMMA AnswersStayHeld ==
    ASSUME SecretInv, [S!Next]_(S!vars), clock' = clock, NEW x \in Reader, reader'[x] = reader[x]
    PROVE  UnderWay(reader[x])'
<1> SUFFICES ASSUME reader[x].pc = "answer" PROVE UnderWay(reader[x])'
  BY DEF UnderWay
<1>1. \/ reader[x].version = stored'[reader[x].backend]
      \/ until'[reader[x].backend][reader[x].version] >= reader[x].sent
  BY UnderWayMeans, StillHeld
<1> QED
  BY <1>1, UnderWayMeans DEF UnderWay, S!HeldSince

\* A step of a reader keeps the types.
LEMMA ShapeGoesOn ==
    ASSUME SecretShape, UNCHANGED <<clock, stored, until, invalidated>>,
           failures' \in 0..MaxFaults \/ failures' = failures,
           \/ entry' \in {entry, S!Nothing}
           \/ entry' \in [version : 1..MaxVersion, backend : S!Backend, at : 0..SecretTime],
           reader' \in [Reader -> Call]
    PROVE  SecretShape'
<1>1. S!Nothing \in [version : 0..MaxVersion, backend : S!Backend, at : 0..SecretTime]
  BY SecretBounds DEF S!Nothing, S!Backend
<1>2. entry' \in [version : 0..MaxVersion, backend : S!Backend, at : 0..SecretTime]
  BY <1>1, SecretBounds DEF SecretShape, S!TypeOK
<1>3. \A r \in Reader : /\ reader'[r].pc \in {"new", "send", "answer", "served", "failed"}
                        /\ reader'[r].attempt \in 0..MaxRetries - 1
  BY DEF Call, Place, Tries
<1>4. S!TypeOK'
  BY <1>2, <1>3 DEF SecretShape, S!TypeOK
<1>5. (entry # S!Nothing => entry.version > 0)'
  BY SecretBounds DEF SecretShape
<1> QED
  BY <1>4, <1>5 DEF SecretShape

\* A call that has nothing under way needs nothing.
LEMMA QuietCall ==
    ASSUME SecretInv, [S!Next]_(S!vars), clock' = clock, NEW r \in Reader, NEW q \in Call,
           q.pc # "answer", reader' = [reader EXCEPT ![r] = q]
    PROVE  reader' \in [Reader -> Call] /\ AnswersAreHeld'
<1>1. reader \in [Reader -> Call]
  BY DEF SecretInv, SecretShape
<1>2. ASSUME NEW x \in Reader PROVE UnderWay(reader[x])'
  <2>1. CASE x = r
    BY <1>1, <2>1 DEF UnderWay
  <2>2. CASE x # r
    BY <1>1, <2>2, AnswersStayHeld
  <2> QED
    BY <2>1, <2>2
<1> QED
  BY <1>1, <1>2 DEF AnswersAreHeld

\* A read that begins serves what is cached, or goes on.
LEMMA GetKeeps ==
    ASSUME SecretInv, [S!Next]_(S!vars), NEW r \in Reader, NEW bypass \in BOOLEAN, S!Get(r, bypass)
    PROVE  SecretInv'
<1>1. /\ UNCHANGED <<clock, stored, until, invalidated, failures>>
      /\ entry' = entry \/ entry' = S!Nothing
      /\ \/ reader' = S!Served(r, entry.version, entry.backend, FALSE)
         \/ reader' = [reader EXCEPT ![r].pc = "send", ![r].bypass = bypass]
  BY DEF S!Get
<1>2. reader \in [Reader -> Call] /\ SecretShape /\ S!TypeOK
  BY DEF SecretInv, SecretShape
<1>3. clock \in Nat
  BY <1>2, SecretBounds DEF S!TypeOK
<1>4. PICK q \in Call : reader' = [reader EXCEPT ![r] = q] /\ q.pc # "answer"
  <2>1. CASE reader' = S!Served(r, entry.version, entry.backend, FALSE)
    <3> DEFINE q == [S!New EXCEPT !.pc = "served", !.version = entry.version,
                                  !.backend = entry.backend, !.bypass = FALSE]
    <3>1. entry.version \in Number /\ entry.backend \in S!Backend
      BY <1>2 DEF S!TypeOK, Number
    <3>2. q \in Call /\ q.pc # "answer"
      BY <3>1, NewIsCall, CallValues DEF Call
    <3>3. reader' = [reader EXCEPT ![r] = q]
      BY <2>1 DEF S!Served
    <3> QED
      BY <3>2, <3>3
  <2>2. CASE reader' = [reader EXCEPT ![r].pc = "send", ![r].bypass = bypass]
    <3> DEFINE q == [reader[r] EXCEPT !.pc = "send", !.bypass = bypass]
    <3>1. bypass \in Flag
      BY DEF Flag
    <3>2. q \in Call /\ q.pc # "answer"
      BY <1>2, <3>1, CallValues DEF Call
    <3>3. reader' = [reader EXCEPT ![r] = q]
      BY <2>2
    <3> QED
      BY <3>2, <3>3
  <2> QED
    BY <1>1, <2>1, <2>2
<1>5. reader' \in [Reader -> Call] /\ AnswersAreHeld'
  BY <1>1, <1>4, QuietCall
<1>6. SecretShape'
  BY <1>1, <1>2, <1>5, ShapeGoesOn
<1>7. EntryIsHeld'
  BY <1>1, <1>3, EntryStaysHeld
<1> QED
  BY <1>5, <1>6, <1>7 DEF SecretInv

\* A backend answers with what it holds.
LEMMA ReadKeeps ==
    ASSUME SecretInv, [S!Next]_(S!vars), NEW r \in Reader, S!Read(r)
    PROVE  SecretInv'
<1> DEFINE q == [reader[r] EXCEPT !.pc = "answer", !.sent = clock,
                                  !.version = stored[reader[r].backend]]
<1>1. /\ UNCHANGED <<clock, stored, until, entry, invalidated, failures>>
      /\ reader' = [reader EXCEPT ![r] = q]
  BY DEF S!Read
<1>2. reader \in [Reader -> Call] /\ reader[r] \in Call /\ SecretShape /\ S!TypeOK
  BY DEF SecretInv, SecretShape
<1>3. clock \in Nat /\ clock \in Moment
  BY <1>2, SecretBounds DEF S!TypeOK, Moment
<1>4. reader[r].backend \in S!Backend
  BY <1>2 DEF Call
<1>5. stored[reader[r].backend] \in 1..MaxVersion /\ stored[reader[r].backend] \in Number
  BY <1>2, <1>4, SecretBounds DEF S!TypeOK, Number
<1>6. q \in Call
  BY <1>2, <1>3, <1>5, CallValues DEF Call
<1>7. q.sent = clock /\ q.version = stored[q.backend] /\ q.version > 0
  BY <1>2, <1>5, SecretBounds DEF Call
<1> HIDE DEF q
<1>8. ASSUME NEW x \in Reader PROVE UnderWay(reader[x])'
  <2>1. CASE x = r
    <3>1. reader'[x] = q
      BY <1>1, <1>2, <2>1
    <3> QED
      BY <1>1, <1>3, <1>7, <3>1, SecretBounds DEF UnderWay, S!HeldSince
  <2>2. CASE x # r
    BY <1>1, <1>2, <2>2, AnswersStayHeld
  <2> QED
    BY <2>1, <2>2
<1>9. reader' \in [Reader -> Call] /\ AnswersAreHeld'
  BY <1>1, <1>2, <1>6, <1>8 DEF AnswersAreHeld
<1>10. SecretShape'
  BY <1>1, <1>2, <1>9, ShapeGoesOn
<1>11. EntryIsHeld'
  BY <1>1, <1>3, EntryStaysHeld
<1> QED
  BY <1>9, <1>10, <1>11 DEF SecretInv

\* An answer is cached, and was held within the time of its request.
LEMMA AnswerKeeps ==
    ASSUME SecretInv, [S!Next]_(S!vars), NEW r \in Reader, S!Answer(r)
    PROVE  SecretInv'
<1>1. /\ UNCHANGED <<clock, stored, until, invalidated, failures>>
      /\ reader[r].pc = "answer"
      /\ entry' = [version |-> reader[r].version, backend |-> reader[r].backend, at |-> clock]
      /\ reader' = S!Served(r, reader[r].version, reader[r].backend, reader[r].bypass)
  BY DEF S!Answer, S!StoreInCache
<1>2. reader \in [Reader -> Call] /\ reader[r] \in Call /\ SecretShape /\ S!TypeOK
  BY DEF SecretInv, SecretShape
<1>3. clock \in 0..SecretTime
  BY <1>2 DEF S!TypeOK
<1>4. /\ reader[r].version \in Number /\ reader[r].backend \in S!Backend
      /\ reader[r].bypass \in Flag
  BY <1>2 DEF Call
<1>5. PICK q \in Call : reader' = [reader EXCEPT ![r] = q] /\ q.pc # "answer"
  BY <1>1, <1>2, <1>4, EndedCalls
<1>6. reader' \in [Reader -> Call] /\ AnswersAreHeld'
  BY <1>1, <1>5, QuietCall
<1>7. entry' \in [version : 1..MaxVersion, backend : S!Backend, at : 0..SecretTime]
  BY <1>1, <1>3, UnderWayMeans
<1>8. SecretShape'
  BY <1>1, <1>2, <1>6, <1>7, ShapeGoesOn
<1>9. EntryIsHeld'
  <2>1. /\ reader[r].sent >= clock - Timeout /\ reader[r].sent \in Nat /\ clock \in Nat
        /\ \/ reader[r].version = stored[reader[r].backend]
           \/ until[reader[r].backend][reader[r].version] >= reader[r].sent
        /\ until[reader[r].backend][reader[r].version] \in Nat
    BY <1>1, <1>3, UnderWayMeans, UntilIsTime, SecretBounds
  <2> QED
    BY <1>1, <2>1, SecretBounds DEF EntryIsHeld, S!HeldSince
<1> QED
  BY <1>6, <1>8, <1>9 DEF SecretInv

\* Every step of a call, of an operator and of the clock keeps the invariant.
LEMMA SecretStep == SecretInv /\ [S!Next]_(S!vars) => SecretInv'
<1> SUFFICES ASSUME SecretInv, [S!Next]_(S!vars) PROVE SecretInv'
  OBVIOUS
<1>1. S!TypeOK /\ SecretShape /\ reader \in [Reader -> Call]
  BY DEF SecretInv, SecretShape
<1>2. clock \in Nat /\ clock <= SecretTime /\ stored \in [S!Backend -> 1..MaxVersion]
      /\ until \in [S!Backend -> [1..MaxVersion -> 0..SecretTime]]
  BY <1>1, SecretBounds DEF S!TypeOK
<1>3. ASSUME NEW r \in Reader, S!Error(r) PROVE SecretInv'
  <2>1. /\ UNCHANGED <<clock, stored, until, entry, invalidated>>
        /\ reader' = S!Raise(r) /\ failures < MaxFaults /\ failures' = failures + 1
    BY <1>3 DEF S!Error, S!Fault
  <2>2. PICK q \in Call : reader' = [reader EXCEPT ![r] = q] /\ q.pc # "answer"
    BY <1>1, <2>1, EndedCalls, CallValues
  <2>3. reader' \in [Reader -> Call] /\ AnswersAreHeld'
    BY <2>1, <2>2, QuietCall
  <2>4. failures' \in 0..MaxFaults
    BY <1>1, <2>1, SecretBounds DEF S!TypeOK
  <2>5. SecretShape'
    BY <1>1, <2>1, <2>3, <2>4, ShapeGoesOn
  <2>6. EntryIsHeld'
    BY <1>2, <2>1, EntryStaysHeld
  <2> QED
    BY <2>3, <2>5, <2>6 DEF SecretInv
<1>4. ASSUME NEW b \in S!Backend, S!Rotate(b) PROVE SecretInv'
  <2>1. /\ UNCHANGED <<clock, entry, reader, invalidated, failures>> /\ stored[b] < MaxVersion
        /\ stored' = [stored EXCEPT ![b] = stored[b] + 1]
        /\ until' = [until EXCEPT ![b][stored[b]] = clock]
    BY <1>4 DEF S!Rotate
  <2>2. EntryIsHeld' /\ AnswersAreHeld'
    BY <1>2, <2>1, EntryStaysHeld, AnswersStayHeld DEF AnswersAreHeld
  <2>3. stored' \in [S!Backend -> 1..MaxVersion]
    <3>1. stored[b] + 1 \in 1..MaxVersion
      BY <1>2, <2>1, SecretBounds
    <3> QED
      BY <1>2, <2>1, <3>1
  <2>4. until' \in [S!Backend -> [1..MaxVersion -> 0..SecretTime]]
    <3>1. [until[b] EXCEPT ![stored[b]] = clock] \in [1..MaxVersion -> 0..SecretTime]
      BY <1>2, SecretBounds
    <3> QED
      BY <1>2, <2>1, <3>1
  <2>5. S!TypeOK'
    BY <1>1, <2>1, <2>3, <2>4 DEF S!TypeOK
  <2>6. \A x \in S!Backend, v \in 1..MaxVersion : until'[x][v] <= clock
    <3> SUFFICES ASSUME NEW x \in S!Backend, NEW v \in 1..MaxVersion PROVE until'[x][v] <= clock
      OBVIOUS
    <3>1. until'[x][v] = IF x = b /\ v = stored[b] THEN clock ELSE until[x][v]
      BY <1>2, <2>1
    <3> QED
      BY <1>1, <1>2, <3>1 DEF SecretShape
  <2> QED
    BY <1>1, <2>1, <2>2, <2>5, <2>6 DEF SecretShape, SecretInv
<1>5. CASE S!NotifyRotation
  <2>1. /\ UNCHANGED <<clock, stored, until, reader, failures>> /\ entry' = S!Nothing
        /\ invalidated' = stored[1]
    BY <1>5 DEF S!NotifyRotation
  <2>2. EntryIsHeld' /\ AnswersAreHeld'
    BY <1>2, <2>1, EntryStaysHeld, AnswersStayHeld DEF AnswersAreHeld
  <2>3. /\ S!Nothing \in [version : 0..MaxVersion, backend : S!Backend, at : 0..SecretTime]
        /\ invalidated' \in 1..MaxVersion
    BY <1>2, <2>1, SecretBounds DEF S!Nothing, S!Backend
  <2>4. S!TypeOK'
    BY <1>1, <2>1, <2>3 DEF S!TypeOK
  <2> QED
    BY <1>1, <2>1, <2>2, <2>4 DEF SecretShape, SecretInv
<1>6. CASE S!Tick
  <2>1. /\ UNCHANGED <<entry, reader, stored, until, invalidated, failures>>
        /\ clock' = clock + 1 /\ clock < SecretTime
        /\ \A r \in Reader : reader[r].pc = "answer" => clock < reader[r].sent + Timeout
    BY <1>6 DEF S!Tick
  <2>2. EntryIsHeld'
    BY <1>2, <2>1, EntryStaysHeld
  <2>3. ASSUME NEW x \in Reader, reader[x].pc = "answer" PROVE UnderWay(reader[x])'
    <3>1. /\ reader[x].sent \in Nat /\ reader[x].version \in 1..MaxVersion
          /\ reader[x].sent <= clock
          /\ reader[x].version = stored[reader[x].backend]
             \/ until[reader[x].backend][reader[x].version] >= reader[x].sent
      BY <2>3, UnderWayMeans
    <3>2. reader[x].sent <= clock + 1 /\ clock + 1 <= reader[x].sent + Timeout
      BY <1>2, <2>1, <2>3, <3>1, SecretBounds
    <3> QED
      BY <2>1, <3>1, <3>2, SecretBounds DEF UnderWay, S!HeldSince
  <2>4. AnswersAreHeld'
    BY <2>1, <2>3 DEF AnswersAreHeld, UnderWay
  <2>5. clock' \in 0..SecretTime
    BY <1>2, <2>1, SecretBounds
  <2>6. S!TypeOK'
    BY <1>1, <2>1, <2>5 DEF S!TypeOK
  <2>7. \A x \in S!Backend, v \in 1..MaxVersion : until'[x][v] <= clock'
    BY <1>1, <1>2, <2>1, SecretBounds DEF SecretShape
  <2> QED
    BY <1>1, <2>1, <2>2, <2>4, <2>6, <2>7 DEF SecretShape, SecretInv
<1>7. CASE UNCHANGED S!vars
  BY <1>7 DEF S!vars, SecretInv, SecretShape, S!TypeOK, EntryIsHeld, AnswersAreHeld, UnderWay,
              S!HeldSince
<1> QED
  BY <1>3, <1>4, <1>5, <1>6, <1>7, GetKeeps, ReadKeeps, AnswerKeeps
     DEF S!Next, S!Work, S!Step, S!Rest

\* The invariant of the secrets, for any readers, backends and bounds.
LEMMA SecretsHold == S!Spec => []SecretInv
  BY SecretInit, SecretStep, PTL DEF S!Spec

\* What a read serves, at the moment it serves it.
LEMMA ServesRecent ==
    ASSUME SecretInv, [S!Next]_(S!vars), NEW r \in Reader,
           reader[r].pc # "served", reader'[r].pc = "served"
    PROVE  S!HeldSince(reader'[r].backend, reader'[r].version,
               clock - (IF reader'[r].bypass THEN Timeout ELSE CacheTtl + Timeout - 1))
<1>1. reader \in [Reader -> Call] /\ S!TypeOK /\ SecretShape
  BY DEF SecretInv, SecretShape
<1>2. clock \in Nat /\ entry.at \in Nat
  BY <1>1, SecretBounds DEF S!TypeOK
<1>3. PICK x \in Reader : (\E bypass \in BOOLEAN : S!Get(x, bypass)) \/ S!Answer(x)
  <2>1. reader' # reader
    OBVIOUS
  <2>2. PICK x \in Reader : S!Step(x)
    BY <2>1 DEF S!Next, S!Work, S!Rotate, S!NotifyRotation, S!Tick, S!Rest, S!vars
  <2>3. ASSUME S!Read(x) PROVE FALSE
    BY <1>1, <2>3 DEF S!Read
  <2>4. ASSUME S!Error(x) PROVE FALSE
    <3>1. PICK q \in Call : reader' = [reader EXCEPT ![x] = q] /\ q.pc # "served"
      BY <1>1, <2>4, EndedCalls, CallValues DEF S!Error
    <3> QED
      BY <1>1, <3>1
  <2> QED
    BY <2>2, <2>3, <2>4 DEF S!Step
<1>4. CASE S!Answer(x)
  <2>1. /\ reader[x].pc = "answer"
        /\ reader' = S!Served(x, reader[x].version, reader[x].backend, reader[x].bypass)
    BY <1>4 DEF S!Answer
  <2>2. x = r /\ reader'[r].version = reader[r].version /\ reader'[r].backend = reader[r].backend
    BY <1>1, <2>1 DEF S!Served, S!New
  <2>3. /\ reader[r].sent >= clock - Timeout /\ reader[r].sent \in Nat
        /\ \/ reader[r].version = stored[reader[r].backend]
           \/ until[reader[r].backend][reader[r].version] >= reader[r].sent
        /\ until[reader[r].backend][reader[r].version] \in Nat
    BY <1>2, <2>1, <2>2, UnderWayMeans, UntilIsTime, SecretBounds
  <2>4. CASE reader'[r].bypass
    BY <1>2, <2>2, <2>3, <2>4, SecretBounds DEF S!HeldSince
  <2>5. CASE ~reader'[r].bypass
    BY <1>2, <2>2, <2>3, <2>5, SecretBounds DEF S!HeldSince
  <2> QED
    BY <2>4, <2>5
<1>5. ASSUME NEW bypass \in BOOLEAN, S!Get(x, bypass)
      PROVE  S!HeldSince(reader'[r].backend, reader'[r].version,
                 clock - (IF reader'[r].bypass THEN Timeout ELSE CacheTtl + Timeout - 1))
  <2>1. reader' = S!Served(x, entry.version, entry.backend, FALSE) /\ S!Valid
    <3>1. ASSUME reader' = [reader EXCEPT ![x].pc = "send", ![x].bypass = bypass] PROVE FALSE
      BY <1>1, <3>1 DEF Call
    <3> QED
      BY <1>5, <3>1 DEF S!Get
  <2>2. x = r /\ reader'[r].version = entry.version /\ reader'[r].backend = entry.backend
        /\ reader'[r].bypass = FALSE
    BY <1>1, <2>1 DEF S!Served, S!New
  <2>3. /\ entry # S!Nothing /\ clock - entry.at < CacheTtl
        /\ S!HeldSince(entry.backend, entry.version, entry.at - Timeout)
        /\ entry.version \in 1..MaxVersion /\ entry.backend \in S!Backend
    BY <1>1, <2>1, SecretBounds DEF S!Valid, SecretInv, EntryIsHeld, SecretShape, S!TypeOK
  <2>4. until[entry.backend][entry.version] \in Nat
    BY <2>3, UntilIsTime
  <2> QED
    BY <1>2, <2>2, <2>3, <2>4, SecretBounds DEF S!HeldSince
<1> QED
  BY <1>3, <1>4, <1>5

\* A read serves what its backend held not longer ago than the cache keeps it and a
\* request takes, however many readers and rotations there are.
THEOREM ServedWasRecent == S!Spec => S!ServedIsRecent
<1>1. ASSUME SecretInv, [S!Next]_(S!vars)
      PROVE  \A r \in Reader : reader[r].pc # "served" /\ reader'[r].pc = "served" =>
                 S!HeldSince(reader'[r].backend, reader'[r].version,
                     clock - (IF reader'[r].bypass THEN Timeout ELSE CacheTtl + Timeout - 1))
  BY <1>1, ServesRecent
<1>2. SecretInv /\ [S!Next]_(S!vars) =>
         [\A r \in Reader : reader[r].pc # "served" /\ reader'[r].pc = "served" =>
             S!HeldSince(reader'[r].backend, reader'[r].version,
                 clock - (IF reader'[r].bypass THEN Timeout ELSE CacheTtl + Timeout - 1))]_(S!vars)
  BY <1>1
<1> QED
  BY <1>2, SecretsHold, PTL DEF S!Spec, S!ServedIsRecent

-------------------------------------------------------------------------------
(* The roles.                                                              *)

\* What is assigned is held now; what a token carries was held when it was issued.
RolesAreHeld == \A u \in User, r \in Role : r \in assigned[u] => held[u][r] = time

TokensWereHeld ==
    \A u \in User, r \in Role :
        r \in token[u].roles =>
            token[u].iat >= 0 /\ token[u].iat <= time /\ held[u][r] >= token[u].iat

RoleInv == R!TypeOK /\ RolesAreHeld /\ TokensWereHeld /\ R!RevokedRolesFade

\* What the assumption on the roles says.
LEMMA RoleBounds == User # {} /\ Hour \in Nat \ {0} /\ RoleTime \in Nat
  BY GuardsAssumption DEF R!AccessAssumption

\* Nobody has a token.
LEMMA RoleInit == R!Init => RoleInv
<1> SUFFICES ASSUME R!Init PROVE RoleInv
  OBVIOUS
<1> DEFINE some == CHOOSE u \in User : TRUE
<1>1. some \in User
  BY RoleBounds
<1>2. /\ time = 0 /\ assigned \in [User -> {{}, Role}]
      /\ held = [u \in User |-> [r \in Role |-> IF r \in assigned[u] THEN 0 ELSE -1]]
      /\ token = [u \in User |-> [roles |-> {}, mfa |-> FALSE, iat |-> -1]]
      /\ decision = [user |-> some, roles |-> {}, allowed |-> FALSE]
  BY DEF R!Init
<1> HIDE DEF some
<1>3. assigned \in [User -> SUBSET Role]
  BY <1>2
<1>4. held \in [User -> [Role -> -1..RoleTime]]
  BY <1>2, RoleBounds
<1>5. token \in [User -> [roles : SUBSET Role, mfa : BOOLEAN, iat : -1..RoleTime]]
  BY <1>2, RoleBounds
<1>6. decision \in [user : User, roles : SUBSET Role, allowed : BOOLEAN]
  BY <1>1, <1>2
<1>7. R!TypeOK
  BY <1>2, <1>3, <1>4, <1>5, <1>6, RoleBounds DEF R!TypeOK
<1>8. RolesAreHeld /\ TokensWereHeld /\ R!RevokedRolesFade
  BY <1>2 DEF RolesAreHeld, TokensWereHeld, R!RevokedRolesFade
<1> QED
  BY <1>7, <1>8 DEF RoleInv

\* Assigning and revoking a role note that it is held now.
LEMMA RoleMoves ==
    ASSUME RoleInv, NEW u \in User, NEW r \in Role, R!AssignRole(u, r) \/ R!RevokeRole(u, r)
    PROVE  RoleInv'
<1>1. /\ assigned' = [assigned EXCEPT ![u] = assigned[u] \union {r}]
         \/ assigned' = [assigned EXCEPT ![u] = assigned[u] \ {r}]
      /\ held' = [held EXCEPT ![u][r] = time]
      /\ UNCHANGED <<time, token, decision>>
  BY DEF R!AssignRole, R!RevokeRole
<1>2. /\ time \in 0..RoleTime /\ time \in Nat /\ assigned \in [User -> SUBSET Role]
      /\ held \in [User -> [Role -> -1..RoleTime]]
      /\ token \in [User -> [roles : SUBSET Role, mfa : BOOLEAN, iat : -1..RoleTime]]
      /\ decision \in [user : User, roles : SUBSET Role, allowed : BOOLEAN]
  BY RoleBounds DEF RoleInv, R!TypeOK
<1>3. assigned' \in [User -> SUBSET Role]
  <2>1. assigned[u] \union {r} \in SUBSET Role /\ assigned[u] \ {r} \in SUBSET Role
    BY <1>2
  <2> QED
    BY <1>1, <1>2, <2>1
<1>4. held' \in [User -> [Role -> -1..RoleTime]]
  <2>1. [held[u] EXCEPT ![r] = time] \in [Role -> -1..RoleTime]
    BY <1>2, RoleBounds
  <2> QED
    BY <1>1, <1>2, <2>1
<1>5. R!TypeOK'
  BY <1>1, <1>2, <1>3, <1>4 DEF R!TypeOK
<1>6. \A x \in User, y \in Role :
          held'[x][y] = IF x = u /\ y = r THEN time ELSE held[x][y]
  BY <1>1, <1>2
<1>7. \A x \in User, y \in Role : y \in assigned'[x] => (x = u /\ y = r) \/ y \in assigned[x]
  BY <1>1, <1>2
<1>8. RolesAreHeld'
  BY <1>1, <1>6, <1>7 DEF RolesAreHeld, RoleInv
<1>9. TokensWereHeld'
  <2> SUFFICES ASSUME NEW x \in User, NEW y \in Role, y \in token[x].roles
               PROVE  /\ token[x].iat >= 0 /\ token[x].iat <= time
                      /\ held'[x][y] >= token[x].iat
    BY <1>1 DEF TokensWereHeld
  <2>1. token[x].iat >= 0 /\ token[x].iat <= time /\ held[x][y] >= token[x].iat
    BY DEF RoleInv, TokensWereHeld
  <2> QED
    BY <1>6, <2>1
<1>10. R!RevokedRolesFade'
  <2> SUFFICES ASSUME decision.allowed, NEW y \in decision.roles
               PROVE  /\ held'[decision.user][y] > time - R!TokenExpiry
                      /\ held'[decision.user][y] >= 0
    BY <1>1 DEF R!RevokedRolesFade
  <2>1. /\ held[decision.user][y] > time - R!TokenExpiry /\ held[decision.user][y] >= 0
        /\ y \in Role /\ decision.user \in User
    BY <1>2 DEF RoleInv, R!RevokedRolesFade
  <2> QED
    BY <1>2, <1>6, <2>1, RoleBounds DEF R!TokenExpiry
<1> QED
  BY <1>5, <1>8, <1>9, <1>10 DEF RoleInv

\* A token carries what is assigned, and so held, when it is issued.
LEMMA TokenKeeps ==
    ASSUME RoleInv, NEW u \in User, NEW mfa \in BOOLEAN, R!CreateToken(u, mfa)
    PROVE  RoleInv'
<1> DEFINE q == [roles |-> assigned[u], mfa |-> mfa, iat |-> time]
<1>1. UNCHANGED <<time, assigned, held, decision>> /\ token' = [token EXCEPT ![u] = q]
  BY DEF R!CreateToken
<1>2. /\ time \in 0..RoleTime /\ assigned \in [User -> SUBSET Role]
      /\ token \in [User -> [roles : SUBSET Role, mfa : BOOLEAN, iat : -1..RoleTime]]
  BY DEF RoleInv, R!TypeOK
<1>3. time \in -1..RoleTime /\ time >= 0 /\ time \in Nat
  BY <1>2, RoleBounds
<1>4. q \in [roles : SUBSET Role, mfa : BOOLEAN, iat : -1..RoleTime]
  BY <1>2, <1>3
<1>5. q.roles = assigned[u] /\ q.iat = time
  OBVIOUS
<1> HIDE DEF q
<1>6. token' \in [User -> [roles : SUBSET Role, mfa : BOOLEAN, iat : -1..RoleTime]]
  BY <1>1, <1>2, <1>4
<1>7. R!TypeOK'
  BY <1>1, <1>6 DEF R!TypeOK, RoleInv
<1>8. TokensWereHeld'
  <2> SUFFICES ASSUME NEW x \in User, NEW y \in Role, y \in token'[x].roles
               PROVE  /\ token'[x].iat >= 0 /\ token'[x].iat <= time
                      /\ held[x][y] >= token'[x].iat
    BY <1>1 DEF TokensWereHeld
  <2>1. CASE x = u
    BY <1>1, <1>2, <1>3, <1>5, <2>1 DEF RoleInv, RolesAreHeld
  <2>2. CASE x # u
    BY <1>1, <1>2, <2>2 DEF RoleInv, TokensWereHeld
  <2> QED
    BY <2>1, <2>2
<1>9. RolesAreHeld' /\ R!RevokedRolesFade'
  BY <1>1 DEF RoleInv, RolesAreHeld, R!RevokedRolesFade, R!TokenExpiry
<1> QED
  BY <1>7, <1>8, <1>9 DEF RoleInv

\* A decision is made on a token that has not expired.
LEMMA DecisionKeeps ==
    ASSUME RoleInv, NEW u \in User, NEW p, NEW justified \in BOOLEAN,
           R!Authorize(u, p, justified)
    PROVE  RoleInv'
<1> DEFINE ok == /\ R!SessionValid(u)
                 /\ token[u].roles \intersect R!RequireMfa # {} => token[u].mfa
                 /\ R!HasPermission(token[u].roles, p)
                 /\ \/ justified
                    \/ \A r \in token[u].roles : \A j \in R!Justified(r) : ~R!Matches(j, p)
           q == [user |-> u, roles |-> token[u].roles, allowed |-> ok]
<1>1. UNCHANGED <<time, assigned, held, token>> /\ decision' = q /\ R!Decodes(u)
  BY DEF R!Authorize
<1>2. ok \in BOOLEAN
  OBVIOUS
<1> HIDE DEF ok
<1>3. token \in [User -> [roles : SUBSET Role, mfa : BOOLEAN, iat : -1..RoleTime]]
  BY DEF RoleInv, R!TypeOK
<1>4. token[u].roles \in SUBSET Role /\ token[u].iat \in -1..RoleTime
  BY <1>3
<1>5. q \in [user : User, roles : SUBSET Role, allowed : BOOLEAN]
  BY <1>2, <1>4
<1>6. q.user = u /\ q.roles = token[u].roles
  OBVIOUS
<1> HIDE DEF q
<1>7. R!TypeOK'
  BY <1>1, <1>5 DEF R!TypeOK, RoleInv
<1>8. R!RevokedRolesFade'
  <2> SUFFICES ASSUME NEW r \in token[u].roles
               PROVE  held[u][r] > time - R!TokenExpiry /\ held[u][r] >= 0
    BY <1>1, <1>6 DEF R!RevokedRolesFade
  <2>1. r \in Role /\ token[u].iat >= 0 /\ held[u][r] >= token[u].iat
    BY <1>4 DEF RoleInv, TokensWereHeld
  <2>2. time < token[u].iat + Hour
    BY <1>1 DEF R!Decodes, R!TokenExpiry
  <2>3. held[u][r] \in Int /\ time \in Int /\ token[u].iat \in Int
    BY <1>4, <2>1, RoleBounds DEF RoleInv, R!TypeOK
  <2> QED
    BY <2>1, <2>2, <2>3, RoleBounds DEF R!TokenExpiry
<1>9. RolesAreHeld' /\ TokensWereHeld'
  BY <1>1 DEF RoleInv, RolesAreHeld, TokensWereHeld
<1> QED
  BY <1>7, <1>8, <1>9 DEF RoleInv

\* The clock moves on for all that is assigned.
LEMMA RoleTicks ==
    ASSUME RoleInv, R!Tick
    PROVE  RoleInv'
<1>1. /\ time < RoleTime /\ time' = time + 1 /\ UNCHANGED <<assigned, token>>
      /\ held' = [u \in User |-> [r \in Role |-> IF r \in assigned[u] THEN time'
                                                ELSE held[u][r]]]
      /\ decision' = [decision EXCEPT !.allowed = FALSE]
  BY DEF R!Tick
<1>2. /\ time \in 0..RoleTime /\ held \in [User -> [Role -> -1..RoleTime]]
      /\ decision \in [user : User, roles : SUBSET Role, allowed : BOOLEAN]
  BY DEF RoleInv, R!TypeOK
<1>3. time' \in 0..RoleTime /\ time' \in -1..RoleTime /\ time \in Nat /\ time' = time + 1
  BY <1>1, <1>2, RoleBounds
<1>4. held' \in [User -> [Role -> -1..RoleTime]]
  BY <1>1, <1>2, <1>3
<1>5. /\ decision' \in [user : User, roles : SUBSET Role, allowed : BOOLEAN]
      /\ decision'.allowed = FALSE
  BY <1>1, <1>2
<1>6. R!TypeOK'
  BY <1>1, <1>3, <1>4, <1>5 DEF R!TypeOK, RoleInv
<1>7. RolesAreHeld'
  BY <1>1 DEF RolesAreHeld
<1>8. TokensWereHeld'
  <2> SUFFICES ASSUME NEW x \in User, NEW y \in Role, y \in token[x].roles
               PROVE  /\ token[x].iat >= 0 /\ token[x].iat <= time'
                      /\ held'[x][y] >= token[x].iat
    BY <1>1 DEF TokensWereHeld
  <2>1. token[x].iat >= 0 /\ token[x].iat <= time /\ held[x][y] >= token[x].iat
    BY DEF RoleInv, TokensWereHeld
  <2>2. token[x].iat \in Int
    BY RoleBounds DEF RoleInv, R!TypeOK
  <2>3. held'[x][y] = time' \/ held'[x][y] = held[x][y]
    BY <1>1
  <2> QED
    BY <1>3, <2>1, <2>2, <2>3
<1>9. R!RevokedRolesFade'
  BY <1>5 DEF R!RevokedRolesFade
<1> QED
  BY <1>6, <1>7, <1>8, <1>9 DEF RoleInv

\* Every step keeps the invariant of the roles.
LEMMA RoleStep == RoleInv /\ [R!Next]_(R!vars) => RoleInv'
<1> SUFFICES ASSUME RoleInv, [R!Next]_(R!vars) PROVE RoleInv'
  OBVIOUS
<1>1. CASE UNCHANGED R!vars
  BY <1>1 DEF R!vars, RoleInv, RolesAreHeld, TokensWereHeld, R!RevokedRolesFade, R!TypeOK,
              R!TokenExpiry
<1> QED
  BY <1>1, RoleMoves, TokenKeeps, DecisionKeeps, RoleTicks DEF R!Next

\* A revoked role is of use for no longer than a token that carries it lives.
LEMMA RolesFade == R!Spec => [](R!TypeOK /\ R!RevokedRolesFade)
<1>1. RoleInv => R!TypeOK /\ R!RevokedRolesFade
  BY DEF RoleInv
<1> QED
  BY <1>1, RoleInit, RoleStep, PTL DEF R!Spec

-------------------------------------------------------------------------------
(* The gateway.                                                            *)

\* Moments in the order of the clock, up to a moment.
Ordered(ts, moment) ==
    /\ ts \in Seq(Nat)
    /\ \A i \in 1..Len(ts) : ts[i] <= moment
    /\ \A i, j \in 1..Len(ts) : i <= j => ts[i] <= ts[j]

\* Counted from the end, each request that was admitted after the start has a timestamp
\* that is not older.
Backed(passed, ts, start) ==
    \A j \in 0..Len(passed) - 1 :
        passed[Len(passed) - j] > start =>
            j < Len(ts) /\ passed[Len(passed) - j] <= ts[Len(ts) - j]

\* What a limiter remembers of a client.
Counts(ts, passed, window, limit, moment) ==
    Ordered(ts, moment) /\ Len(ts) <= limit /\ Backed(passed, ts, moment - window)

ClientIsCounted(c) ==
    /\ admitted[c] \in Seq(Nat)
    /\ Counts(bucket[c], admitted[c], Window, Limit, now)
    /\ Counts(burst[c], admitted[c], BurstWindow, Burst, now)

\* A replaced key was fetched before it was replaced.
KeysAreDated ==
    /\ rotated \in 0..now /\ keys.at <= now
    /\ keys.key # 0 /\ keys.key # provider => keys.at <= rotated

ListsAreKept ==
    /\ bucket \in [Client -> Seq(Nat)] /\ burst \in [Client -> Seq(Nat)]
    /\ admitted \in [Client -> Seq(Nat)]
    /\ \A c \in Client : ClientIsCounted(c)

GatewayInv == TypeOK /\ ListsAreKept /\ WindowsHold /\ KeysAreDated

\* What the assumption on the gateway says.
LEMMA GatewayBounds ==
    /\ Window \in Nat \ {0} /\ Limit \in Nat \ {0} /\ BurstWindow \in Nat \ {0}
    /\ Burst \in Nat \ {0} /\ KeyLife \in Nat \ {0}
    /\ MaxRuns \in Nat /\ MaxTime \in Nat /\ MaxFetching \in Nat /\ MaxKeys \in Nat \ {0}
  BY GuardsAssumption DEF GatewayAssumption

\* A set of positions that holds all before each of its own is a segment.
LEMMA FirstOnes ==
    ASSUME NEW n \in Nat, NEW D \in SUBSET (1..n),
           \A i \in D, j \in 1..n : j < i => j \in D
    PROVE  \E m \in 0..n : D = 1..m /\ Cardinality(D) = m
<1> DEFINE Out == {i \in Nat : i + 1 \notin D}
<1>1. Out \subseteq Nat /\ n \in Out
  OBVIOUS
<1>2. PICK m \in Out : \A i \in Out : ~(i < m)
  <2>1. \E m \in Out : \A i \in Out : ~(<<i, m>> \in OpToRel(<, Nat))
    <3> HIDE DEF Out
    <3> QED
      BY <1>1, NatLessThanWellFounded, WFMin
  <2> QED
    BY <2>1 DEF OpToRel
<1>3. D = 1..m
  <2>1. ASSUME NEW j \in 1..m PROVE j \in D
    <3>1. j - 1 \in Nat /\ (j - 1) + 1 = j /\ j - 1 < m
      OBVIOUS
    <3>2. j - 1 \notin Out
      BY <1>2, <3>1
    <3> QED
      BY <3>1, <3>2
  <2>2. ASSUME NEW i \in D PROVE i \in 1..m
    <3>1. m + 1 \notin D /\ m \in Nat /\ i \in 1..n
      OBVIOUS
    <3>2. CASE i > m
      <4>1. i = m + 1 \/ m + 1 < i
        BY <3>1, <3>2
      <4>2. m + 1 \in 1..n
        BY <3>1, <3>2
      <4> QED
        BY <3>1, <4>1, <4>2
    <3> QED
      BY <3>1, <3>2
  <2> QED
    BY <2>1, <2>2
<1>4. m \in 0..n
  <2>1. CASE m = 0
    BY <2>1
  <2>2. CASE m # 0
    <3>1. m \in Nat /\ m \in 1..m
      BY <2>2
    <3> QED
      BY <1>3, <3>1
  <2> QED
    BY <2>1, <2>2
<1>5. Cardinality(1..m) = m
  BY FS_Interval
<1> QED
  BY <1>3, <1>4, <1>5

\* What is_allowed evicts are the first timestamps, none of them in the window.
LEMMA Evicting ==
    ASSUME now \in Nat, NEW w \in Nat, NEW ts, Ordered(ts, now)
    PROVE  LET n == Cardinality(Expired(ts, w))
           IN  /\ n \in 0..Len(ts)
               /\ \A i \in 1..n : ts[i] <= now - w
               /\ InWindow(ts, w) \in Seq(Nat)
               /\ Len(InWindow(ts, w)) = Len(ts) - n
               /\ \A i \in 1..Len(ts) - n : InWindow(ts, w)[i] = ts[n + i]
<1> DEFINE K == Len(ts)
           kept == InWindow(ts, w)
<1>1. /\ ts \in Seq(Nat) /\ K \in Nat /\ DOMAIN ts = 1..K /\ \A i \in 1..K : ts[i] \in Nat
      /\ \A i, j \in 1..K : i <= j => ts[i] <= ts[j]
  BY DEF Ordered
<1>2. Expired(ts, w) \in SUBSET (1..K)
  BY <1>1 DEF Expired
<1>3. \A i \in Expired(ts, w), j \in 1..K : j < i => j \in Expired(ts, w)
  <2> SUFFICES ASSUME NEW i \in Expired(ts, w), NEW j \in 1..K, j < i PROVE ts[j] <= now - w
    BY <1>1 DEF Expired
  <2>1. i \in 1..K /\ ts[i] <= now - w
    BY <1>1 DEF Expired
  <2>2. ts[j] <= ts[i] /\ ts[i] \in Nat /\ ts[j] \in Nat
    BY <1>1, <2>1
  <2> QED
    BY <2>1, <2>2
<1>4. PICK n \in 0..K : Expired(ts, w) = 1..n /\ Cardinality(Expired(ts, w)) = n
  <2> HIDE DEF K
  <2> QED
    BY <1>1, <1>2, <1>3, FirstOnes
<1>5. \A i \in 1..n : ts[i] <= now - w
  BY <1>4 DEF Expired
<1>6. kept = SubSeq(ts, n + 1, K)
  BY <1>4 DEF InWindow
<1> HIDE DEF K, kept
<1>7. /\ kept \in Seq(Nat)
      /\ Len(kept) = IF n + 1 <= K THEN K - (n + 1) + 1 ELSE 0
      /\ \A i \in 1..K - (n + 1) + 1 : kept[i] = ts[n + 1 + i - 1]
  <2>1. n + 1 \in Int /\ K \in Int /\ \A i \in n + 1..K : ts[i] \in Nat
    BY <1>1
  <2> QED
    BY <1>6, <2>1, SubSeqProperties
<1>8. Len(kept) = K - n
  BY <1>1, <1>7
<1>9. \A i \in 1..K - n : kept[i] = ts[n + i]
  <2>1. K - (n + 1) + 1 = K - n /\ \A i \in 1..K - n : n + 1 + i - 1 = n + i
    BY <1>1
  <2> QED
    BY <1>7, <2>1
<1> QED
  BY <1>4, <1>5, <1>7, <1>8, <1>9 DEF K, kept

\* Evicting changes nothing of what a limiter knows.
LEMMA EvictingKeeps ==
    ASSUME now \in Nat, NEW w \in Nat, NEW limit \in Nat, NEW ts, NEW passed \in Seq(Nat),
           Counts(ts, passed, w, limit, now)
    PROVE  Counts(InWindow(ts, w), passed, w, limit, now)
<1> DEFINE K == Len(ts)
           kept == InWindow(ts, w)
           P == Len(passed)
<1>1. /\ ts \in Seq(Nat) /\ K \in Nat /\ K <= limit /\ P \in Nat
      /\ \A i \in 1..K : ts[i] \in Nat /\ ts[i] <= now
      /\ \A i, j \in 1..K : i <= j => ts[i] <= ts[j]
      /\ \A i \in 1..P : passed[i] \in Nat
      /\ \A j \in 0..P - 1 : passed[P - j] > now - w => j < K /\ passed[P - j] <= ts[K - j]
      /\ Ordered(ts, now)
  BY DEF Counts, Ordered, Backed
<1>2. PICK n \in 0..K : /\ \A i \in 1..n : ts[i] <= now - w
                        /\ kept \in Seq(Nat)
                        /\ Len(kept) = K - n
                        /\ \A i \in 1..K - n : kept[i] = ts[n + i]
  <2>1. Ordered(ts, now)
    BY <1>1
  <2> DEFINE m == Cardinality(Expired(ts, w))
  <2>2. m \in 0..Len(ts)
    BY <2>1, Evicting
  <2>3. \A i \in 1..m : ts[i] <= now - w
    BY <2>1, Evicting
  <2>4. kept \in Seq(Nat) /\ Len(kept) = K - m
    BY <2>1, Evicting
  <2>5. \A i \in 1..K - m : kept[i] = ts[m + i]
    BY <2>1, Evicting
  <2> HIDE DEF m, K, kept
  <2> QED
    BY <2>2, <2>3, <2>4, <2>5 DEF K
<1> HIDE DEF K, kept, P
<1>3. \A i \in 1..K - n : n + i \in 1..K
  BY <1>1
<1>4. Ordered(kept, now)
  <2>1. \A i \in 1..K - n : kept[i] <= now
    BY <1>1, <1>2, <1>3
  <2>2. ASSUME NEW i \in 1..K - n, NEW j \in 1..K - n, i <= j PROVE kept[i] <= kept[j]
    <3>1. n + i \in 1..K /\ n + j \in 1..K /\ n + i <= n + j
      BY <1>3, <2>2
    <3> QED
      BY <1>1, <1>2, <3>1
  <2> QED
    BY <1>2, <2>1, <2>2 DEF Ordered
<1>5. Backed(passed, kept, now - w)
  <2> SUFFICES ASSUME NEW j \in 0..P - 1, passed[P - j] > now - w
               PROVE  j < K - n /\ passed[P - j] <= kept[(K - n) - j]
    BY <1>2 DEF Backed, P
  <2>1. j < K /\ passed[P - j] <= ts[K - j] /\ K - j \in 1..K /\ P - j \in 1..P
    BY <1>1
  <2>2. ts[K - j] > now - w
    BY <1>1, <2>1
  <2>3. K - j \notin 1..n
    BY <1>1, <1>2, <2>1, <2>2
  <2>4. j < K - n /\ (K - n) - j \in 1..K - n /\ n + ((K - n) - j) = K - j
    BY <1>1, <2>1, <2>3
  <2> QED
    BY <1>2, <2>1, <2>4
<1>6. Len(kept) <= limit
  BY <1>1, <1>2
<1> QED
  BY <1>4, <1>5, <1>6 DEF Counts, kept

\* Recording now is in order.
LEMMA RecordingKeepsOrder ==
    ASSUME NEW moment \in Nat, NEW ts, Ordered(ts, moment)
    PROVE  /\ Ordered(Append(ts, moment), moment)
           /\ Len(Append(ts, moment)) = Len(ts) + 1
           /\ Append(ts, moment)[Len(ts) + 1] = moment
           /\ \A i \in 1..Len(ts) : Append(ts, moment)[i] = ts[i]
<1> DEFINE K == Len(ts)
           more == Append(ts, moment)
<1>1. /\ ts \in Seq(Nat) /\ K \in Nat
      /\ \A i \in 1..K : ts[i] \in Nat /\ ts[i] <= moment
      /\ \A i, j \in 1..K : i <= j => ts[i] <= ts[j]
  BY DEF Ordered
<1>2. /\ more \in Seq(Nat) /\ Len(more) = K + 1 /\ more[K + 1] = moment
      /\ \A i \in 1..K : more[i] = ts[i]
  BY <1>1, AppendProperties, SMTT(60)
<1> HIDE DEF K, more
<1>3. \A i \in 1..K + 1 : more[i] <= moment
  <2>1. ASSUME NEW i \in 1..K + 1 PROVE more[i] <= moment
    <3>1. i = K + 1 \/ i \in 1..K
      BY <1>1
    <3> QED
      BY <1>1, <1>2, <3>1
  <2> QED
    BY <2>1
<1>4. ASSUME NEW i \in 1..K + 1, NEW j \in 1..K + 1, i <= j PROVE more[i] <= more[j]
  <2>1. CASE j = K + 1
    BY <1>2, <1>3, <2>1
  <2>2. CASE j # K + 1
    <3>1. i \in 1..K /\ j \in 1..K
      BY <1>1, <1>4, <2>2
    <3> QED
      BY <1>1, <1>2, <1>4, <3>1
  <2> QED
    BY <2>1, <2>2
<1>5. Ordered(more, moment)
  BY <1>2, <1>3, <1>4 DEF Ordered
<1> QED
  BY <1>2, <1>5 DEF more, K

\* Recording a request that is not admitted, and one that is.
LEMMA RecordingKeeps ==
    ASSUME NEW moment \in Nat, NEW w \in Nat, NEW limit \in Nat, NEW ts, NEW passed \in Seq(Nat),
           Counts(ts, passed, w, limit, moment), Len(ts) < limit
    PROVE  /\ Counts(Append(ts, moment), passed, w, limit, moment)
           /\ Counts(Append(ts, moment), Append(passed, moment), w, limit, moment)
<1> DEFINE K == Len(ts)
           P == Len(passed)
           more == Append(ts, moment)
           all == Append(passed, moment)
<1>1. /\ ts \in Seq(Nat) /\ K \in Nat /\ K < limit /\ P \in Nat
      /\ \A i \in 1..K : ts[i] \in Nat /\ ts[i] <= moment
      /\ \A i, j \in 1..K : i <= j => ts[i] <= ts[j]
      /\ \A j \in 0..P - 1 : passed[P - j] > moment - w => j < K /\ passed[P - j] <= ts[K - j]
      /\ \A i \in 1..P : passed[i] \in Nat
      /\ Ordered(ts, moment)
  BY DEF Counts, Ordered, Backed
<1>2. /\ Ordered(more, moment) /\ Len(more) = K + 1 /\ more[K + 1] = moment
      /\ \A i \in 1..K : more[i] = ts[i]
  BY <1>1, RecordingKeepsOrder
<1>3. /\ Len(all) = P + 1 /\ all[P + 1] = moment /\ \A i \in 1..P : all[i] = passed[i]
  BY AppendProperties, SMTT(60)
<1> HIDE DEF K, P, more, all
<1>4. Backed(passed, more, moment - w)
  <2> SUFFICES ASSUME NEW j \in 0..P - 1, passed[P - j] > moment - w
               PROVE  j < K + 1 /\ passed[P - j] <= more[(K + 1) - j]
    BY <1>2 DEF Backed, P
  <2>1. j < K /\ passed[P - j] <= ts[K - j] /\ K - j \in 1..K /\ P - j \in 1..P
    BY <1>1
  <2>2. CASE j = 0
    BY <1>1, <1>2, <2>1, <2>2
  <2>3. CASE j # 0
    <3>1. (K + 1) - j \in 1..K /\ K - j <= (K + 1) - j
      BY <1>1, <2>1, <2>3
    <3>2. more[(K + 1) - j] = ts[(K + 1) - j] /\ ts[K - j] <= ts[(K + 1) - j]
      BY <1>1, <1>2, <2>1, <3>1
    <3>3. passed[P - j] \in Nat /\ ts[K - j] \in Nat /\ ts[(K + 1) - j] \in Nat
      BY <1>1, <2>1, <3>1
    <3>4. passed[P - j] <= ts[(K + 1) - j]
      BY <2>1, <3>2, <3>3
    <3>5. j < K + 1
      BY <1>1, <2>1
    <3> QED
      BY <3>2, <3>4, <3>5
  <2> QED
    BY <2>2, <2>3
<1>5. Backed(all, more, moment - w)
  <2> SUFFICES ASSUME NEW j \in 0..P, all[(P + 1) - j] > moment - w
               PROVE  j < K + 1 /\ all[(P + 1) - j] <= more[(K + 1) - j]
    BY <1>1, <1>2, <1>3 DEF Backed
  <2>1. CASE j = 0
    BY <1>1, <1>2, <1>3, <2>1
  <2>2. CASE j # 0
    <3>1. j - 1 \in 0..P - 1 /\ (P + 1) - j = P - (j - 1) /\ P - (j - 1) \in 1..P
      BY <1>1, <2>2
    <3>2. passed[P - (j - 1)] > moment - w
      BY <1>3, <3>1
    <3>3. j - 1 < K /\ passed[P - (j - 1)] <= ts[K - (j - 1)]
      BY <1>1, <3>1, <3>2
    <3>4. (K + 1) - j = K - (j - 1) /\ K - (j - 1) \in 1..K
      BY <1>1, <2>2, <3>3
    <3> QED
      BY <1>2, <1>3, <3>1, <3>3, <3>4
  <2> QED
    BY <2>1, <2>2
<1>6. Len(more) <= limit
  BY <1>1, <1>2
<1> QED
  BY <1>2, <1>4, <1>5, <1>6 DEF Counts, more, all

\* Time passes.
LEMMA TimeKeepsCounts ==
    ASSUME NEW moment \in Nat, NEW w \in Nat, NEW limit \in Nat, NEW ts, NEW passed \in Seq(Nat),
           Counts(ts, passed, w, limit, moment)
    PROVE  Counts(ts, passed, w, limit, moment + 1)
<1>1. Len(passed) \in Nat /\ \A i \in 1..Len(passed) : passed[i] \in Nat
  OBVIOUS
<1>2. ts \in Seq(Nat) /\ \A i \in 1..Len(ts) : ts[i] \in Nat
  BY DEF Counts, Ordered
<1>3. Ordered(ts, moment + 1)
  BY <1>2 DEF Counts, Ordered
<1>4. Backed(passed, ts, (moment + 1) - w)
  <2> SUFFICES ASSUME NEW j \in 0..Len(passed) - 1,
                      passed[Len(passed) - j] > (moment + 1) - w
               PROVE  j < Len(ts) /\ passed[Len(passed) - j] <= ts[Len(ts) - j]
    BY DEF Backed
  <2>1. Len(passed) - j \in 1..Len(passed)
    BY <1>1
  <2>2. passed[Len(passed) - j] > moment - w
    BY <1>1, <2>1
  <2> QED
    BY <2>2 DEF Counts, Backed
<1> QED
  BY <1>3, <1>4 DEF Counts

\* What is counted is no more than what a limiter remembers.
LEMMA CountedAreFew ==
    ASSUME NEW moment \in Nat, NEW w \in Nat, NEW limit \in Nat, NEW ts, NEW passed \in Seq(Nat),
           Counts(ts, passed, w, limit, moment)
    PROVE  Cardinality({i \in DOMAIN passed : passed[i] > moment - w /\ passed[i] <= moment})
               <= limit
<1> DEFINE K == Len(ts)
           P == Len(passed)
           D == {i \in DOMAIN passed : passed[i] > moment - w /\ passed[i] <= moment}
<1>1. /\ K \in Nat /\ K <= limit /\ P \in Nat /\ DOMAIN passed = 1..P
      /\ \A j \in 0..P - 1 : passed[P - j] > moment - w => j < K
  BY DEF Counts, Ordered, Backed
<1>2. D \subseteq (P - K) + 1..P
  <2> SUFFICES ASSUME NEW i \in D PROVE i \in (P - K) + 1..P
    OBVIOUS
  <2>1. i \in 1..P /\ passed[i] > moment - w
    BY <1>1
  <2>2. P - i \in 0..P - 1 /\ P - (P - i) = i
    BY <1>1, <2>1
  <2>3. P - i < K
    BY <1>1, <2>1, <2>2
  <2> HIDE DEF P, K, D
  <2> QED
    BY <1>1, <2>1, <2>3
<1> HIDE DEF K, P, D
<1>3. IsFiniteSet((P - K) + 1..P) /\ Cardinality((P - K) + 1..P) = K
  <2>1. (P - K) + 1 \in Int /\ P \in Int /\ P - ((P - K) + 1) + 1 = K
        /\ ((P - K) + 1 > P => K = 0)
    BY <1>1
  <2> QED
    BY <2>1, FS_Interval
<1>4. Cardinality(D) <= K /\ Cardinality(D) \in Nat
  BY <1>2, <1>3, FS_Subset, FS_CardinalityType
<1> QED
  BY <1>1, <1>4 DEF D

\* What a client that is refused is told is true, whatever was recorded.
LEMMA AdviceHolds ==
    ASSUME now \in Nat, NEW w \in Nat \ {0}, NEW limit \in Nat \ {0}, NEW ts,
           NEW passed \in Seq(Nat), Counts(ts, passed, w, limit, now)
    PROVE  Honest(ts, w, limit)
<1> DEFINE inside == InWindow(ts, w)
           M == Len(inside)
           waiting == now + RetryAfter(inside, w) - w
           D == {i \in DOMAIN inside : inside[i] > waiting}
<1>1. inside \in Seq(Nat) /\ M <= limit /\ M \in Nat
  <2>1. Counts(inside, passed, w, limit, now)
    BY EvictingKeeps
  <2> QED
    BY <2>1 DEF Counts, Ordered
<1>2. SUFFICES ASSUME M >= limit PROVE Cardinality(D) < limit
  BY DEF Honest
<1>3. DOMAIN inside = 1..M /\ inside[1] \in Nat /\ Head(inside) = inside[1]
  BY <1>1, <1>2
<1>4. waiting = inside[1] + 1
  BY <1>3 DEF RetryAfter
<1>5. D \subseteq 2..M
  BY <1>1, <1>3, <1>4
<1> HIDE DEF D, M
<1>6. IsFiniteSet(2..M) /\ Cardinality(2..M) = M - 1
  <2>1. M \in Int /\ 2 \in Int /\ M >= 1 /\ M - 2 + 1 = M - 1 /\ (2 > M => M - 1 = 0)
    BY <1>1, <1>2
  <2> QED
    BY <2>1, FS_Interval
<1>7. Cardinality(D) <= M - 1 /\ Cardinality(D) \in Nat
  BY <1>5, <1>6, FS_Subset, FS_CardinalityType
<1> QED
  BY <1>1, <1>7

\* A window that ends in the past admits nothing more; the one that ends now holds what
\* its limiter allows.
LEMMA WindowsGoOn ==
    ASSUME GatewayInv, ListsAreKept', now' \in Nat, now' = now \/ now' = now + 1,
           \A c \in Client : \/ admitted'[c] = admitted[c]
                             \/ now' = now /\ admitted'[c] = Append(admitted[c], now)
    PROVE  WindowsHold'
<1> SUFFICES ASSUME NEW c \in Client, NEW t \in 0..now'
             PROVE  /\ Cardinality({i \in DOMAIN admitted'[c] : admitted'[c][i] > t - Window
                                        /\ admitted'[c][i] <= t}) <= Limit
                    /\ Cardinality({i \in DOMAIN admitted'[c] : admitted'[c][i] > t - BurstWindow
                                        /\ admitted'[c][i] <= t}) <= Burst
  BY DEF WindowsHold, Admitted
<1>1. now \in Nat /\ admitted[c] \in Seq(Nat)
  BY GatewayBounds DEF GatewayInv, TypeOK, ListsAreKept
<1>2. CASE t = now'
  <2>1. /\ Counts(bucket'[c], admitted'[c], Window, Limit, now')
        /\ Counts(burst'[c], admitted'[c], BurstWindow, Burst, now')
        /\ admitted'[c] \in Seq(Nat)
    BY DEF ListsAreKept, ClientIsCounted
  <2>2. Window \in Nat /\ BurstWindow \in Nat /\ Limit \in Nat /\ Burst \in Nat
    BY GatewayBounds
  <2> QED
    BY <1>2, <2>1, <2>2, CountedAreFew
<1>3. CASE t # now'
  <2>1. t \in 0..now /\ (now' = now => t < now)
    BY <1>1, <1>3
  <2>2. /\ Admitted(c, t, Window) <= Limit /\ Admitted(c, t, BurstWindow) <= Burst
    BY <2>1 DEF GatewayInv, WindowsHold
  <2>3. ASSUME NEW w \in Nat
        PROVE  {i \in DOMAIN admitted'[c] : admitted'[c][i] > t - w /\ admitted'[c][i] <= t}
               = {i \in DOMAIN admitted[c] : admitted[c][i] > t - w /\ admitted[c][i] <= t}
    <3>1. CASE admitted'[c] = admitted[c]
      BY <3>1
    <3>2. CASE now' = now /\ admitted'[c] = Append(admitted[c], now)
      <4> DEFINE P == Len(admitted[c])
                 was == admitted[c]
                 is == admitted'[c]
      <4>1. /\ P \in Nat /\ DOMAIN was = 1..P /\ DOMAIN is = 1..P + 1 /\ is[P + 1] = now
            /\ \A i \in 1..P : is[i] = was[i]
        <5>1. /\ Append(was, now) \in Seq(Nat) /\ Len(Append(was, now)) = Len(was) + 1
              /\ \A i \in 1..Len(was) : Append(was, now)[i] = was[i]
              /\ Append(was, now)[Len(was) + 1] = now
          BY <1>1, AppendProperties
        <5> QED
          BY <1>1, <3>2, <5>1
      <4>2. now > t
        BY <1>1, <2>1, <3>2
      <4> HIDE DEF P, was, is
      <4>3. ASSUME NEW i
            PROVE  (i \in DOMAIN is /\ is[i] > t - w /\ is[i] <= t)
                   <=> (i \in DOMAIN was /\ was[i] > t - w /\ was[i] <= t)
        <5>1. CASE i \in 1..P
          BY <4>1, <5>1
        <5>2. CASE i = P + 1
          BY <1>1, <2>1, <4>1, <4>2, <5>2
        <5>3. CASE i \notin 1..P /\ i # P + 1
          BY <4>1, <5>3
        <5> QED
          BY <5>1, <5>2, <5>3
      <4> QED
        BY <4>3 DEF was, is
    <3> QED
      BY <3>1, <3>2
  <2> QED
    BY <2>2, <2>3, GatewayBounds DEF Admitted
<1> QED
  BY <1>2, <1>3

\* What the gateway keeps besides its counts.
State == {"none", "pending", "running", "paused", "cancelled"}

\* A route leaves a cancelled run as it is.
LEMMA RouteKeeps ==
    ASSUME TypeOK, NEW q \in Request, NEW key,
           Route(q) \/ Decode(q, key) \/ UNCHANGED <<runs, pending>>
    PROVE  /\ runs' \in [Run -> State] /\ pending' \subseteq Run
           /\ \A r \in Run : runs[r] = "cancelled" => runs'[r] = "cancelled"
<1>1. runs \in [Run -> State] /\ pending \subseteq Run /\ q.run \in Run
  BY DEF TypeOK, State, Request
<1>2. ASSUME Route(q)
      PROVE  /\ runs' \in [Run -> State] /\ pending' \subseteq Run
             /\ \A r \in Run : runs[r] = "cancelled" => runs'[r] = "cancelled"
  <2>1. /\ pending' = pending \/ pending' = pending \union {q.run}
        /\ \/ runs' = runs
           \/ runs[q.run] # "cancelled" /\ \E s \in State : runs' = [runs EXCEPT ![q.run] = s]
    BY <1>2 DEF Route, Terminal, State
  <2> QED
    BY <1>1, <2>1
<1> QED
  BY <1>1, <1>2 DEF Decode

\* Nothing has been asked.
LEMMA GatewayInit == Init => GatewayInv
<1> SUFFICES ASSUME Init PROVE GatewayInv
  OBVIOUS
<1>1. <<>> \in Seq(Nat) /\ Len(<<>>) = 0
  OBVIOUS
<1>2. now = 0 /\ now \in 0..MaxTime /\ provider \in 1..MaxKeys /\ fetching = {}
  BY GatewayBounds DEF Init
<1>3. \A c \in Client : bucket[c] = <<>> /\ burst[c] = <<>> /\ admitted[c] = <<>>
  BY DEF Init
<1>4. keys \in [key : 0..MaxKeys, at : 0..MaxTime] /\ keys.key = 0 /\ keys.at = 0
  BY GatewayBounds DEF Init
<1>5. TypeOK
  <2>1. runs \in [Run -> {"none", "pending", "running", "paused", "cancelled"}]
    BY DEF Init
  <2>2. \A c \in Client : Len(bucket[c]) <= Limit /\ Len(burst[c]) <= Burst
    BY <1>1, <1>3, GatewayBounds
  <2>3. pending \subseteq Run
    BY DEF Init
  <2> QED
    BY <1>2, <1>4, <2>1, <2>2, <2>3 DEF TypeOK
<1>6. Ordered(<<>>, 0) /\ \A start : Backed(<<>>, <<>>, start)
  <2>1. 1..0 = {} /\ 0..0 - 1 = {}
    OBVIOUS
  <2> QED
    BY <1>1, <2>1 DEF Ordered, Backed
<1>7. ListsAreKept
  <2>1. /\ bucket \in [Client -> Seq(Nat)] /\ burst \in [Client -> Seq(Nat)]
        /\ admitted \in [Client -> Seq(Nat)]
    BY <1>1 DEF Init
  <2> QED
    BY <1>1, <1>2, <1>3, <1>6, <2>1, GatewayBounds DEF ListsAreKept, ClientIsCounted, Counts
<1>8. WindowsHold
  <2>1. ASSUME NEW c \in Client, NEW t, NEW w PROVE Admitted(c, t, w) = 0
    <3>1. DOMAIN admitted[c] = {}
      BY <1>3
    <3>2. {i \in DOMAIN admitted[c] : admitted[c][i] > t - w /\ admitted[c][i] <= t} = {}
      BY <3>1
    <3> QED
      BY <3>2, FS_EmptySet DEF Admitted
  <2> QED
    BY <2>1, GatewayBounds DEF WindowsHold
<1>9. KeysAreDated
  BY <1>2, <1>4 DEF Init, KeysAreDated
<1> QED
  BY <1>5, <1>7, <1>8, <1>9 DEF GatewayInv

\* What the limiters do with a request.
LEMMA AdmitCounts ==
    ASSUME GatewayInv, NEW q \in Request, Admit(q)
    PROVE  ListsAreKept' /\ WindowsHold'
<1> DEFINE c == q.client
           quick == InWindow(burst[c], BurstWindow)
           slow == InWindow(bucket[c], Window)
<1>1. c \in Client /\ now \in Nat /\ now' = now
  BY GatewayBounds DEF Request, GatewayInv, TypeOK, Admit
<1>2. /\ bucket \in [Client -> Seq(Nat)] /\ burst \in [Client -> Seq(Nat)]
      /\ admitted \in [Client -> Seq(Nat)] /\ \A x \in Client : ClientIsCounted(x)
  BY DEF GatewayInv, ListsAreKept
<1>4. /\ Window \in Nat /\ BurstWindow \in Nat /\ Limit \in Nat /\ Burst \in Nat
      /\ admitted[c] \in Seq(Nat)
      /\ Counts(bucket[c], admitted[c], Window, Limit, now)
      /\ Counts(burst[c], admitted[c], BurstWindow, Burst, now)
  BY <1>1, <1>2, GatewayBounds DEF ClientIsCounted
<1>5. /\ Counts(quick, admitted[c], BurstWindow, Burst, now)
      /\ Counts(slow, admitted[c], Window, Limit, now)
  BY <1>1, <1>4, EvictingKeeps
<1>6. quick \in Seq(Nat) /\ slow \in Seq(Nat)
  BY <1>5 DEF Counts, Ordered
<1>7. Len(quick) \in Nat /\ Len(slow) \in Nat
  BY <1>6
<1>8. Append(quick, now) \in Seq(Nat) /\ Append(slow, now) \in Seq(Nat)
      /\ Append(admitted[c], now) \in Seq(Nat)
  BY <1>1, <1>4, <1>6
<1>3. \/ UNCHANGED <<bucket, burst, admitted>>
      \/ /\ Len(quick) < Burst
         /\ burst' = [burst EXCEPT ![c] = Append(quick, now)]
         /\ UNCHANGED <<bucket, admitted>>
      \/ /\ Len(quick) < Burst /\ ~(Len(slow) >= Limit)
         /\ burst' = [burst EXCEPT ![c] = Append(quick, now)]
         /\ bucket' = [bucket EXCEPT ![c] = Append(slow, now)]
         /\ admitted' = [admitted EXCEPT ![c] = Append(admitted[c], now)]
  <2>1. Len(quick) \in Nat
    BY <1>7
  <2> QED
    BY <2>1, GatewayBounds DEF Admit
<1> HIDE DEF quick, slow
<1>9. CASE UNCHANGED <<bucket, burst, admitted>>
  <2>1. ListsAreKept'
    BY <1>1, <1>2, <1>9 DEF ListsAreKept, ClientIsCounted
  <2> QED
    BY <1>1, <1>9, <2>1, WindowsGoOn
<1>10. CASE /\ Len(quick) < Burst
            /\ burst' = [burst EXCEPT ![c] = Append(quick, now)]
            /\ UNCHANGED <<bucket, admitted>>
  <2>1. Counts(Append(quick, now), admitted[c], BurstWindow, Burst, now)
    BY <1>1, <1>4, <1>5, <1>10, RecordingKeeps
  <2>2. burst' \in [Client -> Seq(Nat)] /\ burst'[c] = Append(quick, now)
        /\ \A x \in Client : x # c => burst'[x] = burst[x]
    BY <1>1, <1>2, <1>8, <1>10
  <2>3. ASSUME NEW x \in Client PROVE ClientIsCounted(x)'
    BY <1>1, <1>2, <1>10, <2>1, <2>2 DEF ClientIsCounted
  <2>4. ListsAreKept'
    BY <1>2, <1>10, <2>2, <2>3 DEF ListsAreKept
  <2> QED
    BY <1>1, <1>10, <2>4, WindowsGoOn
<1>11. CASE /\ Len(quick) < Burst /\ ~(Len(slow) >= Limit)
            /\ burst' = [burst EXCEPT ![c] = Append(quick, now)]
            /\ bucket' = [bucket EXCEPT ![c] = Append(slow, now)]
            /\ admitted' = [admitted EXCEPT ![c] = Append(admitted[c], now)]
  <2>0. Len(slow) < Limit
    BY <1>4, <1>7, <1>11
  <2>1. /\ Counts(Append(quick, now), Append(admitted[c], now), BurstWindow, Burst, now)
        /\ Counts(Append(slow, now), Append(admitted[c], now), Window, Limit, now)
    BY <1>1, <1>4, <1>5, <1>11, <2>0, RecordingKeeps
  <2>2. /\ burst' \in [Client -> Seq(Nat)] /\ burst'[c] = Append(quick, now)
        /\ bucket' \in [Client -> Seq(Nat)] /\ bucket'[c] = Append(slow, now)
        /\ admitted' \in [Client -> Seq(Nat)] /\ admitted'[c] = Append(admitted[c], now)
        /\ \A x \in Client : x # c => /\ burst'[x] = burst[x] /\ bucket'[x] = bucket[x]
                                      /\ admitted'[x] = admitted[x]
    BY <1>1, <1>2, <1>8, <1>11
  <2>3. ASSUME NEW x \in Client PROVE ClientIsCounted(x)'
    BY <1>1, <1>2, <2>1, <2>2 DEF ClientIsCounted
  <2>4. ListsAreKept'
    BY <2>2, <2>3 DEF ListsAreKept
  <2>5. \A x \in Client : admitted'[x] = admitted[x] \/ admitted'[x] = Append(admitted[x], now)
    BY <2>2
  <2> QED
    BY <1>1, <2>4, <2>5, WindowsGoOn
<1> QED
  BY <1>3, <1>9, <1>10, <1>11

\* A step that admits nothing, and takes no time, changes no count.
LEMMA QuietCounts ==
    ASSUME GatewayInv, UNCHANGED <<now, bucket, burst, admitted>>
    PROVE  ListsAreKept' /\ WindowsHold'
<1>1. ListsAreKept' /\ now' \in Nat
  BY GatewayBounds DEF GatewayInv, TypeOK, ListsAreKept, ClientIsCounted
<1> QED
  BY <1>1, WindowsGoOn

\* The type follows from the parts a step changes.
LEMMA TypesGoOn ==
    ASSUME GatewayInv, ListsAreKept', now' \in 0..MaxTime, provider' \in 1..MaxKeys,
           keys' \in [key : 0..MaxKeys, at : 0..MaxTime],
           runs' \in [Run -> State], pending' \subseteq Run,
           \A f \in fetching' : f.request \in Request /\ f.since \in 0..now'
    PROVE  TypeOK'
<1>1. \A c \in Client : Len(bucket'[c]) <= Limit /\ Len(burst'[c]) <= Burst
  BY DEF ListsAreKept, ClientIsCounted, Counts
<1> QED
  BY <1>1 DEF TypeOK, State

\* Every step keeps the invariant of the gateway, and none but the task that was asleep
\* moves a run that was cancelled.
LEMMA GatewaySteps ==
    ASSUME GatewayInv, [Next]_vars
    PROVE  /\ GatewayInv'
           /\ \A r \in Run : runs[r] = "cancelled" /\ runs'[r] # "cancelled" =>
                 r \in pending /\ r \notin pending' /\ runs'[r] = "running"
<1> DEFINE Holds == \A r \in Run : runs[r] = "cancelled" /\ runs'[r] # "cancelled" =>
                        r \in pending /\ r \notin pending' /\ runs'[r] = "running"
<1>1. /\ TypeOK /\ now \in 0..MaxTime /\ now \in Nat /\ provider \in 1..MaxKeys
      /\ keys \in [key : 0..MaxKeys, at : 0..MaxTime]
      /\ runs \in [Run -> State] /\ pending \subseteq Run
      /\ \A f \in fetching : f.request \in Request /\ f.since \in 0..now
      /\ rotated \in 0..now /\ keys.at <= now /\ keys.key \in Nat /\ keys.at \in Nat
      /\ keys.key # 0 /\ keys.key # provider => keys.at <= rotated
  BY GatewayBounds DEF GatewayInv, TypeOK, State, KeysAreDated
<1>2. ASSUME NEW f \in fetching, FetchKeys(f) PROVE GatewayInv' /\ Holds
  <2>1. /\ UNCHANGED <<now, bucket, burst, admitted, provider, rotated>>
        /\ fetching' = fetching \ {f} /\ keys' = [key |-> provider, at |-> f.since]
        /\ Decode(f.request, provider)
    BY <1>2 DEF FetchKeys
  <2>2. f.request \in Request /\ f.since \in 0..now /\ f.since \in 0..MaxTime
        /\ provider \in 0..MaxKeys
    BY <1>1, GatewayBounds
  <2>3. /\ runs' \in [Run -> State] /\ pending' \subseteq Run
        /\ \A r \in Run : runs[r] = "cancelled" => runs'[r] = "cancelled"
    BY <1>1, <2>1, <2>2, RouteKeeps
  <2>4. ListsAreKept' /\ WindowsHold'
    BY <2>1, QuietCounts
  <2>5. keys' \in [key : 0..MaxKeys, at : 0..MaxTime]
    BY <2>1, <2>2
  <2>6. TypeOK'
    BY <1>1, <2>1, <2>3, <2>4, <2>5, TypesGoOn
  <2>7. KeysAreDated'
    BY <1>1, <2>1, <2>2 DEF KeysAreDated
  <2> QED
    BY <2>3, <2>4, <2>6, <2>7 DEF GatewayInv
<1>3. ASSUME NEW f \in fetching, FetchFails(f) PROVE GatewayInv' /\ Holds
  <2>1. /\ UNCHANGED <<now, bucket, burst, admitted, runs, pending, provider, rotated, keys>>
        /\ fetching' = fetching \ {f}
    BY <1>3 DEF FetchFails
  <2>2. ListsAreKept' /\ WindowsHold'
    BY <2>1, QuietCounts
  <2>3. TypeOK' /\ KeysAreDated'
    BY <1>1, <2>1, <2>2, TypesGoOn DEF KeysAreDated
  <2> QED
    BY <2>1, <2>2, <2>3 DEF GatewayInv
<1>4. ASSUME NEW q \in Request, Admit(q) PROVE GatewayInv' /\ Holds
  <2>1. ListsAreKept' /\ WindowsHold'
    BY <1>4, AdmitCounts
  <2>2. UNCHANGED <<now, provider, rotated, keys>>
    BY <1>4 DEF Admit
  <2>3. /\ fetching' = fetching \/ fetching' = fetching \union {[request |-> q, since |-> now]}
        /\ Decode(q, keys.key) \/ UNCHANGED <<runs, pending>>
    BY <1>4 DEF Admit
  <2>4. /\ runs' \in [Run -> State] /\ pending' \subseteq Run
        /\ \A r \in Run : runs[r] = "cancelled" => runs'[r] = "cancelled"
    BY <1>1, <2>3, RouteKeeps
  <2>5. \A f \in fetching' : f.request \in Request /\ f.since \in 0..now
    BY <1>1, <2>3
  <2>6. TypeOK' /\ KeysAreDated'
    BY <1>1, <2>1, <2>2, <2>4, <2>5, TypesGoOn DEF KeysAreDated
  <2> QED
    BY <2>1, <2>4, <2>6 DEF GatewayInv
<1>5. CASE RotateKey
  <2>1. /\ UNCHANGED <<now, bucket, burst, admitted, runs, pending, keys, fetching>>
        /\ provider < MaxKeys /\ provider' = provider + 1 /\ rotated' = now
    BY <1>5 DEF RotateKey
  <2>2. ListsAreKept' /\ WindowsHold'
    BY <2>1, QuietCounts
  <2>3. provider' \in 1..MaxKeys
    BY <1>1, <2>1, GatewayBounds
  <2>4. TypeOK' /\ KeysAreDated'
    BY <1>1, <2>1, <2>2, <2>3, TypesGoOn DEF KeysAreDated
  <2> QED
    BY <2>1, <2>2, <2>4 DEF GatewayInv
<1>6. ASSUME NEW r \in Run, SimulateRunStart(r) PROVE GatewayInv' /\ Holds
  <2>1. /\ UNCHANGED <<now, bucket, burst, admitted, provider, rotated, keys, fetching>>
        /\ r \in pending /\ pending' = pending \ {r} /\ runs' = [runs EXCEPT ![r] = "running"]
    BY <1>6 DEF SimulateRunStart
  <2>2. ListsAreKept' /\ WindowsHold'
    BY <2>1, QuietCounts
  <2>3. runs' \in [Run -> State] /\ pending' \subseteq Run
    BY <1>1, <2>1 DEF State
  <2>4. TypeOK' /\ KeysAreDated'
    BY <1>1, <2>1, <2>2, <2>3, TypesGoOn DEF KeysAreDated
  <2>5. Holds
    BY <1>1, <2>1
  <2> QED
    BY <2>2, <2>4, <2>5 DEF GatewayInv
<1>7. CASE Tick
  <2>1. /\ UNCHANGED <<bucket, burst, admitted, runs, pending, provider, rotated, keys, fetching>>
        /\ now < MaxTime /\ now' = now + 1
    BY <1>7 DEF Tick
  <2>2. ListsAreKept'
    <3>1. ASSUME NEW c \in Client PROVE ClientIsCounted(c)'
      <4>1. /\ admitted[c] \in Seq(Nat)
            /\ Counts(bucket[c], admitted[c], Window, Limit, now)
            /\ Counts(burst[c], admitted[c], BurstWindow, Burst, now)
        BY DEF GatewayInv, ListsAreKept, ClientIsCounted
      <4>2. /\ Counts(bucket[c], admitted[c], Window, Limit, now + 1)
            /\ Counts(burst[c], admitted[c], BurstWindow, Burst, now + 1)
        BY <1>1, <4>1, TimeKeepsCounts, GatewayBounds
      <4> QED
        BY <2>1, <4>1, <4>2 DEF ClientIsCounted
    <3> QED
      BY <2>1, <3>1 DEF GatewayInv, ListsAreKept
  <2>3. now' \in 0..MaxTime /\ now' \in Nat
    BY <1>1, <2>1, GatewayBounds
  <2>4. WindowsHold'
    BY <2>1, <2>2, <2>3, WindowsGoOn
  <2>5. \A f \in fetching' : f.request \in Request /\ f.since \in 0..now'
    BY <1>1, <2>1
  <2>6. TypeOK'
    BY <1>1, <2>1, <2>2, <2>3, <2>5, TypesGoOn
  <2>7. KeysAreDated'
    BY <1>1, <2>1 DEF KeysAreDated
  <2> QED
    BY <2>1, <2>2, <2>4, <2>6, <2>7 DEF GatewayInv
<1>8. CASE UNCHANGED vars
  <2>1. UNCHANGED <<now, bucket, burst, admitted, runs, pending, provider, rotated, keys, fetching>>
    BY <1>8 DEF vars
  <2>2. ListsAreKept' /\ WindowsHold'
    BY <2>1, QuietCounts
  <2>3. TypeOK' /\ KeysAreDated'
    BY <1>1, <2>1, <2>2, TypesGoOn DEF KeysAreDated
  <2> QED
    BY <2>1, <2>2, <2>3 DEF GatewayInv
<1> QED
  BY <1>2, <1>3, <1>4, <1>5, <1>6, <1>7, <1>8 DEF Next, Background

\* The invariant of the gateway, for any clients, limits and windows.
LEMMA GatewayHolds == Spec => []GatewayInv
<1>1. GatewayInv /\ [Next]_vars => GatewayInv'
  BY GatewaySteps
<1> QED
  BY <1>1, GatewayInit, PTL DEF Spec

\* What the invariant says to the clients.
LEMMA GatewayPromises == GatewayInv => TypeOK /\ WindowsHold /\ AdviceIsHonest /\ ReplacedKeysFade
<1> SUFFICES ASSUME GatewayInv PROVE TypeOK /\ WindowsHold /\ AdviceIsHonest /\ ReplacedKeysFade
  OBVIOUS
<1>1. now \in Nat /\ rotated \in Nat /\ keys.at \in Nat
  BY GatewayBounds DEF GatewayInv, TypeOK, KeysAreDated
<1>2. AdviceIsHonest
  <2> SUFFICES ASSUME NEW c \in Client
               PROVE  Honest(bucket[c], Window, Limit) /\ Honest(burst[c], BurstWindow, Burst)
    BY DEF AdviceIsHonest
  <2>1. /\ admitted[c] \in Seq(Nat)
        /\ Counts(bucket[c], admitted[c], Window, Limit, now)
        /\ Counts(burst[c], admitted[c], BurstWindow, Burst, now)
    BY DEF GatewayInv, ListsAreKept, ClientIsCounted
  <2>2. Window \in Nat \ {0} /\ BurstWindow \in Nat \ {0} /\ Limit \in Nat \ {0}
        /\ Burst \in Nat \ {0}
    BY GatewayBounds
  <2> QED
    BY <1>1, <2>1, <2>2, AdviceHolds
<1>3. ReplacedKeysFade
  BY <1>1, GatewayBounds DEF GatewayInv, KeysAreDated, ReplacedKeysFade, Fresh
<1> QED
  BY <1>2, <1>3 DEF GatewayInv

\* A run that was cancelled moves again only by the task that was asleep, and then once.
THEOREM CancelHolds == Spec => CancelHoldsOnce
<1>1. GatewayInv /\ [Next]_vars =>
         [\A r \in Run : runs[r] = "cancelled" /\ runs'[r] # "cancelled" =>
              r \in pending /\ r \notin pending' /\ runs'[r] = "running"]_vars
  BY GatewaySteps
<1> QED
  BY <1>1, GatewayHolds, PTL DEF Spec, CancelHoldsOnce

-------------------------------------------------------------------------------
(* The chained file.                                                       *)

\* Its helpers, over any lines: the last entry that can be read, and what is wrong.
LastOf(f, i) ==
    LET readable == {j \in 1..i : f[j].entry # 0}
    IN  IF readable = {} THEN 0 ELSE f[A!Max(readable)].entry

Bad(f, i) == f[i].entry = 0 \/ f[i].code # LastOf(f, i - 1)

BadLines(f) == {i \in DOMAIN f : Bad(f, i)}

\* Entries whose log() returned and that cannot be read.
Unread(f, entries) == {e \in entries : ~\E i \in DOMAIN f : f[i].entry = e}

\* Complaints that are still to come of what has failed: a line without an end will be
\* spoiled, and the next entry carries the code of an entry that cannot be read.
Owed(f, t, behind) ==
    IF t THEN IF Bad(f, Len(f)) THEN 1 ELSE 2 ELSE IF behind THEN 1 ELSE 0

Behind == \E l \in up : last[l] # LastOf(file, Len(file))

OneLogger == \A k, l \in Logger : k = l

ComplaintsAreOwed ==
    OneLogger => Cardinality(BadLines(file)) + Owed(file, torn, Behind) <= 2 * broken

\* A line without an end is of an entry whose log() has not returned.
LossIsOwed ==
    /\ torn => file[Len(file)].entry \notin returned
    /\ Cardinality(Unread(file, returned)) + (IF torn THEN 1 ELSE 0) <= broken

ChainInv == A!ChainTypes /\ ComplaintsAreOwed /\ LossIsOwed

\* What the assumption on the chained file says.
LEMMA ChainBounds == NumEntries \in Nat /\ MaxTears \in Nat /\ IsFiniteSet(Logger)
<1>1. A!IsFiniteSet(Logger) <=> IsFiniteSet(Logger)
  BY DEF A!IsFiniteSet, IsFiniteSet
<1> QED
  BY <1>1, GuardsAssumption DEF A!ChainAssumption

\* An instance counts as its environment does.
LEMMA SameCount == \A D : A!Cardinality(D) = Cardinality(D)
  BY DEF A!Cardinality, Cardinality

\* Finite sets of positions have a greatest one.
LEMMA Greatest ==
    ASSUME NEW n \in Nat, NEW D \in SUBSET (1..n), D # {}
    PROVE  A!Max(D) \in D /\ \A i \in D : i <= A!Max(D)
<1> DEFINE Below == {k \in Nat : \E i \in D : k = n - i}
<1>1. Below \subseteq Nat /\ Below # {}
  <2>1. PICK i \in D : TRUE
    OBVIOUS
  <2>2. n - i \in Nat
    BY <2>1
  <2> QED
    BY <2>1, <2>2
<1>2. PICK k \in Below : \A j \in Below : ~(j < k)
  <2>1. \E k \in Below : \A j \in Below : ~(<<j, k>> \in OpToRel(<, Nat))
    <3> HIDE DEF Below
    <3> QED
      BY <1>1, NatLessThanWellFounded, WFMin
  <2> QED
    BY <2>1 DEF OpToRel
<1>3. PICK i \in D : k = n - i
  BY <1>2
<1>4. \A j \in D : i >= j
  <2> SUFFICES ASSUME NEW j \in D, ~(i >= j) PROVE FALSE
    OBVIOUS
  <2>1. n - j \in Below /\ n - j < k
    BY <1>3
  <2> QED
    BY <1>2, <2>1
<1>5. \E x \in D : \A j \in D : x >= j
  BY <1>4
<1>6. A!Max(D) \in D /\ \A j \in D : A!Max(D) >= j
  BY <1>5, Zenon DEF A!Max
<1> QED
  BY <1>6

\* The last entry before a line depends on the lines before it alone.
LEMMA LastIsLocal ==
    ASSUME NEW f \in Seq(A!Line), NEW g \in Seq(A!Line), NEW n \in Nat,
           n <= Len(f), n <= Len(g), \A i \in 1..n : f[i] = g[i]
    PROVE  \A i \in 0..n : LastOf(f, i) = LastOf(g, i)
<1> SUFFICES ASSUME NEW i \in 0..n PROVE LastOf(f, i) = LastOf(g, i)
  OBVIOUS
<1> DEFINE F == {j \in 1..i : f[j].entry # 0}
           G == {j \in 1..i : g[j].entry # 0}
<1>1. F = G
  OBVIOUS
<1>2. CASE F = {}
  BY <1>1, <1>2 DEF LastOf
<1>3. CASE F # {}
  <2>1. F \in SUBSET (1..i) /\ i \in Nat
    OBVIOUS
  <2>2. A!Max(F) \in F
    <3> HIDE DEF F
    <3> QED
      BY <1>3, <2>1, Greatest
  <2>3. A!Max(F) \in 1..n
    BY <2>2
  <2> QED
    BY <1>1, <1>3, <2>3 DEF LastOf
<1> QED
  BY <1>2, <1>3

\* The last entry of a log that ends with one.
LEMMA LastOfMore ==
    ASSUME NEW f \in Seq(A!Line), f # <<>>, f[Len(f)].entry # 0
    PROVE  LastOf(f, Len(f)) = f[Len(f)].entry
<1> DEFINE n == Len(f)
           F == {j \in 1..n : f[j].entry # 0}
<1>1. n \in Nat \ {0} /\ n \in F /\ F \in SUBSET (1..n)
  OBVIOUS
<1>2. A!Max(F) \in F /\ n <= A!Max(F)
  <2> HIDE DEF F, n
  <2> QED
    BY <1>1, Greatest
<1>3. A!Max(F) = n
  BY <1>1, <1>2
<1> QED
  BY <1>1, <1>3 DEF LastOf

\* The lines that are wrong can be counted.
LEMMA BadLinesAreCounted ==
    ASSUME NEW f \in Seq(A!Line)
    PROVE  /\ IsFiniteSet(BadLines(f)) /\ Cardinality(BadLines(f)) \in Nat
           /\ BadLines(f) \subseteq 1..Len(f)
<1>1. Len(f) \in Nat /\ DOMAIN f = 1..Len(f)
  OBVIOUS
<1>2. IsFiniteSet(1..Len(f))
  BY <1>1, FS_Interval
<1> QED
  BY <1>1, <1>2, FS_Subset, FS_CardinalityType DEF BadLines

\* What a new line, or a spoiled last one, adds to what is wrong.
LEMMA NewLine ==
    ASSUME NEW f \in Seq(A!Line), NEW line \in A!Line
    PROVE  /\ Append(f, line) \in Seq(A!Line) /\ Append(f, line) # <<>>
           /\ Len(Append(f, line)) = Len(f) + 1 /\ Append(f, line)[Len(f) + 1] = line
           /\ \A i \in 1..Len(f) : Append(f, line)[i] = f[i]
           /\ Bad(Append(f, line), Len(f) + 1) <=>
                line.entry = 0 \/ line.code # LastOf(f, Len(f))
           /\ Cardinality(BadLines(Append(f, line)))
              = Cardinality(BadLines(f)) + IF Bad(Append(f, line), Len(f) + 1) THEN 1 ELSE 0
<1> DEFINE n == Len(f)
           g == Append(f, line)
<1>1. /\ n \in Nat /\ DOMAIN f = 1..n
      /\ g \in Seq(A!Line) /\ g # <<>> /\ Len(g) = n + 1 /\ DOMAIN g = 1..n + 1
      /\ g[n + 1] = line /\ \A i \in 1..n : g[i] = f[i]
  <2>1. /\ g \in Seq(A!Line) /\ g # <<>> /\ Len(g) = n + 1
        /\ g[n + 1] = line /\ \A i \in 1..n : g[i] = f[i]
    BY AppendProperties
  <2> QED
    BY <2>1
<1>2. Len(f) = n
  OBVIOUS
<1> HIDE DEF n, g
<1>3. \A i \in 0..n : LastOf(g, i) = LastOf(f, i)
  BY <1>1, <1>2, LastIsLocal
<1>4. \A i \in 1..n : Bad(g, i) <=> Bad(f, i)
  <2> SUFFICES ASSUME NEW i \in 1..n PROVE Bad(g, i) <=> Bad(f, i)
    OBVIOUS
  <2>1. i - 1 \in 0..n
    BY <1>1
  <2> QED
    BY <1>1, <1>3, <2>1 DEF Bad
<1>5. Bad(g, n + 1) <=> line.entry = 0 \/ line.code # LastOf(f, n)
  <2>1. (n + 1) - 1 = n /\ n \in 0..n
    BY <1>1
  <2> QED
    BY <1>1, <1>3, <2>1 DEF Bad
<1>6. BadLines(g) = BadLines(f) \union IF Bad(g, n + 1) THEN {n + 1} ELSE {}
  <2>1. ASSUME NEW i PROVE i \in BadLines(g) <=>
                               i \in BadLines(f) \union IF Bad(g, n + 1) THEN {n + 1} ELSE {}
    <3>1. CASE i \in 1..n
      BY <1>1, <1>4, <3>1 DEF BadLines
    <3>2. CASE i = n + 1
      BY <1>1, <3>2 DEF BadLines
    <3>3. CASE i \notin 1..n /\ i # n + 1
      BY <1>1, <3>3 DEF BadLines
    <3> QED
      BY <3>1, <3>2, <3>3
  <2> QED
    BY <2>1
<1>7. Cardinality(BadLines(g)) = Cardinality(BadLines(f)) + IF Bad(g, n + 1) THEN 1 ELSE 0
  <2>1. IsFiniteSet(BadLines(f)) /\ Cardinality(BadLines(f)) \in Nat
        /\ n + 1 \notin BadLines(f)
    <3>1. BadLines(f) \subseteq 1..n /\ n + 1 \notin 1..n
      BY <1>1, <1>2, BadLinesAreCounted
    <3> QED
      BY <3>1, BadLinesAreCounted
  <2>2. CASE Bad(g, n + 1)
    <3>1. BadLines(g) = BadLines(f) \union {n + 1}
      BY <1>6, <2>2
    <3>2. Cardinality(BadLines(f) \union {n + 1}) = Cardinality(BadLines(f)) + 1
      BY <2>1, FS_AddElement
    <3> QED
      BY <2>2, <3>1, <3>2
  <2>3. CASE ~Bad(g, n + 1)
    <3>1. BadLines(g) = BadLines(f)
      BY <1>6, <2>3
    <3> QED
      BY <2>1, <2>3, <3>1
  <2> QED
    BY <2>2, <2>3
<1> QED
  BY <1>1, <1>5, <1>7 DEF n, g

\* What ends a line without an end spoils it, and that line alone.
LEMMA SpoiledLine ==
    ASSUME NEW f \in Seq(A!Line), f # <<>>
    PROVE  LET g == [f EXCEPT ![Len(f)] = A!Unreadable]
           IN  /\ g \in Seq(A!Line) /\ Len(g) = Len(f) /\ g # <<>>
               /\ g[Len(f)] = A!Unreadable /\ g[Len(f)].entry = 0
               /\ \A i \in 1..Len(f) : i # Len(f) => g[i] = f[i]
               /\ Bad(g, Len(f))
               /\ Cardinality(BadLines(g))
                  = Cardinality(BadLines(f)) + IF Bad(f, Len(f)) THEN 0 ELSE 1
<1> DEFINE n == Len(f)
           g == [f EXCEPT ![n] = A!Unreadable]
<1>0. A!Unreadable \in A!Line /\ A!Unreadable.entry = 0
  BY ChainBounds DEF A!Unreadable, A!Line
<1>1. /\ n \in Nat \ {0} /\ DOMAIN f = 1..n /\ Len(f) = n
      /\ g \in Seq(A!Line) /\ Len(g) = n /\ DOMAIN g = 1..n /\ g # <<>>
      /\ g[n] = A!Unreadable /\ \A i \in 1..n : i # n => g[i] = f[i]
  <2>1. n \in Nat \ {0} /\ DOMAIN f = 1..n
    OBVIOUS
  <2>2. g \in [1..n -> A!Line] /\ g[n] = A!Unreadable
        /\ \A i \in 1..n : i # n => g[i] = f[i]
    BY <1>0, <2>1
  <2>3. g \in Seq(A!Line) /\ Len(g) = n
    BY <1>0
  <2> QED
    BY <2>1, <2>2, <2>3
<1> HIDE DEF n, g
<1>2. Bad(g, n)
  BY <1>0, <1>1 DEF Bad
<1>3. \A i \in 0..n - 1 : LastOf(g, i) = LastOf(f, i)
  <2>1. n - 1 \in Nat /\ n - 1 <= Len(f) /\ n - 1 <= Len(g) /\ \A i \in 1..n - 1 : g[i] = f[i]
    BY <1>1
  <2> QED
    BY <1>1, <2>1, LastIsLocal
<1>4. \A i \in 1..n : i # n => (Bad(g, i) <=> Bad(f, i))
  <2> SUFFICES ASSUME NEW i \in 1..n, i # n PROVE Bad(g, i) <=> Bad(f, i)
    OBVIOUS
  <2>1. i - 1 \in 0..n - 1
    BY <1>1
  <2> QED
    BY <1>1, <1>3, <2>1 DEF Bad
<1>5. BadLines(g) = BadLines(f) \union {n}
  <2>1. ASSUME NEW i PROVE i \in BadLines(g) <=> i \in BadLines(f) \union {n}
    BY <1>1, <1>2, <1>4 DEF BadLines
  <2> QED
    BY <2>1
<1>6. Cardinality(BadLines(g)) = Cardinality(BadLines(f)) + IF Bad(f, n) THEN 0 ELSE 1
  <2>1. IsFiniteSet(BadLines(f)) /\ Cardinality(BadLines(f)) \in Nat
    BY BadLinesAreCounted
  <2>2. n \in BadLines(f) <=> Bad(f, n)
    BY <1>1 DEF BadLines
  <2>3. Cardinality(BadLines(f) \union {n})
        = IF n \in BadLines(f) THEN Cardinality(BadLines(f)) ELSE Cardinality(BadLines(f)) + 1
    BY <2>1, FS_AddElement
  <2> QED
    BY <1>5, <2>1, <2>2, <2>3
<1> QED
  BY <1>0, <1>1, <1>2, <1>6 DEF n, g

\* What cannot be read can be counted, and grows only when the last line is spoiled.
LEMMA UnreadAreCounted ==
    ASSUME NEW f, NEW m \in Nat, NEW entries \in SUBSET (1..m)
    PROVE  IsFiniteSet(Unread(f, entries)) /\ Cardinality(Unread(f, entries)) \in Nat
<1>1. IsFiniteSet(1..m)
  BY FS_Interval
<1> QED
  BY <1>1, FS_Subset, FS_CardinalityType DEF Unread

\* A line more loses no entry, and not the one it is of.
LEMMA ReadableStays ==
    ASSUME NEW f \in Seq(A!Line), NEW line \in A!Line, NEW entries
    PROVE  /\ Unread(Append(f, line), entries) \subseteq Unread(f, entries)
           /\ Unread(Append(f, line), entries \union {line.entry}) \subseteq Unread(f, entries)
<1> DEFINE n == Len(f)
           g == Append(f, line)
<1>1. /\ n \in Nat /\ DOMAIN f = 1..n /\ Len(g) = n + 1 /\ g \in Seq(A!Line)
      /\ g[n + 1] = line /\ \A i \in 1..n : g[i] = f[i]
  BY NewLine
<1>2. DOMAIN g = 1..n + 1 /\ n + 1 \in DOMAIN g
  BY <1>1
<1> HIDE DEF n, g
<1>3. \A i \in 1..n : i \in DOMAIN g
  BY <1>1, <1>2
<1> QED
  BY <1>1, <1>2, <1>3 DEF Unread, g

\* A spoiled last line loses none whose log() had returned.
LEMMA SpoilingLoses ==
    ASSUME NEW f \in Seq(A!Line), f # <<>>, NEW entries, f[Len(f)].entry \notin entries, NEW e,
           NEW g, g = [f EXCEPT ![Len(f)] = A!Unreadable]
    PROVE  /\ Unread(g, entries) \subseteq Unread(f, entries)
           /\ Unread(g, entries \union {e}) \subseteq Unread(f, entries) \union {e}
<1> DEFINE n == Len(f)
<1>1. /\ n \in Nat /\ DOMAIN f = 1..n /\ DOMAIN g = 1..n
      /\ \A i \in 1..n : i # n => g[i] = f[i]
  OBVIOUS
<1>2. \A x \in entries, i \in 1..n : f[i].entry = x => g[i].entry = x
  BY <1>1
<1> HIDE DEF n
<1> QED
  BY <1>1, <1>2 DEF Unread

\* The numbers among the variables.
LEMMA ChainNumbers ==
    ASSUME A!ChainTypes
    PROVE  /\ file \in Seq(A!Line) /\ Len(file) \in Nat /\ (torn => file # <<>>)
           /\ torn \in BOOLEAN /\ up \subseteq Logger /\ last \in [Logger -> 0..NumEntries]
           /\ returned \in SUBSET (1..logged) /\ logged \in Nat /\ logged <= NumEntries
           /\ tears \in Nat /\ tears <= MaxTears /\ broken \in Nat /\ broken <= tears
           /\ shipping \subseteq returned /\ shipped \subseteq returned
           /\ A!Unreadable \in A!Line
<1>1. A!Unreadable \in A!Line
  BY ChainBounds DEF A!Unreadable, A!Line
<1> QED
  BY <1>1, ChainBounds DEF A!ChainTypes

\* Nothing is logged.
LEMMA ChainInit == A!ChainInit => ChainInv
<1> SUFFICES ASSUME A!ChainInit PROVE ChainInv
  OBVIOUS
<1>1. /\ file = <<>> /\ torn = FALSE /\ up = {} /\ returned = {} /\ shipping = {}
      /\ shipped = {} /\ logged = 0 /\ tears = 0 /\ broken = 0
      /\ last \in [Logger -> 0..NumEntries]
  BY ChainBounds DEF A!ChainInit
<1>2. A!ChainTypes
  <2>1. <<>> \in Seq(A!Line) /\ 0 \in 0..NumEntries /\ 0 \in 0..MaxTears /\ 0 \in 0..0
    BY ChainBounds
  <2> QED
    BY <1>1, <2>1 DEF A!ChainTypes
<1>3. DOMAIN file = {} /\ BadLines(file) = {} /\ Unread(file, returned) = {}
  BY <1>1 DEF BadLines, Unread
<1>4. ~Behind
  BY <1>1 DEF Behind
<1>5. Owed(file, torn, Behind) = 0
  BY <1>1, <1>4 DEF Owed
<1>6. Cardinality(BadLines(file)) = 0 /\ Cardinality(Unread(file, returned)) = 0
  BY <1>3, FS_EmptySet
<1>7. ComplaintsAreOwed
  BY <1>1, <1>5, <1>6 DEF ComplaintsAreOwed
<1>8. LossIsOwed
  BY <1>1, <1>6 DEF LossIsOwed
<1> QED
  BY <1>2, <1>7, <1>8 DEF ChainInv

\* A write that comes to its end.
LEMMA LogKeeps ==
    ASSUME ChainInv, NEW l \in Logger, A!Log(l)
    PROVE  ChainInv'
<1> DEFINE e == logged + 1
           line == [entry |-> e, code |-> last[l]]
           n == Len(file)
<1>1. /\ l \in up /\ logged < NumEntries /\ logged' = e
      /\ file' = IF torn THEN [file EXCEPT ![n] = A!Unreadable] ELSE Append(file, line)
      /\ torn' = FALSE /\ last' = [last EXCEPT ![l] = e]
      /\ returned' = returned \union {e} /\ shipping' = shipping \union {e}
      /\ UNCHANGED <<up, shipped, tears, broken>>
  BY DEF A!Log, A!WithLine
<1>2. /\ file \in Seq(A!Line) /\ n \in Nat /\ (torn => file # <<>>) /\ torn \in BOOLEAN
      /\ up \subseteq Logger /\ last \in [Logger -> 0..NumEntries]
      /\ returned \in SUBSET (1..logged) /\ logged \in Nat /\ broken \in Nat
      /\ Cardinality(BadLines(file)) \in Nat
  BY ChainNumbers, BadLinesAreCounted DEF ChainInv
<1>3. e \in 0..NumEntries /\ e # 0 /\ e \in Nat /\ returned' \in SUBSET (1..e)
  BY <1>1, <1>2, ChainBounds
<1>4. line \in A!Line /\ line.entry = e /\ line.code = last[l]
  BY <1>2, <1>3 DEF A!Line
<1> HIDE DEF e, line
<1>5. last' \in [Logger -> 0..NumEntries] /\ last'[l] = e
  BY <1>1, <1>2, <1>3
<1>6. file' \in Seq(A!Line)
  BY <1>1, <1>2, <1>4, NewLine, SpoiledLine
<1>7. A!ChainTypes'
  BY <1>1, <1>2, <1>3, <1>5, <1>6 DEF ChainInv, A!ChainTypes
<1>8. ComplaintsAreOwed'
  <2> SUFFICES ASSUME OneLogger
               PROVE  Cardinality(BadLines(file')) + Owed(file', torn', Behind') <= 2 * broken
    BY <1>1 DEF ComplaintsAreOwed, OneLogger
  <2>1. Cardinality(BadLines(file)) + Owed(file, torn, Behind) <= 2 * broken
    BY DEF ChainInv, ComplaintsAreOwed
  <2>2. CASE ~torn
    <3>1. file' = Append(file, line)
      BY <1>1, <2>2
    <3>2. /\ Len(file') = n + 1 /\ file' # <<>> /\ file'[n + 1] = line
          /\ Bad(file', n + 1) <=> last[l] # LastOf(file, n)
          /\ Cardinality(BadLines(file'))
             = Cardinality(BadLines(file)) + IF Bad(file', n + 1) THEN 1 ELSE 0
      BY <1>2, <1>3, <1>4, <3>1, NewLine
    <3>3. Behind <=> last[l] # LastOf(file, n)
      BY <1>1, <1>2 DEF Behind, OneLogger
    <3>4. LastOf(file', Len(file')) = e
      BY <1>3, <1>4, <1>6, <3>2, LastOfMore
    <3>5. ~Behind'
      BY <1>1, <1>2, <1>5, <3>4 DEF Behind, OneLogger
    <3>6. Owed(file', torn', Behind') = 0
      BY <1>1, <3>5 DEF Owed
    <3>7. Owed(file, torn, Behind) = IF Bad(file', n + 1) THEN 1 ELSE 0
      BY <2>2, <3>2, <3>3 DEF Owed
    <3> QED
      BY <1>2, <2>1, <3>2, <3>6, <3>7
  <2>3. CASE torn
    <3>1. Cardinality(BadLines(file'))
          = Cardinality(BadLines(file)) + IF Bad(file, n) THEN 0 ELSE 1
      BY <1>1, <1>2, <2>3, SpoiledLine
    <3>2. Owed(file, torn, Behind) = IF Bad(file, n) THEN 1 ELSE 2
      BY <2>3 DEF Owed
    <3>3. Owed(file', torn', Behind') \in {0, 1}
      BY <1>1 DEF Owed
    <3> QED
      BY <1>2, <2>1, <3>1, <3>2, <3>3
  <2> QED
    BY <1>2, <2>2, <2>3
<1>9. LossIsOwed'
  <2>0. /\ IsFiniteSet(Unread(file, returned)) /\ Cardinality(Unread(file, returned)) \in Nat
        /\ Cardinality(Unread(file', returned')) \in Nat
        /\ Cardinality(Unread(file, returned)) + (IF torn THEN 1 ELSE 0) <= broken
    BY <1>2, <1>3, UnreadAreCounted DEF ChainInv, LossIsOwed
  <2>1. CASE ~torn
    <3>1. Unread(file', returned') \subseteq Unread(file, returned)
      BY <1>1, <1>2, <1>4, <2>1, ReadableStays
    <3>2. Cardinality(Unread(file', returned')) <= Cardinality(Unread(file, returned))
      BY <2>0, <3>1, FS_Subset
    <3> QED
      BY <1>1, <1>2, <2>0, <2>1, <3>2 DEF LossIsOwed
  <2>2. CASE torn
    <3>1. file[n].entry \notin returned
      BY <2>2 DEF ChainInv, LossIsOwed
    <3>2. Unread(file', returned') \subseteq Unread(file, returned) \union {e}
      BY <1>1, <1>2, <2>2, <3>1, SpoilingLoses
    <3>3. /\ IsFiniteSet(Unread(file, returned) \union {e})
          /\ Cardinality(Unread(file, returned) \union {e})
                 <= Cardinality(Unread(file, returned)) + 1
      BY <2>0, FS_AddElement
    <3>4. Cardinality(Unread(file', returned')) <= Cardinality(Unread(file, returned) \union {e})
          /\ Cardinality(Unread(file, returned) \union {e}) \in Nat
      BY <3>2, <3>3, FS_Subset, FS_CardinalityType
    <3> QED
      BY <1>1, <1>2, <2>0, <2>2, <3>3, <3>4 DEF LossIsOwed
  <2> QED
    BY <1>2, <2>1, <2>2
<1> QED
  BY <1>7, <1>8, <1>9 DEF ChainInv

\* A write that fails, with nothing, a part or all of the line in the file.
LEMMA WriteFailsKeeps ==
    ASSUME ChainInv, NEW l \in Logger, A!WriteFails(l)
    PROVE  ChainInv'
<1> DEFINE e == logged + 1
           line == [entry |-> e, code |-> last[l]]
           n == Len(file)
<1>1. /\ l \in up /\ logged < NumEntries /\ logged' = e
      /\ tears < MaxTears /\ tears' = tears + 1 /\ broken' = broken + 1
      /\ \/ UNCHANGED <<file, torn>>
         \/ /\ file' = IF torn THEN [file EXCEPT ![n] = A!Unreadable]
                               ELSE Append(file, A!Unreadable)
            /\ torn' = TRUE
         \/ /\ file' = IF torn THEN [file EXCEPT ![n] = A!Unreadable] ELSE Append(file, line)
            /\ torn' \in BOOLEAN
      /\ up' = up \/ up' = up \ {l}
      /\ UNCHANGED <<last, returned, shipping, shipped>>
  BY DEF A!WriteFails, A!WithLine, A!Tear
<1>2. /\ file \in Seq(A!Line) /\ n \in Nat /\ (torn => file # <<>>) /\ torn \in BOOLEAN
      /\ up \subseteq Logger /\ last \in [Logger -> 0..NumEntries]
      /\ returned \in SUBSET (1..logged) /\ logged \in Nat /\ broken \in Nat
      /\ tears \in Nat /\ broken <= tears /\ A!Unreadable \in A!Line
      /\ Cardinality(BadLines(file)) \in Nat
  BY ChainNumbers, BadLinesAreCounted DEF ChainInv
<1>3. e \in 0..NumEntries /\ e # 0 /\ e \in Nat /\ e \notin returned
      /\ returned \in SUBSET (1..e) /\ 0 \notin returned /\ A!Unreadable.entry = 0
  BY <1>1, <1>2, ChainBounds DEF A!Unreadable
<1>4. line \in A!Line /\ line.entry = e /\ line.code = last[l]
  BY <1>2, <1>3 DEF A!Line
<1> HIDE DEF e, line
<1>5. \/ UNCHANGED <<file, torn>>
      \/ \E more \in {line, A!Unreadable} :
            ~torn /\ file' = Append(file, more) /\ torn' \in BOOLEAN
            /\ (more = A!Unreadable => torn')
      \/ torn /\ file' = [file EXCEPT ![n] = A!Unreadable] /\ torn' \in BOOLEAN
  <2>1. CASE UNCHANGED <<file, torn>>
    BY <2>1
  <2>2. CASE torn /\ ~UNCHANGED <<file, torn>>
    BY <1>1, <2>2
  <2>3. CASE ~torn /\ ~UNCHANGED <<file, torn>>
    <3>1. \/ file' = Append(file, A!Unreadable) /\ torn' = TRUE
          \/ file' = Append(file, line) /\ torn' \in BOOLEAN
      BY <1>1, <2>3
    <3>2. line # A!Unreadable
      BY <1>3, <1>4
    <3> QED
      BY <2>3, <3>1, <3>2
  <2> QED
    BY <2>1, <2>2, <2>3
<1>6. file' \in Seq(A!Line) /\ torn' \in BOOLEAN /\ (torn' => file' # <<>>)
  <2>0. torn' \in BOOLEAN
    BY <1>2, <1>5
  <2>1. CASE UNCHANGED <<file, torn>>
    BY <1>2, <2>1
  <2>2. ASSUME NEW more \in {line, A!Unreadable}, file' = Append(file, more)
        PROVE  file' \in Seq(A!Line) /\ file' # <<>>
    BY <1>2, <1>4, <2>2, NewLine
  <2>3. CASE torn /\ file' = [file EXCEPT ![n] = A!Unreadable]
    BY <1>2, <2>0, <2>3, SpoiledLine
  <2> QED
    BY <1>2, <1>5, <2>1, <2>2, <2>3
<1>7. A!ChainTypes'
  <2>1. tears' \in 0..MaxTears /\ broken' \in 0..tears'
    BY <1>1, <1>2, ChainBounds
  <2> QED
    BY <1>1, <1>2, <1>3, <1>6, <2>1 DEF ChainInv, A!ChainTypes
<1>8. ComplaintsAreOwed'
  <2> SUFFICES ASSUME OneLogger
               PROVE  Cardinality(BadLines(file')) + Owed(file', torn', Behind') <= 2 * broken'
    BY <1>1 DEF ComplaintsAreOwed, OneLogger
  <2>1. Cardinality(BadLines(file)) + Owed(file, torn, Behind) <= 2 * broken
    BY DEF ChainInv, ComplaintsAreOwed
  <2>2. 2 * broken' = 2 * broken + 2
    BY <1>1, <1>2
  <2>3. Behind <=> last[l] # LastOf(file, n)
    BY <1>1, <1>2 DEF Behind, OneLogger
  <2>4. CASE UNCHANGED <<file, torn>>
    <3>1. Behind' => Behind
      BY <1>1, <2>4 DEF Behind
    <3>2. Owed(file', torn', Behind') \in Nat /\ Owed(file, torn, Behind) \in Nat
          /\ Owed(file', torn', Behind') <= Owed(file, torn, Behind)
      BY <2>4, <3>1 DEF Owed
    <3> QED
      BY <1>2, <2>1, <2>2, <2>4, <3>2
  <2>5. ASSUME NEW more \in {line, A!Unreadable}, ~torn, file' = Append(file, more),
               torn' \in BOOLEAN, more = A!Unreadable => torn'
        PROVE  Cardinality(BadLines(file')) + Owed(file', torn', Behind') <= 2 * broken'
    <3>1. /\ Len(file') = n + 1
          /\ Bad(file', n + 1) <=> more.entry = 0 \/ more.code # LastOf(file, n)
          /\ Cardinality(BadLines(file'))
             = Cardinality(BadLines(file)) + IF Bad(file', n + 1) THEN 1 ELSE 0
      BY <1>2, <1>4, <2>5, NewLine
    <3>2. Owed(file', torn', Behind') = IF torn' THEN IF Bad(file', n + 1) THEN 1 ELSE 2
                                                  ELSE IF Behind' THEN 1 ELSE 0
      BY <3>1 DEF Owed
    <3>3. Owed(file, torn, Behind) = IF Behind THEN 1 ELSE 0
      BY <2>5 DEF Owed
    <3> QED
      BY <1>2, <2>1, <2>2, <3>1, <3>2, <3>3
  <2>6. CASE torn /\ file' = [file EXCEPT ![n] = A!Unreadable] /\ torn' \in BOOLEAN
    <3>1. /\ Len(file') = n /\ Bad(file', n)
          /\ Cardinality(BadLines(file'))
             = Cardinality(BadLines(file)) + IF Bad(file, n) THEN 0 ELSE 1
      BY <1>2, <2>6, SpoiledLine
    <3>2. Owed(file, torn, Behind) = IF Bad(file, n) THEN 1 ELSE 2
      BY <2>6 DEF Owed
    <3>3. Owed(file', torn', Behind') \in {0, 1}
      BY <3>1 DEF Owed
    <3> QED
      BY <1>2, <2>1, <2>2, <3>1, <3>2, <3>3
  <2> QED
    BY <1>5, <2>4, <2>5, <2>6
<1>9. LossIsOwed'
  <2>0. /\ IsFiniteSet(Unread(file, returned)) /\ Cardinality(Unread(file, returned)) \in Nat
        /\ Cardinality(Unread(file', returned)) \in Nat
        /\ Cardinality(Unread(file, returned)) + (IF torn THEN 1 ELSE 0) <= broken
        /\ torn => file[n].entry \notin returned
    BY <1>2, <1>3, UnreadAreCounted DEF ChainInv, LossIsOwed
  <2>1. Unread(file', returned) \subseteq Unread(file, returned)
    <3>1. CASE UNCHANGED <<file, torn>>
      BY <3>1
    <3>2. ASSUME NEW more \in {line, A!Unreadable}, file' = Append(file, more)
          PROVE  Unread(file', returned) \subseteq Unread(file, returned)
      BY <1>2, <1>4, <3>2, ReadableStays
    <3>3. CASE torn /\ file' = [file EXCEPT ![n] = A!Unreadable]
      BY <1>2, <2>0, <3>3, SpoilingLoses
    <3> QED
      BY <1>5, <3>1, <3>2, <3>3
  <2>2. Cardinality(Unread(file', returned)) <= Cardinality(Unread(file, returned))
    BY <2>0, <2>1, FS_Subset
  <2>3. torn' => file'[Len(file')].entry \notin returned
    <3>1. CASE UNCHANGED <<file, torn>>
      BY <2>0, <3>1
    <3>2. ASSUME NEW more \in {line, A!Unreadable}, file' = Append(file, more)
          PROVE  file'[Len(file')].entry \notin returned
      <4>1. file'[Len(file')] = more
        BY <1>2, <1>4, <3>2, NewLine
      <4> QED
        BY <1>3, <1>4, <4>1
    <3>3. CASE torn /\ file' = [file EXCEPT ![n] = A!Unreadable]
      <4>1. file'[Len(file')].entry = 0
        BY <1>2, <3>3, SpoiledLine
      <4> QED
        BY <1>3, <4>1
    <3> QED
      BY <1>5, <3>1, <3>2, <3>3
  <2>4. Cardinality(Unread(file', returned)) + (IF torn' THEN 1 ELSE 0) <= broken + 1
    BY <1>2, <2>0, <2>2
  <2> QED
    BY <1>1, <2>3, <2>4 DEF LossIsOwed
<1> QED
  BY <1>7, <1>8, <1>9 DEF ChainInv

\* What leaves the file alone.
LEMMA FileStays ==
    ASSUME ChainInv, A!ChainTypes', UNCHANGED <<file, torn, returned, broken>>,
           OneLogger /\ Behind' => Behind
    PROVE  ChainInv'
<1>1. LossIsOwed'
  BY DEF ChainInv, LossIsOwed
<1>2. ComplaintsAreOwed'
  <2> SUFFICES ASSUME OneLogger
               PROVE  Cardinality(BadLines(file)) + Owed(file, torn, Behind') <= 2 * broken
    BY DEF ComplaintsAreOwed, OneLogger
  <2>1. Cardinality(BadLines(file)) + Owed(file, torn, Behind) <= 2 * broken
    BY DEF ChainInv, ComplaintsAreOwed
  <2>2. Cardinality(BadLines(file)) \in Nat /\ broken \in Nat
    BY ChainNumbers, BadLinesAreCounted DEF ChainInv
  <2>3. Owed(file, torn, Behind') \in Nat /\ Owed(file, torn, Behind) \in Nat
        /\ Owed(file, torn, Behind') <= Owed(file, torn, Behind)
    BY DEF Owed
  <2> QED
    BY <2>1, <2>2, <2>3
<1> QED
  BY <1>1, <1>2 DEF ChainInv

\* Every step keeps the invariant of the chained file.
LEMMA ChainSteps == ChainInv /\ [A!ChainNext]_(A!chainVars) => ChainInv'
<1> SUFFICES ASSUME ChainInv, [A!ChainNext]_(A!chainVars) PROVE ChainInv'
  OBVIOUS
<1>1. /\ A!ChainTypes
      /\ file \in Seq(A!Line) /\ Len(file) \in Nat /\ (torn => file # <<>>)
      /\ torn \in BOOLEAN /\ up \subseteq Logger /\ last \in [Logger -> 0..NumEntries]
      /\ returned \in SUBSET (1..logged) /\ logged \in Nat /\ logged <= NumEntries
      /\ tears \in Nat /\ tears <= MaxTears /\ broken \in Nat /\ broken <= tears
      /\ shipping \subseteq returned /\ shipped \subseteq returned
  BY ChainNumbers DEF ChainInv
<1>2. ASSUME NEW l \in Logger, A!Open(l) PROVE ChainInv'
  <2>1. /\ l \notin up /\ up' = up \union {l}
        /\ last' = [last EXCEPT ![l] = LastOf(file, Len(file))]
        /\ UNCHANGED <<file, torn, returned, shipping, shipped, logged, tears, broken>>
    BY <1>2 DEF A!Open, A!LastRead, LastOf
  <2>2. LastOf(file, Len(file)) \in 0..NumEntries
    <3> DEFINE F == {j \in 1..Len(file) : file[j].entry # 0}
    <3>1. CASE F = {}
      BY <3>1, ChainBounds DEF LastOf
    <3>2. CASE F # {}
      <4>1. A!Max(F) \in 1..Len(file)
        <5>1. F \in SUBSET (1..Len(file))
          OBVIOUS
        <5> HIDE DEF F
        <5> QED
          BY <1>1, <3>2, <5>1, Greatest
      <4>2. file[A!Max(F)] \in A!Line
        BY <1>1, <4>1
      <4> QED
        BY <3>2, <4>2 DEF LastOf, A!Line
    <3> QED
      BY <3>1, <3>2
  <2>3. last' \in [Logger -> 0..NumEntries] /\ last'[l] = LastOf(file, Len(file))
    BY <1>1, <2>1, <2>2
  <2>4. A!ChainTypes'
    BY <1>1, <2>1, <2>3 DEF A!ChainTypes
  <2>5. OneLogger => ~Behind'
    BY <1>1, <2>1, <2>3 DEF Behind, OneLogger
  <2> QED
    BY <2>1, <2>4, <2>5, FileStays
<1>3. ASSUME NEW l \in Logger, A!Exit(l) PROVE ChainInv'
  <2>1. /\ up' = up \ {l} /\ shipping' \subseteq shipping
        /\ tears < MaxTears /\ tears' = tears + 1
        /\ UNCHANGED <<file, torn, last, returned, shipped, logged, broken>>
    BY <1>3 DEF A!Exit, A!Tear
  <2>2. tears' \in 0..MaxTears /\ broken \in 0..tears'
    BY <1>1, <2>1, ChainBounds
  <2>3. A!ChainTypes'
    BY <1>1, <2>1, <2>2 DEF A!ChainTypes
  <2>4. Behind' => Behind
    BY <2>1 DEF Behind
  <2> QED
    BY <2>1, <2>3, <2>4, FileStays
<1>4. ASSUME NEW e \in shipping, A!Ship(e) PROVE ChainInv'
  <2>1. /\ shipping' \subseteq shipping /\ shipped' \subseteq shipped \union {e}
        /\ UNCHANGED <<file, torn, up, last, returned, logged, tears, broken>>
    BY <1>4 DEF A!Ship
  <2>2. A!ChainTypes'
    BY <1>1, <2>1 DEF A!ChainTypes
  <2>3. Behind' => Behind
    BY <2>1 DEF Behind
  <2> QED
    BY <2>1, <2>2, <2>3, FileStays
<1>5. CASE UNCHANGED A!chainVars
  <2>1. UNCHANGED <<file, torn, up, last, returned, shipping, shipped, logged, tears, broken>>
    BY <1>5 DEF A!chainVars
  <2>2. A!ChainTypes'
    BY <1>1, <2>1 DEF A!ChainTypes
  <2>3. Behind' => Behind
    BY <2>1 DEF Behind
  <2> QED
    BY <2>1, <2>2, <2>3, FileStays
<1> QED
  BY <1>2, <1>3, <1>4, <1>5, LogKeeps, WriteFailsKeeps DEF A!ChainNext

\* What the invariant says to an auditor.
LEMMA ChainPromises ==
    ChainInv => A!ChainTypes /\ A!ComplaintsNeedFaults /\ A!LossNeedsFaults
<1> SUFFICES ASSUME ChainInv
             PROVE  A!ChainTypes /\ A!ComplaintsNeedFaults /\ A!LossNeedsFaults
  OBVIOUS
<1>1. file \in Seq(A!Line) /\ broken \in Nat /\ returned \in SUBSET (1..logged) /\ logged \in Nat
  BY ChainNumbers DEF ChainInv
<1>2. A!ComplaintsNeedFaults
  <2> SUFFICES ASSUME Cardinality(Logger) = 1
               PROVE  Cardinality(BadLines(file)) <= 2 * broken
    <3>1. A!Complaints = BadLines(file)
      BY DEF A!Complaints, BadLines, Bad, A!LastRead, LastOf
    <3> QED
      BY <3>1, SameCount DEF A!ComplaintsNeedFaults
  <2>1. OneLogger
    <3>1. \E l : Logger = {l}
      BY ChainBounds, FS_Singleton
    <3> QED
      BY <3>1 DEF OneLogger
  <2>2. Cardinality(BadLines(file)) + Owed(file, torn, Behind) <= 2 * broken
    BY <2>1 DEF ChainInv, ComplaintsAreOwed
  <2>3. Cardinality(BadLines(file)) \in Nat /\ Owed(file, torn, Behind) \in Nat
    BY <1>1, BadLinesAreCounted DEF Owed
  <2> QED
    BY <1>1, <2>2, <2>3
<1>3. A!LossNeedsFaults
  <2>1. {e \in returned : ~A!Readable(e)} = Unread(file, returned)
    BY DEF A!Readable, Unread
  <2>2. Cardinality(Unread(file, returned)) <= broken
    <3>1. Cardinality(Unread(file, returned)) \in Nat
      BY <1>1, UnreadAreCounted
    <3>2. Cardinality(Unread(file, returned)) + (IF torn THEN 1 ELSE 0) <= broken
      BY DEF ChainInv, LossIsOwed
    <3> QED
      BY <1>1, <3>1, <3>2
  <2> QED
    BY <2>1, <2>2, SameCount DEF A!LossNeedsFaults
<1> QED
  BY <1>2, <1>3 DEF ChainInv

\* A log nobody touched complains, and has lost an entry, only after failing writes:
\* two complaints, and one entry, for each.
THEOREM LostOnlyByFaults ==
    A!ChainSpec => [](A!ChainTypes /\ A!ComplaintsNeedFaults /\ A!LossNeedsFaults)
  BY ChainInit, ChainSteps, ChainPromises, PTL DEF A!ChainSpec

-------------------------------------------------------------------------------
(* The audit logger.                                                       *)

\* The sinks and the place of each.
Three == {"log", "file", "index"}
Num(s) == IF s = "log" THEN 1 ELSE IF s = "file" THEN 2 ELSE 3

Task == [event : A!Event \union {A!Stop, A!NoEvent}, sink : 1..3]

\* Where events are.
Queued == A!Range(queue)
Buffered == A!Range(buffer)
Written == [s \in Three |-> A!Range(lines[s])]

AuditShape ==
    /\ pc \in {"new", "running", "stopping", "stopped"}
    /\ queue \in Seq(A!Event \union {A!Stop}) /\ Len(queue) <= QueueSize
    /\ worker \in [A!Worker -> Task]
    /\ sequence \in Nat /\ number \in [A!Event -> Nat]
    /\ \E n \in Nat : A!Logged = 1..n
    /\ buffer \in Seq(A!Event) /\ Len(buffer) < BufferSize
    /\ lines \in [Three -> Seq(A!Event)]
    /\ flushed \in Nat /\ flushed <= Len(lines["file"])
    /\ lost \subseteq A!Event \union {A!Stop, A!NoEvent} /\ late \subseteq A!Event

\* Nothing is twice in a list.
ListsAreSets ==
    /\ \A i, j \in 1..Len(queue) : queue[i] = queue[j] /\ queue[i] # A!Stop => i = j
    /\ A!IsInjective(buffer)
    /\ \A s \in Three : A!IsInjective(lines[s])

\* An event has not been where it is still to come.
PlacesAreDistinct ==
    /\ Queued \subseteq A!Logged \union {A!Stop} /\ Buffered \subseteq A!Logged
    /\ \A s \in Three : Written[s] \subseteq A!Logged
    /\ \A e \in Queued \ {A!Stop} :
          /\ e \notin Buffered
          /\ \A s \in Three : e \notin Written[s]
          /\ \A w \in A!Worker : worker[w].event # e
    /\ \A w \in A!Worker : worker[w].event \in A!Event =>
          /\ worker[w].event \in A!Logged \ Buffered
          /\ \A s \in Three : worker[w].sink <= Num(s) => worker[w].event \notin Written[s]
          /\ \A v \in A!Worker : worker[v].event = worker[w].event => v = w
    /\ Buffered \intersect Written["index"] = {}

\* After a sentinel come sentinels and what was logged too late; so when a worker has
\* ended nothing else is in the queue.
SentinelsEnd ==
    /\ pc \in {"new", "running"} => A!Stop \notin Queued
    /\ pc = "running" => \A w \in A!Worker : worker[w].event # A!Stop
    /\ pc \in {"new", "stopped"} => \A w \in A!Worker : worker[w].event = A!Stop
    /\ \A i, j \in 1..Len(queue) :
          i < j /\ queue[i] = A!Stop => queue[j] \in late \union {A!Stop}
    /\ pc \in {"stopping", "stopped"} /\ (\E w \in A!Worker : worker[w].event = A!Stop) =>
          Queued \subseteq late \union {A!Stop}
    /\ pc = "stopped" => buffer = <<>> /\ flushed = Len(lines["file"])

\* Nothing is forgotten on the way to a sink.
NothingIsForgotten ==
    \A e \in A!Logged \ (lost \union late), s \in Three :
        \/ e \in Written[s]
        \/ s = "index" /\ e \in Buffered
        \/ e \in Queued
        \/ \E w \in A!Worker : worker[w].event = e /\ worker[w].sink <= Num(s)

AuditInv ==
    AuditShape /\ ListsAreSets /\ PlacesAreDistinct /\ SentinelsEnd /\ NothingIsForgotten

\* What the assumption on the audit log says.
LEMMA AuditBounds ==
    /\ QueueSize \in Nat \ {0} /\ BufferSize \in Nat \ {0} /\ MaxStarts \in Nat \ {0}
    /\ NumEvents \in Nat /\ MaxFaults \in Nat
  BY GuardsAssumption DEF A!AuditAssumption

\* The sinks in their order.
LEMMA Sinks ==
    /\ A!Sinks = Three /\ Len(A!Sink) = 3 /\ DOMAIN A!Sink = 1..3
    /\ \A k \in 1..3, s \in Three : A!Sink[k] = s <=> k = Num(s)
    /\ A!Stop \notin A!Event /\ A!NoEvent \notin A!Event /\ A!Stop # A!NoEvent
<1>1. Len(A!Sink) = 3 /\ DOMAIN A!Sink = 1..3
  BY DEF A!Sink
<1>2. A!Sink[1] = "log" /\ A!Sink[2] = "file" /\ A!Sink[3] = "index"
  BY DEF A!Sink
<1>3. A!Sinks = Three
  <2>1. 1 \in 1..3 /\ 2 \in 1..3 /\ 3 \in 1..3 /\ \A k \in 1..3 : k = 1 \/ k = 2 \/ k = 3
    OBVIOUS
  <2> QED
    BY <1>1, <1>2, <2>1 DEF A!Sinks, A!Range, Three
<1>4. \A k \in 1..3, s \in Three : A!Sink[k] = s <=> k = Num(s)
  <2>1. \A k \in 1..3 : k = 1 \/ k = 2 \/ k = 3
    OBVIOUS
  <2> QED
    BY <1>2, <2>1 DEF Three, Num
<1>5. A!Stop \notin A!Event /\ A!NoEvent \notin A!Event /\ A!Stop # A!NoEvent
  BY AuditBounds DEF A!Stop, A!NoEvent, A!Event
<1> QED
  BY <1>1, <1>3, <1>4, <1>5

\* Lists and what is in them.
LEMMA AppendedList ==
    ASSUME NEW D, NEW f \in Seq(D), NEW x \in D
    PROVE  /\ Append(f, x) \in Seq(D) /\ Len(Append(f, x)) = Len(f) + 1
           /\ Append(f, x)[Len(f) + 1] = x
           /\ \A i \in 1..Len(f) : Append(f, x)[i] = f[i]
           /\ A!Range(Append(f, x)) = A!Range(f) \union {x}
           /\ A!IsInjective(f) /\ x \notin A!Range(f) => A!IsInjective(Append(f, x))
<1> DEFINE n == Len(f)
           g == Append(f, x)
<1>1. /\ n \in Nat /\ DOMAIN f = 1..n
      /\ g \in Seq(D) /\ Len(g) = n + 1 /\ DOMAIN g = 1..n + 1
      /\ g[n + 1] = x /\ \A i \in 1..n : g[i] = f[i]
  <2>1. g \in Seq(D) /\ Len(g) = n + 1 /\ g[n + 1] = x /\ \A i \in 1..n : g[i] = f[i]
    BY AppendProperties
  <2> QED
    BY <2>1
<1> HIDE DEF n, g
<1>2. \A i \in 1..n + 1 : i \in 1..n \/ i = n + 1
  BY <1>1
<1>3. \A i \in 1..n : i \in 1..n + 1 /\ i # n + 1
  BY <1>1
<1>4. n + 1 \in 1..n + 1
  BY <1>1
<1>5. A!Range(g) = A!Range(f) \union {x}
  BY <1>1, <1>2, <1>3, <1>4 DEF A!Range
<1>6. A!IsInjective(f) /\ x \notin A!Range(f) => A!IsInjective(g)
  BY <1>1, <1>2, <1>3 DEF A!IsInjective, A!Range
<1> QED
  BY <1>1, <1>5, <1>6 DEF n, g

\* Joining two lists.
LEMMA JoinedList ==
    ASSUME NEW D, NEW f \in Seq(D), NEW g \in Seq(D)
    PROVE  /\ f \o g \in Seq(D) /\ Len(f \o g) = Len(f) + Len(g)
           /\ A!Range(f \o g) = A!Range(f) \union A!Range(g)
           /\ A!IsInjective(f) /\ A!IsInjective(g) /\ A!Range(f) \intersect A!Range(g) = {} =>
                  A!IsInjective(f \o g)
<1> DEFINE n == Len(f)
           m == Len(g)
           h == f \o g
<1>1. /\ n \in Nat /\ m \in Nat /\ DOMAIN f = 1..n /\ DOMAIN g = 1..m
      /\ h \in Seq(D) /\ Len(h) = n + m /\ DOMAIN h = 1..n + m
      /\ \A i \in 1..n + m : h[i] = IF i <= n THEN f[i] ELSE g[i - n]
  <2>1. h \in Seq(D) /\ Len(h) = n + m
        /\ \A i \in 1..n + m : h[i] = IF i <= n THEN f[i] ELSE g[i - n]
    BY ConcatProperties
  <2> QED
    BY <2>1
<1> HIDE DEF n, m, h
<1>2. ASSUME NEW i \in 1..n + m
      PROVE  \/ i \in 1..n /\ h[i] = f[i]
             \/ i - n \in 1..m /\ i = n + (i - n) /\ h[i] = g[i - n] /\ ~(i <= n)
  BY <1>1
<1>3. \A i \in 1..n : i \in 1..n + m /\ h[i] = f[i]
  BY <1>1
<1>4. \A i \in 1..m : n + i \in 1..n + m /\ h[n + i] = g[i]
  <2> SUFFICES ASSUME NEW i \in 1..m PROVE n + i \in 1..n + m /\ h[n + i] = g[i]
    OBVIOUS
  <2>1. n + i \in 1..n + m /\ ~(n + i <= n) /\ (n + i) - n = i
    BY <1>1
  <2> QED
    BY <1>1, <2>1
<1>5. A!Range(h) = A!Range(f) \union A!Range(g)
  <2>1. \A x : x \in A!Range(h) => x \in A!Range(f) \union A!Range(g)
    BY <1>1, <1>2 DEF A!Range
  <2>2. \A x : x \in A!Range(f) \union A!Range(g) => x \in A!Range(h)
    <3>1. ASSUME NEW i \in 1..n PROVE f[i] \in A!Range(h)
      BY <1>1, <1>3 DEF A!Range
    <3>2. ASSUME NEW i \in 1..m PROVE g[i] \in A!Range(h)
      BY <1>1, <1>4 DEF A!Range
    <3>3. \A x \in A!Range(f) : \E i \in 1..n : x = f[i]
      BY <1>1 DEF A!Range
    <3>4. \A x \in A!Range(g) : \E i \in 1..m : x = g[i]
      BY <1>1 DEF A!Range
    <3> QED
      BY <3>1, <3>2, <3>3, <3>4
  <2> QED
    BY <2>1, <2>2
<1>6. ASSUME A!IsInjective(f), A!IsInjective(g), A!Range(f) \intersect A!Range(g) = {}
      PROVE  A!IsInjective(h)
  <2> SUFFICES ASSUME NEW i \in 1..n + m, NEW j \in 1..n + m, h[i] = h[j] PROVE i = j
    BY <1>1 DEF A!IsInjective
  <2>1. ASSUME NEW a \in 1..n, NEW b \in 1..m PROVE f[a] # g[b]
    BY <1>1, <1>6 DEF A!Range
  <2>2. CASE i \in 1..n /\ h[i] = f[i]
    <3>1. ~(j - n \in 1..m /\ h[j] = g[j - n])
      BY <2>1, <2>2
    <3>2. j \in 1..n /\ f[i] = f[j]
      BY <1>2, <2>2, <3>1
    <3> QED
      BY <1>1, <1>6, <2>2, <3>2 DEF A!IsInjective
  <2>3. CASE i - n \in 1..m /\ i = n + (i - n) /\ h[i] = g[i - n]
    <3>1. ~(j \in 1..n /\ h[j] = f[j])
      BY <2>1, <2>3
    <3>2. j - n \in 1..m /\ j = n + (j - n) /\ h[j] = g[j - n]
      BY <1>2, <3>1
    <3>3. i - n = j - n
      BY <1>1, <1>6, <2>3, <3>2 DEF A!IsInjective
    <3> QED
      BY <1>1, <2>3, <3>2, <3>3
  <2> QED
    BY <1>2, <2>2, <2>3
<1> QED
  BY <1>1, <1>5, <1>6 DEF n, m, h

\* The first lines of a list.
LEMMA ShorterList ==
    ASSUME NEW D, NEW f \in Seq(D), NEW n \in 0..Len(f)
    PROVE  /\ SubSeq(f, 1, n) \in Seq(D) /\ Len(SubSeq(f, 1, n)) = n
           /\ A!Range(SubSeq(f, 1, n)) \subseteq A!Range(f)
           /\ A!Range(f) \subseteq A!Range(SubSeq(f, 1, n))
                                   \union A!Range(SubSeq(f, n + 1, Len(f)))
           /\ A!Range(SubSeq(f, n + 1, Len(f))) \subseteq A!Range(f)
           /\ n = Len(f) => A!Range(f) \subseteq A!Range(SubSeq(f, 1, n))
           /\ A!IsInjective(f) => A!IsInjective(SubSeq(f, 1, n))
<1> DEFINE m == Len(f)
           g == SubSeq(f, 1, n)
           h == SubSeq(f, n + 1, m)
<1>1. m \in Nat /\ DOMAIN f = 1..m /\ n \in 0..m /\ \A i \in 1..m : f[i] \in D
  OBVIOUS
<1>2. /\ g \in Seq(D) /\ Len(g) = n /\ \A i \in 1..n : g[i] = f[i]
  <2>1. 1 \in Int /\ n \in Int /\ \A i \in 1..n : f[i] \in D
    BY <1>1
  <2>2. /\ g \in Seq(D) /\ Len(g) = IF 1 <= n THEN n - 1 + 1 ELSE 0
        /\ \A i \in 1..n - 1 + 1 : g[i] = f[1 + i - 1]
    BY <2>1, SubSeqProperties
  <2>3. n - 1 + 1 = n /\ (~(1 <= n) => n = 0) /\ \A i \in 1..n : 1 + i - 1 = i
    BY <1>1
  <2> HIDE DEF g
  <2> QED
    BY <2>2, <2>3
<1>3. /\ h \in Seq(D) /\ Len(h) = m - n /\ \A i \in 1..m - n : h[i] = f[n + i]
  <2>1. n + 1 \in Int /\ m \in Int /\ \A i \in n + 1..m : f[i] \in D
    BY <1>1
  <2>2. /\ h \in Seq(D) /\ Len(h) = IF n + 1 <= m THEN m - (n + 1) + 1 ELSE 0
        /\ \A i \in 1..m - (n + 1) + 1 : h[i] = f[n + 1 + i - 1]
    BY <2>1, SubSeqProperties
  <2> HIDE DEF h, m
  <2>3. /\ m - (n + 1) + 1 = m - n /\ (~(n + 1 <= m) => m - n = 0)
        /\ \A i \in 1..m - n : n + 1 + i - 1 = n + i
    BY <1>1
  <2> QED
    BY <2>2, <2>3
<1> HIDE DEF m, g, h
<1>4. DOMAIN g = 1..n /\ DOMAIN h = 1..m - n
  BY <1>1, <1>2, <1>3
<1>5. \A i \in 1..n : i \in 1..m
  BY <1>1
<1>6. \A i \in 1..m - n : n + i \in 1..m
  BY <1>1
<1>7. \A i \in 1..m : i \in 1..n \/ (i - n \in 1..m - n /\ n + (i - n) = i)
  BY <1>1
<1>8. A!Range(f) \subseteq A!Range(g) \union A!Range(h)
  <2>1. ASSUME NEW i \in 1..m PROVE f[i] \in A!Range(g) \union A!Range(h)
    <3>1. CASE i \in 1..n
      BY <1>2, <1>4, <3>1 DEF A!Range
    <3>2. CASE i - n \in 1..m - n /\ n + (i - n) = i
      <4>1. h[i - n] = f[i]
        BY <1>3, <3>2
      <4> QED
        BY <1>4, <3>2, <4>1 DEF A!Range
    <3> QED
      BY <1>7, <3>1, <3>2
  <2>2. \A x \in A!Range(f) : \E i \in 1..m : x = f[i]
    BY <1>1 DEF A!Range
  <2> QED
    BY <2>1, <2>2
<1>9. A!Range(g) \subseteq A!Range(f) /\ A!Range(h) \subseteq A!Range(f)
  <2>1. ASSUME NEW i \in 1..n PROVE g[i] \in A!Range(f)
    BY <1>1, <1>2, <1>5 DEF A!Range
  <2>2. ASSUME NEW i \in 1..m - n PROVE h[i] \in A!Range(f)
    <3>1. n + i \in 1..m /\ h[i] = f[n + i]
      BY <1>3, <1>6
    <3> QED
      BY <1>1, <3>1 DEF A!Range
  <2>3. \A x \in A!Range(g) : \E i \in 1..n : x = g[i]
    BY <1>4 DEF A!Range
  <2>4. \A x \in A!Range(h) : \E i \in 1..m - n : x = h[i]
    BY <1>4 DEF A!Range
  <2> QED
    BY <2>1, <2>2, <2>3, <2>4
<1>10. n = m => A!Range(f) \subseteq A!Range(g)
  BY <1>1, <1>2, <1>4 DEF A!Range
<1>11. A!IsInjective(f) => A!IsInjective(g)
  BY <1>1, <1>2, <1>4, <1>5 DEF A!IsInjective
<1> QED
  BY <1>2, <1>8, <1>9, <1>10, <1>11 DEF m, g, h

\* A list without its head.
LEMMA TakenList ==
    ASSUME NEW D, NEW f \in Seq(D), f # <<>>
    PROVE  /\ Head(f) = f[1] /\ Head(f) \in D /\ Tail(f) \in Seq(D)
           /\ Len(f) \in Nat \ {0} /\ Len(Tail(f)) = Len(f) - 1
           /\ \A i \in 1..Len(f) - 1 : Tail(f)[i] = f[i + 1]
           /\ A!Range(f) = {Head(f)} \union A!Range(Tail(f))
<1> DEFINE n == Len(f)
           g == Tail(f)
<1>1. /\ n \in Nat \ {0} /\ DOMAIN f = 1..n /\ Head(f) = f[1] /\ Head(f) \in D
      /\ g \in Seq(D) /\ Len(g) = n - 1 /\ \A i \in 1..n - 1 : g[i] = f[i + 1]
  <2>1. Len(g) = n - 1 /\ \A i \in 1..n - 1 : g[i] = f[i + 1]
    BY HeadTailProperties
  <2> QED
    BY <2>1, HeadTailProperties
<1>2. DOMAIN g = 1..n - 1
  BY <1>1
<1> HIDE DEF n, g
<1>3. \A i \in 1..n : i = 1 \/ (i - 1 \in 1..n - 1 /\ (i - 1) + 1 = i)
  BY <1>1
<1>4. 1 \in 1..n /\ \A i \in 1..n - 1 : i + 1 \in 1..n
  BY <1>1
<1>5. A!Range(f) = {Head(f)} \union A!Range(g)
  <2>1. \A x : x \in A!Range(f) => x \in {Head(f)} \union A!Range(g)
    <3> SUFFICES ASSUME NEW i \in 1..n, f[i] # f[1] PROVE f[i] \in A!Range(g)
      BY <1>1 DEF A!Range
    <3>1. i - 1 \in 1..n - 1 /\ g[i - 1] = f[i]
      BY <1>1, <1>3
    <3> QED
      BY <1>2, <3>1 DEF A!Range
  <2>2. \A x : x \in {Head(f)} \union A!Range(g) => x \in A!Range(f)
    BY <1>1, <1>2, <1>4 DEF A!Range
  <2> QED
    BY <2>1, <2>2
<1> QED
  BY <1>1, <1>5 DEF n, g

\* The places of the sinks.
LEMMA Nums ==
    /\ "log" \in Three /\ "file" \in Three /\ "index" \in Three
    /\ Num("log") = 1 /\ Num("file") = 2 /\ Num("index") = 3
    /\ \A s \in Three : /\ Num(s) \in 1..3 /\ (Num(s) = 3 => s = "index")
                        /\ (s \in {"log", "file"} => Num(s) < 3)
                        /\ \A r \in Three : Num(r) = Num(s) => r = s
  BY DEF Three, Num

\* Where events are, as sets.
LEMMA PlacesAreSets ==
    ASSUME AuditShape
    PROVE  /\ Written \in [Three -> SUBSET A!Event] /\ Buffered \subseteq A!Event
           /\ Queued \subseteq A!Event \union {A!Stop} /\ A!Logged \subseteq A!Event
           /\ \A s \in Three : Written[s] = A!Range(lines[s])
           /\ \A w \in A!Worker : worker[w] \in Task /\ worker[w].sink \in 1..3
<1>1. \A s \in Three : lines[s] \in Seq(A!Event)
  BY DEF AuditShape
<1>2. ASSUME NEW D, NEW f \in Seq(D) PROVE A!Range(f) \subseteq D
  <2>1. \A i \in DOMAIN f : f[i] \in D
    OBVIOUS
  <2> QED
    BY <2>1 DEF A!Range
<1>3. Written \in [Three -> SUBSET A!Event]
  BY <1>1, <1>2 DEF Written
<1>4. Buffered \subseteq A!Event /\ Queued \subseteq A!Event \union {A!Stop}
  BY <1>2 DEF AuditShape, Buffered, Queued
<1>5. A!Logged \subseteq A!Event
  BY DEF A!Logged
<1>6. \A w \in A!Worker : worker[w] \in Task /\ worker[w].sink \in 1..3
  BY DEF AuditShape, Task
<1> QED
  BY <1>3, <1>4, <1>5, <1>6 DEF Written

\* A worker goes on to the next sink, or is free.
LEMMA WorkerMoves ==
    ASSUME AuditShape, NEW w \in A!Worker, A!NextSink(w)
    PROVE  /\ worker' \in [A!Worker -> Task]
           /\ \A v \in A!Worker : v # w => worker'[v] = worker[v]
           /\ worker[w].sink < 3 => /\ worker'[w].event = worker[w].event
                                    /\ worker'[w].sink = worker[w].sink + 1
           /\ worker[w].sink = 3 => worker'[w].event = A!NoEvent
<1>1. worker \in [A!Worker -> Task] /\ worker[w] \in Task /\ worker[w].sink \in 1..3
  BY PlacesAreSets DEF AuditShape
<1>2. CASE worker[w].sink < 3
  <2> DEFINE q == [worker[w] EXCEPT !.sink = worker[w].sink + 1]
  <2>1. worker' = [worker EXCEPT ![w] = q]
    BY <1>1, <1>2, Sinks DEF A!NextSink
  <2>2. q \in Task /\ q.event = worker[w].event /\ q.sink = worker[w].sink + 1
    <3>1. worker[w].sink + 1 \in 1..3
      BY <1>1, <1>2
    <3> QED
      BY <1>1, <3>1 DEF Task
  <2> HIDE DEF q
  <2> QED
    BY <1>1, <1>2, <2>1, <2>2
<1>3. CASE ~(worker[w].sink < 3)
  <2>1. worker' = [worker EXCEPT ![w] = A!Free]
    BY <1>3, Sinks DEF A!NextSink
  <2>2. A!Free \in Task /\ A!Free.event = A!NoEvent
    BY DEF A!Free, Task
  <2> QED
    BY <1>1, <1>3, <2>1, <2>2
<1> QED
  BY <1>2, <1>3

\* Nothing is logged.
LEMMA AuditInit == A!LoggerInit => AuditInv
<1> SUFFICES ASSUME A!LoggerInit PROVE AuditInv
  OBVIOUS
<1>1. /\ pc = "new" /\ queue = <<>> /\ worker = [w \in A!Worker |-> A!Gone]
      /\ sequence = 0 /\ number = [e \in A!Event |-> 0]
      /\ buffer = <<>> /\ lines = [s \in Three |-> <<>>]
      /\ flushed = 0 /\ lost = {} /\ late = {}
  BY Sinks DEF A!LoggerInit
<1>2. A!Logged = {} /\ 0 \in Nat /\ 1..0 = {}
  BY <1>1 DEF A!Logged
<1>3. A!Gone \in Task /\ A!Gone.event = A!Stop
  BY DEF A!Gone, Task
<1>4. \A w \in A!Worker : worker[w].event = A!Stop
  BY <1>1, <1>3
<1>5. Queued = {} /\ Buffered = {} /\ \A s \in Three : Written[s] = {}
  BY <1>1 DEF Queued, Buffered, Written, A!Range
<1>6. AuditShape
  <2>1. /\ <<>> \in Seq(A!Event) /\ <<>> \in Seq(A!Event \union {A!Stop}) /\ Len(<<>>) = 0
    OBVIOUS
  <2>2. worker \in [A!Worker -> Task] /\ lines \in [Three -> Seq(A!Event)]
        /\ number \in [A!Event -> Nat] /\ lines["file"] = <<>>
    BY <1>1, <1>3, <2>1, Nums
  <2> QED
    BY <1>1, <1>2, <2>1, <2>2, AuditBounds DEF AuditShape
<1>7. ListsAreSets
  BY <1>1 DEF ListsAreSets, A!IsInjective
<1>8. PlacesAreDistinct
  BY <1>4, <1>5, Sinks DEF PlacesAreDistinct
<1>9. SentinelsEnd
  BY <1>1, <1>4, <1>5 DEF SentinelsEnd
<1>10. NothingIsForgotten
  BY <1>2 DEF NothingIsForgotten
<1> QED
  BY <1>6, <1>7, <1>8, <1>9, <1>10 DEF AuditInv

\* The workers start.
LEMMA StartKeeps == ASSUME AuditInv, A!Start PROVE AuditInv'
<1>1. /\ pc = "new" /\ pc' = "running" /\ worker' = [w \in A!Worker |-> A!Free]
      /\ UNCHANGED <<queue, sequence, number, buffer, lines, flushed, lost, late, faults>>
  BY DEF A!Start
<1>2. AuditShape /\ ListsAreSets /\ PlacesAreDistinct /\ SentinelsEnd /\ NothingIsForgotten
  BY DEF AuditInv
<1>3. /\ A!Logged' = A!Logged /\ Queued' = Queued /\ Buffered' = Buffered /\ Written' = Written
  BY <1>1 DEF A!Logged, Queued, Buffered, Written
<1>4. A!Free \in Task /\ A!Free.event = A!NoEvent
  BY DEF A!Free, Task
<1>5. /\ worker' \in [A!Worker -> Task] /\ \A w \in A!Worker : worker'[w].event = A!NoEvent
  BY <1>1, <1>4
<1>6. AuditShape'
  BY <1>1, <1>2, <1>3, <1>5 DEF AuditShape
<1>7. ListsAreSets'
  BY <1>1, <1>2 DEF ListsAreSets
<1>8. PlacesAreDistinct'
  BY <1>2, <1>3, <1>5, Sinks, PlacesAreSets DEF PlacesAreDistinct
<1>9. SentinelsEnd'
  BY <1>1, <1>2, <1>3, <1>5, Sinks DEF SentinelsEnd
<1>10. NothingIsForgotten'
  BY <1>1, <1>2, <1>3, <1>5, Sinks, PlacesAreSets DEF NothingIsForgotten, SentinelsEnd
<1> QED
  BY <1>6, <1>7, <1>8, <1>9, <1>10 DEF AuditInv

\* An event that is logged was not logged before.
LEMMA LoggedIsNew ==
    ASSUME AuditShape, NEW e \in A!Event, A!LogEvent(e)
    PROVE  /\ e \notin A!Logged /\ A!Logged' = A!Logged \union {e}
           /\ \E n \in Nat : A!Logged' = 1..n
           /\ sequence' \in Nat /\ number' \in [A!Event -> Nat]
<1>1. PICK n \in Nat : A!Logged = 1..n
  BY DEF AuditShape
<1>2. Cardinality(A!Logged) = e - 1 /\ e \in Nat /\ e >= 1
  BY SameCount DEF A!LogEvent, A!Event
<1>3. Cardinality(1..n) = n
  <2>1. 1 \in Int /\ n \in Int /\ n - 1 + 1 = n /\ (1 > n => n = 0)
    OBVIOUS
  <2> QED
    BY <2>1, FS_Interval
<1>4. e = n + 1
  BY <1>1, <1>2, <1>3
<1>5. e \notin A!Logged
  BY <1>1, <1>4
<1>6. /\ sequence \in Nat /\ number \in [A!Event -> Nat]
      /\ sequence' = sequence + 1 /\ number' = [number EXCEPT ![e] = sequence + 1]
  BY DEF AuditShape, A!LogEvent
<1>7. number' \in [A!Event -> Nat] /\ number'[e] # 0
      /\ \A x \in A!Event : x # e => number'[x] = number[x]
  BY <1>6
<1>8. A!Logged' = A!Logged \union {e}
  BY <1>7 DEF A!Logged
<1>9. A!Logged' = 1..n + 1
  <2>1. (1..n) \union {n + 1} = 1..n + 1
    OBVIOUS
  <2> QED
    BY <1>1, <1>4, <1>8, <2>1
<1> QED
  BY <1>5, <1>6, <1>7, <1>8, <1>9

\* log_event puts the event at the end of the queue, or drops it.
LEMMA LogEventKeeps == ASSUME AuditInv, NEW e \in A!Event, A!LogEvent(e) PROVE AuditInv'
<1>1. /\ \/ Len(queue) < QueueSize /\ queue' = Append(queue, e) /\ lost' = lost
         \/ queue' = queue /\ lost' = lost \union {e}
      /\ late' = IF pc \in {"new", "running"} THEN late ELSE late \union {e}
      /\ UNCHANGED <<pc, worker, buffer, lines, flushed, starts, faults>>
  BY DEF A!LogEvent
<1>2. AuditShape /\ ListsAreSets /\ PlacesAreDistinct /\ SentinelsEnd /\ NothingIsForgotten
  BY DEF AuditInv
<1>3. /\ Buffered' = Buffered /\ Written' = Written
      /\ e \notin A!Logged /\ A!Logged' = A!Logged \union {e}
      /\ \E n \in Nat : A!Logged' = 1..n
      /\ sequence' \in Nat /\ number' \in [A!Event -> Nat]
  BY <1>1, <1>2, LoggedIsNew DEF Buffered, Written
<1>4. queue \in Seq(A!Event \union {A!Stop}) /\ Len(queue) \in Nat /\ Len(queue) <= QueueSize
  BY <1>2 DEF AuditShape
<1>5. e \notin Queued /\ e # A!Stop /\ e \notin Buffered
      /\ \A s \in Three : e \notin Written[s]
      /\ \A w \in A!Worker : worker[w].event # e
  BY <1>2, <1>3, Sinks, PlacesAreSets DEF PlacesAreDistinct
<1>6. \/ /\ lost' = lost /\ Len(queue') = Len(queue) + 1 /\ Len(queue) < QueueSize
         /\ queue' \in Seq(A!Event \union {A!Stop}) /\ queue'[Len(queue) + 1] = e
         /\ \A i \in 1..Len(queue) : queue'[i] = queue[i]
         /\ Queued' = Queued \union {e}
      \/ queue' = queue /\ Queued' = Queued /\ lost' = lost \union {e}
  <2>1. CASE Len(queue) < QueueSize /\ queue' = Append(queue, e) /\ lost' = lost
    <3>1. /\ Len(queue') = Len(queue) + 1
          /\ queue' \in Seq(A!Event \union {A!Stop}) /\ queue'[Len(queue) + 1] = e
          /\ \A i \in 1..Len(queue) : queue'[i] = queue[i]
          /\ A!Range(queue') = A!Range(queue) \union {e}
      BY <1>4, <2>1, AppendedList
    <3> QED
      BY <2>1, <3>1 DEF Queued
  <2>2. CASE queue' = queue /\ lost' = lost \union {e}
    BY <2>2 DEF Queued
  <2> QED
    BY <1>1, <2>1, <2>2
<1>7. AuditShape'
  <2>1. queue' \in Seq(A!Event \union {A!Stop}) /\ Len(queue') <= QueueSize
    BY <1>4, <1>6, AuditBounds
  <2>2. late' \subseteq A!Event /\ lost' \subseteq A!Event \union {A!Stop, A!NoEvent}
    BY <1>1, <1>2 DEF AuditShape
  <2> QED
    BY <1>1, <1>2, <1>3, <2>1, <2>2 DEF AuditShape
<1>8. ListsAreSets'
  <2>1. ASSUME NEW i \in 1..Len(queue'), NEW j \in 1..Len(queue'),
               queue'[i] = queue'[j], queue'[i] # A!Stop
        PROVE  i = j
    <3>1. \A k \in 1..Len(queue) : queue[k] \in Queued
      BY <1>4 DEF Queued, A!Range
    <3>2. CASE queue' = queue
      BY <1>2, <2>1, <3>2 DEF ListsAreSets
    <3>3. CASE /\ Len(queue') = Len(queue) + 1 /\ queue'[Len(queue) + 1] = e
               /\ \A k \in 1..Len(queue) : queue'[k] = queue[k]
      <4>1. \A k \in 1..Len(queue') : k \in 1..Len(queue) \/ k = Len(queue) + 1
        BY <1>4, <3>3
      <4>2. CASE i \in 1..Len(queue) /\ j \in 1..Len(queue)
        BY <1>2, <2>1, <3>3, <4>2 DEF ListsAreSets
      <4> QED
        BY <1>5, <2>1, <3>1, <3>3, <4>1, <4>2
    <3> QED
      BY <1>6, <3>2, <3>3
  <2> QED
    BY <1>1, <1>2, <2>1 DEF ListsAreSets
<1>9. PlacesAreDistinct'
  BY <1>1, <1>2, <1>3, <1>5, <1>6 DEF PlacesAreDistinct
<1>10. SentinelsEnd'
  <2>1. ASSUME NEW i \in 1..Len(queue'), NEW j \in 1..Len(queue'), i < j, queue'[i] = A!Stop
        PROVE  queue'[j] \in late' \union {A!Stop}
    <3>1. \A k \in 1..Len(queue) : queue[k] \in Queued
      BY <1>4 DEF Queued, A!Range
    <3>2. CASE queue' = queue
      BY <1>1, <1>2, <2>1, <3>2 DEF SentinelsEnd
    <3>3. CASE /\ Len(queue') = Len(queue) + 1 /\ queue'[Len(queue) + 1] = e
               /\ \A k \in 1..Len(queue) : queue'[k] = queue[k]
      <4>1. i \in 1..Len(queue) /\ (j \in 1..Len(queue) \/ j = Len(queue) + 1)
        BY <1>4, <2>1, <3>3
      <4>2. CASE j \in 1..Len(queue)
        BY <1>1, <1>2, <2>1, <3>3, <4>1, <4>2 DEF SentinelsEnd
      <4>3. CASE j = Len(queue) + 1
        <5>1. A!Stop \in Queued
          BY <2>1, <3>1, <3>3, <4>1
        <5>2. e \in late'
          BY <1>1, <1>2, <5>1 DEF SentinelsEnd
        <5> QED
          BY <3>3, <4>3, <5>2
      <4> QED
        BY <4>1, <4>2, <4>3
    <3> QED
      BY <1>6, <3>2, <3>3
  <2>2. pc \in {"new", "running"} => A!Stop \notin Queued'
    BY <1>2, <1>5, <1>6 DEF SentinelsEnd
  <2>3. pc \in {"stopping", "stopped"} /\ (\E w \in A!Worker : worker[w].event = A!Stop) =>
          Queued' \subseteq late' \union {A!Stop}
    BY <1>1, <1>2, <1>6 DEF SentinelsEnd
  <2> QED
    BY <1>1, <1>2, <2>1, <2>2, <2>3 DEF SentinelsEnd
<1>11. NothingIsForgotten'
  BY <1>1, <1>2, <1>3, <1>6 DEF NothingIsForgotten
<1> QED
  BY <1>7, <1>8, <1>9, <1>10, <1>11 DEF AuditInv

\* stop puts a sentinel at the end of the queue.
LEMMA PutStopKeeps == ASSUME AuditInv, A!PutStop PROVE AuditInv'
<1>1. /\ pc \in {"running", "stopping"} /\ pc' = "stopping" /\ Len(queue) < QueueSize
      /\ queue' = Append(queue, A!Stop)
      /\ UNCHANGED <<worker, sequence, number, buffer, lines, flushed, lost, late, starts, faults>>
  BY DEF A!PutStop
<1>2. AuditShape /\ ListsAreSets /\ PlacesAreDistinct /\ SentinelsEnd /\ NothingIsForgotten
  BY DEF AuditInv
<1>3. A!Logged' = A!Logged /\ Buffered' = Buffered /\ Written' = Written
  BY <1>1 DEF A!Logged, Buffered, Written
<1>4. queue \in Seq(A!Event \union {A!Stop}) /\ Len(queue) \in Nat
  BY <1>2 DEF AuditShape
<1>5. /\ Len(queue') = Len(queue) + 1
      /\ queue' \in Seq(A!Event \union {A!Stop}) /\ queue'[Len(queue) + 1] = A!Stop
      /\ \A i \in 1..Len(queue) : queue'[i] = queue[i]
      /\ Queued' = Queued \union {A!Stop}
  <2>1. /\ Len(queue') = Len(queue) + 1
        /\ queue' \in Seq(A!Event \union {A!Stop}) /\ queue'[Len(queue) + 1] = A!Stop
        /\ \A i \in 1..Len(queue) : queue'[i] = queue[i]
        /\ A!Range(queue') = A!Range(queue) \union {A!Stop}
    BY <1>1, <1>4, AppendedList
  <2> QED
    BY <2>1 DEF Queued
<1>6. \A k \in 1..Len(queue') : k \in 1..Len(queue) \/ k = Len(queue) + 1
  BY <1>4, <1>5
<1>7. AuditShape'
  <2>1. Len(queue') <= QueueSize
    BY <1>1, <1>4, <1>5, AuditBounds
  <2> QED
    BY <1>1, <1>2, <1>3, <1>5, <2>1 DEF AuditShape
<1>8. ListsAreSets'
  <2>1. ASSUME NEW i \in 1..Len(queue'), NEW j \in 1..Len(queue'),
               queue'[i] = queue'[j], queue'[i] # A!Stop
        PROVE  i = j
    <3>1. i \in 1..Len(queue) /\ j \in 1..Len(queue)
      BY <1>5, <1>6, <2>1
    <3> QED
      BY <1>2, <1>5, <2>1, <3>1 DEF ListsAreSets
  <2> QED
    BY <1>1, <1>2, <2>1 DEF ListsAreSets
<1>9. PlacesAreDistinct'
  BY <1>1, <1>2, <1>3, <1>5 DEF PlacesAreDistinct
<1>10. SentinelsEnd'
  <2>1. ASSUME NEW i \in 1..Len(queue'), NEW j \in 1..Len(queue'), i < j, queue'[i] = A!Stop
        PROVE  queue'[j] \in late' \union {A!Stop}
    <3>1. CASE j \in 1..Len(queue)
      <4>1. i \in 1..Len(queue)
        BY <1>4, <2>1, <3>1
      <4> QED
        BY <1>1, <1>2, <1>5, <2>1, <3>1, <4>1 DEF SentinelsEnd
    <3> QED
      BY <1>5, <1>6, <3>1
  <2>2. (\E w \in A!Worker : worker[w].event = A!Stop) => Queued' \subseteq late' \union {A!Stop}
    BY <1>1, <1>2, <1>5 DEF SentinelsEnd
  <2> QED
    BY <1>1, <1>2, <2>1, <2>2 DEF SentinelsEnd
<1>11. NothingIsForgotten'
  BY <1>1, <1>2, <1>3, <1>5 DEF NothingIsForgotten
<1> QED
  BY <1>7, <1>8, <1>9, <1>10, <1>11 DEF AuditInv

\* A worker takes the head of the queue.
LEMMA TakeKeeps == ASSUME AuditInv, NEW w \in A!Worker, A!Take(w) PROVE AuditInv'
<1> DEFINE h == Head(queue)
<1>1. /\ worker[w] = A!Free /\ queue # <<>> /\ worker' = [worker EXCEPT ![w].event = h]
      /\ queue' = Tail(queue)
      /\ UNCHANGED <<pc, sequence, number, buffer, lines, flushed, lost, late, starts, faults>>
  BY DEF A!Take
<1>2. AuditShape /\ ListsAreSets /\ PlacesAreDistinct /\ SentinelsEnd /\ NothingIsForgotten
  BY DEF AuditInv
<1>3. A!Logged' = A!Logged /\ Buffered' = Buffered /\ Written' = Written
  BY <1>1 DEF A!Logged, Buffered, Written
<1>4. queue \in Seq(A!Event \union {A!Stop}) /\ Len(queue) \in Nat /\ Len(queue) <= QueueSize
  BY <1>2 DEF AuditShape
<1>5. /\ h = queue[1] /\ h \in A!Event \union {A!Stop}
      /\ queue' \in Seq(A!Event \union {A!Stop})
      /\ Len(queue) \in Nat \ {0} /\ Len(queue') = Len(queue) - 1
      /\ \A i \in 1..Len(queue) - 1 : queue'[i] = queue[i + 1]
      /\ Queued = {h} \union Queued'
  <2>1. /\ h = queue[1] /\ h \in A!Event \union {A!Stop}
        /\ queue' \in Seq(A!Event \union {A!Stop})
        /\ Len(queue) \in Nat \ {0} /\ Len(queue') = Len(queue) - 1
        /\ \A i \in 1..Len(queue) - 1 : queue'[i] = queue[i + 1]
        /\ A!Range(queue) = {h} \union A!Range(queue')
    BY <1>1, <1>4, TakenList
  <2> QED
    BY <2>1 DEF Queued
<1>6. /\ worker' \in [A!Worker -> Task] /\ worker'[w].event = h /\ worker'[w].sink = 1
      /\ \A v \in A!Worker : v # w => worker'[v] = worker[v]
      /\ worker[w].event = A!NoEvent
  <2> DEFINE q == [event |-> h, sink |-> 1]
  <2>1. worker \in [A!Worker -> Task] /\ [A!Free EXCEPT !.event = h] = q
    BY <1>2 DEF AuditShape, A!Free
  <2>2. worker' = [worker EXCEPT ![w] = q]
    BY <1>1, <2>1
  <2>3. worker[w].event = A!NoEvent
    BY <1>1 DEF A!Free
  <2>4. q \in Task /\ q.event = h /\ q.sink = 1
    BY <1>5 DEF Task
  <2> HIDE DEF q, h
  <2> QED
    BY <2>1, <2>2, <2>3, <2>4
<1> HIDE DEF h
<1>7. \A i \in 1..Len(queue') : i + 1 \in 1..Len(queue) /\ i + 1 # 1 /\ queue'[i] = queue[i + 1]
  BY <1>5
<1>8. 1 \in 1..Len(queue)
  BY <1>5
<1>9. \A x \in Queued' : \E i \in 1..Len(queue') : x = queue'[i]
  <2>1. DOMAIN queue' = 1..Len(queue')
    BY <1>5
  <2> QED
    BY <2>1 DEF Queued, A!Range
<1>10. h # A!Stop => h \notin Queued'
  <2> SUFFICES ASSUME h # A!Stop, NEW i \in 1..Len(queue'), h = queue'[i] PROVE FALSE
    BY <1>9
  <2>1. queue[i + 1] = queue[1] /\ queue[i + 1] # A!Stop
    BY <1>5, <1>7
  <2>2. i + 1 = 1
    BY <1>2, <1>7, <1>8, <2>1 DEF ListsAreSets
  <2> QED
    BY <1>7, <2>2
<1>11. pc \in {"running", "stopping"} /\ (pc = "running" => h # A!Stop)
  <2>1. pc \notin {"new", "stopped"}
    BY <1>2, <1>6, Sinks DEF SentinelsEnd
  <2>2. h \in Queued
    BY <1>5
  <2> QED
    BY <1>2, <2>1, <2>2 DEF SentinelsEnd, AuditShape
<1>12. AuditShape'
  <2>1. Len(queue') <= QueueSize
    BY <1>4, <1>5, AuditBounds
  <2> QED
    BY <1>1, <1>2, <1>3, <1>5, <1>6, <2>1 DEF AuditShape
<1>13. ListsAreSets'
  <2>1. ASSUME NEW i \in 1..Len(queue'), NEW j \in 1..Len(queue'),
               queue'[i] = queue'[j], queue'[i] # A!Stop
        PROVE  i = j
    <3>1. i + 1 = j + 1
      BY <1>2, <1>7, <2>1 DEF ListsAreSets
    <3> QED
      BY <1>5, <3>1
  <2> QED
    BY <1>1, <1>2, <2>1 DEF ListsAreSets
<1>14. PlacesAreDistinct'
  <2>1. ASSUME NEW e \in Queued', e # A!Stop
        PROVE  /\ e \notin Buffered /\ \A s \in Three : e \notin Written[s]
               /\ \A v \in A!Worker : worker'[v].event # e
    <3>1. e # h /\ e \in Queued
      BY <1>5, <1>10, <2>1
    <3> QED
      BY <1>2, <1>6, <2>1, <3>1 DEF PlacesAreDistinct
  <2>2. ASSUME NEW v \in A!Worker, worker'[v].event \in A!Event
        PROVE  /\ worker'[v].event \in A!Logged \ Buffered
               /\ \A s \in Three : worker'[v].sink <= Num(s) => worker'[v].event \notin Written[s]
               /\ \A u \in A!Worker : worker'[u].event = worker'[v].event => u = v
    <3>1. CASE v = w
      <4>1. worker'[v].event = h /\ h \in Queued /\ h # A!Stop
        BY <1>5, <1>6, <2>2, <3>1, Sinks
      <4>2. \A u \in A!Worker : worker[u].event # h
        BY <1>2, <4>1 DEF PlacesAreDistinct
      <4> QED
        BY <1>2, <1>6, <3>1, <4>1, <4>2 DEF PlacesAreDistinct
    <3>2. CASE v # w
      <4>1. worker'[v] = worker[v]
        BY <1>6, <3>2
      <4>2. h # worker[v].event
        <5>1. worker[v].event # A!Stop /\ h \in Queued
          BY <1>5, <2>2, <4>1, Sinks
        <5> QED
          BY <1>2, <5>1 DEF PlacesAreDistinct
      <4> QED
        BY <1>2, <1>6, <2>2, <4>1, <4>2 DEF PlacesAreDistinct
    <3> QED
      BY <3>1, <3>2
  <2>3. Queued' \subseteq A!Logged \union {A!Stop}
    BY <1>2, <1>5 DEF PlacesAreDistinct
  <2> QED
    BY <1>2, <1>3, <2>1, <2>2, <2>3 DEF PlacesAreDistinct
<1>15. SentinelsEnd'
  <2>1. ASSUME NEW i \in 1..Len(queue'), NEW j \in 1..Len(queue'), i < j, queue'[i] = A!Stop
        PROVE  queue'[j] \in late' \union {A!Stop}
    <3>1. i + 1 < j + 1
      BY <1>5, <2>1
    <3> QED
      BY <1>1, <1>2, <1>7, <2>1, <3>1 DEF SentinelsEnd
  <2>2. ASSUME NEW v \in A!Worker, worker'[v].event = A!Stop, pc = "stopping"
        PROVE  Queued' \subseteq late \union {A!Stop}
    <3>1. CASE h = A!Stop
      <4> SUFFICES ASSUME NEW i \in 1..Len(queue') PROVE queue'[i] \in late \union {A!Stop}
        BY <1>9
      <4>1. i + 1 \in 1..Len(queue) /\ 1 < i + 1 /\ queue'[i] = queue[i + 1]
        BY <1>5, <1>7
      <4> QED
        BY <1>2, <1>5, <1>8, <3>1, <4>1 DEF SentinelsEnd
    <3>2. CASE h # A!Stop
      <4>1. worker[v].event = A!Stop
        BY <1>6, <2>2, <3>2
      <4> QED
        BY <1>2, <1>5, <2>2, <4>1 DEF SentinelsEnd
    <3> QED
      BY <3>1, <3>2
  <2>3. pc = "running" => \A v \in A!Worker : worker'[v].event # A!Stop
    BY <1>2, <1>6, <1>11 DEF SentinelsEnd
  <2>4. pc = "running" => A!Stop \notin Queued'
    BY <1>2, <1>5 DEF SentinelsEnd
  <2> QED
    BY <1>1, <1>11, <2>1, <2>2, <2>3, <2>4 DEF SentinelsEnd
<1>16. NothingIsForgotten'
  <2> SUFFICES ASSUME NEW e \in A!Logged \ (lost \union late), NEW s \in Three
               PROVE  \/ e \in Written[s]
                      \/ s = "index" /\ e \in Buffered
                      \/ e \in Queued'
                      \/ \E v \in A!Worker : worker'[v].event = e /\ worker'[v].sink <= Num(s)
    BY <1>1, <1>3 DEF NothingIsForgotten
  <2>1. CASE e = h
    BY <1>6, <2>1, Nums
  <2>2. CASE e # h
    <3>1. ASSUME NEW v \in A!Worker, worker[v].event = e, worker[v].sink <= Num(s)
          PROVE  worker'[v].event = e /\ worker'[v].sink <= Num(s)
      <4>1. e \in A!Event
        BY <1>2, PlacesAreSets
      <4>2. v # w
        BY <1>6, <3>1, <4>1, Sinks
      <4> QED
        BY <1>6, <3>1, <4>2
    <3> QED
      BY <1>2, <1>5, <2>2, <3>1 DEF NothingIsForgotten
  <2> QED
    BY <2>1, <2>2
<1> QED
  BY <1>12, <1>13, <1>14, <1>15, <1>16 DEF AuditInv

\* A worker that holds an event for a sink.
LEMMA HeldIsNew ==
    ASSUME AuditInv, NEW w \in A!Worker, NEW s \in Three, A!Holds(w, s)
    PROVE  /\ worker[w].event \in A!Event /\ worker[w].sink = Num(s)
           /\ worker[w].event \in A!Logged
           /\ worker[w].event \notin Queued /\ worker[w].event \notin Buffered
           /\ \A r \in Three : Num(s) <= Num(r) => worker[w].event \notin Written[r]
           /\ \A v \in A!Worker : v # w => worker[v].event # worker[w].event
           /\ pc \in {"running", "stopping"}
<1>1. worker[w].event \in A!Event /\ worker[w].sink \in 1..3 /\ A!Sink[worker[w].sink] = s
  BY PlacesAreSets DEF AuditInv, A!Holds
<1>2. worker[w].sink = Num(s) /\ worker[w].event # A!Stop
  BY <1>1, Sinks
<1>3. PlacesAreDistinct /\ SentinelsEnd /\ AuditShape
  BY DEF AuditInv
<1>4. worker[w].event \notin Queued
  BY <1>2, <1>3 DEF PlacesAreDistinct
<1>5. /\ worker[w].event \in A!Logged /\ worker[w].event \notin Buffered
      /\ \A v \in A!Worker : v # w => worker[v].event # worker[w].event
  BY <1>1, <1>3 DEF PlacesAreDistinct
<1>6. \A r \in Three : Num(s) <= Num(r) => worker[w].event \notin Written[r]
  BY <1>1, <1>2, <1>3 DEF PlacesAreDistinct
<1>7. pc \in {"running", "stopping"}
  BY <1>2, <1>3 DEF SentinelsEnd, AuditShape
<1> QED
  BY <1>1, <1>2, <1>4, <1>5, <1>6, <1>7

\* A worker writes its event to the console or the file.
LEMMA WriteKeeps ==
    ASSUME AuditInv, NEW w \in A!Worker, NEW s \in Three, A!Write(w, s)
    PROVE  AuditInv'
<1> DEFINE x == worker[w].event
<1>1. /\ s \in {"log", "file"} /\ A!Holds(w, s) /\ A!NextSink(w)
      /\ lines' = [lines EXCEPT ![s] = Append(lines[s], x)]
      /\ UNCHANGED <<pc, queue, sequence, number, buffer, flushed, lost, late, starts, faults>>
  BY DEF A!Write
<1>2. AuditShape /\ ListsAreSets /\ PlacesAreDistinct /\ SentinelsEnd /\ NothingIsForgotten
  BY DEF AuditInv
<1>3. A!Logged' = A!Logged /\ Buffered' = Buffered /\ Queued' = Queued
  BY <1>1 DEF A!Logged, Buffered, Queued
<1>4. /\ x \in A!Event /\ worker[w].sink = Num(s)
      /\ x \in A!Logged /\ x \notin Queued /\ x \notin Buffered
      /\ \A r \in Three : Num(s) <= Num(r) => x \notin Written[r]
      /\ \A v \in A!Worker : v # w => worker[v].event # x
      /\ pc \in {"running", "stopping"}
  BY <1>1, HeldIsNew
<1>5. /\ Num(s) \in 1..3 /\ Num(s) < 3 /\ x \notin Written[s] /\ s # "index"
      /\ \A r \in Three : Num(r) \in 1..3 /\ (Num(r) = Num(s) => r = s)
  BY <1>1, <1>4, Nums
<1>6. /\ worker' \in [A!Worker -> Task]
      /\ \A v \in A!Worker : v # w => worker'[v] = worker[v]
      /\ worker'[w].event = x /\ worker'[w].sink = Num(s) + 1
  BY <1>1, <1>2, <1>4, <1>5, WorkerMoves
<1> HIDE DEF x
<1>7. /\ lines' \in [Three -> Seq(A!Event)]
      /\ \A r \in Three : r # s => lines'[r] = lines[r] /\ Written'[r] = Written[r]
      /\ Written'[s] = Written[s] \union {x} /\ Len(lines'[s]) = Len(lines[s]) + 1
      /\ A!IsInjective(lines'[s])
  <2>1. lines \in [Three -> Seq(A!Event)] /\ lines[s] \in Seq(A!Event)
    BY <1>2 DEF AuditShape
  <2>2. /\ lines'[s] = Append(lines[s], x) /\ lines'[s] \in Seq(A!Event)
        /\ lines' \in [Three -> Seq(A!Event)]
        /\ \A r \in Three : r # s => lines'[r] = lines[r]
    BY <1>1, <1>4, <2>1, AppendedList
  <2>3. Len(lines'[s]) = Len(lines[s]) + 1 /\ A!Range(lines'[s]) = A!Range(lines[s]) \union {x}
    BY <1>4, <2>1, <2>2, AppendedList
  <2>4. A!IsInjective(lines[s]) /\ x \notin A!Range(lines[s])
    BY <1>2, <1>5 DEF ListsAreSets, Written
  <2>5. A!IsInjective(lines'[s])
    BY <1>4, <2>1, <2>2, <2>4, AppendedList
  <2> QED
    BY <2>2, <2>3, <2>5 DEF Written
<1>8. AuditShape'
  <2>1. Len(lines'["file"]) >= Len(lines["file"]) /\ Len(lines["file"]) \in Nat
        /\ Len(lines'["file"]) \in Nat
    <3>1. lines["file"] \in Seq(A!Event) /\ lines'["file"] \in Seq(A!Event)
      BY <1>2, <1>7, Nums DEF AuditShape
    <3>2. Len(lines["file"]) \in Nat /\ Len(lines'["file"]) \in Nat
      BY <3>1
    <3>3. s = "file" \/ lines'["file"] = lines["file"]
      BY <1>7, Nums
    <3> QED
      BY <1>7, <3>2, <3>3
  <2>2. flushed' \in Nat /\ flushed' <= Len(lines'["file"])
    BY <1>1, <1>2, <2>1 DEF AuditShape
  <2> QED
    BY <1>1, <1>2, <1>3, <1>6, <1>7, <2>2 DEF AuditShape
<1>9. ListsAreSets'
  BY <1>1, <1>2, <1>7 DEF ListsAreSets
<1>10. PlacesAreDistinct'
  <2>1. ASSUME NEW e \in Queued, e # A!Stop
        PROVE  /\ e \notin Buffered /\ \A r \in Three : e \notin Written'[r]
               /\ \A v \in A!Worker : worker'[v].event # e
    <3>1. /\ e \notin Buffered /\ \A r \in Three : e \notin Written[r]
          /\ \A v \in A!Worker : worker[v].event # e
      BY <1>2, <2>1 DEF PlacesAreDistinct
    <3>2. e # x
      BY <1>4, <2>1
    <3>3. \A r \in Three : e \notin Written'[r]
      BY <1>7, <3>1, <3>2
    <3>4. \A v \in A!Worker : worker'[v].event # e
      BY <1>6, <3>1, <3>2
    <3> QED
      BY <3>1, <3>3, <3>4
  <2>2. ASSUME NEW v \in A!Worker, worker'[v].event \in A!Event
        PROVE  /\ worker'[v].event \in A!Logged \ Buffered
               /\ \A r \in Three : worker'[v].sink <= Num(r) => worker'[v].event \notin Written'[r]
               /\ \A u \in A!Worker : worker'[u].event = worker'[v].event => u = v
    <3>1. CASE v = w
      <4>1. \A r \in Three : Num(s) + 1 <= Num(r) => r # s /\ Num(s) <= Num(r)
        BY <1>5
      <4>2. \A r \in Three : Num(s) + 1 <= Num(r) => x \notin Written'[r]
        BY <1>4, <1>7, <4>1
      <4> QED
        BY <1>4, <1>6, <3>1, <4>2
    <3>2. CASE v # w
      <4>1. worker'[v] = worker[v] /\ worker[v].event # x
        BY <1>4, <1>6, <3>2
      <4> QED
        BY <1>2, <1>6, <1>7, <2>2, <4>1 DEF PlacesAreDistinct
    <3> QED
      BY <3>1, <3>2
  <2>3. \A r \in Three : Written'[r] \subseteq A!Logged
    BY <1>2, <1>4, <1>7 DEF PlacesAreDistinct
  <2>4. Buffered \intersect Written'["index"] = {}
    BY <1>2, <1>5, <1>7, Nums DEF PlacesAreDistinct
  <2> QED
    BY <1>2, <1>3, <2>1, <2>2, <2>3, <2>4 DEF PlacesAreDistinct
<1>11. SentinelsEnd'
  <2>1. \A v \in A!Worker : worker'[v].event = worker[v].event
    BY <1>6 DEF x
  <2> QED
    BY <1>1, <1>2, <1>3, <1>4, <2>1 DEF SentinelsEnd
<1>12. NothingIsForgotten'
  <2> SUFFICES ASSUME NEW e \in A!Logged \ (lost \union late), NEW r \in Three
               PROVE  \/ e \in Written'[r]
                      \/ r = "index" /\ e \in Buffered
                      \/ e \in Queued
                      \/ \E v \in A!Worker : worker'[v].event = e /\ worker'[v].sink <= Num(r)
    BY <1>1, <1>3 DEF NothingIsForgotten
  <2>1. Written[r] \subseteq Written'[r]
    BY <1>7
  <2>2. ASSUME NEW v \in A!Worker, worker[v].event = e, worker[v].sink <= Num(r)
        PROVE  e \in Written'[r] \/ (worker'[v].event = e /\ worker'[v].sink <= Num(r))
    <3>1. CASE v # w
      BY <1>6, <2>2, <3>1
    <3>2. CASE v = w /\ r = s
      <4>1. x = e
        BY <2>2, <3>2 DEF x
      <4> QED
        BY <1>7, <3>2, <4>1
    <3>3. CASE v = w /\ r # s
      <4>1. Num(s) + 1 <= Num(r)
        BY <1>4, <1>5, <2>2, <3>3
      <4> QED
        BY <1>6, <2>2, <3>3, <4>1 DEF x
    <3> QED
      BY <3>1, <3>2, <3>3
  <2> QED
    BY <1>2, <2>1, <2>2 DEF NothingIsForgotten
<1> QED
  BY <1>8, <1>9, <1>10, <1>11, <1>12 DEF AuditInv

\* A sink raises, and the event is lost to it.
LEMMA WriteRaisesKeeps ==
    ASSUME AuditInv, NEW w \in A!Worker, NEW s \in Three, A!WriteRaises(w, s)
    PROVE  AuditInv'
<1> DEFINE x == worker[w].event
<1>1. /\ s \in {"log", "file"} /\ A!Holds(w, s) /\ A!NextSink(w)
      /\ lost' = lost \union {x}
      /\ UNCHANGED <<pc, queue, sequence, number, buffer, lines, flushed, late, starts>>
  BY DEF A!WriteRaises
<1>2. AuditShape /\ ListsAreSets /\ PlacesAreDistinct /\ SentinelsEnd /\ NothingIsForgotten
  BY DEF AuditInv
<1>3. /\ A!Logged' = A!Logged /\ Buffered' = Buffered /\ Queued' = Queued /\ Written' = Written
  BY <1>1 DEF A!Logged, Buffered, Queued, Written
<1>4. /\ x \in A!Event /\ worker[w].sink = Num(s)
      /\ x \in A!Logged /\ x \notin Queued /\ x \notin Buffered
      /\ \A r \in Three : Num(s) <= Num(r) => x \notin Written[r]
      /\ \A v \in A!Worker : v # w => worker[v].event # x
      /\ pc \in {"running", "stopping"}
  BY <1>1, HeldIsNew
<1>5. /\ Num(s) \in 1..3 /\ Num(s) < 3 /\ \A r \in Three : Num(r) \in 1..3
  BY <1>1, Nums
<1>6. /\ worker' \in [A!Worker -> Task]
      /\ \A v \in A!Worker : v # w => worker'[v] = worker[v]
      /\ worker'[w].event = x /\ worker'[w].sink = Num(s) + 1
  BY <1>1, <1>2, <1>4, <1>5, WorkerMoves
<1>7. \A v \in A!Worker : worker'[v].event = worker[v].event
  BY <1>6
<1> HIDE DEF x
<1>8. AuditShape'
  BY <1>1, <1>2, <1>3, <1>4, <1>6 DEF AuditShape
<1>9. ListsAreSets'
  BY <1>1, <1>2 DEF ListsAreSets
<1>10. PlacesAreDistinct'
  <2>1. \A v \in A!Worker, r \in Three :
            worker'[v].sink <= Num(r) =>
                (v = w /\ Num(s) <= Num(r)) \/ worker[v].sink <= Num(r)
    BY <1>5, <1>6
  <2> QED
    BY <1>2, <1>3, <1>4, <1>6, <1>7, <2>1 DEF PlacesAreDistinct
<1>11. SentinelsEnd'
  BY <1>1, <1>2, <1>3, <1>7 DEF SentinelsEnd
<1>12. NothingIsForgotten'
  <2>1. ASSUME NEW e \in A!Logged \ (lost' \union late), NEW v \in A!Worker, worker[v].event = e
        PROVE  worker'[v] = worker[v]
    BY <1>1, <1>6, <2>1 DEF x
  <2> QED
    BY <1>1, <1>2, <1>3, <2>1 DEF NothingIsForgotten
<1> QED
  BY <1>8, <1>9, <1>10, <1>11, <1>12 DEF AuditInv

\* The buffer of the index is emptied: its events are written, or lost.
LEMMA FlushMoves ==
    ASSUME AuditShape, NEW events \in Seq(A!Event), A!FlushBuffer(events)
    PROVE  /\ buffer' = <<>> /\ Buffered' = {}
           /\ \/ /\ lost' = lost
                 /\ lines' \in [Three -> Seq(A!Event)] /\ lines'["index"] = lines["index"] \o events
                 /\ \A r \in Three : r # "index" => lines'[r] = lines[r] /\ Written'[r] = Written[r]
                 /\ Written'["index"] = Written["index"] \union A!Range(events)
              \/ lines' = lines /\ Written' = Written /\ lost' = lost \union A!Range(events)
<1>1. lines \in [Three -> Seq(A!Event)] /\ lines["index"] \in Seq(A!Event)
  BY Nums DEF AuditShape
<1>2. buffer' = <<>> /\ Buffered' = {}
  BY DEF A!FlushBuffer, Buffered, A!Range
<1>3. CASE lost' = lost /\ lines' = [lines EXCEPT !["index"] = lines["index"] \o events]
  <2>1. /\ lines'["index"] = lines["index"] \o events /\ lines'["index"] \in Seq(A!Event)
        /\ lines' \in [Three -> Seq(A!Event)]
        /\ \A r \in Three : r # "index" => lines'[r] = lines[r]
    BY <1>1, <1>3, Nums, JoinedList
  <2>2. A!Range(lines'["index"]) = A!Range(lines["index"]) \union A!Range(events)
    BY <1>1, <2>1, JoinedList
  <2> QED
    BY <1>2, <1>3, <2>1, <2>2, Nums DEF Written
<1>4. CASE lines' = lines /\ lost' = lost \union A!Range(events)
  BY <1>2, <1>4 DEF Written
<1> QED
  BY <1>3, <1>4 DEF A!FlushBuffer

\* A worker puts its event into the buffer of the index, which is flushed when it is full.
LEMMA BufferKeeps == ASSUME AuditInv, NEW w \in A!Worker, A!Buffer(w) PROVE AuditInv'
<1> DEFINE x == worker[w].event
           events == Append(buffer, x)
<1>1. /\ A!Holds(w, "index") /\ A!NextSink(w)
      /\ \/ Len(events) >= BufferSize /\ A!FlushBuffer(events)
         \/ ~(Len(events) >= BufferSize) /\ buffer' = events /\ UNCHANGED <<lines, lost, faults>>
      /\ UNCHANGED <<pc, queue, sequence, number, flushed, late, starts>>
  BY DEF A!Buffer
<1>2. AuditShape /\ ListsAreSets /\ PlacesAreDistinct /\ SentinelsEnd /\ NothingIsForgotten
  BY DEF AuditInv
<1>3. A!Logged' = A!Logged /\ Queued' = Queued
  BY <1>1 DEF A!Logged, Queued
<1>4. /\ x \in A!Event /\ worker[w].sink = 3
      /\ x \in A!Logged /\ x \notin Queued /\ x \notin Buffered /\ x \notin Written["index"]
      /\ \A v \in A!Worker : v # w => worker[v].event # x
      /\ pc \in {"running", "stopping"}
  BY <1>1, HeldIsNew, Nums
<1>5. /\ worker' \in [A!Worker -> Task]
      /\ \A v \in A!Worker : v # w => worker'[v] = worker[v]
      /\ worker'[w].event = A!NoEvent
  BY <1>1, <1>2, <1>4, WorkerMoves
<1> HIDE DEF x
<1>6. /\ events \in Seq(A!Event) /\ Len(events) \in Nat /\ A!Range(events) = Buffered \union {x}
      /\ A!IsInjective(events)
  <2>1. buffer \in Seq(A!Event) /\ A!IsInjective(buffer) /\ x \notin A!Range(buffer)
    BY <1>2, <1>4 DEF AuditShape, ListsAreSets, Buffered
  <2>2. events \in Seq(A!Event)
    BY <1>4, <2>1, AppendedList
  <2>3. A!Range(events) = Buffered \union {x}
    BY <1>4, <2>1, AppendedList DEF Buffered
  <2>4. A!IsInjective(events)
    BY <1>4, <2>1, AppendedList
  <2> QED
    BY <2>2, <2>3, <2>4
<1> HIDE DEF events
\* What becomes of the event and of those in the buffer.
<1>7. /\ buffer' \in Seq(A!Event) /\ Len(buffer') < BufferSize /\ A!IsInjective(buffer')
      /\ lines' \in [Three -> Seq(A!Event)]
      /\ \A r \in Three : A!IsInjective(lines'[r])
      /\ \A r \in Three : r # "index" => lines'[r] = lines[r] /\ Written'[r] = Written[r]
      /\ \/ /\ Buffered' = Buffered \union {x} /\ Written'["index"] = Written["index"]
            /\ lost' = lost
         \/ /\ Buffered' = {} /\ Written'["index"] = Written["index"] \union Buffered \union {x}
            /\ lost' = lost
         \/ /\ Buffered' = {} /\ Written'["index"] = Written["index"]
            /\ lost' = lost \union Buffered \union {x}
  <2>1. /\ lines \in [Three -> Seq(A!Event)] /\ lines["index"] \in Seq(A!Event)
        /\ \A r \in Three : A!IsInjective(lines[r])
    BY <1>2, Nums DEF AuditShape, ListsAreSets
  <2>2. CASE A!FlushBuffer(events)
    <3>1. buffer' = <<>> /\ Buffered' = {}
      BY <1>2, <1>6, <2>2, FlushMoves
    <3>2. buffer' \in Seq(A!Event) /\ Len(buffer') < BufferSize /\ A!IsInjective(buffer')
      BY <3>1, AuditBounds DEF A!IsInjective
    <3>3. CASE /\ lost' = lost
               /\ lines' \in [Three -> Seq(A!Event)] /\ lines'["index"] = lines["index"] \o events
               /\ \A r \in Three : r # "index" => lines'[r] = lines[r] /\ Written'[r] = Written[r]
               /\ Written'["index"] = Written["index"] \union A!Range(events)
      <4>1. A!Range(lines["index"]) \intersect A!Range(events) = {}
        BY <1>2, <1>4, <1>6, Nums DEF PlacesAreDistinct, Written
      <4>2. A!IsInjective(lines'["index"])
        BY <1>6, <2>1, <3>3, <4>1, Nums, JoinedList
      <4>3. \A r \in Three : A!IsInjective(lines'[r])
        BY <2>1, <3>3, <4>2
      <4> QED
        BY <1>6, <3>1, <3>2, <3>3, <4>3
    <3>4. CASE lines' = lines /\ Written' = Written /\ lost' = lost \union A!Range(events)
      BY <1>6, <2>1, <3>1, <3>2, <3>4
    <3> QED
      BY <1>2, <1>6, <2>2, <3>3, <3>4, FlushMoves
  <2>3. CASE ~(Len(events) >= BufferSize) /\ buffer' = events /\ UNCHANGED <<lines, lost, faults>>
    <3>1. Len(buffer') < BufferSize
      BY <1>6, <2>3, AuditBounds
    <3>2. Written' = Written
      BY <2>3 DEF Written
    <3>3. Buffered' = Buffered \union {x}
      BY <1>6, <2>3 DEF Buffered
    <3> QED
      BY <1>6, <2>1, <2>3, <3>1, <3>2, <3>3
  <2> QED
    BY <1>1, <2>2, <2>3
<1>8. AuditShape'
  <2>1. lines'["file"] = lines["file"]
    BY <1>7, Nums
  <2>2. lost' \subseteq A!Event \union {A!Stop, A!NoEvent}
    BY <1>2, <1>4, <1>7, PlacesAreSets DEF AuditShape
  <2> QED
    BY <1>1, <1>2, <1>3, <1>5, <1>7, <2>1, <2>2 DEF AuditShape
<1>9. ListsAreSets'
  BY <1>1, <1>2, <1>7 DEF ListsAreSets
<1>10. PlacesAreDistinct'
  <2>1. Buffered' \subseteq Buffered \union {x} /\ Buffered' \intersect Written'["index"] = {}
    BY <1>2, <1>4, <1>7 DEF PlacesAreDistinct
  <2>2. \A r \in Three : Written'[r] \subseteq Written[r] \union Buffered \union {x}
    BY <1>7
  <2>3. ASSUME NEW e \in Queued, e # A!Stop
        PROVE  /\ e \notin Buffered' /\ \A r \in Three : e \notin Written'[r]
               /\ \A v \in A!Worker : worker'[v].event # e
    <3>1. /\ e \notin Buffered /\ \A r \in Three : e \notin Written[r]
          /\ \A v \in A!Worker : worker[v].event # e
      BY <1>2, <2>3 DEF PlacesAreDistinct
    <3>2. e # x /\ e \in A!Event
      BY <1>2, <1>4, <2>3, PlacesAreSets
    <3>3. \A v \in A!Worker : worker'[v].event # e
      BY <1>5, <3>1, <3>2, Sinks
    <3> QED
      BY <2>1, <2>2, <3>1, <3>2, <3>3
  <2>4. ASSUME NEW v \in A!Worker, worker'[v].event \in A!Event
        PROVE  /\ worker'[v].event \in A!Logged \ Buffered'
               /\ \A r \in Three : worker'[v].sink <= Num(r) => worker'[v].event \notin Written'[r]
               /\ \A u \in A!Worker : worker'[u].event = worker'[v].event => u = v
    <3>1. v # w
      BY <1>5, <2>4, Sinks
    <3>2. worker'[v] = worker[v] /\ worker[v].event # x
      BY <1>4, <1>5, <3>1
    <3>3. /\ worker[v].event \in A!Logged \ Buffered
          /\ \A r \in Three : worker[v].sink <= Num(r) => worker[v].event \notin Written[r]
          /\ \A u \in A!Worker : worker[u].event = worker[v].event => u = v
      BY <1>2, <2>4, <3>2 DEF PlacesAreDistinct
    <3>4. \A u \in A!Worker : worker'[u].event = worker'[v].event => u = v
      BY <1>5, <2>4, <3>2, <3>3, Sinks
    <3> QED
      BY <2>1, <2>2, <3>2, <3>3, <3>4
  <2>5. Buffered' \subseteq A!Logged /\ \A r \in Three : Written'[r] \subseteq A!Logged
    BY <1>2, <1>4, <2>1, <2>2 DEF PlacesAreDistinct
  <2> QED
    BY <1>2, <1>3, <2>1, <2>3, <2>4, <2>5 DEF PlacesAreDistinct
<1>11. SentinelsEnd'
  <2>1. ASSUME NEW v \in A!Worker, worker'[v].event = A!Stop PROVE worker[v].event = A!Stop
    BY <1>5, <2>1, Sinks
  <2> QED
    BY <1>1, <1>2, <1>3, <1>4, <2>1 DEF SentinelsEnd
<1>12. NothingIsForgotten'
  <2> SUFFICES ASSUME NEW e \in A!Logged \ (lost' \union late), NEW r \in Three
               PROVE  \/ e \in Written'[r]
                      \/ r = "index" /\ e \in Buffered'
                      \/ e \in Queued
                      \/ \E v \in A!Worker : worker'[v].event = e /\ worker'[v].sink <= Num(r)
    BY <1>1, <1>3 DEF NothingIsForgotten
  <2>1. e \in A!Logged \ (lost \union late)
    BY <1>7
  <2>2. CASE e \in Written[r]
    BY <1>7, <2>2
  <2>3. CASE r = "index" /\ e \in Buffered
    BY <1>7, <2>3
  <2>4. ASSUME NEW v \in A!Worker, worker[v].event = e, worker[v].sink <= Num(r), v # w
        PROVE  worker'[v].event = e /\ worker'[v].sink <= Num(r)
    BY <1>5, <2>4
  <2>5. CASE worker[w].event = e /\ worker[w].sink <= Num(r)
    <3>1. r = "index"
      <4>1. Num(r) = 3
        BY <1>4, <2>5, Nums
      <4> QED
        BY <4>1, Nums
    <3>2. x = e
      BY <2>5 DEF x
    <3> QED
      BY <1>7, <3>1, <3>2
  <2> QED
    BY <1>2, <2>1, <2>2, <2>3, <2>4, <2>5 DEF NothingIsForgotten
<1> QED
  BY <1>8, <1>9, <1>10, <1>11, <1>12 DEF AuditInv

\* stop ends by flushing the sinks.
LEMMA FlushKeeps == ASSUME AuditInv, A!Flush PROVE AuditInv'
<1>1. /\ pc = "stopping" /\ pc' = "stopped" /\ \A w \in A!Worker : worker[w] = A!Gone
      /\ A!FlushBuffer(buffer) /\ flushed' = Len(lines["file"])
      /\ UNCHANGED <<queue, worker, sequence, number, late, starts>>
  BY DEF A!Flush
<1>2. AuditShape /\ ListsAreSets /\ PlacesAreDistinct /\ SentinelsEnd /\ NothingIsForgotten
  BY DEF AuditInv
<1>3. A!Logged' = A!Logged /\ Queued' = Queued
  BY <1>1 DEF A!Logged, Queued
<1>4. \A w \in A!Worker : worker[w].event = A!Stop
  BY <1>1 DEF A!Gone
<1>5. 1 \in A!Worker
  BY DEF A!Worker
<1>6. /\ buffer \in Seq(A!Event) /\ A!IsInjective(buffer)
      /\ lines \in [Three -> Seq(A!Event)] /\ lines["index"] \in Seq(A!Event)
      /\ \A r \in Three : A!IsInjective(lines[r])
  BY <1>2, Nums DEF AuditShape, ListsAreSets
<1>7. /\ buffer' = <<>> /\ Buffered' = {}
      /\ lines' \in [Three -> Seq(A!Event)]
      /\ \A r \in Three : A!IsInjective(lines'[r])
      /\ \A r \in Three : r # "index" => lines'[r] = lines[r] /\ Written'[r] = Written[r]
      /\ \/ Written'["index"] = Written["index"] \union Buffered /\ lost' = lost
         \/ Written'["index"] = Written["index"] /\ lost' = lost \union Buffered
  <2>1. buffer' = <<>> /\ Buffered' = {}
    BY <1>1, <1>2, <1>6, FlushMoves
  <2>2. CASE /\ lost' = lost
             /\ lines' \in [Three -> Seq(A!Event)] /\ lines'["index"] = lines["index"] \o buffer
             /\ \A r \in Three : r # "index" => lines'[r] = lines[r] /\ Written'[r] = Written[r]
             /\ Written'["index"] = Written["index"] \union A!Range(buffer)
    <3>1. A!Range(lines["index"]) \intersect A!Range(buffer) = {}
      BY <1>2, Nums DEF PlacesAreDistinct, Written, Buffered
    <3>2. A!IsInjective(lines'["index"])
      BY <1>6, <2>2, <3>1, Nums, JoinedList
    <3>3. \A r \in Three : A!IsInjective(lines'[r])
      BY <1>6, <2>2, <3>2
    <3> QED
      BY <2>1, <2>2, <3>3 DEF Buffered
  <2>3. CASE lines' = lines /\ Written' = Written /\ lost' = lost \union A!Range(buffer)
    BY <1>6, <2>1, <2>3 DEF Buffered
  <2> QED
    BY <1>1, <1>2, <1>6, <2>2, <2>3, FlushMoves
<1>8. lines'["file"] = lines["file"]
  BY <1>7, Nums
<1>9. AuditShape'
  <2>1. lines["file"] \in Seq(A!Event)
    BY <1>6, Nums
  <2>2. Len(lines["file"]) \in Nat /\ flushed' \in Nat /\ flushed' <= Len(lines'["file"])
    BY <1>1, <1>8, <2>1
  <2>3. lost' \subseteq A!Event \union {A!Stop, A!NoEvent}
    BY <1>2, <1>7, PlacesAreSets DEF AuditShape
  <2>4. buffer' \in Seq(A!Event) /\ Len(buffer') < BufferSize
    BY <1>7, AuditBounds
  <2> QED
    BY <1>1, <1>2, <1>3, <1>7, <2>2, <2>3, <2>4 DEF AuditShape
<1>10. ListsAreSets'
  <2>1. A!IsInjective(buffer')
    BY <1>7 DEF A!IsInjective
  <2> QED
    BY <1>1, <1>2, <1>7, <2>1 DEF ListsAreSets
<1>11. PlacesAreDistinct'
  <2>1. \A r \in Three : Written'[r] \subseteq Written[r] \union Buffered
    BY <1>7
  <2> QED
    BY <1>1, <1>2, <1>3, <1>4, <1>7, <2>1, Sinks DEF PlacesAreDistinct
<1>12. SentinelsEnd'
  <2>1. Queued \subseteq late \union {A!Stop}
    BY <1>1, <1>2, <1>4, <1>5 DEF SentinelsEnd
  <2> QED
    BY <1>1, <1>2, <1>3, <1>4, <1>7, <1>8, <2>1 DEF SentinelsEnd
<1>13. NothingIsForgotten'
  BY <1>1, <1>2, <1>3, <1>7 DEF NothingIsForgotten
<1> QED
  BY <1>9, <1>10, <1>11, <1>12, <1>13 DEF AuditInv

\* The process ends: what had not left it is lost, and the file keeps what was flushed
\* and perhaps more.
LEMMA RestartKeeps == ASSUME AuditInv, A!Restart PROVE AuditInv'
<1>1. /\ pc \in {"stopped", "running", "stopping"} /\ pc' = "new" /\ sequence' = 0
      /\ queue' = <<>> /\ buffer' = <<>> /\ worker' = [w \in A!Worker |-> A!Gone]
      /\ UNCHANGED <<number, late, starts>>
  BY DEF A!Restart
<1>2. PICK n \in flushed..Len(lines["file"]) :
          /\ pc = "stopped" => n = flushed
          /\ lines' = [lines EXCEPT !["file"] = SubSeq(lines["file"], 1, n)]
          /\ flushed' = n
          /\ lost' = lost \union (IF pc = "stopped" THEN {} ELSE
               Buffered \union Queued \union {worker[w].event : w \in A!Worker}
               \union A!Range(SubSeq(lines["file"], n + 1, Len(lines["file"]))))
  BY DEF A!Restart, Buffered, Queued
<1>3. AuditShape /\ ListsAreSets /\ PlacesAreDistinct /\ SentinelsEnd /\ NothingIsForgotten
  BY DEF AuditInv
<1> DEFINE f == lines["file"]
           kept == SubSeq(f, 1, n)
           gone == A!Range(SubSeq(f, n + 1, Len(f)))
<1>4. /\ f \in Seq(A!Event) /\ Len(f) \in Nat /\ flushed \in Nat /\ n \in 0..Len(f)
      /\ lines \in [Three -> Seq(A!Event)]
  BY <1>2, <1>3, Nums DEF AuditShape
<1>5. /\ kept \in Seq(A!Event) /\ Len(kept) = n /\ A!Range(kept) \subseteq A!Range(f)
      /\ A!Range(f) \subseteq A!Range(kept) \union gone /\ gone \subseteq A!Range(f)
      /\ (n = Len(f) => A!Range(f) \subseteq A!Range(kept))
  BY <1>4, ShorterList
<1>6. A!IsInjective(kept)
  BY <1>3, <1>4, ShorterList, Nums DEF ListsAreSets
<1>7. /\ lines' \in [Three -> Seq(A!Event)] /\ lines'["file"] = kept
      /\ \A r \in Three : r # "file" => lines'[r] = lines[r]
  BY <1>2, <1>4, <1>5, Nums
<1>8. /\ \A r \in Three : Written'[r] \subseteq Written[r]
      /\ \A r \in Three : r # "file" => Written'[r] = Written[r]
      /\ Written["file"] \subseteq Written'["file"] \union gone
      /\ (n = Len(f) => Written["file"] \subseteq Written'["file"])
  BY <1>5, <1>7, Nums DEF Written
<1>9. gone \subseteq A!Event
  BY <1>3, <1>5, Nums, PlacesAreSets
<1> HIDE DEF kept, gone
<1>10. /\ A!Logged' = A!Logged /\ Queued' = {} /\ Buffered' = {}
  BY <1>1 DEF A!Logged, Queued, Buffered, A!Range
<1>11. A!Gone \in Task /\ A!Gone.event = A!Stop
  BY DEF A!Gone, Task
<1>12. worker' \in [A!Worker -> Task] /\ \A w \in A!Worker : worker'[w].event = A!Stop
  BY <1>1, <1>11
<1>13. lost' \subseteq A!Event \union {A!Stop, A!NoEvent}
  <2>1. \A w \in A!Worker : worker[w].event \in A!Event \union {A!Stop, A!NoEvent}
    BY <1>3, PlacesAreSets DEF Task
  <2>2. Buffered \union Queued \union gone \subseteq A!Event \union {A!Stop, A!NoEvent}
    BY <1>3, <1>9, PlacesAreSets
  <2>3. lost \subseteq A!Event \union {A!Stop, A!NoEvent}
    BY <1>3 DEF AuditShape
  <2> QED
    BY <1>2, <2>1, <2>2, <2>3 DEF gone
<1>14. AuditShape'
  <2>1. <<>> \in Seq(A!Event) /\ <<>> \in Seq(A!Event \union {A!Stop}) /\ Len(<<>>) = 0
    OBVIOUS
  <2>2. flushed' \in Nat /\ flushed' <= Len(lines'["file"]) /\ 0 \in Nat
    BY <1>2, <1>4, <1>5, <1>7
  <2> QED
    <3>1. queue' \in Seq(A!Event \union {A!Stop}) /\ Len(queue') <= QueueSize
      BY <1>1, <2>1, AuditBounds
    <3>2. buffer' \in Seq(A!Event) /\ Len(buffer') < BufferSize
      BY <1>1, <2>1, AuditBounds
    <3>3. /\ number' \in [A!Event -> Nat] /\ late' \subseteq A!Event
          /\ \E m \in Nat : A!Logged' = 1..m
      BY <1>1, <1>3, <1>10 DEF AuditShape
    <3>4. pc' \in {"new", "running", "stopping", "stopped"} /\ sequence' \in Nat
      BY <1>1
    <3> QED
      BY <1>7, <1>12, <1>13, <2>2, <3>1, <3>2, <3>3, <3>4 DEF AuditShape
<1>15. ListsAreSets'
  <2>1. \A r \in Three : A!IsInjective(lines'[r])
    BY <1>3, <1>6, <1>7 DEF ListsAreSets
  <2>2. A!IsInjective(buffer') /\ 1..Len(queue') = {}
    BY <1>1 DEF A!IsInjective
  <2> QED
    BY <2>1, <2>2 DEF ListsAreSets
<1>16. PlacesAreDistinct'
  BY <1>3, <1>8, <1>10, <1>12, Sinks DEF PlacesAreDistinct
<1>17. SentinelsEnd'
  <2>1. 1..Len(queue') = {}
    BY <1>1
  <2> QED
    BY <1>1, <1>10, <1>12, <2>1 DEF SentinelsEnd
<1>18. NothingIsForgotten'
  <2> SUFFICES ASSUME NEW e \in A!Logged \ (lost' \union late), NEW r \in Three
               PROVE  e \in Written'[r]
    BY <1>1, <1>10 DEF NothingIsForgotten
  <2>1. /\ e \in A!Logged \ (lost \union late) /\ e \in A!Event /\ e # A!Stop
    BY <1>2, <1>3, PlacesAreSets, Sinks
  <2>2. \/ e \in Written[r]
        \/ r = "index" /\ e \in Buffered
        \/ e \in Queued
        \/ \E w \in A!Worker : worker[w].event = e /\ worker[w].sink <= Num(r)
    BY <1>3, <2>1 DEF NothingIsForgotten
  <2>3. CASE pc = "stopped"
    <3>1. /\ \A w \in A!Worker : worker[w].event = A!Stop
          /\ Buffered = {} /\ n = Len(f)
      BY <1>2, <1>3, <2>3 DEF SentinelsEnd, Buffered, A!Range
    <3>2. 1 \in A!Worker
      BY DEF A!Worker
    <3>3. Queued \subseteq late \union {A!Stop}
      BY <1>3, <2>3, <3>1, <3>2 DEF SentinelsEnd
    <3>4. e \in Written[r]
      BY <2>1, <2>2, <3>1, <3>3
    <3> QED
      BY <1>8, <3>1, <3>4
  <2>4. CASE pc # "stopped"
    <3>1. lost' = lost \union (Buffered \union Queued \union {worker[w].event : w \in A!Worker}
                               \union gone)
      BY <1>2, <2>4 DEF gone
    <3>2. e \notin Buffered /\ e \notin Queued /\ e \notin gone
          /\ \A w \in A!Worker : worker[w].event # e
      BY <3>1
    <3> QED
      BY <1>8, <2>2, <3>2
  <2> QED
    BY <2>3, <2>4
<1> QED
  BY <1>14, <1>15, <1>16, <1>17, <1>18 DEF AuditInv

\* Every step of the logger keeps the invariant.
LEMMA AuditSteps == AuditInv /\ [A!LoggerNext]_A!loggerVars => AuditInv'
<1> SUFFICES ASSUME AuditInv, [A!LoggerNext]_A!loggerVars PROVE AuditInv'
  OBVIOUS
<1>1. CASE A!Start
  BY <1>1, StartKeeps
<1>2. CASE A!PutStop
  BY <1>2, PutStopKeeps
<1>3. CASE A!Restart
  BY <1>3, RestartKeeps
<1>4. CASE A!Flush
  BY <1>4, FlushKeeps
<1>5. ASSUME NEW w \in A!Worker, A!Serve(w) PROVE AuditInv'
  <2>1. CASE A!Take(w)
    BY <2>1, TakeKeeps
  <2>2. ASSUME NEW s \in Three, A!Write(w, s) PROVE AuditInv'
    BY <2>2, WriteKeeps
  <2>3. ASSUME NEW s \in Three, A!WriteRaises(w, s) PROVE AuditInv'
    BY <2>3, WriteRaisesKeeps
  <2>4. CASE A!Buffer(w)
    BY <2>4, BufferKeeps
  <2> QED
    BY <1>5, <2>1, <2>2, <2>3, <2>4, Sinks DEF A!Serve
<1>6. ASSUME NEW e \in A!Event, A!LogEvent(e) PROVE AuditInv'
  BY <1>6, LogEventKeeps
<1>7. CASE UNCHANGED A!loggerVars
  <2>1. UNCHANGED <<pc, queue, worker, sequence, number, buffer, lines, flushed, lost, late, starts,
                    faults>>
    BY <1>7 DEF A!loggerVars
  <2>2. /\ A!Logged' = A!Logged /\ Queued' = Queued /\ Buffered' = Buffered /\ Written' = Written
    BY <2>1 DEF A!Logged, Queued, Buffered, Written
  <2> QED
    <3>1. AuditShape'
      BY <2>1, <2>2 DEF AuditInv, AuditShape
    <3>2. ListsAreSets'
      BY <2>1, <2>2 DEF AuditInv, ListsAreSets
    <3>3. PlacesAreDistinct'
      BY <2>1, <2>2 DEF AuditInv, PlacesAreDistinct
    <3>4. SentinelsEnd'
      BY <2>1, <2>2 DEF AuditInv, SentinelsEnd
    <3>5. NothingIsForgotten'
      BY <2>1, <2>2 DEF AuditInv, NothingIsForgotten
    <3> QED
      BY <3>1, <3>2, <3>3, <3>4, <3>5 DEF AuditInv
<1> QED
  BY <1>1, <1>2, <1>3, <1>4, <1>5, <1>6, <1>7 DEF A!LoggerNext, A!Work, A!Stopping

\* What the invariant says of the properties the run checks.
LEMMA AuditPromises ==
    AuditInv => A!LoggerTypes /\ A!StoppedMeansWritten /\ A!WrittenOnce
<1> SUFFICES ASSUME AuditInv PROVE A!LoggerTypes /\ A!StoppedMeansWritten /\ A!WrittenOnce
  OBVIOUS
<1>1. AuditShape /\ ListsAreSets /\ PlacesAreDistinct /\ SentinelsEnd /\ NothingIsForgotten
  BY DEF AuditInv
<1>2. A!LoggerTypes
  <2>1. \A w \in A!Worker : /\ worker[w].event \in A!Event \union {A!Stop, A!NoEvent}
                            /\ worker[w].sink \in DOMAIN A!Sink
    BY <1>1, PlacesAreSets, Sinks DEF Task
  <2> QED
    BY <1>1, <2>1 DEF A!LoggerTypes, AuditShape
<1>3. A!WrittenOnce
  BY <1>1, Sinks DEF A!WrittenOnce, ListsAreSets
<1>4. A!StoppedMeansWritten
  <2> SUFFICES ASSUME pc = "stopped", NEW e \in A!Logged \ (lost \union late), NEW s \in Three
               PROVE  e \in A!Range(lines[s])
    BY Sinks DEF A!StoppedMeansWritten
  <2>1. /\ \A w \in A!Worker : worker[w].event = A!Stop
        /\ Buffered = {}
    BY <1>1 DEF SentinelsEnd, Buffered, A!Range
  <2>2. 1 \in A!Worker
    BY DEF A!Worker
  <2>3. Queued \subseteq late \union {A!Stop}
    BY <1>1, <2>1, <2>2 DEF SentinelsEnd
  <2>4. e # A!Stop
    BY <1>1, PlacesAreSets, Sinks
  <2>5. e \in Written[s]
    BY <1>1, <2>1, <2>3, <2>4 DEF NothingIsForgotten
  <2> QED
    BY <1>1, <2>5, PlacesAreSets
<1> QED
  BY <1>2, <1>3, <1>4

\* When stop() has returned every event that was logged before it is at every sink, unless
\* a full queue, a fault or a crash took it, and no sink has an event twice
\* (AuditLogger with its workers, its chain and its sinks).
THEOREM AuditIsKept ==
    A!LoggerSpec => [](A!LoggerTypes /\ A!StoppedMeansWritten /\ A!WrittenOnce)
<1>1. A!LoggerSpec => []AuditInv
  BY AuditInit, AuditSteps, PTL DEF A!LoggerSpec
<1> QED
  BY <1>1, AuditPromises, PTL

-------------------------------------------------------------------------------
(* The run: each of its behaviours is one of each component, so what is    *)
(* proved of them holds of it.                                             *)

\* A step of the run is a step of one component and a stutter of the others.
LEMMA RunIsEach == MCSpec => Spec /\ S!Spec /\ A!LoggerSpec /\ A!ChainSpec /\ R!Spec
<1>1. MCInit => Init /\ S!Init /\ A!LoggerInit /\ A!ChainInit /\ R!Init
  BY DEF MCInit
<1>2. ASSUME [MCNext]_<<part, vars, secretVars, auditVars, chainVars, roleVars>>
      PROVE  /\ [Next]_vars /\ [S!Next]_(S!vars) /\ [A!LoggerNext]_(A!loggerVars)
             /\ [A!ChainNext]_(A!chainVars) /\ [R!Next]_(R!vars)
  <2>1. /\ secretVars = S!vars /\ auditVars = A!loggerVars /\ chainVars = A!chainVars
        /\ roleVars = R!vars
    BY DEF secretVars, S!vars, auditVars, A!loggerVars, chainVars, A!chainVars, roleVars, R!vars
  <2>2. /\ secretVars' = (S!vars)' /\ auditVars' = (A!loggerVars)'
        /\ chainVars' = (A!chainVars)' /\ roleVars' = (R!vars)'
    BY DEF secretVars, S!vars, auditVars, A!loggerVars, chainVars, A!chainVars, roleVars, R!vars
  <2> HIDE DEF secretVars, auditVars, chainVars, roleVars, vars
  <2> QED
    BY <1>2, <2>1, <2>2 DEF MCNext, GatewayStep, SecretsStep, AuditStep, ChainStep, RolesStep
<1> QED
  BY <1>1, <1>2, PTL DEF MCSpec, Spec, S!Spec, A!LoggerSpec, A!ChainSpec, R!Spec

\* The limits of requests hold in every window and the advice is true; replaced keys and
\* revoked roles are of use no longer than a cached key or a token lives.
THEOREM AccessHolds == MCSpec => []AccessFades
<1>1. /\ TypeOK /\ WindowsHold /\ AdviceIsHonest /\ ReplacedKeysFade
      /\ R!TypeOK /\ R!RevokedRolesFade /\ S!TypeOK
      => AccessFades
  BY DEF AccessFades
<1>2. SecretInv => S!TypeOK
  BY DEF SecretInv, SecretShape
<1> QED
  BY <1>1, <1>2, RunIsEach, GatewayHolds, GatewayPromises, SecretsHold, RolesFade, PTL

\* The audit log is complete when it has been stopped, and the chained file is but for
\* faults.
THEOREM AuditHolds == MCSpec => []AuditIsComplete
<1>1. /\ A!LoggerTypes /\ A!StoppedMeansWritten /\ A!WrittenOnce
      /\ A!ChainTypes /\ A!ComplaintsNeedFaults /\ A!LossNeedsFaults
      => AuditIsComplete
  BY DEF AuditIsComplete
<1> QED
  BY <1>1, RunIsEach, AuditIsKept, LostOnlyByFaults, PTL

\* What is served of a secret was current not long ago, and a cancelled run moves again
\* only by the task that slept.
THEOREM StaleFades == MCSpec => StaleThingsFade
  BY RunIsEach, ServedWasRecent, CancelHolds, PTL DEF StaleThingsFade
===============================================================================
