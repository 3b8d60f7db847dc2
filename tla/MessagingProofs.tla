---------------------------- MODULE MessagingProofs ----------------------------
(***************************************************************************)
(* Theorems about QueueProcessor, for every finite set of calls, all       *)
(* messages, numbers of handlers and of retries, and every bound, and      *)
(* about Outbox, for all events, topics, sizes of batches and of chunks,   *)
(* and every bound.  Most lemmas are about a step over either store, or    *)
(* over either broker: the stores differ in how a lock is taken and in     *)
(* nothing behind it, the brokers in what they take of a request.          *)
(***************************************************************************)
EXTENDS MCMessaging, FiniteSetTheorems, SequenceTheorems, WellFoundedInduction, TLAPS

-------------------------------------------------------------------------------
Handlers  == 1..NumHandlers
Attempts  == 1..MaxHandlerRetries + 1
Beginning == {"ttl", "register", "invoke"}
Working   == Beginning \union {"done", "failed", "sink"}
Behind    == Working \union {"success", "dead_letter", "aborted"}
Labels    == Behind \union {"waiting", "acquire", "duplicate"}

QueueShape ==
    /\ msg \in [Call -> Message]
    /\ callPc \in [Call -> Labels]
    /\ attempt \in [Call -> Attempts]
    /\ at \in [Call -> 1..NumHandlers + 1]
    /\ lock \in [Message -> {"free", "held", "expiring"}]
    /\ entry \in [Message -> {"none", "processing", "success", "failed"}]
    /\ ran \in [Message -> [Handlers -> Nat]]
    /\ dead \subseteq Message
    /\ expiries \in [Message -> 0..MaxExpiries]

\* The calls that have had the lock of a message.
Took(m) == {c \in Call : msg[c] = m /\ callPc[c] \in Behind}

\* A call has had its chance to complete a handler in an attempt.
Tried(c, k, h) ==
    k < attempt[c] \/ (k = attempt[c] /\ (callPc[c] \in Beginning => at[c] > h))

Tries(m, h) == {x \in Took(m) \X Attempts : Tried(x[1], x[2], h)}

\* The calls whose next handler is this one.
Facing(m, h) == {c \in Call : msg[c] = m /\ callPc[c] = "invoke" /\ at[c] = h}

\* Each time the lock of a message ran out one more call has had it, and each handler ran at
\* most once in each attempt of these calls, behind the handlers before it.
CountInv ==
    /\ \A m \in Message :
          Cardinality(Took(m)) <= expiries[m] + (IF lock[m] = "free" THEN 0 ELSE 1)
    /\ \A m \in Message, h \in Handlers : ran[m][h] <= Cardinality(Tries(m, h))
    /\ \A m \in Message, h \in Handlers :
          h > 1 => ran[m][h] + Cardinality(Facing(m, h)) <= ran[m][h - 1]

\* What a call that works on a message, or has, says of the handlers, and the store as well.
EntryInv ==
    /\ \A c \in Call :
          /\ callPc[c] \in {"waiting", "acquire", "ttl", "register"} => at[c] = 1
          /\ callPc[c] = "invoke" => \A h \in Handlers : h < at[c] => ran[msg[c]][h] > 0
          /\ callPc[c] = "done" => \A h \in Handlers : ran[msg[c]][h] > 0
    /\ \A m \in Message : entry[m] = "success" => \A h \in Handlers : ran[m][h] > 0

\* As long as the lock of a message has not run out, one call has had it, and what it says
\* of the message is what the store and the sink say.
FirstInv ==
    \A m \in Message : expiries[m] = 0 =>
        /\ \A c, d \in Took(m) : c = d
        /\ lock[m] = "free" => Took(m) = {}
        /\ m \in dead => \E c \in Took(m) : callPc[c] = "dead_letter"
        /\ \A c \in Took(m) : callPc[c] \in {"sink", "dead_letter"} => entry[m] = "failed"

QueueInv == QueueShape /\ CountInv /\ EntryInv /\ FirstInv

\* The bounds are numbers, and the calls are finitely many.
LEMMA QueueBounds ==
    /\ NumHandlers \in Nat /\ MaxHandlerRetries \in Nat /\ MaxExpiries \in Nat
    /\ MaxRedisFaults \in Nat /\ MaxMemoryFaults \in Nat
    /\ IsFiniteSet(Call)
<1>1. Redis!IsFiniteSet(Call) => IsFiniteSet(Call)
  BY DEF Redis!IsFiniteSet, IsFiniteSet
<1> QED
  BY <1>1, QueueAssumption DEF Redis!BoundAssumption, Memory!BoundAssumption

\* The sets that are counted are finite.
LEMMA CountsAreFinite ==
    ASSUME NEW m, NEW h
    PROVE  /\ IsFiniteSet(Took(m)) /\ Cardinality(Took(m)) \in Nat
           /\ IsFiniteSet(Tries(m, h)) /\ Cardinality(Tries(m, h)) \in Nat
           /\ IsFiniteSet(Facing(m, h)) /\ Cardinality(Facing(m, h)) \in Nat
           /\ Cardinality(Tries(m, h)) <= Cardinality(Took(m)) * (MaxHandlerRetries + 1)
<1>1. IsFiniteSet(Took(m)) /\ IsFiniteSet(Facing(m, h))
  <2>1. Took(m) \subseteq Call /\ Facing(m, h) \subseteq Call
    BY DEF Took, Facing
  <2> QED
    BY <2>1, QueueBounds, FS_Subset
<1>2. IsFiniteSet(Attempts) /\ Cardinality(Attempts) = MaxHandlerRetries + 1
  <2>1. 1 \in Int /\ MaxHandlerRetries + 1 \in Int /\ MaxHandlerRetries \in Nat
    BY QueueBounds
  <2> QED
    BY <2>1, FS_Interval DEF Attempts
<1>3. /\ IsFiniteSet(Took(m) \X Attempts)
      /\ Cardinality(Took(m) \X Attempts) = Cardinality(Took(m)) * (MaxHandlerRetries + 1)
  BY <1>1, <1>2, FS_Product
<1>4. Tries(m, h) \subseteq Took(m) \X Attempts
  BY DEF Tries
<1>5. IsFiniteSet(Tries(m, h)) /\ Cardinality(Tries(m, h)) <= Cardinality(Took(m) \X Attempts)
  BY <1>3, <1>4, FS_Subset
<1> QED
  BY <1>1, <1>3, <1>5, FS_CardinalityType

\* The same after a step.
LEMMA CountsStayFinite ==
    ASSUME NEW CONSTANT m, NEW CONSTANT h
    PROVE  /\ IsFiniteSet(Took(m)') /\ Cardinality(Took(m)') \in Nat
           /\ IsFiniteSet(Tries(m, h)') /\ Cardinality(Tries(m, h)') \in Nat
           /\ IsFiniteSet(Facing(m, h)') /\ Cardinality(Facing(m, h)') \in Nat
<1>1. IsFiniteSet(Took(m)') /\ IsFiniteSet(Facing(m, h)')
  <2>1. Took(m)' \subseteq Call /\ Facing(m, h)' \subseteq Call
    BY DEF Took, Facing
  <2> QED
    BY <2>1, QueueBounds, FS_Subset
<1>2. IsFiniteSet(Attempts)
  <2>1. 1 \in Int /\ MaxHandlerRetries + 1 \in Int
    BY QueueBounds
  <2> QED
    BY <2>1, FS_Interval DEF Attempts
<1>3. Tries(m, h)' \subseteq Took(m)' \X Attempts
  BY DEF Tries
<1>4. IsFiniteSet(Took(m)' \X Attempts)
  BY <1>1, <1>2, FS_Product
<1>5. IsFiniteSet(Tries(m, h)')
  BY <1>3, <1>4, FS_Subset
<1> QED
  BY <1>1, <1>5, FS_CardinalityType

\* No call has done anything yet.
LEMMA QueueInit == Redis!Init => QueueInv
<1> SUFFICES ASSUME Redis!Init PROVE QueueInv
  OBVIOUS
<1>1. QueueShape
  <2>1. 1 \in Attempts /\ 1 \in 1..NumHandlers + 1 /\ 0 \in 0..MaxExpiries
    BY QueueBounds DEF Attempts
  <2>2. ran \in [Message -> [Handlers -> Nat]]
    BY DEF Redis!Init, Redis!HandlerNo, Handlers
  <2> QED
    BY <2>1, <2>2 DEF Redis!Init, QueueShape, Labels
<1>2. \A m, h : Took(m) = {} /\ Tries(m, h) = {} /\ Facing(m, h) = {}
  BY DEF Redis!Init, Took, Tries, Facing, Behind, Working, Beginning
<1>3. \A m \in Message, h \in Handlers : ran[m][h] = 0
  BY DEF Redis!Init, Redis!HandlerNo, Handlers
<1>4. CountInv
  <2>1. \A m \in Message : expiries[m] = 0 /\ lock[m] = "free"
    BY DEF Redis!Init
  <2>2. \A h \in Handlers : h > 1 => h - 1 \in Handlers
    BY QueueBounds DEF Handlers
  <2> QED
    BY <1>2, <1>3, <2>1, <2>2, FS_EmptySet DEF CountInv
<1> QED
  BY <1>1, <1>2, <1>3, <1>4 DEF QueueInv, EntryInv, FirstInv, Redis!Init

\* What a step of a call leaves alone, and how far the call itself may go in it.
Goes(c) ==
    /\ msg' = msg /\ ran' = ran /\ expiries' = expiries
    /\ \A d \in Call \ {c} :
          callPc'[d] = callPc[d] /\ attempt'[d] = attempt[d] /\ at'[d] = at[d]
    /\ \A m \in Message : lock'[m] = "free" => lock[m] = "free"
    /\ callPc'[c] \in Behind <=> callPc[c] \in Behind
    /\ callPc'[c] = "invoke" => at'[c] = 1
    /\ \/ attempt'[c] > attempt[c]
       \/ /\ attempt'[c] = attempt[c]
          /\ callPc'[c] \notin Beginning \/ (callPc[c] \in Beginning /\ at'[c] = at[c])

\* A step of a call that takes no lock and completes no handler leaves the counts in order.
LEMMA GoingOnKeepsCounts ==
    ASSUME QueueShape, CountInv, QueueShape', NEW c \in Call, Goes(c)
    PROVE  /\ \A m \in Message : Took(m)' = Took(m)
           /\ CountInv'
<1>1. \A m \in Message : Took(m)' = Took(m)
  BY DEF Took, Goes
<1>2. ASSUME NEW m \in Message, NEW h \in Handlers
      PROVE  Tries(m, h) \subseteq Tries(m, h)'
  <2>1. ASSUME NEW d \in Call, NEW k \in Attempts, Tried(d, k, h) PROVE Tried(d, k, h)'
    <3>1. attempt[d] \in Int /\ attempt'[d] \in Int /\ k \in Int
      BY QueueBounds DEF QueueShape, Attempts
    <3> QED
      BY <2>1, <3>1 DEF Tried, Goes
  <2>2. Took(m) \subseteq Call
    BY DEF Took
  <2> QED
    BY <1>1, <2>1, <2>2 DEF Tries
<1>3. ASSUME NEW m \in Message, NEW h \in Handlers, h > 1
      PROVE  Facing(m, h)' \subseteq Facing(m, h)
  BY <1>3 DEF Facing, Goes
<1>4. ASSUME NEW m \in Message, NEW h \in Handlers
      PROVE  ran'[m][h] <= Cardinality(Tries(m, h)')
  <2>1. Cardinality(Tries(m, h)) <= Cardinality(Tries(m, h)')
    BY <1>2, CountsStayFinite, FS_Subset
  <2>2. ran[m][h] <= Cardinality(Tries(m, h)) /\ ran[m][h] \in Nat /\ ran' = ran
    BY DEF CountInv, Goes, QueueShape
  <2> QED
    BY <2>1, <2>2, CountsStayFinite, CountsAreFinite
<1>5. ASSUME NEW m \in Message, NEW h \in Handlers, h > 1
      PROVE  ran'[m][h] + Cardinality(Facing(m, h)') <= ran'[m][h - 1]
  <2>1. Cardinality(Facing(m, h)') <= Cardinality(Facing(m, h))
    BY <1>3, <1>5, CountsAreFinite, FS_Subset
  <2>2. h - 1 \in Handlers
    BY <1>5, QueueBounds DEF Handlers
  <2>3. /\ ran[m][h] + Cardinality(Facing(m, h)) <= ran[m][h - 1]
        /\ ran[m][h] \in Nat /\ ran[m][h - 1] \in Nat /\ ran' = ran
    BY <1>5, <2>2 DEF CountInv, Goes, QueueShape
  <2> QED
    BY <2>1, <2>3, CountsStayFinite, CountsAreFinite
<1>6. ASSUME NEW m \in Message
      PROVE  Cardinality(Took(m)') <= expiries'[m] + (IF lock'[m] = "free" THEN 0 ELSE 1)
  <2>1. PICK n \in Nat : n = Cardinality(Took(m))
    BY CountsAreFinite
  <2>2. n <= expiries[m] + (IF lock[m] = "free" THEN 0 ELSE 1) /\ expiries[m] \in Int
    BY <2>1, QueueBounds DEF CountInv, QueueShape
  <2>3. expiries' = expiries /\ (lock'[m] = "free" => lock[m] = "free")
    BY DEF Goes
  <2>4. Cardinality(Took(m)') = n
    BY <1>1, <2>1
  <2> QED
    BY <2>2, <2>3, <2>4
<1> QED
  BY <1>1, <1>4, <1>5, <1>6 DEF CountInv

\* The bookkeeping of a step.
LEMMA ShapeKept ==
    ASSUME QueueShape, Redis!Next \/ Memory!Next
    PROVE  QueueShape'
<1> USE QueueBounds DEF QueueShape, Labels, Behind, Working, Beginning, Attempts, Handlers
<1>1. ASSUME NEW c \in Call, Redis!Enter(c) \/ Memory!Enter(c) PROVE QueueShape'
  BY <1>1 DEF Redis!Enter, Memory!Enter, Redis!Goto, Memory!Goto
<1>2. ASSUME NEW c \in Call, Redis!Acquire(c) \/ Memory!Acquire(c) PROVE QueueShape'
  BY <1>2, ZenonT(60) DEF Redis!Acquire, Memory!Acquire, Redis!Goto, Memory!Goto
<1>3. ASSUME NEW c \in Call, Redis!SetTtl(c) \/ Memory!SetTtl(c) PROVE QueueShape'
  BY <1>3 DEF Redis!SetTtl, Memory!SetTtl, Redis!Goto, Memory!Goto
<1>4. ASSUME NEW c \in Call, Redis!Register(c) \/ Memory!Register(c) PROVE QueueShape'
  BY <1>4, ZenonT(60) DEF Redis!Register, Memory!Register, Redis!Goto, Memory!Goto
<1>5. ASSUME NEW c \in Call, Redis!HandlerReturns(c) \/ Memory!HandlerReturns(c)
      PROVE  QueueShape'
  <2>1. at[c] \in Handlers /\ msg[c] \in Message
    BY <1>5 DEF Redis!HandlerReturns, Memory!HandlerReturns, Redis!HandlerNo, Memory!HandlerNo
  <2>2. ran' = [ran EXCEPT ![msg[c]][at[c]] = @ + 1]
    BY <1>5 DEF Redis!HandlerReturns, Memory!HandlerReturns
  <2>3. ran' \in [Message -> [Handlers -> Nat]]
    BY <2>1, <2>2, SMTT(30)
  <2>4. at' \in [Call -> 1..NumHandlers + 1]
    <3>1. at[c] + 1 \in 1..NumHandlers + 1 /\ at' = [at EXCEPT ![c] = at[c] + 1]
      BY <1>5, <2>1 DEF Redis!HandlerReturns, Memory!HandlerReturns
    <3> QED
      BY <3>1
  <2> QED
    BY <1>5, <2>3, <2>4 DEF Redis!HandlerReturns, Memory!HandlerReturns
<1>6. ASSUME NEW c \in Call, Redis!HandlersReturned(c) \/ Memory!HandlersReturned(c)
      PROVE  QueueShape'
  BY <1>6 DEF Redis!HandlersReturned, Memory!HandlersReturned, Redis!Goto, Memory!Goto
<1>7. ASSUME NEW c \in Call, Redis!Retry(c) \/ Memory!Retry(c)
      PROVE  /\ callPc' \in [Call -> Labels]
             /\ attempt' \in [Call -> Attempts]
             /\ at' \in [Call -> 1..NumHandlers + 1]
  <2>1. 1 \in 1..NumHandlers + 1 /\ at' = [at EXCEPT ![c] = 1]
    BY <1>7 DEF Redis!Retry, Memory!Retry
  <2>2. CASE attempt[c] > MaxHandlerRetries
    BY <1>7, <2>1, <2>2 DEF Redis!Retry, Memory!Retry, Redis!Goto, Memory!Goto
  <2>3. CASE ~(attempt[c] > MaxHandlerRetries)
    <3>1. attempt[c] + 1 \in 1..MaxHandlerRetries + 1
      BY <2>3
    <3> QED
      BY <1>7, <2>1, <2>3, <3>1, ZenonT(60) DEF Redis!Retry, Memory!Retry, Redis!Goto, Memory!Goto
  <2> QED
    BY <2>2, <2>3
<1>8. ASSUME NEW c \in Call, Redis!HandlerRaises(c) \/ Memory!HandlerRaises(c)
      PROVE  QueueShape'
  BY <1>7, <1>8 DEF Redis!HandlerRaises, Memory!HandlerRaises
<1>9. ASSUME NEW c \in Call, Redis!MarkDone(c) \/ Memory!MarkDone(c) PROVE QueueShape'
  BY <1>9 DEF Redis!MarkDone, Memory!MarkDone, Redis!Goto, Memory!Goto
<1>10. ASSUME NEW c \in Call, Redis!MarkFailed(c) \/ Memory!MarkFailed(c) PROVE QueueShape'
  BY <1>10 DEF Redis!MarkFailed, Memory!MarkFailed, Redis!Goto, Memory!Goto
<1>11. ASSUME NEW c \in Call, Redis!SendToSink(c) \/ Memory!SendToSink(c) PROVE QueueShape'
  BY <1>11, ZenonT(60) DEF Redis!SendToSink, Memory!SendToSink, Redis!Goto, Memory!Goto
<1>12. ASSUME NEW c \in Call, Redis!MarkDoneRaises(c) \/ Memory!MarkDoneRaises(c)
       PROVE  QueueShape'
  BY <1>7, <1>12 DEF Redis!MarkDoneRaises, Memory!MarkDoneRaises
<1>13. ASSUME NEW c \in Call, Redis!Abort(c) \/ Memory!Abort(c) PROVE QueueShape'
  BY <1>13 DEF Redis!Abort, Memory!Abort, Redis!Goto, Memory!Goto
<1>14. ASSUME NEW m \in Message, Redis!LockExpires(m) \/ Memory!LockExpires(m)
       PROVE  QueueShape'
  <2>1. /\ expiries[m] < MaxExpiries
        /\ expiries' = [expiries EXCEPT ![m] = expiries[m] + 1]
    BY <1>14 DEF Redis!LockExpires, Memory!LockExpires
  <2>2. expiries[m] + 1 \in 0..MaxExpiries
    BY <2>1
  <2>3. expiries' \in [Message -> 0..MaxExpiries]
    BY <2>1, <2>2
  <2> QED
    BY <1>14, <2>3 DEF Redis!LockExpires, Memory!LockExpires
<1>15. CASE UNCHANGED queueVars
  BY <1>15 DEF queueVars
<1> QED
  BY <1>1, <1>2, <1>3, <1>4, <1>5, <1>6, <1>8, <1>9, <1>10, <1>11, <1>12, <1>13, <1>14, <1>15
  DEF Redis!Next, Memory!Next, Redis!Step, Memory!Step, Redis!vars, Memory!vars, queueVars

\* The steps of a call that neither take the lock nor complete a handler.
LEMMA GoingOn ==
    ASSUME QueueInv, NEW c \in Call,
           \/ Redis!Enter(c) \/ Memory!Enter(c)
           \/ Redis!SetTtl(c) \/ Memory!SetTtl(c)
           \/ Redis!Register(c) \/ Memory!Register(c)
           \/ Redis!HandlersReturned(c) \/ Memory!HandlersReturned(c)
           \/ Redis!HandlerRaises(c) \/ Memory!HandlerRaises(c)
           \/ Redis!MarkDone(c) \/ Memory!MarkDone(c)
           \/ Redis!MarkFailed(c) \/ Memory!MarkFailed(c)
           \/ Redis!SendToSink(c) \/ Memory!SendToSink(c)
           \/ Redis!MarkDoneRaises(c) \/ Memory!MarkDoneRaises(c)
           \/ Redis!Abort(c) \/ Memory!Abort(c)
    PROVE  Goes(c)
<1> USE QueueBounds DEF Goes, QueueInv, QueueShape, Labels, Behind, Working, Beginning, Attempts
<1>1. CASE Redis!Enter(c) \/ Memory!Enter(c)
  BY <1>1 DEF Redis!Enter, Memory!Enter, Redis!Goto, Memory!Goto
<1>2. CASE Redis!SetTtl(c) \/ Memory!SetTtl(c)
  BY <1>2 DEF Redis!SetTtl, Memory!SetTtl, Redis!Goto, Memory!Goto
<1>3. CASE Redis!Register(c) \/ Memory!Register(c)
  BY <1>3 DEF Redis!Register, Memory!Register, Redis!Goto, Memory!Goto, EntryInv
<1>4. CASE Redis!HandlersReturned(c) \/ Memory!HandlersReturned(c)
  BY <1>4 DEF Redis!HandlersReturned, Memory!HandlersReturned, Redis!Goto, Memory!Goto
<1>5. ASSUME Redis!Retry(c) \/ Memory!Retry(c), callPc[c] \in {"invoke", "done"}
      PROVE  /\ \A d \in Call \ {c} :
                   callPc'[d] = callPc[d] /\ attempt'[d] = attempt[d] /\ at'[d] = at[d]
             /\ callPc'[c] \in {"invoke", "failed"} /\ at'[c] = 1
             /\ \/ attempt'[c] > attempt[c]
                \/ attempt'[c] = attempt[c] /\ callPc'[c] = "failed"
  BY <1>5 DEF Redis!Retry, Memory!Retry, Redis!Goto, Memory!Goto
<1>6. CASE Redis!HandlerRaises(c) \/ Memory!HandlerRaises(c)
  BY <1>5, <1>6 DEF Redis!HandlerRaises, Memory!HandlerRaises
<1>7. CASE Redis!MarkDone(c) \/ Memory!MarkDone(c)
  BY <1>7 DEF Redis!MarkDone, Memory!MarkDone, Redis!Goto, Memory!Goto
<1>8. CASE Redis!MarkFailed(c) \/ Memory!MarkFailed(c)
  BY <1>8 DEF Redis!MarkFailed, Memory!MarkFailed, Redis!Goto, Memory!Goto
<1>9. CASE Redis!SendToSink(c) \/ Memory!SendToSink(c)
  BY <1>9 DEF Redis!SendToSink, Memory!SendToSink, Redis!Goto, Memory!Goto
<1>10. CASE Redis!MarkDoneRaises(c) \/ Memory!MarkDoneRaises(c)
  BY <1>5, <1>10 DEF Redis!MarkDoneRaises, Memory!MarkDoneRaises
<1>11. CASE Redis!Abort(c) \/ Memory!Abort(c)
  BY <1>11 DEF Redis!Abort, Memory!Abort, Redis!Goto, Memory!Goto, Redis!Holding, Memory!Holding
<1> QED
  BY <1>1, <1>2, <1>3, <1>4, <1>6, <1>7, <1>8, <1>9, <1>10, <1>11

\* A call takes the lock, or finds it taken.
LEMMA TakingKeepsCounts ==
    ASSUME QueueInv, QueueShape', NEW c \in Call, Redis!Acquire(c) \/ Memory!Acquire(c)
    PROVE  CountInv'
<1> USE DEF QueueInv
<1>1. CASE lock[msg[c]] # "free"
  <2>1. Goes(c)
    BY <1>1 DEF Redis!Acquire, Memory!Acquire, Redis!Goto, Memory!Goto, Goes, QueueShape,
                Labels, Behind, Working, Beginning
  <2> QED
    BY <2>1, GoingOnKeepsCounts
<1>2. CASE lock[msg[c]] = "free"
  <2>1. /\ msg' = msg /\ attempt' = attempt /\ at' = at /\ ran' = ran /\ expiries' = expiries
        /\ callPc[c] = "acquire" /\ callPc'[c] \in {"ttl", "invoke"}
        /\ \A d \in Call : d # c => callPc'[d] = callPc[d]
        /\ lock'[msg[c]] # "free" /\ \A m \in Message : m # msg[c] => lock'[m] = lock[m]
        /\ at[c] = 1 /\ msg[c] \in Message
    BY <1>2 DEF Redis!Acquire, Memory!Acquire, Redis!Goto, Memory!Goto, QueueShape, EntryInv
  <2>2. Took(msg[c])' = Took(msg[c]) \union {c} /\ c \notin Took(msg[c])
    BY <2>1 DEF Took, Behind, Working, Beginning
  <2>3. \A m \in Message : m # msg[c] => Took(m)' = Took(m)
    BY <2>1 DEF Took
  <2>4. \A m \in Message, h \in Handlers : Tries(m, h) \subseteq Tries(m, h)'
    <3>1. ASSUME NEW m \in Message, NEW d \in Took(m), NEW k \in Attempts, NEW h \in Handlers,
                 Tried(d, k, h)
          PROVE  Tried(d, k, h)'
      <4>1. callPc'[d] = callPc[d]
        BY <2>1 DEF Took, Behind, Working, Beginning
      <4> QED
        BY <2>1, <3>1, <4>1 DEF Tried
    <3>2. ASSUME NEW m \in Message PROVE Took(m) \subseteq Took(m)'
      BY <2>1 DEF Took, Behind, Working, Beginning
    <3> QED
      BY <3>1, <3>2 DEF Tries
  <2>5. \A m \in Message, h \in Handlers : h > 1 => Facing(m, h)' \subseteq Facing(m, h)
    BY <2>1 DEF Facing
  <2>6. ASSUME NEW m \in Message
        PROVE  Cardinality(Took(m)') <= expiries'[m] + (IF lock'[m] = "free" THEN 0 ELSE 1)
    <3>1. PICK n \in Nat : n = Cardinality(Took(m))
      BY CountsAreFinite
    <3>2. n <= expiries[m] + (IF lock[m] = "free" THEN 0 ELSE 1) /\ expiries[m] \in Int
      BY <3>1, QueueBounds DEF CountInv, QueueShape
    <3>3. CASE m = msg[c]
      <4>1. Cardinality(Took(m)') = n + 1
        <5>1. IsFiniteSet(Took(m)) /\ c \notin Took(m)
          BY <2>2, <3>3, CountsAreFinite
        <5>2. Cardinality(Took(m) \union {c}) = Cardinality(Took(m)) + 1
          BY <5>1, FS_AddElement
        <5>3. Took(m)' = Took(m) \union {c}
          BY <2>2, <3>3, <2>1 DEF Took
        <5> QED
          BY <3>1, <5>2, <5>3
      <4> QED
        BY <1>2, <2>1, <3>2, <3>3, <4>1
    <3>4. CASE m # msg[c]
      <4>1. Cardinality(Took(m)') = n
        BY <2>3, <3>1, <3>4
      <4> QED
        BY <2>1, <3>2, <3>4, <4>1
    <3> QED
      BY <3>3, <3>4
  <2>7. ASSUME NEW m \in Message, NEW h \in Handlers
        PROVE  ran'[m][h] <= Cardinality(Tries(m, h)')
    <3>1. Cardinality(Tries(m, h)) <= Cardinality(Tries(m, h)')
      BY <2>4, CountsStayFinite, FS_Subset
    <3>2. ran[m][h] <= Cardinality(Tries(m, h)) /\ ran[m][h] \in Nat /\ ran' = ran
      BY <2>1 DEF CountInv, QueueShape
    <3> QED
      BY <3>1, <3>2, CountsStayFinite, CountsAreFinite
  <2>8. ASSUME NEW m \in Message, NEW h \in Handlers, h > 1
        PROVE  ran'[m][h] + Cardinality(Facing(m, h)') <= ran'[m][h - 1]
    <3>1. Cardinality(Facing(m, h)') <= Cardinality(Facing(m, h))
      BY <2>5, <2>8, CountsAreFinite, FS_Subset
    <3>2. h - 1 \in Handlers
      BY <2>8, QueueBounds DEF Handlers
    <3>3. /\ ran[m][h] + Cardinality(Facing(m, h)) <= ran[m][h - 1]
          /\ ran[m][h] \in Nat /\ ran[m][h - 1] \in Nat /\ ran' = ran
      BY <2>1, <2>8, <3>2 DEF CountInv, QueueShape
    <3> QED
      BY <3>1, <3>3, CountsStayFinite, CountsAreFinite
  <2> QED
    BY <2>6, <2>7, <2>8 DEF CountInv
<1> QED
  BY <1>1, <1>2

\* A handler completes: its call has tried one handler more and faces the next one.
LEMMA ReturningKeepsCounts ==
    ASSUME QueueInv, QueueShape', NEW c \in Call,
           Redis!HandlerReturns(c) \/ Memory!HandlerReturns(c)
    PROVE  CountInv'
<1> USE DEF QueueInv
<1> DEFINE n == msg[c]
           k == at[c]
<1>1. /\ msg' = msg /\ callPc' = callPc /\ attempt' = attempt /\ expiries' = expiries
      /\ lock' = lock /\ callPc[c] = "invoke" /\ n \in Message /\ k \in Handlers
      /\ at'[c] = k + 1 /\ \A d \in Call : d # c => at'[d] = at[d]
      /\ \A m \in Message, h \in Handlers :
            ran'[m][h] = ran[m][h] + (IF m = n /\ h = k THEN 1 ELSE 0)
  <2>1. /\ msg' = msg /\ callPc' = callPc /\ attempt' = attempt /\ expiries' = expiries
        /\ lock' = lock /\ callPc[c] = "invoke" /\ n \in Message /\ k \in Handlers
        /\ at'[c] = k + 1 /\ \A d \in Call : d # c => at'[d] = at[d]
        /\ ran' = [ran EXCEPT ![n][k] = @ + 1]
    BY DEF Redis!HandlerReturns, Memory!HandlerReturns, Redis!HandlerNo, Memory!HandlerNo,
           QueueShape, Handlers
  <2>2. ran \in [Message -> [Handlers -> Nat]]
    BY DEF QueueShape
  <2> HIDE DEF n, k
  <2>3. ASSUME NEW m \in Message, NEW h \in Handlers
        PROVE  ran'[m][h] = ran[m][h] + (IF m = n /\ h = k THEN 1 ELSE 0)
    <3>1. CASE m = n /\ h = k
      BY <2>1, <2>2, <3>1
    <3>2. CASE ~(m = n /\ h = k)
      BY <2>1, <2>2, <3>2
    <3> QED
      BY <3>1, <3>2
  <2> QED
    BY <2>1, <2>3
<1>2. \A m \in Message : Took(m)' = Took(m)
  BY <1>1 DEF Took
<1>3. \A d \in Call : attempt[d] \in Attempts /\ attempt[d] \in Int /\ at[d] \in Int
  BY QueueBounds DEF QueueShape, Attempts
<1>4. ASSUME NEW m \in Message, NEW h \in Handlers
      PROVE  ran'[m][h] <= Cardinality(Tries(m, h)')
  <2>1. h \in Int /\ ran[m][h] \in Nat /\ ran[m][h] <= Cardinality(Tries(m, h))
    <3>1. h \in Int
      BY QueueBounds DEF Handlers
    <3>2. ran[m][h] \in Nat /\ ran[m][h] <= Cardinality(Tries(m, h))
      BY DEF QueueShape, CountInv
    <3> QED
      BY <3>1, <3>2
  <2>2. Tries(m, h) \subseteq Tries(m, h)'
    <3>1. ASSUME NEW d \in Call, NEW a \in Attempts, Tried(d, a, h) PROVE Tried(d, a, h)'
      <4>1. at'[d] > h \/ ~(at[d] > h)
        BY <1>1, <1>3, <2>1
      <4> QED
        BY <1>1, <3>1, <4>1 DEF Tried
    <3>2. Took(m) \subseteq Call
      BY DEF Took
    <3> QED
      BY <1>2, <3>1, <3>2 DEF Tries
  <2>3. Cardinality(Tries(m, h)) <= Cardinality(Tries(m, h)')
    BY <2>2, CountsStayFinite, FS_Subset
  <2>4. CASE ~(m = n /\ h = k)
    <3>1. ran'[m][h] = ran[m][h]
      BY <1>1, <2>1, <2>4
    <3> QED
      BY <2>1, <2>3, <3>1, CountsStayFinite, CountsAreFinite
  <2>5. CASE m = n /\ h = k
    <3>1. <<c, attempt[c]>> \notin Tries(m, h)
      BY <1>1, <1>3, <2>5 DEF Tries, Tried, Beginning
    <3>2. <<c, attempt[c]>> \in Tries(m, h)'
      <4>1. PICK a \in Attempts : a = attempt[c]
        BY <1>3
      <4>2. c \in Took(m)' /\ Tried(c, a, h)'
        BY <1>1, <1>3, <2>5, <4>1 DEF Took, Tried, Behind, Working, Beginning
      <4>3. <<c, a>> \in Took(m)' \X Attempts
        BY <4>2
      <4>4. <<c, a>> \in Tries(m, h)'
        BY <4>2, <4>3 DEF Tries
      <4> QED
        BY <4>1, <4>4
    <3>3. Cardinality(Tries(m, h) \union {<<c, attempt[c]>>}) = Cardinality(Tries(m, h)) + 1
      BY <3>1, CountsAreFinite, FS_AddElement
    <3>4. Tries(m, h) \union {<<c, attempt[c]>>} \subseteq Tries(m, h)'
      BY <2>2, <3>2
    <3>5. Cardinality(Tries(m, h) \union {<<c, attempt[c]>>}) <= Cardinality(Tries(m, h)')
      BY <3>4, CountsStayFinite, FS_Subset
    <3>6. ran'[m][h] = ran[m][h] + 1
      BY <1>1, <2>5
    <3> QED
      BY <2>1, <3>3, <3>5, <3>6, CountsStayFinite, CountsAreFinite
  <2> QED
    BY <2>4, <2>5
<1>5. ASSUME NEW m \in Message, NEW h \in Handlers, h > 1
      PROVE  ran'[m][h] + Cardinality(Facing(m, h)') <= ran'[m][h - 1]
  <2>1. /\ h \in Int /\ h - 1 \in Handlers
    BY <1>5, QueueBounds DEF Handlers
  <2>2. PICK f \in Nat : f = Cardinality(Facing(m, h))
    BY CountsAreFinite
  <2>3. /\ ran[m][h] \in Nat /\ ran[m][h - 1] \in Nat
        /\ ran[m][h] + f <= ran[m][h - 1]
    BY <1>5, <2>1, <2>2 DEF QueueShape, CountInv
  <2>4. CASE m # n \/ (h # k /\ h # k + 1)
    <3>1. Facing(m, h)' = Facing(m, h)
      BY <1>1, <1>3, <2>4 DEF Facing
    <3>2. ran'[m][h] = ran[m][h] /\ ran'[m][h - 1] >= ran[m][h - 1]
      BY <1>1, <2>1, <2>3, <2>4
    <3> QED
      BY <2>1, <2>2, <2>3, <3>1, <3>2, <1>1
  <2>5. CASE m = n /\ h = k
    <3>1. Facing(m, h)' = Facing(m, h) \ {c} /\ c \in Facing(m, h)
      BY <1>1, <1>3, <2>5 DEF Facing
    <3>2. Cardinality(Facing(m, h)') = f - 1
      BY <2>2, <3>1, CountsAreFinite, FS_RemoveElement
    <3>3. ran'[m][h] = ran[m][h] + 1 /\ ran'[m][h - 1] = ran[m][h - 1]
      BY <1>1, <2>1, <2>3, <2>5
    <3> QED
      BY <2>3, <3>2, <3>3
  <2>6. CASE m = n /\ h = k + 1
    <3>1. Facing(m, h)' = Facing(m, h) \union {c} /\ c \notin Facing(m, h)
      BY <1>1, <1>3, <2>1, <2>6 DEF Facing
    <3>2. Cardinality(Facing(m, h)') = f + 1
      BY <2>2, <3>1, CountsAreFinite, FS_AddElement
    <3>3. ran'[m][h] = ran[m][h] /\ ran'[m][h - 1] = ran[m][h - 1] + 1
      BY <1>1, <1>3, <2>1, <2>3, <2>6
    <3> QED
      BY <2>3, <3>2, <3>3
  <2> QED
    BY <2>4, <2>5, <2>6
<1> QED
  BY <1>1, <1>2, <1>4, <1>5 DEF CountInv

\* A lock runs out: the next call may take it, and one more is allowed for.
LEMMA ExpiryKeepsCounts ==
    ASSUME QueueInv, QueueShape', NEW n \in Message,
           Redis!LockExpires(n) \/ Memory!LockExpires(n)
    PROVE  CountInv'
<1> USE DEF QueueInv
<1>1. /\ msg' = msg /\ callPc' = callPc /\ attempt' = attempt /\ at' = at /\ ran' = ran
      /\ lock[n] = "expiring" /\ lock'[n] = "free" /\ expiries'[n] = expiries[n] + 1
      /\ \A m \in Message : m # n => lock'[m] = lock[m] /\ expiries'[m] = expiries[m]
  BY DEF Redis!LockExpires, Memory!LockExpires, QueueShape
<1>2. \A m, h : Took(m)' = Took(m) /\ Tries(m, h)' = Tries(m, h) /\ Facing(m, h)' = Facing(m, h)
  BY <1>1 DEF Took, Tries, Tried, Facing
<1>3. ASSUME NEW m \in Message
      PROVE  Cardinality(Took(m)') <= expiries'[m] + (IF lock'[m] = "free" THEN 0 ELSE 1)
  <2>1. PICK k \in Nat : k = Cardinality(Took(m))
    BY CountsAreFinite
  <2>2. k <= expiries[m] + (IF lock[m] = "free" THEN 0 ELSE 1) /\ expiries[m] \in Int
    BY <2>1, QueueBounds DEF CountInv, QueueShape
  <2>3. Cardinality(Took(m)') = k
    BY <1>2, <2>1
  <2>4. CASE m = n
    BY <1>1, <2>2, <2>3, <2>4
  <2>5. CASE m # n
    BY <1>1, <2>2, <2>3, <2>5
  <2> QED
    BY <2>4, <2>5
<1>4. /\ \A m \in Message, h \in Handlers : ran'[m][h] <= Cardinality(Tries(m, h)')
      /\ \A m \in Message, h \in Handlers :
            h > 1 => ran'[m][h] + Cardinality(Facing(m, h)') <= ran'[m][h - 1]
  BY <1>1, <1>2 DEF CountInv
<1> QED
  BY <1>3, <1>4 DEF CountInv

\* What the calls and the store say of the handlers stays true.
LEMMA EntryKept ==
    ASSUME QueueInv, QueueShape', Redis!Next \/ Memory!Next
    PROVE  EntryInv'
<1> USE QueueBounds
    DEF QueueInv, QueueShape, EntryInv, Labels, Behind, Working, Beginning, Handlers
<1>0. ASSUME NEW c \in Call, msg' = msg, ran' = ran,
             \A d \in Call : d # c => callPc'[d] = callPc[d] /\ at'[d] = at[d],
             callPc'[c] \in {"waiting", "acquire", "ttl", "register", "invoke"} => at'[c] = 1,
             callPc'[c] = "done" => \A h \in Handlers : ran[msg[c]][h] > 0,
             \A m \in Message : entry'[m] = "success" =>
                 entry[m] = "success" \/ \A h \in Handlers : ran[m][h] > 0
      PROVE  EntryInv'
  <2>1. ASSUME NEW d \in Call
        PROVE  /\ callPc'[d] \in {"waiting", "acquire", "ttl", "register"} => at'[d] = 1
               /\ callPc'[d] = "invoke" => \A h \in Handlers : h < at'[d] => ran'[msg[d]][h] > 0
               /\ callPc'[d] = "done" => \A h \in Handlers : ran'[msg[d]][h] > 0
    <3>1. CASE d = c
      <4>1. \A h \in Handlers : ~(h < 1)
        OBVIOUS
      <4> QED
        BY <1>0, <3>1, <4>1
    <3>2. CASE d # c
      BY <1>0, <3>2
    <3> QED
      BY <3>1, <3>2
  <2>2. \A m \in Message : entry'[m] = "success" => \A h \in Handlers : ran'[m][h] > 0
    BY <1>0
  <2> QED
    BY <1>0, <2>1, <2>2
<1>1. ASSUME NEW c \in Call, Redis!Enter(c) \/ Memory!Enter(c) PROVE EntryInv'
  BY <1>1, ZenonT(60) DEF Redis!Enter, Memory!Enter, Redis!Goto, Memory!Goto
<1>2. ASSUME NEW c \in Call, Redis!Acquire(c) \/ Memory!Acquire(c) PROVE EntryInv'
  <2>1. /\ msg' = msg /\ ran' = ran /\ at' = at
        /\ entry' = entry \/ entry' = [entry EXCEPT ![msg[c]] = "processing"]
        /\ callPc'[c] \in {"ttl", "invoke", "duplicate"} /\ at[c] = 1
        /\ \A d \in Call : d # c => callPc'[d] = callPc[d]
    BY <1>2 DEF Redis!Acquire, Memory!Acquire, Redis!Goto, Memory!Goto
  <2>2. \A m \in Message : entry'[m] = "success" =>
            entry[m] = "success" \/ \A h \in Handlers : ran[m][h] > 0
    BY <2>1
  <2>3. /\ callPc'[c] # "done" /\ at'[c] = 1
        /\ \A d \in Call : d # c => callPc'[d] = callPc[d] /\ at'[d] = at[d]
    BY <2>1
  <2> QED
    BY <1>0, <2>1, <2>2, <2>3
<1>3. ASSUME NEW c \in Call, Redis!SetTtl(c) \/ Memory!SetTtl(c) PROVE EntryInv'
  BY <1>3, SMTT(30) DEF Redis!SetTtl, Memory!SetTtl, Redis!Goto, Memory!Goto
<1>4. ASSUME NEW c \in Call, Redis!Register(c) \/ Memory!Register(c) PROVE EntryInv'
  <2>1. /\ msg' = msg /\ ran' = ran /\ at' = at
        /\ entry' = [entry EXCEPT ![msg[c]] = "processing"]
        /\ callPc'[c] = "invoke" /\ at[c] = 1
        /\ \A d \in Call : d # c => callPc'[d] = callPc[d]
    BY <1>4 DEF Redis!Register, Memory!Register, Redis!Goto, Memory!Goto
  <2>2. \A m \in Message : entry'[m] = "success" =>
            entry[m] = "success" \/ \A h \in Handlers : ran[m][h] > 0
    BY <2>1
  <2> QED
    BY <1>0, <2>1, <2>2
<1>5. ASSUME NEW c \in Call, Redis!HandlerReturns(c) \/ Memory!HandlerReturns(c)
      PROVE  EntryInv'
  <2>1. /\ msg' = msg /\ callPc' = callPc /\ entry' = entry /\ callPc[c] = "invoke"
        /\ at' = [at EXCEPT ![c] = at[c] + 1]
        /\ ran' = [ran EXCEPT ![msg[c]][at[c]] = @ + 1]
        /\ at[c] \in Handlers /\ msg[c] \in Message
    BY <1>5 DEF Redis!HandlerReturns, Memory!HandlerReturns, Redis!HandlerNo, Memory!HandlerNo
  <2>2. \A m \in Message, h \in Handlers : ran[m][h] > 0 => ran'[m][h] > 0
    BY <2>1
  <2>3. ran'[msg[c]][at[c]] > 0
    BY <2>1
  <2>4. \A h \in Handlers : h < at[c] + 1 => h < at[c] \/ h = at[c]
    BY <2>1
  <2> QED
    BY <2>1, <2>2, <2>3, <2>4, ZenonT(60)
<1>6. ASSUME NEW c \in Call, Redis!HandlersReturned(c) \/ Memory!HandlersReturned(c)
      PROVE  EntryInv'
  <2>1. \A h \in Handlers : ran[msg[c]][h] > 0
    BY <1>6 DEF Redis!HandlersReturned, Memory!HandlersReturned
  <2> QED
    BY <1>6, <2>1, ZenonT(60)
    DEF Redis!HandlersReturned, Memory!HandlersReturned, Redis!Goto, Memory!Goto
<1>7. ASSUME NEW c \in Call, Redis!Retry(c) \/ Memory!Retry(c)
      PROVE  /\ at'[c] = 1 /\ callPc'[c] \in {"failed", "invoke"}
             /\ \A d \in Call : d # c => callPc'[d] = callPc[d] /\ at'[d] = at[d]
  BY <1>7, SMTT(30) DEF Redis!Retry, Memory!Retry, Redis!Goto, Memory!Goto
<1>8. ASSUME NEW c \in Call, Redis!HandlerRaises(c) \/ Memory!HandlerRaises(c)
      PROVE  EntryInv'
  <2>1. msg' = msg /\ ran' = ran /\ entry' = entry
    BY <1>8 DEF Redis!HandlerRaises, Memory!HandlerRaises
  <2> QED
    BY <1>7, <1>8, <2>1 DEF Redis!HandlerRaises, Memory!HandlerRaises
<1>9. ASSUME NEW c \in Call, Redis!MarkDone(c) \/ Memory!MarkDone(c) PROVE EntryInv'
  <2>1. /\ msg' = msg /\ ran' = ran /\ at' = at
        /\ entry' = [entry EXCEPT ![msg[c]] = "success"] /\ callPc[c] = "done"
        /\ callPc'[c] = "success"
        /\ \A d \in Call : d # c => callPc'[d] = callPc[d]
    BY <1>9 DEF Redis!MarkDone, Memory!MarkDone, Redis!Goto, Memory!Goto
  <2>2. \A m \in Message : entry'[m] = "success" =>
            entry[m] = "success" \/ \A h \in Handlers : ran[m][h] > 0
    BY <2>1
  <2> QED
    BY <1>0, <2>1, <2>2, SMTT(30)
<1>10. ASSUME NEW c \in Call, Redis!MarkFailed(c) \/ Memory!MarkFailed(c) PROVE EntryInv'
  <2>1. /\ msg' = msg /\ ran' = ran /\ at' = at
        /\ entry' = [entry EXCEPT ![msg[c]] = "failed"]
        /\ callPc'[c] = "sink"
        /\ \A d \in Call : d # c => callPc'[d] = callPc[d]
    BY <1>10 DEF Redis!MarkFailed, Memory!MarkFailed, Redis!Goto, Memory!Goto
  <2>2. \A m \in Message : entry'[m] = "success" =>
            entry[m] = "success" \/ \A h \in Handlers : ran[m][h] > 0
    BY <2>1
  <2> QED
    BY <1>0, <2>1, <2>2
<1>11. ASSUME NEW c \in Call, Redis!SendToSink(c) \/ Memory!SendToSink(c) PROVE EntryInv'
  BY <1>11, ZenonT(60) DEF Redis!SendToSink, Memory!SendToSink, Redis!Goto, Memory!Goto
<1>12. ASSUME NEW c \in Call, Redis!MarkDoneRaises(c) \/ Memory!MarkDoneRaises(c)
       PROVE  EntryInv'
  <2>1. /\ msg' = msg /\ ran' = ran /\ callPc[c] = "done"
        /\ entry' = entry \/ entry' = [entry EXCEPT ![msg[c]] = "success"]
    BY <1>12 DEF Redis!MarkDoneRaises, Memory!MarkDoneRaises
  <2>2. \A h \in Handlers : ran[msg[c]][h] > 0
    BY <2>1
  <2>3. \A m \in Message : entry'[m] = "success" =>
            entry[m] = "success" \/ \A h \in Handlers : ran[m][h] > 0
    BY <2>1, <2>2, SMTT(30)
  <2>4. /\ at'[c] = 1 /\ callPc'[c] # "done"
        /\ \A d \in Call : d # c => callPc'[d] = callPc[d] /\ at'[d] = at[d]
    BY <1>7, <1>12 DEF Redis!MarkDoneRaises, Memory!MarkDoneRaises
  <2> QED
    BY <1>0, <2>1, <2>2, <2>3, <2>4
<1>13. ASSUME NEW c \in Call, Redis!Abort(c) \/ Memory!Abort(c) PROVE EntryInv'
  BY <1>13, ZenonT(60) DEF Redis!Abort, Memory!Abort, Redis!Goto, Memory!Goto
<1>14. ASSUME NEW m \in Message, Redis!LockExpires(m) \/ Memory!LockExpires(m)
       PROVE  EntryInv'
  BY <1>14 DEF Redis!LockExpires, Memory!LockExpires
<1>15. CASE UNCHANGED queueVars
  BY <1>15 DEF queueVars
<1> QED
  BY <1>1, <1>2, <1>3, <1>4, <1>5, <1>6, <1>8, <1>9, <1>10, <1>11, <1>12, <1>13, <1>14, <1>15
  DEF Redis!Next, Memory!Next, Redis!Step, Memory!Step, Redis!vars, Memory!vars, queueVars

\* As long as the lock of a message has not run out, what its one call says is so.
LEMMA FirstKept ==
    ASSUME QueueInv, QueueShape', Redis!Next \/ Memory!Next
    PROVE  FirstInv'
<1> USE DEF QueueInv
<1>0. ASSUME NEW c \in Call, Goes(c), callPc[c] # "dead_letter",
             \A m \in dead' : m \in dead \/ (m = msg[c] /\ callPc'[c] = "dead_letter"),
             \A m \in Message : entry'[m] = entry[m] \/ (m = msg[c] /\ callPc[c] \in Behind),
             expiries[msg[c]] = 0 /\ callPc'[c] \in {"sink", "dead_letter"}
                 => entry'[msg[c]] = "failed"
      PROVE  FirstInv'
  <2> SUFFICES ASSUME NEW m \in Message, expiries[m] = 0
               PROVE  /\ \A x, y \in Took(m)' : x = y
                      /\ lock'[m] = "free" => Took(m)' = {}
                      /\ m \in dead' => \E x \in Took(m)' : callPc'[x] = "dead_letter"
                      /\ \A x \in Took(m)' : callPc'[x] \in {"sink", "dead_letter"}
                                                 => entry'[m] = "failed"
    BY <1>0 DEF FirstInv, Goes
  <2>1. Took(m)' = Took(m)
    BY <1>0, GoingOnKeepsCounts
  <2>2. /\ \A x, y \in Took(m) : x = y
        /\ lock[m] = "free" => Took(m) = {}
        /\ m \in dead => \E x \in Took(m) : callPc[x] = "dead_letter"
        /\ \A x \in Took(m) : callPc[x] \in {"sink", "dead_letter"} => entry[m] = "failed"
    BY DEF FirstInv
  <2>3. lock'[m] = "free" => lock[m] = "free"
    BY <1>0 DEF Goes
  <2>4. \A x \in Took(m) : x \in Call /\ msg[x] = m /\ (x # c => callPc'[x] = callPc[x])
    BY <1>0 DEF Took, Goes
  <2>5. m = msg[c] /\ callPc[c] \in Behind => c \in Took(m)
    BY DEF Took
  <2>6. m \in dead' => \E x \in Took(m) : callPc'[x] = "dead_letter"
    <3>1. CASE m \in dead
      BY <1>0, <2>2, <2>4, <3>1
    <3>2. CASE m \notin dead /\ m \in dead'
      <4>1. m = msg[c] /\ callPc'[c] = "dead_letter"
        BY <1>0, <3>2
      <4>2. callPc[c] \in Behind
        BY <1>0, <4>1 DEF Goes, Behind
      <4> QED
        BY <2>5, <4>1, <4>2
    <3> QED
      BY <3>1, <3>2
  <2>7. ASSUME NEW x \in Took(m), callPc'[x] \in {"sink", "dead_letter"}
        PROVE  entry'[m] = "failed"
    <3>1. CASE x = c
      BY <1>0, <2>4, <2>7, <3>1
    <3>2. CASE x # c
      <4>1. entry[m] = "failed"
        BY <2>2, <2>4, <2>7, <3>2
      <4>2. ~(m = msg[c] /\ callPc[c] \in Behind)
        BY <2>2, <2>5, <3>2
      <4> QED
        BY <1>0, <4>1, <4>2
    <3> QED
      BY <3>1, <3>2
  <2> QED
    BY <2>1, <2>2, <2>3, <2>6, <2>7
<1> USE DEF QueueShape, Labels, Behind, Working, Beginning
<1>1. ASSUME NEW c \in Call, Redis!Acquire(c) \/ Memory!Acquire(c) PROVE FirstInv'
  <2>1. CASE lock[msg[c]] # "free"
    <3>1. /\ callPc[c] = "acquire" /\ callPc' = [callPc EXCEPT ![c] = "duplicate"]
          /\ UNCHANGED <<msg, attempt, at, lock, entry, ran, dead, expiries>>
      BY <1>1, <2>1 DEF Redis!Acquire, Memory!Acquire, Redis!Goto, Memory!Goto
    <3>2. Goes(c)
      BY <3>1 DEF Goes
    <3> QED
      BY <1>0, <3>1, <3>2
  <2>2. CASE lock[msg[c]] = "free"
    <3>1. /\ msg' = msg /\ expiries' = expiries /\ dead' = dead
          /\ callPc[c] = "acquire" /\ callPc'[c] \in {"ttl", "invoke"}
          /\ \A d \in Call : d # c => callPc'[d] = callPc[d]
          /\ lock'[msg[c]] # "free"
          /\ \A m \in Message : m # msg[c] => lock'[m] = lock[m] /\ entry'[m] = entry[m]
      BY <1>1, <2>2 DEF Redis!Acquire, Memory!Acquire, Redis!Goto, Memory!Goto
    <3>2. ASSUME NEW m \in Message, m # msg[c] PROVE Took(m)' = Took(m)
      BY <3>1, <3>2 DEF Took
    <3>3. ASSUME NEW m \in Message, m # msg[c], NEW x \in Took(m)
          PROVE  callPc'[x] = callPc[x]
      BY <3>1, <3>3 DEF Took
    <3>4. expiries[msg[c]] = 0 => Took(msg[c]) = {} /\ msg[c] \notin dead
      BY <2>2 DEF FirstInv
    <3>5. Took(msg[c])' \subseteq Took(msg[c]) \union {c}
      BY <3>1 DEF Took
    <3> SUFFICES ASSUME NEW m \in Message, expiries[m] = 0
                 PROVE  /\ \A x, y \in Took(m)' : x = y
                        /\ lock'[m] = "free" => Took(m)' = {}
                        /\ m \in dead' => \E x \in Took(m)' : callPc'[x] = "dead_letter"
                        /\ \A x \in Took(m)' : callPc'[x] \in {"sink", "dead_letter"}
                                                   => entry'[m] = "failed"
      BY <3>1 DEF FirstInv
    <3>6. CASE m = msg[c]
      <4>1. Took(m)' \subseteq {c} /\ m \notin dead'
        BY <3>1, <3>4, <3>5, <3>6
      <4>2. lock'[m] # "free" /\ callPc'[c] \notin {"sink", "dead_letter"}
        BY <3>1, <3>6
      <4> QED
        BY <4>1, <4>2
    <3>7. CASE m # msg[c]
      BY <3>1, <3>2, <3>3, <3>7 DEF FirstInv
    <3> QED
      BY <3>6, <3>7
  <2> QED
    BY <2>1, <2>2
<1>2. ASSUME NEW c \in Call, Redis!HandlerReturns(c) \/ Memory!HandlerReturns(c)
      PROVE  FirstInv'
  <2>1. UNCHANGED <<msg, callPc, lock, entry, dead, expiries>>
    BY <1>2 DEF Redis!HandlerReturns, Memory!HandlerReturns
  <2> QED
    BY <2>1 DEF FirstInv, Took
<1>3. ASSUME NEW n \in Message, Redis!LockExpires(n) \/ Memory!LockExpires(n)
      PROVE  FirstInv'
  <2>1. /\ UNCHANGED <<msg, callPc, entry, dead>>
        /\ expiries'[n] # 0
        /\ \A m \in Message : m # n => lock'[m] = lock[m] /\ expiries'[m] = expiries[m]
    BY <1>3, QueueBounds DEF Redis!LockExpires, Memory!LockExpires
  <2>2. \A m : Took(m)' = Took(m)
    BY <2>1 DEF Took
  <2> SUFFICES ASSUME NEW m \in Message, expiries'[m] = 0
               PROVE  /\ \A x, y \in Took(m)' : x = y
                      /\ lock'[m] = "free" => Took(m)' = {}
                      /\ m \in dead' => \E x \in Took(m)' : callPc'[x] = "dead_letter"
                      /\ \A x \in Took(m)' : callPc'[x] \in {"sink", "dead_letter"}
                                                 => entry'[m] = "failed"
    BY DEF FirstInv
  <2>3. expiries[m] = 0 /\ lock'[m] = lock[m]
    BY <2>1
  <2> QED
    BY <2>1, <2>2, <2>3 DEF FirstInv
<1>4. CASE UNCHANGED queueVars
  BY <1>4 DEF queueVars, FirstInv, Took
<1>5. ASSUME NEW c \in Call,
             \/ Redis!Enter(c) \/ Memory!Enter(c)
             \/ Redis!SetTtl(c) \/ Memory!SetTtl(c)
             \/ Redis!HandlersReturned(c) \/ Memory!HandlersReturned(c)
             \/ Redis!HandlerRaises(c) \/ Memory!HandlerRaises(c)
             \/ Redis!Abort(c) \/ Memory!Abort(c)
      PROVE  FirstInv'
  <2>1. Goes(c)
    BY <1>5, GoingOn
  <2>2. entry' = entry /\ dead' = dead /\ callPc'[c] \notin {"sink", "dead_letter"}
        /\ callPc[c] # "dead_letter"
    BY <1>5 DEF Redis!Enter, Memory!Enter, Redis!SetTtl, Memory!SetTtl, Redis!HandlersReturned,
                Memory!HandlersReturned, Redis!HandlerRaises, Memory!HandlerRaises, Redis!Abort,
                Memory!Abort, Redis!Retry, Memory!Retry, Redis!Goto, Memory!Goto,
                Redis!Holding, Memory!Holding
  <2> QED
    BY <1>0, <2>1, <2>2
<1>6. ASSUME NEW c \in Call,
             \/ Redis!Register(c) \/ Memory!Register(c)
             \/ Redis!MarkDone(c) \/ Memory!MarkDone(c)
             \/ Redis!MarkDoneRaises(c) \/ Memory!MarkDoneRaises(c)
      PROVE  FirstInv'
  <2>1. Goes(c)
    BY <1>6, GoingOn
  <2>2. /\ dead' = dead /\ callPc[c] \in {"register", "done"}
        /\ callPc'[c] \notin {"sink", "dead_letter"}
        /\ \A m \in Message : m # msg[c] => entry'[m] = entry[m]
    BY <1>6 DEF Redis!Register, Memory!Register, Redis!MarkDone, Memory!MarkDone,
                Redis!MarkDoneRaises, Memory!MarkDoneRaises, Redis!Retry, Memory!Retry,
                Redis!Goto, Memory!Goto
  <2> QED
    BY <1>0, <2>1, <2>2
<1>7. ASSUME NEW c \in Call, Redis!MarkFailed(c) \/ Memory!MarkFailed(c) PROVE FirstInv'
  <2>1. Goes(c)
    BY <1>7, GoingOn
  <2>2. /\ dead' = dead /\ callPc[c] = "failed" /\ callPc'[c] = "sink"
        /\ entry'[msg[c]] = "failed"
        /\ \A m \in Message : m # msg[c] => entry'[m] = entry[m]
    BY <1>7 DEF Redis!MarkFailed, Memory!MarkFailed, Redis!Goto, Memory!Goto
  <2> QED
    BY <1>0, <2>1, <2>2
<1>8. ASSUME NEW c \in Call, Redis!SendToSink(c) \/ Memory!SendToSink(c) PROVE FirstInv'
  <2>1. Goes(c)
    BY <1>8, GoingOn
  <2>2. /\ dead' = dead \union {msg[c]} /\ callPc[c] = "sink" /\ callPc'[c] = "dead_letter"
        /\ entry' = entry
    BY <1>8 DEF Redis!SendToSink, Memory!SendToSink, Redis!Goto, Memory!Goto
  <2>3. expiries[msg[c]] = 0 => entry[msg[c]] = "failed"
    <3>1. c \in Took(msg[c])
      BY <2>2 DEF Took
    <3> QED
      BY <2>2, <3>1 DEF FirstInv
  <2> QED
    BY <1>0, <2>1, <2>2, <2>3
<1> QED
  BY <1>1, <1>2, <1>3, <1>4, <1>5, <1>6, <1>7, <1>8
  DEF Redis!Next, Memory!Next, Redis!Step, Memory!Step, Redis!vars, Memory!vars, queueVars

\* Nothing changes when nothing does.
LEMMA QueueRests == QueueInv /\ UNCHANGED queueVars => QueueInv'
<1> SUFFICES ASSUME QueueInv, UNCHANGED queueVars PROVE QueueInv'
  OBVIOUS
<1>1. \A m, h : Took(m)' = Took(m) /\ Tries(m, h)' = Tries(m, h)
                    /\ Facing(m, h)' = Facing(m, h)
  BY DEF queueVars, Took, Tries, Tried, Facing
<1>2. CountInv' /\ FirstInv'
  BY <1>1 DEF QueueInv, CountInv, FirstInv, queueVars
<1> QED
  BY <1>2 DEF QueueInv, QueueShape, EntryInv, queueVars

\* The invariant is inductive, over either store.
LEMMA QueueKept == QueueInv /\ (Redis!Next \/ Memory!Next) => QueueInv'
<1> SUFFICES ASSUME QueueInv, Redis!Next \/ Memory!Next PROVE QueueInv'
  OBVIOUS
<1>1. QueueShape' /\ EntryInv' /\ FirstInv'
  <2>1. QueueShape'
    BY ShapeKept DEF QueueInv
  <2> QED
    BY <2>1, EntryKept, FirstKept
<1>2. ASSUME NEW c \in Call, Goes(c) PROVE CountInv'
  BY <1>1, <1>2, GoingOnKeepsCounts DEF QueueInv
<1>3. ASSUME UNCHANGED queueVars PROVE CountInv'
  <2>1. \A m, h : Took(m)' = Took(m) /\ Tries(m, h)' = Tries(m, h)
                      /\ Facing(m, h)' = Facing(m, h)
    BY <1>3 DEF queueVars, Took, Tries, Tried, Facing
  <2> QED
    BY <1>3, <2>1 DEF QueueInv, CountInv, queueVars
<1>4. CountInv'
  BY <1>1, <1>2, <1>3, GoingOn, TakingKeepsCounts, ReturningKeepsCounts, ExpiryKeepsCounts
  DEF Redis!Next, Memory!Next, Redis!Step, Memory!Step, Redis!vars, Memory!vars, queueVars
<1> QED
  BY <1>1, <1>4 DEF QueueInv

\* What the run asks of the processor, apart from the types.
Truthful ==
    /\ Redis!OneCallPerMessage
    /\ Redis!SuccessMeansHandled
    /\ Redis!DeadIsNotSuccess
    /\ Redis!HandlerRunsBounded
    /\ Redis!RegistrationOrderKept

\* The invariant says all of it.
LEMMA QueueInvSuffices == QueueInv => Truthful
<1> SUFFICES ASSUME QueueInv PROVE Truthful
  OBVIOUS
<1> USE DEF QueueInv
<1>1. \A m \in Message : expiries[m] \in Nat
  BY QueueBounds DEF QueueShape
<1>2. Redis!OneCallPerMessage
  <2> SUFFICES ASSUME NEW c \in Call, NEW d \in Call, c # d, msg[c] = msg[d],
                      callPc[c] \in Redis!Holding, callPc[d] \in Redis!Holding
               PROVE  expiries[msg[c]] > 0
    BY DEF Redis!OneCallPerMessage
  <2>1. c \in Took(msg[c]) /\ d \in Took(msg[c])
    BY DEF Took, Redis!Holding, Behind, Working, Beginning
  <2>2. msg[c] \in Message
    BY DEF QueueShape
  <2>3. expiries[msg[c]] # 0
    BY <2>1, <2>2 DEF FirstInv
  <2> QED
    BY <1>1, <2>2, <2>3
<1>3. Redis!SuccessMeansHandled
  BY DEF Redis!SuccessMeansHandled, Redis!HandlerNo, Handlers, EntryInv
<1>4. Redis!DeadIsNotSuccess
  <2> SUFFICES ASSUME NEW m \in dead, entry[m] = "success" PROVE expiries[m] > 0
    BY DEF Redis!DeadIsNotSuccess
  <2>1. m \in Message
    BY DEF QueueShape
  <2>2. expiries[m] # 0
    BY <2>1 DEF FirstInv
  <2> QED
    BY <1>1, <2>1, <2>2
<1>5. Redis!HandlerRunsBounded
  <2> SUFFICES ASSUME NEW m \in Message, NEW h \in Handlers
               PROVE  ran[m][h] <= (MaxHandlerRetries + 1) * (1 + expiries[m])
    BY DEF Redis!HandlerRunsBounded, Redis!HandlerNo, Handlers
  <2> DEFINE a == Cardinality(Took(m))
             b == 1 + expiries[m]
             k == MaxHandlerRetries + 1
  <2>1. a \in Nat /\ b \in Nat /\ k \in Nat
    BY <1>1, QueueBounds, CountsAreFinite
  <2>2. a <= b
    <3>1. a <= expiries[m] + (IF lock[m] = "free" THEN 0 ELSE 1)
      BY DEF CountInv
    <3> QED
      BY <1>1, <2>1, <3>1
  <2>3. /\ ran[m][h] \in Nat
        /\ ran[m][h] <= Cardinality(Tries(m, h))
    BY DEF QueueShape, CountInv
  <2>4. Cardinality(Tries(m, h)) \in Nat /\ Cardinality(Tries(m, h)) <= a * k
    BY CountsAreFinite
  <2> HIDE DEF a, b, k
  <2>5. a * k <= k * b
    <3>1. PICK r \in Nat : b = a + r
      <4>1. b - a \in Nat /\ b = a + (b - a)
        BY <2>1, <2>2
      <4> QED
        BY <4>1
    <3>2. k * b = a * k + k * r /\ k * r \in Nat /\ a * k \in Nat
      BY <2>1, <3>1
    <3> QED
      BY <3>2
  <2>6. a * k \in Nat /\ k * b \in Nat
    BY <2>1
  <2>7. ran[m][h] <= k * b
    BY <2>3, <2>4, <2>5, <2>6
  <2> QED
    BY <2>7 DEF b, k
<1>6. Redis!RegistrationOrderKept
  <2> SUFFICES ASSUME NEW m \in Message, NEW h \in Handlers, h > 1
               PROVE  ran[m][h] <= ran[m][h - 1]
    BY DEF Redis!RegistrationOrderKept, Redis!HandlerNo, Handlers
  <2>1. h - 1 \in Handlers
    BY QueueBounds DEF Handlers
  <2>2. /\ ran[m][h] \in Nat /\ ran[m][h - 1] \in Nat
        /\ ran[m][h] + Cardinality(Facing(m, h)) <= ran[m][h - 1]
    BY <2>1 DEF QueueShape, CountInv
  <2> QED
    BY <2>2, CountsAreFinite
<1> QED
  BY <1>2, <1>3, <1>4, <1>5, <1>6 DEF Truthful

\* The types of either processor are those of the invariant and a bounded count of faults.
LEMMA QueueTypes ==
    ASSUME QueueInv
    PROVE  /\ callFaults \in 0..MaxRedisFaults => Redis!TypeOK
           /\ callFaults \in 0..MaxMemoryFaults => Memory!TypeOK
<1>1. QueueShape
  BY DEF QueueInv
<1>2. callPc \in [Call -> {"waiting", "acquire"} \union Redis!Holding \union Redis!Ended]
  BY <1>1 DEF QueueShape, Labels, Behind, Working, Beginning, Redis!Holding, Redis!Ended
<1>3. /\ ran \in [Message -> [Redis!HandlerNo -> Nat]]
      /\ attempt \in [Call -> 1..MaxHandlerRetries + 1]
      /\ at \in [Call -> 1..NumHandlers + 1]
      /\ expiries \in [Message -> 0..MaxExpiries]
      /\ lock \in [Message -> {"free", "held", "expiring"}]
      /\ entry \in [Message -> {"none", "processing", "success", "failed"}]
      /\ dead \subseteq Message /\ msg \in [Call -> Message]
  BY <1>1 DEF QueueShape, Handlers, Attempts, Redis!HandlerNo
<1>4. callFaults \in 0..MaxRedisFaults => Redis!TypeOK
  BY <1>2, <1>3 DEF Redis!TypeOK
<1>5. callFaults \in 0..MaxMemoryFaults => Memory!TypeOK
  BY <1>2, <1>3
  DEF Memory!TypeOK, Memory!Holding, Memory!Ended, Memory!HandlerNo,
      Redis!Holding, Redis!Ended, Redis!HandlerNo
<1> QED
  BY <1>4, <1>5

\* Faults are counted up to their bound.
LEMMA RedisFaults ==
    /\ Redis!Init => callFaults \in 0..MaxRedisFaults
    /\ Redis!Next /\ callFaults \in 0..MaxRedisFaults => callFaults' \in 0..MaxRedisFaults
<1> SUFFICES ASSUME Redis!Next, callFaults \in 0..MaxRedisFaults
             PROVE  callFaults' \in 0..MaxRedisFaults
  BY QueueBounds DEF Redis!Init
<1>1. callFaults' = callFaults \/ (callFaults < MaxRedisFaults /\ callFaults' = callFaults + 1)
  BY DEF Redis!Next, Redis!Step, Redis!vars, Redis!Enter, Redis!Acquire, Redis!SetTtl,
         Redis!Register, Redis!HandlerReturns, Redis!HandlersReturned, Redis!HandlerRaises,
         Redis!MarkDone, Redis!MarkFailed, Redis!SendToSink, Redis!MarkDoneRaises, Redis!Abort,
         Redis!LockExpires
<1> QED
  BY <1>1, QueueBounds

\* The same over the in-memory store.
LEMMA MemoryFaults ==
    /\ Memory!Init => callFaults \in 0..MaxMemoryFaults
    /\ Memory!Next /\ callFaults \in 0..MaxMemoryFaults => callFaults' \in 0..MaxMemoryFaults
<1> SUFFICES ASSUME Memory!Next, callFaults \in 0..MaxMemoryFaults
             PROVE  callFaults' \in 0..MaxMemoryFaults
  BY QueueBounds DEF Memory!Init
<1>1. callFaults' = callFaults \/ (callFaults < MaxMemoryFaults /\ callFaults' = callFaults + 1)
  BY DEF Memory!Next, Memory!Step, Memory!vars, Memory!Enter, Memory!Acquire, Memory!SetTtl,
         Memory!Register, Memory!HandlerReturns, Memory!HandlersReturned, Memory!HandlerRaises,
         Memory!MarkDone, Memory!MarkFailed, Memory!SendToSink, Memory!MarkDoneRaises, Memory!Abort,
         Memory!LockExpires
<1> QED
  BY <1>1, QueueBounds

\* The locks of the in-memory store have no TTL.
LocksStay ==
    /\ \A c \in Call : callPc[c] \notin {"ttl", "register"}
    /\ \A m \in Message : lock[m] # "expiring" /\ expiries[m] = 0

\* None of them runs out.
LEMMA MemoryLocksStay ==
    /\ Memory!Init => LocksStay
    /\ QueueShape /\ LocksStay /\ Memory!Next => LocksStay'
<1> SUFFICES ASSUME QueueShape, LocksStay, Memory!Next PROVE LocksStay'
  BY DEF Memory!Init, LocksStay
<1> USE DEF LocksStay, QueueShape, Memory!Goto
<1>1. ASSUME NEW c \in Call,
             \/ Memory!Enter(c) \/ Memory!SetTtl(c) \/ Memory!Register(c)
             \/ Memory!HandlerReturns(c) \/ Memory!HandlersReturned(c) \/ Memory!MarkDone(c)
             \/ Memory!MarkFailed(c) \/ Memory!SendToSink(c) \/ Memory!Abort(c)
      PROVE  LocksStay'
  BY <1>1 DEF Memory!Enter, Memory!SetTtl, Memory!Register, Memory!HandlerReturns,
              Memory!HandlersReturned, Memory!MarkDone, Memory!MarkFailed, Memory!SendToSink,
              Memory!Abort
<1>2. ASSUME NEW c \in Call, Memory!Acquire(c) PROVE LocksStay'
  BY <1>2 DEF Memory!Acquire
<1>3. ASSUME NEW c \in Call, Memory!HandlerRaises(c) \/ Memory!MarkDoneRaises(c)
      PROVE  LocksStay'
  BY <1>3 DEF Memory!HandlerRaises, Memory!MarkDoneRaises, Memory!Retry
<1>4. ASSUME NEW m \in Message, Memory!LockExpires(m) PROVE LocksStay'
  BY <1>4 DEF Memory!LockExpires
<1> QED
  BY <1>1, <1>2, <1>3, <1>4 DEF Memory!Next, Memory!Step, Memory!vars

\* Over Redis, calls of process for messages that come several times exclude each other as
\* long as no lock runs out; what the store says of a message is what became of it, and
\* the handlers run in order and a bounded number of times (QueueProcessor.process).
THEOREM RedisIsTruthful == Redis!Spec => [](Redis!TypeOK /\ Truthful)
<1> DEFINE Inv == QueueInv /\ callFaults \in 0..MaxRedisFaults
<1>1. Redis!Init => Inv
  BY QueueInit, RedisFaults
<1>2. Inv /\ [Redis!Next]_(Redis!vars) => Inv'
  <2>1. ASSUME Inv, Redis!Next PROVE Inv'
    BY <2>1, QueueKept, RedisFaults
  <2>2. ASSUME Inv, UNCHANGED Redis!vars PROVE Inv'
    <3>1. UNCHANGED queueVars
      BY <2>2 DEF Redis!vars, queueVars
    <3>2. callFaults' = callFaults
      BY <3>1 DEF queueVars
    <3> QED
      BY <2>2, <3>1, <3>2, QueueRests
  <2> QED
    BY <2>1, <2>2
<1>3. Inv => Redis!TypeOK /\ Truthful
  BY QueueInvSuffices, QueueTypes
<1> QED
  BY <1>1, <1>2, <1>3, PTL DEF Redis!Spec

\* The same holds over the in-memory store, where no lock runs out: there the calls for a
\* message exclude each other without exception (InMemoryDeduplicationStore).
THEOREM MemoryIsTruthful ==
    Memory!Spec => [](Memory!TypeOK /\ Truthful /\ \A m \in Message : expiries[m] = 0)
<1> DEFINE Inv == QueueInv /\ LocksStay /\ callFaults \in 0..MaxMemoryFaults
<1>1. Memory!Init => Inv
  BY QueueInit, MemoryFaults, MemoryLocksStay
  DEF Redis!Init, Memory!Init, Redis!HandlerNo, Memory!HandlerNo
<1>2. Inv /\ [Memory!Next]_(Memory!vars) => Inv'
  <2>1. ASSUME Inv, Memory!Next PROVE Inv'
    BY <2>1, QueueKept, MemoryFaults, MemoryLocksStay DEF QueueInv
  <2>2. ASSUME Inv, UNCHANGED Memory!vars PROVE Inv'
    <3>1. UNCHANGED queueVars
      BY <2>2 DEF Memory!vars, queueVars
    <3>2. callFaults' = callFaults
      BY <3>1 DEF queueVars
    <3>3. LocksStay'
      BY <2>2, <3>1 DEF LocksStay, queueVars
    <3> QED
      BY <2>2, <3>1, <3>2, <3>3, QueueRests
  <2> QED
    BY <2>1, <2>2
<1>3. Inv => Memory!TypeOK /\ Truthful /\ \A m \in Message : expiries[m] = 0
  BY QueueInvSuffices, QueueTypes DEF LocksStay
<1> QED
  BY <1>1, <1>2, <1>3, PTL DEF Memory!Spec

\* In the run, where the two stores and the two ends of the outbox share the state, the
\* same holds of the processor that runs.
THEOREM QueueHolds == MCSpec => []QueueIsTruthful
<1> DEFINE Inv == part \in {"redis", "memory"} =>
                      /\ QueueInv
                      /\ part = "redis" => callFaults \in 0..MaxRedisFaults
                      /\ part = "memory" => callFaults \in 0..MaxMemoryFaults
<1>1. MCInit => Inv
  <2>1. Redis!Init => Memory!Init
    BY DEF Redis!Init, Memory!Init, Redis!HandlerNo, Memory!HandlerNo
  <2> QED
    BY <2>1, QueueInit, RedisFaults, MemoryFaults DEF MCInit
<1>2. Inv /\ [MCNext]_<<part, outboxVars, queueVars>> => Inv'
  <2> SUFFICES ASSUME Inv, [MCNext]_<<part, outboxVars, queueVars>> PROVE Inv'
    OBVIOUS
  <2>1. CASE RedisStep /\ UNCHANGED <<part, outboxVars>>
    BY <2>1, QueueKept, RedisFaults DEF RedisStep
  <2>2. CASE MemoryStep /\ UNCHANGED <<part, outboxVars>>
    BY <2>2, QueueKept, MemoryFaults DEF MemoryStep
  <2>3. CASE UNCHANGED <<part, queueVars>>
    <3>1. part' = part /\ callFaults' = callFaults /\ UNCHANGED queueVars
      BY <2>3 DEF queueVars
    <3> QED
      BY <3>1, QueueRests
  <2> QED
    BY <2>1, <2>2, <2>3 DEF MCNext
<1>3. Inv => QueueIsTruthful
  BY QueueInvSuffices, QueueTypes DEF QueueIsTruthful, Truthful
<1> QED
  BY <1>1, <1>2, <1>3, PTL DEF MCSpec

-------------------------------------------------------------------------------
\* The elements of a list.
Among(s) == {s[i] : i \in 1..Len(s)}

\* No element comes twice.
Distinct(s) == \A i, j \in 1..Len(s) : s[i] = s[j] => i = j

\* One element comes before another one.
Before(s, e, f) == \E i, j \in 1..Len(s) : i < j /\ s[i] = e /\ s[j] = f

\* The recursion of Only, as far as n.
Filtering(G, s, S, n) ==
    [i \in 0..n |-> IF i = 0 THEN <<>>
                    ELSE IF s[i] \in S THEN Append(G[i - 1], s[i]) ELSE G[i - 1]]

\* A function that does the same.
Filters(G, s, S, n) ==
    /\ DOMAIN G = 0..n
    /\ \A i \in 0..n :
          G[i] = IF i = 0 THEN <<>>
                 ELSE IF s[i] \in S THEN Append(G[i - 1], s[i]) ELSE G[i - 1]

\* What is kept of the first i elements: those in S, and each two in their order.
KeepsFrom(r, s, S, i) ==
    /\ \A k \in 1..Len(r) : \E a \in 1..i : r[k] = s[a] /\ s[a] \in S
    /\ \A a \in 1..i : s[a] \in S => \E k \in 1..Len(r) : r[k] = s[a]
    /\ \A k, l \in 1..Len(r) : k < l => \E a, b \in 1..i : a < b /\ r[k] = s[a] /\ r[l] = s[b]

\* A set of numbers has a least one.
LEMMA LeastNumber ==
    ASSUME NEW N \in SUBSET Nat, N # {}
    PROVE  \E m \in N : \A j \in N : m <= j
<1>1. PICK m \in N : \A j \in N : ~(<<j, m>> \in OpToRel(<, Nat))
  BY NatLessThanWellFounded, WFMin
<1>2. ASSUME NEW j \in N PROVE m <= j
  <2>1. ~(j < m)
    BY <1>1 DEF OpToRel
  <2> QED
    BY <2>1
<1> QED
  BY <1>2

\* There is a function that filters as far as n.
LEMMA FilterExists ==
    ASSUME NEW s, NEW S, NEW n \in Nat
    PROVE  \E G : G = Filtering(G, s, S, n)
<1> DEFINE Bad == {m \in Nat : ~\E G : Filters(G, s, S, m)}
<1>1. Bad = {}
  <2> SUFFICES ASSUME Bad # {} PROVE FALSE
    OBVIOUS
  <2>1. Bad \in SUBSET Nat
    OBVIOUS
  <2>2. PICK m \in Bad : \A k \in Bad : m <= k
    <3> HIDE DEF Bad
    <3> QED
      BY <2>1, LeastNumber
  <2>3. CASE m = 0
    <3>1. Filters([i \in 0..0 |-> <<>>], s, S, 0)
      BY DEF Filters
    <3> QED
      BY <2>3, <3>1
  <2>4. CASE m # 0
    <3>1. m - 1 \in Nat /\ m - 1 \notin Bad
      BY <2>2, <2>4
    <3>2. PICK G : Filters(G, s, S, m - 1)
      BY <3>1
    <3> DEFINE H == [i \in 0..m |-> IF i < m THEN G[i]
                       ELSE IF s[m] \in S THEN Append(G[m - 1], s[m]) ELSE G[m - 1]]
    <3>3. DOMAIN H = 0..m
      OBVIOUS
    <3>4. \A i \in 0..m : H[i] = IF i = 0 THEN <<>>
                 ELSE IF s[i] \in S THEN Append(H[i - 1], s[i]) ELSE H[i - 1]
      <4> TAKE i \in 0..m
      <4>1. CASE i < m
        <5>1. i \in 0..m - 1 /\ H[i] = G[i] /\ (i # 0 => i - 1 \in 0..m /\ i - 1 < m)
          BY <3>1, <4>1
        <5>2. i # 0 => H[i - 1] = G[i - 1]
          BY <5>1
        <5> HIDE DEF H
        <5> QED
          BY <3>2, <5>1, <5>2 DEF Filters
      <4>2. CASE i = m
        <5>1. m - 1 \in 0..m /\ m - 1 < m /\ i # 0
          BY <2>4, <3>1, <4>2
        <5>2. H[m - 1] = G[m - 1]
          BY <5>1
        <5> QED
          BY <4>2, <5>1, <5>2
      <4> QED
        BY <4>1, <4>2
    <3> HIDE DEF H
    <3>5. Filters(H, s, S, m)
      BY <3>3, <3>4 DEF Filters
    <3> QED
      BY <3>5
  <2> QED
    BY <2>3, <2>4
<1>2. PICK G : Filters(G, s, S, n)
  BY <1>1
<1> DEFINE H == [i \in 0..n |-> G[i]]
<1>3. \A i \in 0..n : i # 0 => i - 1 \in 0..n
  OBVIOUS
<1>4. H = Filtering(H, s, S, n)
  <2>1. \A i \in 0..n : H[i] = IF i = 0 THEN <<>>
                         ELSE IF s[i] \in S THEN Append(H[i - 1], s[i]) ELSE H[i - 1]
    <3> TAKE i \in 0..n
    <3>1. H[i] = G[i] /\ (i # 0 => H[i - 1] = G[i - 1])
      BY <1>3
    <3> HIDE DEF H
    <3> QED
      BY <1>2, <3>1 DEF Filters
  <2>2. H = [i \in 0..n |-> H[i]]
    OBVIOUS
  <2> HIDE DEF H
  <2> QED
    BY <2>1, <2>2 DEF Filtering
<1> QED
  BY <1>4

\* Only keeps the elements that are in S, each two in their order.
LEMMA OnlyKeeps ==
    ASSUME NEW D, NEW s \in Seq(D), NEW S
    PROVE  Only(s, S) \in Seq(D) /\ KeepsFrom(Only(s, S), s, S, Len(s))
<1> DEFINE F == CHOOSE G : G = Filtering(G, s, S, Len(s))
<1>1. Only(s, S) = F[Len(s)]
  BY DEF Only, Filtering
<1>2. Len(s) \in Nat /\ \A i \in 1..Len(s) : s[i] \in D
  OBVIOUS
<1>3. F = Filtering(F, s, S, Len(s))
  <2>1. Len(s) \in Nat
    BY <1>2
  <2> QED
    BY <2>1, FilterExists
<1>4. /\ F[0] = <<>>
      /\ \A i \in 1..Len(s) : F[i] = IF s[i] \in S THEN Append(F[i - 1], s[i]) ELSE F[i - 1]
  <2> HIDE DEF F
  <2>1. \A i \in 0..Len(s) : F[i] = IF i = 0 THEN <<>>
                         ELSE IF s[i] \in S THEN Append(F[i - 1], s[i]) ELSE F[i - 1]
    BY <1>3 DEF Filtering
  <2> QED
    BY <1>2, <2>1
<1> HIDE DEF F
<1> DEFINE Bad == {m \in Nat : m <= Len(s) /\ ~(F[m] \in Seq(D) /\ KeepsFrom(F[m], s, S, m))}
<1>5. Bad = {}
  <2> SUFFICES ASSUME Bad # {} PROVE FALSE
    OBVIOUS
  <2>0. Bad \in SUBSET Nat
    OBVIOUS
  <2>1. PICK m \in Bad : \A k \in Bad : m <= k
    <3> HIDE DEF Bad
    <3> QED
      BY <2>0, LeastNumber
  <2>2. m \in Nat /\ m <= Len(s) /\ \A k \in Bad : m <= k
    BY <2>1
  <2>3. CASE m = 0
    <3>1. F[0] \in Seq(D) /\ KeepsFrom(F[0], s, S, 0)
      BY <1>4 DEF KeepsFrom
    <3> QED
      BY <2>1, <2>3, <3>1
  <2>4. CASE m # 0
    <3>1. m - 1 \in Nat /\ m - 1 <= Len(s) /\ m - 1 \notin Bad /\ m \in 1..Len(s)
      BY <1>2, <2>2, <2>4
    <3> DEFINE g == F[m - 1]
               x == s[m]
    <3>2. g \in Seq(D) /\ KeepsFrom(g, s, S, m - 1) /\ x \in D
      BY <1>2, <3>1
    <3>3. F[m] = IF x \in S THEN Append(g, x) ELSE g
      BY <1>4, <3>1
    <3> HIDE DEF Bad, g
    <3>4. CASE x \notin S
      <4>1. KeepsFrom(g, s, S, m)
        BY <2>2, <2>4, <3>2, <3>4 DEF KeepsFrom
      <4> QED
        BY <2>1, <3>2, <3>3, <3>4, <4>1 DEF Bad
    <3>5. CASE x \in S
      <4> DEFINE h == Append(g, x)
      <4>1. /\ h \in Seq(D) /\ Len(h) = Len(g) + 1 /\ Len(g) \in Nat
            /\ \A i \in 1..Len(g) : h[i] = g[i]
            /\ h[Len(g) + 1] = x
        BY <3>2, AppendProperties
      <4>2. F[m] = h
        BY <3>3, <3>5
      <4> HIDE DEF h
      <4>3. \A k \in 1..Len(h) : k \in 1..Len(g) \/ k = Len(g) + 1
        BY <4>1
      <4>4. ASSUME NEW k \in 1..Len(h) PROVE \E a \in 1..m : h[k] = s[a] /\ s[a] \in S
        <5>1. CASE k = Len(g) + 1
          <6>1. m \in 1..m
            BY <2>2, <2>4
          <6> QED
            BY <3>5, <4>1, <5>1, <6>1 DEF x
        <5>2. CASE k \in 1..Len(g)
          <6>1. PICK a \in 1..m - 1 : g[k] = s[a] /\ s[a] \in S
            BY <3>2, <5>2 DEF KeepsFrom
          <6>2. a \in 1..m
            BY <2>2
          <6> QED
            BY <4>1, <5>2, <6>1, <6>2
        <5> QED
          BY <4>3, <5>1, <5>2
      <4>5. \A a \in 1..m : s[a] \in S => \E k \in 1..Len(h) : h[k] = s[a]
        <5> TAKE a \in 1..m
        <5>1. CASE a = m
          BY <4>1, <5>1
        <5>2. CASE a \in 1..m - 1
          <6>1. s[a] \in S => \E k \in 1..Len(g) : g[k] = s[a]
            BY <3>2, <5>2 DEF KeepsFrom
          <6> QED
            BY <4>1, <6>1
        <5> QED
          BY <2>2, <5>1, <5>2
      <4>6. ASSUME NEW k \in 1..Len(h), NEW l \in 1..Len(h), k < l
            PROVE  \E a, b \in 1..m : a < b /\ h[k] = s[a] /\ h[l] = s[b]
        <5>1. k \in 1..Len(g) /\ h[k] = g[k]
          BY <4>1, <4>6
        <5>2. CASE l = Len(g) + 1
          <6>1. PICK a \in 1..m - 1 : g[k] = s[a]
            BY <3>2, <5>1 DEF KeepsFrom
          <6>2. a \in 1..m /\ m \in 1..m /\ a < m
            BY <2>2, <2>4
          <6> QED
            BY <4>1, <5>1, <5>2, <6>1, <6>2
        <5>3. CASE l \in 1..Len(g)
          <6>1. PICK a, b \in 1..m - 1 : a < b /\ g[k] = s[a] /\ g[l] = s[b]
            BY <3>2, <4>6, <5>1, <5>3 DEF KeepsFrom
          <6>2. a \in 1..m /\ b \in 1..m
            BY <2>2
          <6> QED
            BY <4>1, <5>1, <5>3, <6>1, <6>2
        <5> QED
          BY <4>3, <5>2, <5>3
      <4>7. KeepsFrom(h, s, S, m)
        BY <4>4, <4>5, <4>6 DEF KeepsFrom
      <4> QED
        BY <2>1, <4>1, <4>2, <4>7 DEF Bad
    <3> QED
      BY <3>4, <3>5
  <2> QED
    BY <2>3, <2>4
<1> QED
  BY <1>1, <1>2, <1>5

\* Of a list without repetitions Only keeps the order, and no element twice.
LEMMA OnlyOrders ==
    ASSUME NEW D, NEW s \in Seq(D), NEW S, Distinct(s)
    PROVE  /\ Only(s, S) \in Seq(D) /\ Distinct(Only(s, S))
           /\ Among(Only(s, S)) = Among(s) \cap S
           /\ \A e, f \in S : Before(s, e, f) => Before(Only(s, S), e, f)
<1> DEFINE r == Only(s, S)
<1>1. r \in Seq(D) /\ KeepsFrom(r, s, S, Len(s)) /\ Len(r) \in Nat /\ Len(s) \in Nat
  BY OnlyKeeps
<1> HIDE DEF r
<1>2. Among(r) = Among(s) \cap S
  <2>1. ASSUME NEW x \in Among(r) PROVE x \in Among(s) /\ x \in S
    <3>1. PICK k \in 1..Len(r) : x = r[k]
      BY <2>1 DEF Among
    <3>2. PICK a \in 1..Len(s) : r[k] = s[a] /\ s[a] \in S
      BY <1>1 DEF KeepsFrom
    <3> QED
      BY <3>1, <3>2 DEF Among
  <2>2. ASSUME NEW x \in Among(s), x \in S PROVE x \in Among(r)
    <3>1. PICK a \in 1..Len(s) : x = s[a]
      BY <2>2 DEF Among
    <3>2. PICK k \in 1..Len(r) : r[k] = s[a]
      BY <1>1, <2>2, <3>1 DEF KeepsFrom
    <3> QED
      BY <3>1, <3>2 DEF Among
  <2> QED
    BY <2>1, <2>2
<1>3. ASSUME NEW i \in 1..Len(r), NEW j \in 1..Len(r), i < j PROVE r[i] # r[j]
  <2>1. PICK a, b \in 1..Len(s) : a < b /\ r[i] = s[a] /\ r[j] = s[b]
    BY <1>1, <1>3 DEF KeepsFrom
  <2>2. a # b
    BY <2>1
  <2> QED
    BY <2>1, <2>2 DEF Distinct
<1>4. Distinct(r)
  <2> SUFFICES ASSUME NEW i \in 1..Len(r), NEW j \in 1..Len(r), r[i] = r[j], i # j PROVE FALSE
    BY DEF Distinct
  <2>1. i < j \/ j < i
    BY <1>1
  <2> QED
    BY <1>3, <2>1
<1>5. ASSUME NEW e \in S, NEW f \in S, Before(s, e, f) PROVE Before(r, e, f)
  <2>1. PICK a, b \in 1..Len(s) : a < b /\ s[a] = e /\ s[b] = f
    BY <1>5 DEF Before
  <2>2. PICK i \in 1..Len(r) : r[i] = e
    BY <1>1, <2>1 DEF KeepsFrom
  <2>3. PICK j \in 1..Len(r) : r[j] = f
    BY <1>1, <2>1 DEF KeepsFrom
  <2>4. ~(j < i)
    <3> SUFFICES ASSUME j < i PROVE FALSE
      OBVIOUS
    <3>1. PICK c, d \in 1..Len(s) : c < d /\ r[j] = s[c] /\ r[i] = s[d]
      BY <1>1 DEF KeepsFrom
    <3>2. c = b /\ d = a
      BY <2>1, <2>2, <2>3, <3>1 DEF Distinct
    <3> QED
      BY <1>1, <2>1, <3>1, <3>2
  <2>5. i # j
    <3>1. a # b
      BY <1>1, <2>1
    <3> QED
      BY <2>1, <2>2, <2>3, <3>1 DEF Distinct
  <2>6. i < j
    BY <1>1, <2>4, <2>5
  <2> QED
    BY <2>2, <2>3, <2>6 DEF Before
<1> QED
  BY <1>1, <1>2, <1>4, <1>5 DEF r

\* The first n elements of a list.
LEMMA TakeKeeps ==
    ASSUME NEW D, NEW s \in Seq(D), NEW n \in Nat, Distinct(s)
    PROVE  /\ Take(s, n) \in Seq(D) /\ Distinct(Take(s, n))
           /\ Among(Take(s, n)) \subseteq Among(s)
           /\ n # 0 /\ s # <<>> => Take(s, n) # <<>>
           /\ \A e, f : Before(s, e, f) /\ f \in Among(Take(s, n)) => Before(Take(s, n), e, f)
<1> DEFINE m == IF Len(s) < n THEN Len(s) ELSE n
           t == SubSeq(s, 1, m)
<1>1. m \in Nat /\ m <= Len(s) /\ Len(s) \in Nat /\ (n # 0 /\ s # <<>> => m > 0)
  OBVIOUS
<1>2. Take(s, n) = t
  BY DEF Take
<1> HIDE DEF m
<1>3. \A i \in 1..m : i \in 1..Len(s) /\ s[i] \in D
  BY <1>1
<1>4. t \in Seq(D) /\ Len(t) = m /\ \A i \in 1..m : t[i] = s[i]
  BY <1>1, <1>3
<1> HIDE DEF t
<1>5. Distinct(t)
  BY <1>3, <1>4 DEF Distinct
<1>6. Among(t) \subseteq Among(s)
  BY <1>3, <1>4 DEF Among
<1>7. n # 0 /\ s # <<>> => t # <<>>
  BY <1>1, <1>4
<1>8. ASSUME NEW e, NEW f, Before(s, e, f), f \in Among(t) PROVE Before(t, e, f)
  <2>1. PICK a, b \in 1..Len(s) : a < b /\ s[a] = e /\ s[b] = f
    BY <1>8 DEF Before
  <2>2. PICK j \in 1..m : t[j] = f
    BY <1>4, <1>8 DEF Among
  <2>3. b = j
    BY <1>3, <1>4, <2>1, <2>2 DEF Distinct
  <2>4. a \in 1..m
    BY <1>1, <2>1, <2>3
  <2>5. t[a] = e
    BY <1>4, <2>1, <2>4
  <2> QED
    BY <1>4, <2>1, <2>2, <2>3, <2>4, <2>5 DEF Before
<1> QED
  BY <1>2, <1>5, <1>6, <1>7, <1>8, <1>4

\* The elements behind the first n.
LEMMA DropKeeps ==
    ASSUME NEW D, NEW s \in Seq(D), NEW n \in 0..Len(s), Distinct(s)
    PROVE  /\ Drop(s, n) \in Seq(D) /\ Distinct(Drop(s, n))
           /\ Among(Drop(s, n)) = {s[i] : i \in n + 1..Len(s)}
<1> DEFINE t == SubSeq(s, n + 1, Len(s))
<1>1. n \in Nat /\ Len(s) \in Nat /\ n <= Len(s) /\ Drop(s, n) = t
  BY DEF Drop
<1>2. \A i \in n + 1..Len(s) : i \in 1..Len(s) /\ s[i] \in D
  BY <1>1
<1>3. /\ t \in Seq(D) /\ Len(t) = Len(s) - n
      /\ \A i \in 1..Len(s) - n : t[i] = s[n + i]
  <2>1. n + 1 \in Int /\ Len(s) \in Int
    BY <1>1
  <2>2. /\ t \in Seq(D)
        /\ Len(t) = IF n + 1 <= Len(s) THEN Len(s) - (n + 1) + 1 ELSE 0
        /\ \A i \in 1..Len(s) - (n + 1) + 1 : t[i] = s[(n + 1) + i - 1]
    BY <1>2, <2>1, SubSeqProperties
  <2>3. \A i \in 1..Len(s) - n : i \in 1..Len(s) - (n + 1) + 1 /\ (n + 1) + i - 1 = n + i
    BY <1>1
  <2> HIDE DEF t
  <2> QED
    BY <1>1, <2>2, <2>3
<1> HIDE DEF t
<1>4. Distinct(t)
  <2> SUFFICES ASSUME NEW i \in 1..Len(s) - n, NEW j \in 1..Len(s) - n, t[i] = t[j]
               PROVE  i = j
    BY <1>3 DEF Distinct
  <2>1. n + i \in 1..Len(s) /\ n + j \in 1..Len(s) /\ s[n + i] = s[n + j]
    BY <1>1, <1>3
  <2>2. n + i = n + j
    BY <2>1 DEF Distinct
  <2> QED
    BY <1>1, <2>2
<1>5. ASSUME NEW x \in Among(t) PROVE x \in {s[i] : i \in n + 1..Len(s)}
  <2>1. PICK i \in 1..Len(s) - n : x = s[n + i]
    BY <1>3, <1>5 DEF Among
  <2>2. n + i \in n + 1..Len(s)
    BY <1>1
  <2> QED
    BY <2>1, <2>2
<1>6. ASSUME NEW i \in n + 1..Len(s) PROVE s[i] \in Among(t)
  <2>1. i - n \in 1..Len(s) - n /\ n + (i - n) = i
    BY <1>1
  <2>2. t[i - n] = s[i]
    BY <1>3, <2>1
  <2> QED
    BY <1>3, <2>1, <2>2 DEF Among
<1> QED
  BY <1>1, <1>3, <1>4, <1>5, <1>6

\* The places of an event in a list of deliveries.
Places(s, e) == {i \in 1..Len(s) : s[i] = e}

\* They are finitely many.
LEMMA PlacesAreFinite ==
    ASSUME NEW s \in Seq(Event), NEW e
    PROVE  IsFiniteSet(Places(s, e)) /\ Cardinality(Places(s, e)) \in Nat
<1>1. Len(s) \in Nat
  OBVIOUS
<1>2. IsFiniteSet(1..Len(s))
  BY <1>1, FS_Interval
<1>3. Places(s, e) \subseteq 1..Len(s)
  BY DEF Places
<1> QED
  BY <1>2, <1>3, FS_Subset, FS_CardinalityType

\* What a request without repetitions adds to the deliveries of an event.
LEMMA DeliveriesGrow ==
    ASSUME NEW r \in Seq(Event), NEW a \in Seq(Event), Distinct(a), NEW e
    PROVE  /\ Places(r \o a, e) = Places(r, e) \union {Len(r) + j : j \in Places(a, e)}
           /\ Cardinality(Places(r \o a, e)) <= Cardinality(Places(r, e)) + 1
           /\ e \notin Among(a) => Places(r \o a, e) = Places(r, e)
<1> DEFINE L == Len(r)
           both == r \o a
<1>1. /\ L \in Nat /\ Len(a) \in Nat /\ Len(both) = L + Len(a)
      /\ \A i \in 1..L : both[i] = r[i]
      /\ \A j \in 1..Len(a) : both[L + j] = a[j]
  BY ConcatProperties
<1> HIDE DEF L, both
<1>2. \A i \in 1..L + Len(a) : i \in 1..L \/ (i - L \in 1..Len(a) /\ i = L + (i - L))
  BY <1>1
<1>3. /\ \A i \in 1..L : i \in 1..L + Len(a)
      /\ \A j \in 1..Len(a) : L + j \in 1..L + Len(a)
  BY <1>1
<1>4. Places(both, e) = Places(r, e) \union {L + j : j \in Places(a, e)}
  <2>1. ASSUME NEW i \in Places(both, e)
        PROVE  i \in Places(r, e) \union {L + j : j \in Places(a, e)}
    <3>1. i \in 1..L + Len(a) /\ both[i] = e
      BY <1>1, <2>1 DEF Places
    <3>2. CASE i \in 1..L
      BY <1>1, <3>1, <3>2 DEF Places, L
    <3>3. CASE i - L \in 1..Len(a) /\ i = L + (i - L)
      <4>1. a[i - L] = e
        BY <1>1, <3>1, <3>3
      <4> QED
        BY <3>3, <4>1 DEF Places
    <3> QED
      BY <1>2, <3>1, <3>2, <3>3
  <2>2. ASSUME NEW i \in Places(r, e) PROVE i \in Places(both, e)
    BY <1>1, <1>3, <2>2 DEF Places, L
  <2>3. ASSUME NEW j \in Places(a, e) PROVE L + j \in Places(both, e)
    <3>1. j \in 1..Len(a) /\ a[j] = e
      BY <2>3 DEF Places
    <3>2. L + j \in 1..Len(both) /\ both[L + j] = e
      BY <1>1, <1>3, <3>1
    <3> QED
      BY <3>2 DEF Places
  <2> QED
    BY <2>1, <2>2, <2>3
<1>5. e \notin Among(a) => Places(a, e) = {}
  BY DEF Places, Among
<1>6. IsFiniteSet(Places(r, e)) /\ Cardinality(Places(r, e)) \in Nat
  BY PlacesAreFinite
<1>7. Cardinality(Places(both, e)) <= Cardinality(Places(r, e)) + 1
  <2>1. CASE Places(a, e) = {}
    <3>1. Places(both, e) = Places(r, e)
      BY <1>4, <2>1
    <3> QED
      BY <1>6, <3>1
  <2>2. CASE Places(a, e) # {}
    <3>1. PICK j : j \in Places(a, e)
      BY <2>2
    <3>2. \A k \in Places(a, e) : k = j
      BY <3>1 DEF Places, Distinct
    <3>3. Places(both, e) = Places(r, e) \union {L + j}
      BY <1>4, <3>1, <3>2
    <3>4. Cardinality(Places(r, e) \union {L + j}) \in
              {Cardinality(Places(r, e)), Cardinality(Places(r, e)) + 1}
      BY <1>6, FS_AddElement
    <3> QED
      BY <1>6, <3>3, <3>4
  <2> QED
    BY <2>1, <2>2
<1> QED
  BY <1>4, <1>5, <1>7 DEF L, both

\* The list holds what is pending before one of its events in the order of the store, if it
\* has the same topic.
Ordered(list) ==
    \A e \in Event, f \in Among(list) :
        Before(saved, e, f) /\ status[e] = "pending" /\ TopicOf[e] = TopicOf[f]
            => Before(list, e, f)

\* Each event is saved once, and has a status from then on.
SavedInv ==
    /\ Distinct(saved)
    /\ \A e \in Event : status[e] = "absent" <=> e \notin Among(saved)

\* What is fetched is pending, and so is the group until it is sent and until each is marked.
CycleInv ==
    /\ pc \in {"idle", "stopped"} => fetched = <<>> /\ group = <<>> /\ todo = <<>>
    /\ pc \in {"send", "mark", "fail"} => todo # <<>>
    /\ Distinct(group) /\ Distinct(fetched) /\ Distinct(todo)
    /\ Among(todo) \subseteq Among(group)
    /\ \A e \in Among(fetched) : status[e] = "pending" /\ e \notin Among(group)
    /\ \A e \in Among(group) : status[e] # "absent"
    /\ pc = "send" => \A e \in Among(group) : status[e] = "pending"
    /\ pc = "mark" => \A e \in Among(todo) : status[e] = "pending"

\* The event went out in this cycle and waits for its mark.
Out(e) ==
    \/ pc = "mark" /\ e \in Among(todo)
    \/ pc = "send" /\ e \in Among(group) /\ e \notin Among(todo)

\* One delivery for each fault, and one more for an event that went out or is settled.
CountedInv ==
    \A e \in Event :
        /\ Cardinality(Places(received, e)) <= 1 + faults
        /\ status[e] \in {"absent", "pending"} /\ ~Out(e)
               => Cardinality(Places(received, e)) <= faults

\* Over both brokers.
RelayInv == TypeOK /\ SavedInv /\ CycleInv /\ CountedInv

\* What the store says of an event is what the broker got of it.
StatusInv ==
    \A e \in Event :
        /\ status[e] = "published" => Places(received, e) # {}
        /\ status[e] = "absent" => Places(received, e) = {}

\* The first delivery of an event comes before those of younger ones of its topic.
FirstInOrder ==
    \A e, f \in Event :
        Before(saved, e, f) /\ TopicOf[e] = TopicOf[f] /\ Places(received, f) # {}
            => \/ status[e] \in {"failed", "dead_letter"}
               \/ \E k \in Places(received, e) : \A l \in Places(received, f) : k < l

\* Over Service Bus, where a group goes out at once.
BusInv ==
    /\ pc = "send" => todo = group /\ Ordered(group)
    /\ pc = "mark" => \A e \in Among(todo) : Places(received, e) # {}
    /\ Ordered(fetched)
    /\ StatusInv
    /\ FirstInOrder

-------------------------------------------------------------------------------
\* A request that the broker took, as a whole or in part.
Adds(a) ==
    /\ a \in Seq(Event) /\ Distinct(a) /\ Among(a) \subseteq Among(todo)
    /\ received' = received \o a

\* A request: all that is left of the group, or a chunk of it.
Sending ==
    /\ pc = "send"
    /\ \E a, rest \in Seq(Event) :
          /\ Adds(a)
          /\ Distinct(rest) /\ Among(rest) \subseteq Among(todo) \ Among(a)
          /\ IF rest = <<>> THEN pc' = "mark" /\ todo' = group ELSE pc' = pc /\ todo' = rest
    /\ UNCHANGED <<store, fetched, group, faults>>

\* A request that raises.
Raising ==
    /\ pc = "send" /\ faults < MaxFaults /\ faults' = faults + 1
    /\ \E a \in Seq(Event) : Adds(a)
    /\ pc' = "fail" /\ todo' = group
    /\ UNCHANGED <<store, fetched, group>>

\* A cancellation at any await.
Cancelling ==
    /\ pc # "stopped" /\ faults < MaxFaults /\ faults' = faults + 1
    /\ \/ UNCHANGED received
       \/ pc = "send" /\ \E a \in Seq(Event) : Adds(a)
    /\ EndCycle("stopped")
    /\ UNCHANGED store

\* A step of the relay or of a publisher, over either broker.
Move ==
    \/ \E e \in Event : Publish(e)
    \/ Fetch \/ Sending \/ Raising \/ Cancelling \/ StoreRaises
    \/ MarkPublished \/ MarkFailed \/ Restart

\* What a group and what is left of the cycle are made of.
GroupTaken(events) ==
    /\ pc' = "send" /\ todo' = group' /\ todo' # <<>>
    /\ fetched' \in Seq(Event) /\ group' \in Seq(Event)
    /\ Distinct(group') /\ Distinct(fetched')
    /\ Among(group') \subseteq Among(events) /\ Among(fetched') \subseteq Among(events)
    /\ \A e \in Among(fetched') : e \notin Among(group')
    /\ \A e, f \in Event : TopicOf[e] = TopicOf[f] /\ Before(events, e, f) =>
          /\ f \in Among(group') => Before(group', e, f)
          /\ f \in Among(fetched') => Before(fetched', e, f)

\* A cycle that is over.
CycleOver(label) == pc' = label /\ fetched' = <<>> /\ group' = <<>> /\ todo' = <<>>

\* The empty list holds nothing.
LEMMA EmptyList ==
    /\ <<>> \in Seq(Event) /\ Distinct(<<>>) /\ Among(<<>>) = {}
    /\ \A e : Places(<<>>, e) = {}
  BY DEF Distinct, Among, Places

\* The relay takes the events of the first topic, and leaves the others in their order.
LEMMA TakesGroup ==
    ASSUME NEW events \in Seq(Event), events # <<>>, Distinct(events), TakeGroup(events)
    PROVE  GroupTaken(events)
<1> DEFINE same == {e \in Event : TopicOf[e] = TopicOf[Head(events)]}
           other == Event \ same
<1>1. /\ group' = Only(events, same) /\ todo' = group' /\ fetched' = Only(events, other)
      /\ pc' = "send"
  BY DEF TakeGroup
<1>2. /\ group' \in Seq(Event) /\ Distinct(group') /\ Among(group') = Among(events) \cap same
      /\ \A e, f \in same : Before(events, e, f) => Before(group', e, f)
  <2> HIDE DEF same, other
  <2> QED
    BY <1>1, OnlyOrders
<1>3. /\ fetched' \in Seq(Event) /\ Distinct(fetched') /\ Among(fetched') = Among(events) \cap other
      /\ \A e, f \in other : Before(events, e, f) => Before(fetched', e, f)
  <2> HIDE DEF same, other
  <2> QED
    BY <1>1, OnlyOrders
<1>4. Head(events) \in Among(events) /\ Head(events) \in same
  <2>1. 1 \in 1..Len(events) /\ Head(events) = events[1] /\ events[1] \in Event
    OBVIOUS
  <2> QED
    BY <2>1 DEF Among
<1>5. group' # <<>>
  BY <1>2, <1>4, EmptyList
<1>6. ASSUME NEW e \in Event, NEW f \in Event, TopicOf[e] = TopicOf[f], Before(events, e, f)
      PROVE  /\ f \in Among(group') => Before(group', e, f)
             /\ f \in Among(fetched') => Before(fetched', e, f)
  <2>1. e \in same <=> f \in same
    BY <1>6
  <2> QED
    BY <1>2, <1>3, <1>6, <2>1
<1> QED
  BY <1>1, <1>2, <1>3, <1>5, <1>6 DEF GroupTaken

\* A cycle goes on with the next group, or is over.
LEMMA GoesOn ==
    ASSUME TypeOK, CycleInv, NextGroup
    PROVE  CycleOver("idle") \/ GroupTaken(fetched)
<1>1. fetched \in Seq(Event)
  BY DEF TypeOK
<1> QED
  BY <1>1, TakesGroup DEF NextGroup, EndCycle, CycleOver, CycleInv

\* All elements but the first.
LEMMA TailKeeps ==
    ASSUME NEW s \in Seq(Event), s # <<>>, Distinct(s)
    PROVE  /\ Tail(s) \in Seq(Event) /\ Distinct(Tail(s))
           /\ Head(s) \in Among(s) /\ Head(s) \in Event
           /\ Among(Tail(s)) = Among(s) \ {Head(s)}
<1>1. /\ Len(s) \in Nat /\ Len(s) >= 1 /\ Head(s) = s[1]
      /\ Tail(s) \in Seq(Event) /\ Len(Tail(s)) = Len(s) - 1
      /\ \A i \in 1..Len(s) - 1 : Tail(s)[i] = s[i + 1]
      /\ \A i \in 1..Len(s) : s[i] \in Event
  BY HeadTailProperties
<1>2. \A i \in 1..Len(s) - 1 : i + 1 \in 1..Len(s)
  BY <1>1
<1>3. Distinct(Tail(s))
  <2> SUFFICES ASSUME NEW i \in 1..Len(s) - 1, NEW j \in 1..Len(s) - 1, s[i + 1] = s[j + 1]
               PROVE  i = j
    BY <1>1 DEF Distinct
  <2>1. i + 1 = j + 1
    BY <1>2 DEF Distinct
  <2> QED
    BY <1>1, <2>1
<1>4. 1 \in 1..Len(s)
  BY <1>1
<1>5. ASSUME NEW x \in Among(Tail(s)) PROVE x \in Among(s) /\ x # Head(s)
  <2>1. PICK i \in 1..Len(s) - 1 : x = s[i + 1]
    BY <1>1, <1>5 DEF Among
  <2>2. i + 1 # 1
    BY <1>1
  <2> QED
    BY <1>1, <1>2, <1>4, <2>1, <2>2 DEF Among, Distinct
<1>6. ASSUME NEW x \in Among(s), x # Head(s) PROVE x \in Among(Tail(s))
  <2>1. PICK j \in 1..Len(s) : x = s[j]
    BY <1>6 DEF Among
  <2>2. j # 1
    BY <1>1, <1>6, <2>1
  <2>3. j - 1 \in 1..Len(s) - 1 /\ (j - 1) + 1 = j
    BY <1>1, <2>2
  <2>4. Tail(s)[j - 1] = x
    BY <1>1, <2>1, <2>3
  <2> QED
    BY <1>1, <2>3, <2>4 DEF Among
<1>7. Head(s) \in Among(s) /\ Head(s) \in Event
  BY <1>1, <1>4 DEF Among
<1>8. Among(Tail(s)) = Among(s) \ {Head(s)}
  BY <1>5, <1>6
<1> QED
  BY <1>1, <1>3, <1>7, <1>8

\* The mark of the next event of a group: more of the group is left, or it is done with.
MarksOn ==
    \/ /\ Tail(todo) # <<>> /\ todo' = Tail(todo)
       /\ pc' = pc /\ fetched' = fetched /\ group' = group
    \/ /\ Among(todo) = {Head(todo)}
       /\ CycleOver("idle") \/ GroupTaken(fetched)

\* What the code does after a mark is one of the two.
LEMMA MarkingGoesOn ==
    ASSUME TypeOK, CycleInv, todo # <<>>, AfterMark
    PROVE  MarksOn
<1>1. todo \in Seq(Event) /\ Distinct(todo)
  BY DEF TypeOK, CycleInv
<1>2. CASE Tail(todo) = <<>>
  <2>1. Among(todo) \ {Head(todo)} = {} /\ Head(todo) \in Among(todo)
    BY <1>1, <1>2, TailKeeps, EmptyList
  <2>2. NextGroup
    BY <1>2 DEF AfterMark
  <2> QED
    BY <2>1, <2>2, GoesOn DEF MarksOn
<1>3. CASE Tail(todo) # <<>>
  BY <1>3 DEF AfterMark, MarksOn
<1> QED
  BY <1>2, <1>3

\* What get_pending hands out.
LEMMA OldestPending ==
    ASSUME TypeOK, SavedInv
    PROVE  /\ GetPending \in Seq(Event) /\ Distinct(GetPending)
           /\ \A e \in Among(GetPending) : e \in Event /\ status[e] = "pending"
           /\ \A e \in Event, f \in Among(GetPending) :
                 Before(saved, e, f) /\ status[e] = "pending" => Before(GetPending, e, f)
<1> DEFINE p == Only(saved, Pending)
<1>1. saved \in Seq(Event) /\ Distinct(saved)
  BY DEF TypeOK, SavedInv
<1>2. /\ p \in Seq(Event) /\ Distinct(p) /\ Among(p) = Among(saved) \cap Pending
      /\ \A e, f \in Pending : Before(saved, e, f) => Before(p, e, f)
  BY <1>1, OnlyOrders
<1>3. BatchSize \in Nat
  BY SizeAssumption
<1> HIDE DEF p
<1>4. /\ Take(p, BatchSize) \in Seq(Event) /\ Distinct(Take(p, BatchSize))
      /\ Among(Take(p, BatchSize)) \subseteq Among(p)
      /\ \A e, f : Before(p, e, f) /\ f \in Among(Take(p, BatchSize))
                      => Before(Take(p, BatchSize), e, f)
  BY <1>2, <1>3, TakeKeeps
<1>5. GetPending = Take(p, BatchSize)
  BY DEF GetPending, p
<1>6. \A e \in Among(GetPending) : e \in Event /\ status[e] = "pending" /\ e \in Pending
  BY <1>2, <1>4, <1>5 DEF Pending
<1>7. ASSUME NEW e \in Event, NEW f \in Among(GetPending), Before(saved, e, f),
             status[e] = "pending"
      PROVE  Before(GetPending, e, f)
  <2>1. e \in Pending /\ f \in Pending
    BY <1>6, <1>7 DEF Pending
  <2> QED
    BY <1>2, <1>4, <1>5, <1>7, <2>1
<1> QED
  BY <1>4, <1>5, <1>6, <1>7

\* The lists of the relay after a step that goes on with a group, ends it, or takes one.
LEMMA ListsAreTyped ==
    ASSUME TypeOK, CycleOver("idle") \/ CycleOver("stopped") \/ (\E ev : GroupTaken(ev))
    PROVE  /\ pc' \in {"idle", "send", "mark", "fail", "stopped"}
           /\ fetched' \in Seq(Event) /\ group' \in Seq(Event) /\ todo' \in Seq(Event)
<1>1. CASE CycleOver("idle") \/ CycleOver("stopped")
  BY <1>1, EmptyList DEF CycleOver
<1>2. CASE \E ev : GroupTaken(ev)
  BY <1>2 DEF GroupTaken
<1> QED
  BY <1>1, <1>2

\* A mark leaves lists of events.
LEMMA MarkingTypes ==
    ASSUME TypeOK, CycleInv, todo # <<>>, MarksOn
    PROVE  /\ pc' \in {"idle", "send", "mark", "fail", "stopped"}
           /\ fetched' \in Seq(Event) /\ group' \in Seq(Event) /\ todo' \in Seq(Event)
<1>1. CASE Tail(todo) # <<>> /\ todo' = Tail(todo) /\ pc' = pc /\ fetched' = fetched
           /\ group' = group
  <2>1. Tail(todo) \in Seq(Event)
    BY TailKeeps DEF TypeOK, CycleInv
  <2> QED
    BY <1>1, <2>1 DEF TypeOK
<1>2. CASE CycleOver("idle") \/ GroupTaken(fetched)
  BY <1>2, ListsAreTyped
<1> QED
  BY <1>1, <1>2 DEF MarksOn

\* What the broker has is a list of events.
LEMMA RequestTypes ==
    ASSUME TypeOK, NEW a \in Seq(Event), received' = received \o a
    PROVE  received' \in Seq(Event)
  BY ConcatProperties DEF TypeOK

\* Every step of the relay over either broker keeps the types.
LEMMA TypesKept == RelayInv /\ Move => TypeOK'
<1> SUFFICES ASSUME RelayInv, Move PROVE TypeOK'
  OBVIOUS
<1>0. /\ TypeOK /\ SavedInv /\ CycleInv
      /\ saved \in Seq(Event) /\ received \in Seq(Event)
      /\ status \in [Event -> {"absent", "pending", "published", "failed", "dead_letter"}]
      /\ retries \in [Event -> Nat] /\ faults \in 0..MaxFaults /\ MaxFaults \in Nat
      /\ fetched \in Seq(Event) /\ group \in Seq(Event) /\ todo \in Seq(Event)
      /\ pc \in {"idle", "send", "mark", "fail", "stopped"}
  BY BoundAssumption DEF RelayInv, TypeOK
<1>1. ASSUME NEW e \in Event, Publish(e) PROVE TypeOK'
  <2>1. saved' \in Seq(Event)
    BY <1>0, <1>1, AppendProperties DEF Publish
  <2>2. status' \in [Event -> {"absent", "pending", "published", "failed", "dead_letter"}]
    BY <1>0, <1>1 DEF Publish
  <2> QED
    BY <1>0, <1>1, <2>1, <2>2 DEF Publish, TypeOK, relay
<1>2. CASE Fetch
  <2>1. GroupTaken(GetPending)
    BY <1>0, <1>2, OldestPending, TakesGroup DEF Fetch
  <2>2. /\ pc' \in {"idle", "send", "mark", "fail", "stopped"}
        /\ fetched' \in Seq(Event) /\ group' \in Seq(Event) /\ todo' \in Seq(Event)
    BY <1>0, <2>1, ListsAreTyped
  <2> QED
    BY <1>0, <1>2, <2>2 DEF Fetch, TypeOK, store
<1>3. CASE Sending
  <2>1. received' \in Seq(Event) /\ todo' \in Seq(Event)
    BY <1>0, <1>3, RequestTypes DEF Sending, Adds
  <2>2. pc' \in {"idle", "send", "mark", "fail", "stopped"}
    BY <1>0, <1>3 DEF Sending
  <2> QED
    BY <1>0, <1>3, <2>1, <2>2 DEF Sending, TypeOK, store
<1>4. CASE Raising
  <2>1. received' \in Seq(Event)
    BY <1>0, <1>4, RequestTypes DEF Raising, Adds
  <2>2. faults' \in 0..MaxFaults
    BY <1>0, <1>4 DEF Raising
  <2> QED
    BY <1>0, <1>4, <2>1, <2>2 DEF Raising, TypeOK, store
<1>5. CASE Cancelling
  <2>1. received' \in Seq(Event)
    BY <1>0, <1>5, RequestTypes DEF Cancelling, Adds
  <2>2. faults' \in 0..MaxFaults
    BY <1>0, <1>5 DEF Cancelling
  <2>3. /\ pc' \in {"idle", "send", "mark", "fail", "stopped"}
        /\ fetched' \in Seq(Event) /\ group' \in Seq(Event) /\ todo' \in Seq(Event)
    BY <1>0, <1>5, ListsAreTyped DEF Cancelling, EndCycle, CycleOver
  <2> QED
    BY <1>0, <1>5, <2>1, <2>2, <2>3 DEF Cancelling, TypeOK, store
<1>6. CASE StoreRaises
  <2>1. faults' \in 0..MaxFaults
    BY <1>0, <1>6 DEF StoreRaises
  <2>2. /\ pc' \in {"idle", "send", "mark", "fail", "stopped"}
        /\ fetched' \in Seq(Event) /\ group' \in Seq(Event) /\ todo' \in Seq(Event)
    BY <1>0, <1>6, EmptyList DEF StoreRaises, EndCycle
  <2> QED
    BY <1>0, <1>6, <2>1, <2>2 DEF StoreRaises, TypeOK, store
<1>7. CASE MarkPublished
  <2>1. todo # <<>>
    BY <1>0, <1>7 DEF MarkPublished, CycleInv
  <2>2. /\ pc' \in {"idle", "send", "mark", "fail", "stopped"}
        /\ fetched' \in Seq(Event) /\ group' \in Seq(Event) /\ todo' \in Seq(Event)
    BY <1>0, <1>7, <2>1, MarkingGoesOn, MarkingTypes DEF MarkPublished
  <2>3. status' \in [Event -> {"absent", "pending", "published", "failed", "dead_letter"}]
    BY <1>0, <1>7 DEF MarkPublished
  <2> QED
    BY <1>0, <1>7, <2>2, <2>3 DEF MarkPublished, TypeOK
<1>8. CASE MarkFailed
  <2>1. todo # <<>>
    BY <1>0, <1>8 DEF MarkFailed, CycleInv
  <2>2. /\ pc' \in {"idle", "send", "mark", "fail", "stopped"}
        /\ fetched' \in Seq(Event) /\ group' \in Seq(Event) /\ todo' \in Seq(Event)
    BY <1>0, <1>8, <2>1, MarkingGoesOn, MarkingTypes DEF MarkFailed
  <2>3. status' \in [Event -> {"absent", "pending", "published", "failed", "dead_letter"}]
    BY <1>0, <1>8 DEF MarkFailed
  <2>4. retries' \in [Event -> Nat]
    <3>1. Head(todo) \in Event /\ retries[Head(todo)] \in Nat
      BY <1>0, <2>1, TailKeeps DEF CycleInv
    <3>2. retries' = [retries EXCEPT ![Head(todo)] = retries[Head(todo)] + 1]
      BY <1>8 DEF MarkFailed
    <3>3. retries[Head(todo)] + 1 \in Nat
      BY <3>1
    <3> QED
      BY <1>0, <3>2, <3>3
  <2> QED
    BY <1>0, <1>8, <2>2, <2>3, <2>4 DEF MarkFailed, TypeOK
<1>9. CASE Restart
  <2>1. /\ pc' \in {"idle", "send", "mark", "fail", "stopped"}
        /\ fetched' \in Seq(Event) /\ group' \in Seq(Event) /\ todo' \in Seq(Event)
    BY <1>0, <1>9, EmptyList DEF Restart, EndCycle
  <2> QED
    BY <1>0, <1>9, <2>1 DEF Restart, TypeOK, store
<1> QED
  BY <1>1, <1>2, <1>3, <1>4, <1>5, <1>6, <1>7, <1>8, <1>9 DEF Move

\* What a step does to the store: nothing, a new event, or a mark.
StoreMove ==
    \/ saved' = saved /\ status' = status
    \/ \E e \in Event : /\ status[e] = "absent" /\ saved' = Append(saved, e)
                        /\ status' = [status EXCEPT ![e] = "pending"]
                        /\ received' = received /\ pc' = pc /\ fetched' = fetched
                        /\ group' = group /\ todo' = todo /\ faults' = faults
    \/ /\ saved' = saved /\ received' = received /\ faults' = faults
       /\ todo # <<>> /\ Head(todo) \in Among(todo) /\ Head(todo) \in Event
       /\ \E new \in {"published", "failed", "dead_letter"} :
             /\ status' = [status EXCEPT ![Head(todo)] = new]
             /\ pc \in {"mark", "fail"} /\ (new = "published" <=> pc = "mark")
       /\ MarksOn

\* No step does anything else to the store.
LEMMA StoreMoves == RelayInv /\ Move => StoreMove
<1> SUFFICES ASSUME RelayInv, Move PROVE StoreMove
  OBVIOUS
<1>0. TypeOK /\ CycleInv
  BY DEF RelayInv
<1>1. ASSUME NEW e \in Event, Publish(e) PROVE StoreMove
  BY <1>1 DEF Publish, StoreMove, relay
<1>2. CASE Fetch \/ Sending \/ Raising \/ Cancelling \/ StoreRaises \/ Restart
  <2>1. UNCHANGED store
    BY <1>2 DEF Fetch, Sending, Raising, Cancelling, StoreRaises, Restart
  <2> QED
    BY <2>1 DEF StoreMove, store
<1>3. CASE MarkPublished \/ MarkFailed
  <2>1. todo # <<>> /\ pc \in {"mark", "fail"} /\ AfterMark
    BY <1>0, <1>3 DEF MarkPublished, MarkFailed, CycleInv
  <2>2. Head(todo) \in Among(todo) /\ Head(todo) \in Event
    BY <1>0, <2>1, TailKeeps DEF TypeOK, CycleInv
  <2>3. MarksOn
    BY <1>0, <2>1, MarkingGoesOn
  <2>4. \E new \in {"published", "failed", "dead_letter"} :
             /\ status' = [status EXCEPT ![Head(todo)] = new]
             /\ (new = "published" <=> pc = "mark")
    BY <1>3 DEF MarkPublished, MarkFailed
  <2>5. saved' = saved /\ received' = received /\ faults' = faults
    BY <1>3 DEF MarkPublished, MarkFailed
  <2> QED
    BY <2>1, <2>2, <2>3, <2>4, <2>5 DEF StoreMove
<1> QED
  BY <1>1, <1>2, <1>3 DEF Move

\* An event that is saved comes behind all others.
LEMMA AppendedList ==
    ASSUME NEW s \in Seq(Event), NEW e \in Event, e \notin Among(s), Distinct(s)
    PROVE  /\ Distinct(Append(s, e)) /\ Among(Append(s, e)) = Among(s) \union {e}
           /\ \A x, y : y # e => (Before(Append(s, e), x, y) => Before(s, x, y))
           /\ \A x, y : Before(s, x, y) => Before(Append(s, e), x, y)
<1> DEFINE t == Append(s, e)
<1>1. /\ Len(s) \in Nat /\ Len(t) = Len(s) + 1 /\ t[Len(s) + 1] = e
      /\ \A i \in 1..Len(s) : t[i] = s[i]
  BY AppendProperties
<1> HIDE DEF t
<1>2. \A i \in 1..Len(t) : i \in 1..Len(s) \/ i = Len(s) + 1
  BY <1>1
<1>3. \A i \in 1..Len(s) : i \in 1..Len(t) /\ s[i] # e
  BY <1>1 DEF Among
<1>4. Distinct(t)
  BY <1>1, <1>2, <1>3 DEF Distinct
<1>5. Len(s) + 1 \in 1..Len(t)
  BY <1>1
<1>6. Among(t) = Among(s) \union {e}
  BY <1>1, <1>2, <1>3, <1>5 DEF Among
<1>7. ASSUME NEW x, NEW y, y # e, Before(t, x, y) PROVE Before(s, x, y)
  <2>1. PICK i, j \in 1..Len(t) : i < j /\ t[i] = x /\ t[j] = y
    BY <1>7 DEF Before
  <2>2. j \in 1..Len(s)
    BY <1>1, <1>2, <1>7, <2>1
  <2>3. i \in 1..Len(s)
    BY <1>1, <2>1, <2>2
  <2> QED
    BY <1>1, <2>1, <2>2, <2>3 DEF Before
<1>8. ASSUME NEW x, NEW y, Before(s, x, y) PROVE Before(t, x, y)
  BY <1>1, <1>3, <1>8 DEF Before
<1> QED
  BY <1>4, <1>6, <1>7, <1>8 DEF t

\* The events stay saved, each once.
LEMMA SavedKept == RelayInv /\ StoreMove => SavedInv'
<1> SUFFICES ASSUME RelayInv, StoreMove PROVE SavedInv'
  OBVIOUS
<1>0. /\ SavedInv /\ CycleInv /\ saved \in Seq(Event)
      /\ status \in [Event -> {"absent", "pending", "published", "failed", "dead_letter"}]
  BY DEF RelayInv, TypeOK
<1>1. CASE saved' = saved /\ status' = status
  BY <1>0, <1>1 DEF SavedInv, Distinct, Among
<1>2. ASSUME NEW e \in Event, status[e] = "absent", saved' = Append(saved, e),
             status' = [status EXCEPT ![e] = "pending"]
      PROVE  SavedInv'
  <2>1. e \notin Among(saved) /\ Distinct(saved)
    BY <1>0, <1>2 DEF SavedInv
  <2>2. Distinct(saved') /\ Among(saved') = Among(saved) \union {e}
    BY <1>0, <1>2, <2>1, AppendedList
  <2>3. \A x \in Event : status'[x] = IF x = e THEN "pending" ELSE status[x]
    BY <1>0, <1>2
  <2>4. \A x \in Event : status'[x] = "absent" <=> x \notin Among(saved')
    BY <1>0, <2>2, <2>3 DEF SavedInv
  <2> QED
    BY <2>2, <2>4 DEF SavedInv
<1>3. ASSUME saved' = saved, Head(todo) \in Among(todo), Head(todo) \in Event,
             NEW new \in {"published", "failed", "dead_letter"},
             status' = [status EXCEPT ![Head(todo)] = new]
      PROVE  SavedInv'
  <2>1. status[Head(todo)] # "absent"
    BY <1>0, <1>3 DEF CycleInv
  <2>2. \A x \in Event : status'[x] = IF x = Head(todo) THEN new ELSE status[x]
    BY <1>0, <1>3
  <2>3. \A x \in Event : status'[x] = "absent" <=> status[x] = "absent"
    BY <1>3, <2>1, <2>2
  <2>4. Distinct(saved') /\ Among(saved') = Among(saved)
    BY <1>0, <1>3 DEF SavedInv
  <2> QED
    BY <1>0, <2>3, <2>4 DEF SavedInv
<1> QED
  BY <1>1, <1>2, <1>3 DEF StoreMove

\* The elements of a list of events are events.
LEMMA AmongEvents == ASSUME NEW s \in Seq(Event) PROVE Among(s) \subseteq Event
  BY DEF Among

\* A group of pending events is as a group has to be.
LEMMA GroupBegins ==
    ASSUME NEW ev, GroupTaken(ev), \A e \in Among(ev) : status'[e] = "pending"
    PROVE  CycleInv'
<1>1. \A e \in Among(group') : status'[e] = "pending"
  BY DEF GroupTaken
<1>2. \A e \in Among(fetched') : status'[e] = "pending" /\ e \notin Among(group')
  BY DEF GroupTaken
<1>3. /\ pc' = "send" /\ todo' = group' /\ todo' # <<>> /\ Distinct(group') /\ Distinct(fetched')
  BY DEF GroupTaken
<1> QED
  BY <1>1, <1>2, <1>3 DEF CycleInv

\* After a cycle nothing is held.
LEMMA CycleEnds ==
    ASSUME NEW label \in {"idle", "stopped"}, CycleOver(label)
    PROVE  CycleInv'
<1>1. pc' \in {"idle", "stopped"} /\ fetched' = <<>> /\ group' = <<>> /\ todo' = <<>>
  BY DEF CycleOver
<1>2. /\ Distinct(group') /\ Distinct(fetched') /\ Distinct(todo')
      /\ Among(fetched') = {} /\ Among(group') = {} /\ Among(todo') = {}
  BY <1>1, EmptyList
<1> QED
  BY <1>1, <1>2 DEF CycleInv

\* What the relay holds stays as the store says.
LEMMA CycleKept == RelayInv /\ Move => CycleInv'
<1> SUFFICES ASSUME RelayInv, Move PROVE CycleInv'
  OBVIOUS
<1>0. /\ TypeOK /\ SavedInv /\ CycleInv
      /\ status \in [Event -> {"absent", "pending", "published", "failed", "dead_letter"}]
      /\ Among(fetched) \subseteq Event /\ Among(group) \subseteq Event
      /\ Among(todo) \subseteq Among(group)
  BY AmongEvents DEF RelayInv, TypeOK, CycleInv
<1>1. ASSUME NEW e \in Event, Publish(e) PROVE CycleInv'
  <2>1. /\ status[e] = "absent" /\ pc' = pc /\ fetched' = fetched /\ group' = group
        /\ todo' = todo
    BY <1>1 DEF Publish, relay
  <2>2. \A x \in Event : x # e => status'[x] = status[x]
    BY <1>0, <1>1 DEF Publish
  <2>3. e \notin Among(fetched) /\ e \notin Among(group)
    BY <1>0, <2>1 DEF CycleInv
  <2>4. \A x \in Among(fetched) \union Among(group) : status'[x] = status[x]
    BY <1>0, <2>2, <2>3
  <2> QED
    BY <1>0, <2>1, <2>4 DEF CycleInv
<1>2. CASE Fetch
  <2>1. /\ GetPending \in Seq(Event) /\ Distinct(GetPending) /\ GetPending # <<>>
        /\ \A e \in Among(GetPending) : status[e] = "pending"
    BY <1>0, <1>2, OldestPending DEF Fetch
  <2>2. GroupTaken(GetPending)
    BY <1>2, <2>1, TakesGroup DEF Fetch
  <2>3. status' = status
    BY <1>2 DEF Fetch, store
  <2> QED
    BY <2>1, <2>2, <2>3, GroupBegins
<1>3. CASE Sending
  <2>1. PICK rest \in Seq(Event) :
          /\ Distinct(rest) /\ Among(rest) \subseteq Among(todo)
          /\ IF rest = <<>> THEN pc' = "mark" /\ todo' = group ELSE pc' = pc /\ todo' = rest
    BY <1>3 DEF Sending
  <2>2. pc = "send" /\ status' = status /\ fetched' = fetched /\ group' = group
    BY <1>3 DEF Sending, store
  <2>3. group # <<>>
    <3>1. todo # <<>> /\ todo \in Seq(Event)
      BY <1>0, <2>2 DEF CycleInv, TypeOK
    <3>2. 1 \in 1..Len(todo)
      BY <3>1
    <3>3. todo[1] \in Among(group)
      BY <1>0, <3>2 DEF Among
    <3> QED
      BY <3>3, EmptyList
  <2>4. CASE rest = <<>>
    BY <1>0, <2>1, <2>2, <2>3, <2>4 DEF CycleInv
  <2>5. CASE rest # <<>>
    <3>1. pc' = "send" /\ todo' = rest
      BY <2>1, <2>2, <2>5
    <3>2. Among(todo') \subseteq Among(group') /\ Distinct(todo')
      BY <1>0, <2>1, <2>2, <3>1
    <3> QED
      BY <1>0, <2>2, <2>5, <3>1, <3>2 DEF CycleInv
  <2> QED
    BY <2>4, <2>5
<1>4. ASSUME todo' = group, pc' = "fail", todo # <<>>,
             UNCHANGED <<status, fetched, group>>
      PROVE  CycleInv'
  <2>1. group # <<>>
    <3>1. todo \in Seq(Event)
      BY <1>0 DEF TypeOK
    <3>2. 1 \in 1..Len(todo)
      BY <1>4, <3>1
    <3>3. todo[1] \in Among(group)
      BY <1>0, <3>2 DEF Among
    <3> QED
      BY <3>3, EmptyList
  <2> QED
    BY <1>0, <1>4, <2>1 DEF CycleInv
<1>5. CASE Raising
  <2>1. todo # <<>>
    BY <1>0, <1>5 DEF Raising, CycleInv
  <2> QED
    BY <1>4, <1>5, <2>1 DEF Raising, store
<1>6. CASE StoreRaises
  <2>1. CASE pc = "mark" /\ pc' = "fail" /\ todo' = group /\ UNCHANGED <<fetched, group>>
    <3>1. todo # <<>> /\ status' = status
      BY <1>0, <1>6, <2>1 DEF StoreRaises, CycleInv, store
    <3> QED
      BY <1>4, <2>1, <3>1
  <2>2. CASE EndCycle("idle")
    BY <2>2, CycleEnds DEF EndCycle, CycleOver
  <2> QED
    BY <1>6, <2>1, <2>2 DEF StoreRaises
<1>7. CASE Cancelling \/ Restart
  <2>1. CycleOver("stopped") \/ CycleOver("idle")
    BY <1>7 DEF Cancelling, Restart, EndCycle, CycleOver
  <2> QED
    BY <2>1, CycleEnds
<1>8. CASE MarkPublished \/ MarkFailed
  <2>1. todo # <<>> /\ pc \in {"mark", "fail"} /\ AfterMark
    BY <1>0, <1>8 DEF MarkPublished, MarkFailed, CycleInv
  <2>2. PICK new \in {"published", "failed", "dead_letter"} :
             status' = [status EXCEPT ![Head(todo)] = new]
    BY <1>8 DEF MarkPublished, MarkFailed
  <2>3. /\ Head(todo) \in Among(todo) /\ Head(todo) \in Event
        /\ Tail(todo) \in Seq(Event) /\ Distinct(Tail(todo))
        /\ Among(Tail(todo)) = Among(todo) \ {Head(todo)}
    BY <1>0, <2>1, TailKeeps DEF TypeOK, CycleInv
  <2>4. \A x \in Event : status'[x] = IF x = Head(todo) THEN new ELSE status[x]
    BY <1>0, <2>2
  <2>5. Head(todo) \in Among(group) /\ Head(todo) \notin Among(fetched)
    BY <1>0, <2>3 DEF CycleInv
  <2>6. \A x \in Among(fetched) : status'[x] = "pending" /\ x \notin Among(group)
    BY <1>0, <2>4, <2>5 DEF CycleInv
  <2>7. MarksOn
    BY <1>0, <2>1, MarkingGoesOn
  <2>8. CASE Tail(todo) # <<>> /\ todo' = Tail(todo) /\ pc' = pc /\ fetched' = fetched
             /\ group' = group
    <3>1. \A x \in Among(group') : status'[x] # "absent"
      BY <1>0, <2>2, <2>4, <2>8 DEF CycleInv
    <3>2. pc' = "mark" => \A x \in Among(todo') : status'[x] = "pending"
      BY <1>0, <2>3, <2>4, <2>8 DEF CycleInv
    <3>3. Among(todo') \subseteq Among(group') /\ Distinct(todo') /\ todo' # <<>>
      BY <1>0, <2>3, <2>8
    <3>4. pc' \in {"mark", "fail"} /\ Distinct(group') /\ Distinct(fetched')
      BY <1>0, <2>1, <2>8 DEF CycleInv
    <3>5. \A x \in Among(fetched') : status'[x] = "pending" /\ x \notin Among(group')
      BY <2>6, <2>8
    <3> QED
      BY <3>1, <3>2, <3>3, <3>4, <3>5 DEF CycleInv
  <2>9. CASE CycleOver("idle")
    BY <2>9, CycleEnds
  <2>10. CASE GroupTaken(fetched)
    BY <2>6, <2>10, GroupBegins
  <2> QED
    BY <2>7, <2>8, <2>9, <2>10 DEF MarksOn
<1> QED
  BY <1>1, <1>2, <1>3, <1>5, <1>6, <1>7, <1>8 DEF Move

\* How often an event was delivered.
Times(e) == Cardinality(Places(received, e))

\* An event is delivered a number of times.
LEMMA TimesAreNumbers ==
    ASSUME TypeOK, NEW e PROVE Times(e) \in Nat
  BY PlacesAreFinite DEF TypeOK, Times

\* A request delivers an event once more, if it was not sent before; then it is counted.
LEMMA RequestCounts ==
    ASSUME RelayInv, pc = "send", NEW a \in Seq(Event), Adds(a), NEW e \in Event
    PROVE  /\ Times(e)' <= 1 + faults /\ Times(e)' \in Nat
           /\ e \notin Among(a) => Times(e)' = Times(e)
<1>0. /\ TypeOK /\ received \in Seq(Event) /\ Times(e) \in Nat /\ faults \in Nat
      /\ Times(e) <= 1 + faults
      /\ status[e] \in {"absent", "pending"} /\ ~Out(e) => Times(e) <= faults
  BY TimesAreNumbers, BoundAssumption DEF RelayInv, TypeOK, CountedInv, Times
<1>1. received' = received \o a /\ Distinct(a) /\ Among(a) \subseteq Among(todo)
  BY DEF Adds
<1>2. /\ Cardinality(Places(received \o a, e)) <= Cardinality(Places(received, e)) + 1
      /\ e \notin Among(a) => Places(received \o a, e) = Places(received, e)
  BY <1>0, <1>1, DeliveriesGrow
<1>3. Times(e)' = Cardinality(Places(received \o a, e))
  BY <1>1 DEF Times
<1>4. Times(e)' <= Times(e) + 1 /\ (e \notin Among(a) => Times(e)' = Times(e))
  BY <1>2, <1>3 DEF Times
<1>5. Times(e)' \in Nat
  <2>1. received \o a \in Seq(Event)
    BY <1>0, ConcatProperties
  <2> QED
    BY <1>3, <2>1, PlacesAreFinite
<1>6. e \in Among(a) => Times(e) <= faults
  <2>1. e \in Among(a) => status[e] = "pending" /\ ~Out(e)
    BY <1>1 DEF RelayInv, CycleInv, Out
  <2> QED
    BY <1>0, <2>1
<1> QED
  BY <1>0, <1>4, <1>5, <1>6

\* After a fault each event has one delivery less than it may have.
LEMMA FaultCounts ==
    ASSUME RelayInv, faults' = faults + 1,
           received' = received \/ (pc = "send" /\ \E a \in Seq(Event) : Adds(a))
    PROVE  CountedInv'
<1>1. faults \in Nat
  BY BoundAssumption DEF RelayInv, TypeOK
<1>2. ASSUME NEW e \in Event PROVE Times(e)' <= 1 + faults /\ Times(e)' \in Nat
  <2>1. CASE received' = received
    <3>1. Times(e) \in Nat /\ Times(e) <= 1 + faults
      BY TimesAreNumbers DEF RelayInv, CountedInv, Times
    <3>2. Times(e)' = Times(e)
      BY <2>1 DEF Times
    <3> QED
      BY <3>1, <3>2
  <2>2. CASE pc = "send" /\ \E a \in Seq(Event) : Adds(a)
    BY <2>2, RequestCounts
  <2> QED
    BY <2>1, <2>2
<1>3. ASSUME NEW e \in Event
      PROVE  Times(e)' <= 1 + faults' /\ Times(e)' <= faults'
  <2>1. Times(e)' <= 1 + faults /\ Times(e)' \in Nat
    BY <1>2
  <2> QED
    BY <1>1, <2>1
<1> QED
  BY <1>3 DEF CountedInv, Times

\* No step but a fault gives an event a second delivery.
LEMMA CountedKept == RelayInv /\ Move => CountedInv'
<1> SUFFICES ASSUME RelayInv, Move PROVE CountedInv'
  OBVIOUS
<1>0. /\ TypeOK /\ SavedInv /\ CycleInv /\ CountedInv
      /\ status \in [Event -> {"absent", "pending", "published", "failed", "dead_letter"}]
      /\ Among(fetched) \subseteq Event /\ Among(group) \subseteq Event
      /\ Among(todo) \subseteq Among(group)
  BY AmongEvents DEF RelayInv, TypeOK, CycleInv
\* What has not gone out now had not gone out before.
<1>1. ASSUME received' = received, faults' = faults,
             \A e \in Event : status'[e] \in {"absent", "pending"} /\ ~Out(e)'
                 => status[e] \in {"absent", "pending"} /\ ~Out(e)
      PROVE  CountedInv'
  <2> SUFFICES ASSUME NEW e \in Event
               PROVE  /\ Cardinality(Places(received', e)) <= 1 + faults'
                      /\ status'[e] \in {"absent", "pending"} /\ ~Out(e)'
                             => Cardinality(Places(received', e)) <= faults'
    BY DEF CountedInv
  <2> QED
    BY <1>0, <1>1 DEF CountedInv
<1>2. ASSUME NEW x \in Event, Publish(x) PROVE CountedInv'
  <2>1. /\ status[x] = "absent" /\ pc' = pc /\ fetched' = fetched /\ group' = group
        /\ todo' = todo /\ received' = received /\ faults' = faults
    BY <1>2 DEF Publish, relay
  <2>2. \A e \in Event : e # x => status'[e] = status[e]
    BY <1>0, <1>2 DEF Publish
  <2>3. \A e \in Event : Out(e)' = Out(e)
    BY <2>1 DEF Out
  <2> QED
    BY <1>1, <2>1, <2>2, <2>3
<1>3. ASSUME status' = status, received' = received, faults' = faults,
             \A e : ~Out(e)
      PROVE  CountedInv'
  BY <1>1, <1>3
<1>4. CASE Fetch \/ Restart
  BY <1>3, <1>4 DEF Fetch, Restart, store, Out
<1>5. CASE Sending
  <2>1. PICK a, rest \in Seq(Event) :
          /\ Adds(a)
          /\ Distinct(rest) /\ Among(rest) \subseteq Among(todo) \ Among(a)
          /\ IF rest = <<>> THEN pc' = "mark" /\ todo' = group ELSE pc' = pc /\ todo' = rest
    BY <1>5 DEF Sending
  <2>2. /\ pc = "send" /\ status' = status /\ fetched' = fetched /\ group' = group
        /\ faults' = faults
    BY <1>5 DEF Sending, store
  <2>3. ASSUME NEW e \in Event, ~Out(e)' PROVE ~Out(e) /\ e \notin Among(a)
    <3>1. CASE rest = <<>>
      <4>1. e \notin Among(group)
        BY <2>1, <2>3, <3>1 DEF Out
      <4> QED
        BY <1>0, <2>1, <2>2, <4>1 DEF Out, Adds
    <3>2. CASE rest # <<>>
      <4>1. pc' = "send" /\ todo' = rest /\ (e \in Among(group) => e \in Among(rest))
        BY <2>1, <2>2, <2>3, <3>2 DEF Out
      <4> QED
        BY <1>0, <2>1, <2>2, <4>1 DEF Out, Adds
    <3> QED
      BY <3>1, <3>2
  <2>4. ASSUME NEW e \in Event
        PROVE  /\ Times(e)' <= 1 + faults'
               /\ status'[e] \in {"absent", "pending"} /\ ~Out(e)' => Times(e)' <= faults'
    <3>1. /\ Times(e)' <= 1 + faults /\ (e \notin Among(a) => Times(e)' = Times(e))
      BY <2>1, <2>2, RequestCounts
    <3>2. status[e] \in {"absent", "pending"} /\ ~Out(e) => Times(e) <= faults
      BY <1>0 DEF CountedInv, Times
    <3> QED
      BY <2>2, <2>3, <3>1, <3>2
  <2> QED
    BY <2>4 DEF CountedInv, Times
<1>6. CASE Raising \/ StoreRaises \/ Cancelling
  BY <1>6, FaultCounts DEF Raising, StoreRaises, Cancelling
<1>7. CASE MarkPublished \/ MarkFailed
  <2>1. todo # <<>> /\ pc \in {"mark", "fail"} /\ AfterMark /\ received' = received
        /\ faults' = faults
    BY <1>0, <1>7 DEF MarkPublished, MarkFailed, CycleInv
  <2>2. PICK new \in {"published", "failed", "dead_letter"} :
             status' = [status EXCEPT ![Head(todo)] = new]
    BY <1>7 DEF MarkPublished, MarkFailed
  <2>3. Head(todo) \in Event /\ Among(Tail(todo)) = Among(todo) \ {Head(todo)}
    BY <1>0, <2>1, TailKeeps DEF TypeOK, CycleInv
  <2>4. \A x \in Event : status'[x] = IF x = Head(todo) THEN new ELSE status[x]
    BY <1>0, <2>2
  <2>5. ASSUME NEW e \in Event, e # Head(todo), ~Out(e)' PROVE ~Out(e)
    <3>1. MarksOn
      BY <1>0, <2>1, MarkingGoesOn
    <3>2. CASE todo' = Tail(todo) /\ pc' = pc
      BY <2>1, <2>3, <2>5, <3>2 DEF Out
    <3>3. CASE Among(todo) = {Head(todo)}
      BY <2>1, <2>5, <3>3 DEF Out
    <3> QED
      BY <3>1, <3>2, <3>3 DEF MarksOn
  <2>6. \A e \in Event : status'[e] \in {"absent", "pending"}
                            => e # Head(todo) /\ status[e] = status'[e]
    BY <2>3, <2>4
  <2> QED
    BY <1>1, <2>1, <2>5, <2>6
<1> QED
  BY <1>2, <1>4, <1>5, <1>6, <1>7 DEF Move

\* The invariant of the relay, over either broker.
LEMMA RelayKept == RelayInv /\ Move => RelayInv'
<1> SUFFICES ASSUME RelayInv, Move PROVE RelayInv'
  OBVIOUS
<1>1. TypeOK'
  BY TypesKept
<1>2. SavedInv'
  BY StoreMoves, SavedKept
<1>3. CycleInv'
  BY CycleKept
<1>4. CountedInv'
  BY CountedKept
<1> QED
  BY <1>1, <1>2, <1>3, <1>4 DEF RelayInv

-------------------------------------------------------------------------------
\* Service Bus gets the whole group, and takes it or raises.
LEMMA BusRequest ==
    ASSUME TypeOK
    PROVE  Request = todo /\ Accepted = {todo} /\ Drop(todo, Len(Request)) = <<>>
<1>1. Request = todo
  BY BusAssumption DEF Request
<1>2. Accepted = {todo}
  BY <1>1, BusAssumption DEF Accepted
<1>3. todo \in Seq(Event) /\ Len(todo) \in Nat
  BY DEF TypeOK
<1>4. SubSeq(todo, Len(todo) + 1, Len(todo)) = <<>>
  BY <1>3
<1> QED
  BY <1>1, <1>2, <1>4 DEF Drop

\* A request of which the broker took all or nothing.
LEMMA AddsAllOrNothing ==
    ASSUME RelayInv, received' \in {received \o todo, received \o <<>>}
    PROVE  \E a \in Seq(Event) : Adds(a)
<1>1. todo \in Seq(Event) /\ Distinct(todo)
  BY DEF RelayInv, TypeOK, CycleInv
<1>2. Among(<<>>) \subseteq Among(todo) /\ <<>> \in Seq(Event) /\ Distinct(<<>>)
  BY EmptyList
<1>3. CASE received' = received \o todo
  BY <1>1, <1>3 DEF Adds
<1>4. CASE received' = received \o <<>>
  BY <1>2, <1>4 DEF Adds
<1> QED
  BY <1>3, <1>4

\* The steps over Service Bus are among them.
LEMMA BusMoves == RelayInv /\ Next => Move
<1> SUFFICES ASSUME RelayInv, Next PROVE Move
  OBVIOUS
<1>0. TypeOK /\ Request = todo /\ Accepted = {todo} /\ Drop(todo, Len(Request)) = <<>>
  BY BusRequest DEF RelayInv
<1>1. CASE Send
  <2>1. received' = received \o todo /\ pc' = "mark" /\ todo' = group
    BY <1>0, <1>1 DEF Send
  <2>2. todo \in Seq(Event) /\ Distinct(todo) /\ Adds(todo)
    BY <2>1 DEF RelayInv, TypeOK, CycleInv, Adds
  <2>3. <<>> \in Seq(Event) /\ Distinct(<<>>) /\ Among(<<>>) \subseteq Among(todo) \ Among(todo)
    BY EmptyList
  <2> QED
    BY <1>1, <2>1, <2>2, <2>3 DEF Send, Sending, Move
<1>2. CASE SendRaises
  <2>1. received' \in {received \o todo, received \o <<>>}
    BY <1>0, <1>2 DEF SendRaises
  <2> QED
    BY <1>2, <2>1, AddsAllOrNothing DEF SendRaises, Raising, Move
<1>3. CASE Cancel
  <2>1. received' = received \/ (pc = "send" /\ received' \in {received \o todo, received \o <<>>})
    BY <1>0, <1>3 DEF Cancel
  <2> QED
    BY <1>3, <2>1, AddsAllOrNothing DEF Cancel, Cancelling, Move
<1> QED
  BY <1>1, <1>2, <1>3 DEF Next, RelayStep, Move

\* The first delivery of a group in order keeps the order.
LEMMA DeliversInOrder ==
    ASSUME RelayInv, BusInv, pc = "send", received' = received \o todo,
           status' = status, saved' = saved
    PROVE  /\ StatusInv' /\ FirstInOrder'
           /\ \A e \in Among(todo) : Places(received', e) # {}
<1> DEFINE L == Len(received)
<1>0. /\ TypeOK /\ received \in Seq(Event) /\ todo \in Seq(Event) /\ Distinct(todo)
      /\ L \in Nat /\ Len(todo) \in Nat
      /\ status \in [Event -> {"absent", "pending", "published", "failed", "dead_letter"}]
      /\ saved \in Seq(Event) /\ SavedInv
  BY DEF RelayInv, TypeOK, CycleInv
<1>1. \A e : /\ Places(received', e) = Places(received, e) \union {L + j : j \in Places(todo, e)}
             /\ e \notin Among(todo) => Places(received', e) = Places(received, e)
  BY <1>0, DeliveriesGrow
<1>2. \A e : Places(received, e) \subseteq 1..L
  BY DEF Places
<1> HIDE DEF L
<1>3. \A e \in Among(todo) : Places(received', e) # {} /\ status[e] = "pending"
  <2> TAKE e \in Among(todo)
  <2>1. PICK j \in 1..Len(todo) : todo[j] = e
    BY DEF Among
  <2>2. L + j \in Places(received', e)
    <3>1. j \in Places(todo, e)
      BY <2>1 DEF Places
    <3> QED
      BY <1>1, <3>1
  <2>3. status[e] = "pending"
    BY DEF RelayInv, CycleInv
  <2> QED
    BY <2>2, <2>3
<1>4. StatusInv'
  <2> SUFFICES ASSUME NEW e \in Event
               PROVE  /\ status[e] = "published" => Places(received', e) # {}
                      /\ status[e] = "absent" => Places(received', e) = {}
    BY DEF StatusInv
  <2>0. StatusInv
    BY DEF BusInv
  <2>1. status[e] = "published" => Places(received, e) # {}
    BY <2>0 DEF StatusInv
  <2>2. status[e] = "absent" => Places(received, e) = {} /\ e \notin Among(todo)
    BY <1>3, <2>0 DEF StatusInv
  <2> QED
    BY <1>1, <2>1, <2>2
<1>5. FirstInOrder'
  <2> SUFFICES ASSUME NEW e \in Event, NEW f \in Event, Before(saved, e, f),
                      TopicOf[e] = TopicOf[f], Places(received', f) # {},
                      status[e] \notin {"failed", "dead_letter"}
               PROVE  \E k \in Places(received', e) : \A l \in Places(received', f) : k < l
    BY DEF FirstInOrder, Before
  <2>1. CASE Places(received, f) # {}
    <3>1. PICK k \in Places(received, e) : \A l \in Places(received, f) : k < l
      BY <2>1 DEF BusInv, FirstInOrder
    <3>2. k \in Places(received', e) /\ k \in 1..L
      BY <1>1, <1>2, <3>1
    <3>3. ASSUME NEW l \in Places(received', f) PROVE k < l
      <4>1. CASE l \in Places(received, f)
        BY <3>1, <4>1
      <4>2. ASSUME NEW j \in Places(todo, f), l = L + j PROVE k < l
        <5>1. j \in 1..Len(todo)
          BY DEF Places
        <5> QED
          BY <1>0, <3>2, <4>2, <5>1
      <4> QED
        BY <1>1, <4>1, <4>2
    <3> QED
      BY <3>2, <3>3
  <2>2. CASE Places(received, f) = {}
    <3>1. f \in Among(todo)
      BY <1>1, <2>2
    <3>2. \A l \in Places(received', f) : \E j \in Places(todo, f) : l = L + j
      BY <1>1, <2>2
    <3>3. CASE status[e] = "pending"
      <4>1. Before(todo, e, f)
        BY <3>1, <3>3 DEF BusInv, Ordered
      <4>2. PICK i, j \in 1..Len(todo) : i < j /\ todo[i] = e /\ todo[j] = f
        BY <4>1 DEF Before
      <4>3. L + i \in Places(received', e)
        <5>1. i \in Places(todo, e)
          BY <4>2 DEF Places
        <5> QED
          BY <1>1, <5>1
      <4>4. \A n \in Places(todo, f) : n = j
        BY <1>0, <4>2 DEF Places, Distinct
      <4>5. L + i < L + j
        BY <1>0, <4>2
      <4>6. \A l \in Places(received', f) : L + i < l
        BY <3>2, <4>4, <4>5
      <4> QED
        BY <4>3, <4>6
    <3>4. CASE status[e] = "published"
      <4>0. StatusInv
        BY DEF BusInv
      <4>1. PICK k : k \in Places(received, e)
        <5>1. Places(received, e) # {}
          BY <3>4, <4>0 DEF StatusInv
        <5> QED
          BY <5>1
      <4>2. k \in Places(received', e) /\ k \in 1..L
        BY <1>1, <1>2, <4>1
      <4>3. ASSUME NEW l \in Places(received', f) PROVE k < l
        <5>1. PICK j \in Places(todo, f) : l = L + j
          BY <3>2
        <5>2. j \in 1..Len(todo)
          BY DEF Places
        <5> QED
          BY <1>0, <4>2, <5>1, <5>2
      <4> QED
        BY <4>2, <4>3
    <3>5. status[e] # "absent"
      <4>1. e \in Among(saved)
        BY DEF Before, Among
      <4> QED
        BY <1>0, <4>1 DEF SavedInv
    <3> QED
      BY <1>0, <3>3, <3>4, <3>5
  <2> QED
    BY <2>1, <2>2
<1> QED
  BY <1>3, <1>4, <1>5

\* What the lists owe to the store once a group is taken.
LEMMA GroupIsOrdered ==
    ASSUME NEW ev \in Seq(Event), GroupTaken(ev), saved' = saved,
           \A e \in Event : status'[e] = "pending" => status[e] = "pending",
           Ordered(ev)
    PROVE  /\ pc' = "send" /\ todo' = group' /\ Ordered(group)' /\ Ordered(fetched)'
<1>0. pc' = "send" /\ todo' = group'
  BY DEF GroupTaken
<1>1. /\ Among(ev) \subseteq Event
      /\ Among(group') \subseteq Among(ev) /\ Among(fetched') \subseteq Among(ev)
  BY AmongEvents DEF GroupTaken
<1>2. ASSUME NEW e \in Event, NEW f \in Among(ev), Before(saved', e, f),
             status'[e] = "pending", TopicOf[e] = TopicOf[f]
      PROVE  /\ f \in Among(group') => Before(group', e, f)
             /\ f \in Among(fetched') => Before(fetched', e, f)
  <2>1. Before(saved, e, f) /\ status[e] = "pending" /\ f \in Event
    BY <1>1, <1>2
  <2>2. Before(ev, e, f)
    BY <1>2, <2>1 DEF Ordered
  <2> QED
    BY <1>2, <2>1, <2>2 DEF GroupTaken
<1>3. Ordered(group)'
  <2> SUFFICES ASSUME NEW e \in Event, NEW f \in Among(group'), Before(saved', e, f),
                      status'[e] = "pending", TopicOf[e] = TopicOf[f]
               PROVE  Before(group', e, f)
    BY DEF Ordered, Before
  <2> QED
    BY <1>1, <1>2
<1>4. Ordered(fetched)'
  <2> SUFFICES ASSUME NEW e \in Event, NEW f \in Among(fetched'), Before(saved', e, f),
                      status'[e] = "pending", TopicOf[e] = TopicOf[f]
               PROVE  Before(fetched', e, f)
    BY DEF Ordered, Before
  <2> QED
    BY <1>1, <1>2
<1> QED
  BY <1>0, <1>3, <1>4

\* A list stays ordered when nothing is saved and nothing becomes pending.
LEMMA StaysOrdered ==
    ASSUME saved' = saved, NEW s, Ordered(s),
           \A e \in Event : status'[e] = "pending" => status[e] = "pending"
    PROVE  \A e \in Event, f \in Among(s) :
              Before(saved', e, f) /\ status'[e] = "pending" /\ TopicOf[e] = TopicOf[f]
                  => Before(s, e, f)
  BY DEF Ordered

\* Order and statuses when nothing is sent and nothing becomes pending.
LEMMA BusRests ==
    ASSUME BusInv, saved' = saved, received' = received,
           \A e \in Event :
              /\ status'[e] = "pending" => status[e] = "pending"
              /\ status'[e] = "absent" => status[e] = "absent"
              /\ status'[e] = "published" => Places(received, e) # {}
              /\ status[e] \in {"failed", "dead_letter"} => status'[e] \in {"failed", "dead_letter"}
    PROVE  StatusInv' /\ FirstInOrder'
<1>1. StatusInv'
  BY DEF StatusInv, BusInv
<1>2. FirstInOrder'
  <2> SUFFICES ASSUME NEW e \in Event, NEW f \in Event, Before(saved, e, f),
                      TopicOf[e] = TopicOf[f], Places(received, f) # {}
               PROVE  \/ status'[e] \in {"failed", "dead_letter"}
                      \/ \E k \in Places(received, e) : \A l \in Places(received, f) : k < l
    BY DEF FirstInOrder, Before
  <2> QED
    BY DEF BusInv, FirstInOrder
<1> QED
  BY <1>1, <1>2

\* The invariant over Service Bus.
LEMMA BusKept == RelayInv /\ BusInv /\ Next => BusInv'
<1> SUFFICES ASSUME RelayInv, BusInv, Next PROVE BusInv'
  OBVIOUS
<1>0. /\ TypeOK /\ SavedInv /\ CycleInv /\ StatusInv /\ FirstInOrder /\ Ordered(fetched)
      /\ status \in [Event -> {"absent", "pending", "published", "failed", "dead_letter"}]
      /\ Among(fetched) \subseteq Event /\ Among(group) \subseteq Event
      /\ Among(todo) \subseteq Among(group)
      /\ pc = "send" => todo = group /\ Ordered(group)
      /\ pc = "mark" => \A e \in Among(todo) : Places(received, e) # {}
      /\ Request = todo /\ Accepted = {todo} /\ Drop(todo, Len(Request)) = <<>>
      /\ received \in Seq(Event)
  BY AmongEvents, BusRequest DEF RelayInv, TypeOK, CycleInv, BusInv
\* The steps after which no group is out, and nothing is fetched.
<1>1. ASSUME StatusInv', FirstInOrder', CycleOver("idle") \/ CycleOver("stopped")
      PROVE  BusInv'
  <2>1. pc' \in {"idle", "stopped"} /\ fetched' = <<>>
    BY <1>1 DEF CycleOver
  <2>2. Ordered(fetched)'
    BY <2>1, EmptyList DEF Ordered
  <2> QED
    BY <1>1, <2>1, <2>2 DEF BusInv
\* The steps that take the next group.
<1>2. ASSUME StatusInv', FirstInOrder', NEW ev \in Seq(Event), GroupTaken(ev), Ordered(ev),
             saved' = saved, \A e \in Event : status'[e] = "pending" => status[e] = "pending"
      PROVE  BusInv'
  <2>1. pc' = "send" /\ todo' = group' /\ Ordered(group)' /\ Ordered(fetched)'
    BY <1>2, GroupIsOrdered
  <2> QED
    BY <1>2, <2>1 DEF BusInv
<1>3. ASSUME saved' = saved, status' = status, received' = received
      PROVE  StatusInv' /\ FirstInOrder'
  <2>1. \A e \in Event :
              /\ status'[e] = "pending" => status[e] = "pending"
              /\ status'[e] = "absent" => status[e] = "absent"
              /\ status'[e] = "published" => Places(received, e) # {}
              /\ status[e] \in {"failed", "dead_letter"} => status'[e] \in {"failed", "dead_letter"}
    <3>1. StatusInv
      BY <1>0
    <3> QED
      BY <1>3, <3>1 DEF StatusInv
  <2> QED
    BY <1>3, <2>1, BusRests
<1>4. ASSUME NEW x \in Event, Publish(x) PROVE BusInv'
  <2>1. /\ status[x] = "absent" /\ pc' = pc /\ fetched' = fetched /\ group' = group
        /\ todo' = todo /\ received' = received /\ saved' = Append(saved, x)
    BY <1>4 DEF Publish, relay
  <2>2. \A e \in Event : status'[e] = IF e = x THEN "pending" ELSE status[e]
    BY <1>0, <1>4 DEF Publish
  <2>3. x \notin Among(saved) /\ Distinct(saved) /\ saved \in Seq(Event)
    BY <1>0, <2>1 DEF SavedInv, TypeOK
  <2>4. \A e, f : f # x => (Before(saved', e, f) <=> Before(saved, e, f))
    BY <2>1, <2>3, AppendedList
  <2>5. Places(received, x) = {}
    BY <1>0, <2>1 DEF StatusInv
  <2>6. \A e, f : Before(saved, e, f) => e \in Among(saved) /\ f \in Among(saved)
    BY DEF Before, Among
  <2>7. StatusInv'
    BY <1>0, <2>1, <2>2 DEF StatusInv
  <2>8. FirstInOrder'
    <3> SUFFICES ASSUME NEW e \in Event, NEW f \in Event, Before(saved', e, f),
                        TopicOf[e] = TopicOf[f], Places(received, f) # {}
                 PROVE  \/ status'[e] \in {"failed", "dead_letter"}
                        \/ \E k \in Places(received, e) : \A l \in Places(received, f) : k < l
      BY <2>1 DEF FirstInOrder, Before
    <3>1. Before(saved, e, f)
      BY <2>4, <2>5
    <3>2. e # x
      BY <2>3, <2>6, <3>1
    <3>3. status'[e] = status[e]
      BY <2>2, <3>2
    <3> QED
      BY <1>0, <3>1, <3>3 DEF FirstInOrder
  <2>9. ASSUME NEW s, Ordered(s), x \notin Among(s), Among(s) \subseteq Event
        PROVE  \A e \in Event, f \in Among(s) :
                  Before(saved', e, f) /\ status'[e] = "pending" /\ TopicOf[e] = TopicOf[f]
                      => Before(s, e, f)
    <3> TAKE e \in Event, f \in Among(s)
    <3> HAVE Before(saved', e, f) /\ status'[e] = "pending" /\ TopicOf[e] = TopicOf[f]
    <3>1. Before(saved, e, f)
      BY <2>4, <2>9
    <3>2. e # x
      BY <2>3, <2>6, <3>1
    <3> QED
      BY <2>2, <2>9, <3>1, <3>2 DEF Ordered
  <2>10. x \notin Among(fetched) /\ x \notin Among(group)
    BY <1>0, <2>1 DEF CycleInv
  <2>11. Ordered(fetched)'
    <3>1. \A e \in Event, f \in Among(fetched) :
                  Before(saved', e, f) /\ status'[e] = "pending" /\ TopicOf[e] = TopicOf[f]
                      => Before(fetched, e, f)
      BY <1>0, <2>9, <2>10
    <3> QED
      BY <2>1, <3>1 DEF Ordered
  <2>12. pc = "send" => Ordered(group)'
    <3>1. pc = "send" => \A e \in Event, f \in Among(group) :
                  Before(saved', e, f) /\ status'[e] = "pending" /\ TopicOf[e] = TopicOf[f]
                      => Before(group, e, f)
      BY <1>0, <2>9, <2>10
    <3> QED
      BY <2>1, <3>1 DEF Ordered
  <2>13. pc' = "mark" => \A e \in Among(todo') : Places(received', e) # {}
    BY <1>0, <2>1
  <2> QED
    BY <1>0, <2>1, <2>7, <2>8, <2>11, <2>12, <2>13 DEF BusInv
<1>5. CASE Fetch
  <2>1. /\ GetPending \in Seq(Event) /\ Distinct(GetPending) /\ GetPending # <<>>
        /\ \A e \in Event, f \in Among(GetPending) :
              Before(saved, e, f) /\ status[e] = "pending" => Before(GetPending, e, f)
    BY <1>0, <1>5, OldestPending DEF Fetch
  <2>2. GroupTaken(GetPending)
    BY <1>5, <2>1, TakesGroup DEF Fetch
  <2>3. Ordered(GetPending)
    BY <2>1 DEF Ordered
  <2>4. saved' = saved /\ status' = status /\ received' = received
    BY <1>5 DEF Fetch, store
  <2> QED
    BY <1>2, <1>3, <2>1, <2>2, <2>3, <2>4
<1>6. CASE Send
  <2>1. /\ pc = "send" /\ received' = received \o todo /\ pc' = "mark" /\ todo' = group
        /\ saved' = saved /\ status' = status /\ fetched' = fetched /\ todo = group
    BY <1>0, <1>6 DEF Send, store
  <2>2. StatusInv' /\ FirstInOrder' /\ \A e \in Among(todo) : Places(received', e) # {}
    BY <2>1, DeliversInOrder
  <2>3. Ordered(fetched)'
    <3>1. Ordered(fetched) /\ saved' = saved /\ status' = status /\ fetched' = fetched
      BY <1>0, <2>1
    <3> QED
      BY <3>1 DEF Ordered, Before
  <2> QED
    BY <2>1, <2>2, <2>3 DEF BusInv
<1>7. CASE SendRaises
  <2>1. /\ pc = "send" /\ pc' = "fail" /\ saved' = saved /\ status' = status /\ fetched' = fetched
        /\ received' \in {received \o todo, received \o <<>>}
    BY <1>0, <1>7 DEF SendRaises, store
  <2>2. received \o <<>> = received
    BY <1>0
  <2>3. StatusInv' /\ FirstInOrder'
    BY <1>3, <2>1, <2>2, DeliversInOrder
  <2>4. Ordered(fetched)'
    BY <1>0, <2>1 DEF Ordered, Before
  <2> QED
    BY <2>1, <2>3, <2>4 DEF BusInv
<1>8. CASE Cancel
  <2>1. /\ CycleOver("stopped") /\ saved' = saved /\ status' = status
        /\ received' = received \/ (pc = "send" /\ received' = received \o todo)
    BY <1>0, <1>8 DEF Cancel, EndCycle, CycleOver, store
  <2>2. StatusInv' /\ FirstInOrder'
    BY <1>3, <2>1, DeliversInOrder
  <2> QED
    BY <1>1, <2>1, <2>2
<1>9. CASE StoreRaises
  <2>1. saved' = saved /\ status' = status /\ received' = received
    BY <1>9 DEF StoreRaises, store
  <2>2. StatusInv' /\ FirstInOrder'
    BY <1>3, <2>1
  <2>3. CASE pc' = "fail" /\ fetched' = fetched
    <3>1. Ordered(fetched)'
      BY <1>0, <2>1, <2>3 DEF Ordered, Before
    <3> QED
      BY <2>2, <2>3, <3>1 DEF BusInv
  <2>4. CASE CycleOver("idle")
    BY <1>1, <2>2, <2>4
  <2> QED
    BY <1>9, <2>3, <2>4 DEF StoreRaises, EndCycle, CycleOver
<1>10. CASE Restart
  <2>1. /\ CycleOver("idle") /\ saved' = saved /\ status' = status /\ received' = received
    BY <1>10 DEF Restart, EndCycle, CycleOver, store
  <2> QED
    BY <1>1, <1>3, <2>1
<1>11. CASE MarkPublished \/ MarkFailed
  <2>1. /\ todo # <<>> /\ pc \in {"mark", "fail"} /\ AfterMark /\ received' = received
        /\ saved' = saved
    BY <1>0, <1>11 DEF MarkPublished, MarkFailed, CycleInv
  <2>2. PICK new \in {"published", "failed", "dead_letter"} :
             /\ status' = [status EXCEPT ![Head(todo)] = new]
             /\ new = "published" <=> pc = "mark"
    BY <1>11 DEF MarkPublished, MarkFailed
  <2>3. /\ Head(todo) \in Among(todo) /\ Head(todo) \in Event
        /\ Among(Tail(todo)) = Among(todo) \ {Head(todo)}
    BY <1>0, <2>1, TailKeeps DEF TypeOK, CycleInv
  <2>4. \A x \in Event : status'[x] = IF x = Head(todo) THEN new ELSE status[x]
    BY <1>0, <2>2
  <2>5. new = "published" => status[Head(todo)] = "pending" /\ Places(received, Head(todo)) # {}
    BY <1>0, <2>2, <2>3 DEF CycleInv
  <2>6. \A e \in Event :
              /\ status'[e] = "pending" => status[e] = "pending"
              /\ status'[e] = "absent" => status[e] = "absent"
              /\ status'[e] = "published" => Places(received, e) # {}
              /\ status[e] \in {"failed", "dead_letter"} => status'[e] \in {"failed", "dead_letter"}
    <3> TAKE e \in Event
    <3>1. CASE e = Head(todo)
      <4>1. status'[e] = new
        BY <2>4, <3>1
      <4> QED
        BY <2>5, <3>1, <4>1
    <3>2. CASE e # Head(todo)
      <4>1. status'[e] = status[e]
        BY <2>4, <3>2
      <4>2. StatusInv
        BY <1>0
      <4> QED
        BY <4>1, <4>2 DEF StatusInv
    <3> QED
      BY <3>1, <3>2
  <2>7. StatusInv' /\ FirstInOrder'
    BY <2>1, <2>6, BusRests
  <2>8. MarksOn
    BY <1>0, <2>1, MarkingGoesOn
  <2>9. CASE todo' = Tail(todo) /\ pc' = pc /\ fetched' = fetched
    <3>1. Ordered(fetched)'
      <4>1. \A e \in Event, f \in Among(fetched) :
              Before(saved', e, f) /\ status'[e] = "pending" /\ TopicOf[e] = TopicOf[f]
                  => Before(fetched, e, f)
        BY <1>0, <2>1, <2>6, StaysOrdered
      <4> QED
        BY <2>9, <4>1 DEF Ordered, Before
    <3>2. pc' = "mark" => \A e \in Among(todo') : Places(received', e) # {}
      BY <1>0, <2>1, <2>3, <2>9
    <3>3. pc' # "send"
      BY <2>1, <2>9
    <3> QED
      BY <2>7, <3>1, <3>2, <3>3 DEF BusInv
  <2>10. CASE CycleOver("idle")
    BY <1>1, <2>7, <2>10
  <2>11. CASE GroupTaken(fetched)
    <3>1. fetched \in Seq(Event)
      BY <1>0 DEF TypeOK
    <3> QED
      BY <1>0, <1>2, <2>1, <2>6, <2>7, <2>11, <3>1
  <2> QED
    BY <2>8, <2>9, <2>10, <2>11 DEF MarksOn
<1> QED
  BY <1>4, <1>5, <1>6, <1>7, <1>8, <1>9, <1>10, <1>11 DEF Next, RelayStep

\* The list operators are the same for both brokers.
LEMMA SqsWords ==
    /\ \A s, S : Sqs!Only(s, S) = Only(s, S)
    /\ \A s, n : Sqs!Take(s, n) = Take(s, n)
    /\ \A s, n : Sqs!Drop(s, n) = Drop(s, n)
<1>1. \A s, S : Sqs!Only(s, S) = Only(s, S)
  BY DEF Sqs!Only, Only
<1>2. \A s, n : Sqs!Take(s, n) = Take(s, n)
  BY DEF Sqs!Take, Take
<1>3. \A s, n : Sqs!Drop(s, n) = Drop(s, n)
  BY DEF Sqs!Drop, Drop
<1> QED
  BY <1>1, <1>2, <1>3

\* So is the cycle.
LEMMA SqsCycle ==
    /\ Sqs!GetPending = GetPending
    /\ \A ev : Sqs!TakeGroup(ev) <=> TakeGroup(ev)
    /\ \A l : Sqs!EndCycle(l) <=> EndCycle(l)
    /\ Sqs!NextGroup <=> NextGroup
    /\ Sqs!AfterMark <=> AfterMark
<1>1. Sqs!GetPending = GetPending
  BY SqsWords DEF Sqs!GetPending, GetPending, Sqs!Pending, Pending
<1>2. ASSUME NEW ev PROVE Sqs!TakeGroup(ev) <=> TakeGroup(ev)
  <2> DEFINE same == {e \in Event : TopicOf[e] = TopicOf[Head(ev)]}
  <2>1. Sqs!Only(ev, same) = Only(ev, same) /\ Sqs!Only(ev, Event \ same) = Only(ev, Event \ same)
    BY SqsWords
  <2> QED
    BY <2>1 DEF Sqs!TakeGroup, TakeGroup
<1>3. ASSUME NEW l PROVE Sqs!EndCycle(l) <=> EndCycle(l)
  BY DEF Sqs!EndCycle, EndCycle
<1>4. Sqs!NextGroup <=> NextGroup
  BY <1>2, <1>3 DEF Sqs!NextGroup, NextGroup
<1>5. Sqs!AfterMark <=> AfterMark
  BY <1>4 DEF Sqs!AfterMark, AfterMark
<1> QED
  BY <1>1, <1>2, <1>3, <1>4, <1>5

\* A chunk, and what is behind it.
LEMMA RestIsBehind ==
    ASSUME NEW s \in Seq(Event), NEW n \in Nat, Distinct(s)
    PROVE  LET request == Take(s, n)
               rest    == Drop(s, Len(request))
           IN  /\ request \in Seq(Event) /\ Distinct(request)
               /\ Among(request) \subseteq Among(s)
               /\ rest \in Seq(Event) /\ Distinct(rest)
               /\ Among(rest) \subseteq Among(s) \ Among(request)
<1> DEFINE m == IF Len(s) < n THEN Len(s) ELSE n
           request == Take(s, n)
           rest == Drop(s, m)
<1>1. m \in 0..Len(s) /\ m \in Nat /\ Len(s) \in Nat /\ m <= Len(s)
  OBVIOUS
<1>2. request \in Seq(Event) /\ Distinct(request) /\ Among(request) \subseteq Among(s)
  BY TakeKeeps
<1>3. request = SubSeq(s, 1, m)
  BY DEF Take
<1> HIDE DEF m, request
<1>4. Len(request) = m /\ \A i \in 1..m : request[i] = s[i]
  <2>1. \A i \in 1..m : s[i] \in Event
    BY <1>1
  <2> QED
    BY <1>1, <1>3, <2>1
<1>5. rest \in Seq(Event) /\ Distinct(rest) /\ Among(rest) = {s[i] : i \in m + 1..Len(s)}
  BY <1>1, DropKeeps
<1> HIDE DEF rest
<1>6. ASSUME NEW x \in Among(rest) PROVE x \in Among(s) /\ x \notin Among(request)
  <2>1. PICK i \in m + 1..Len(s) : x = s[i]
    BY <1>5
  <2>2. i \in 1..Len(s) /\ i \notin 1..m /\ \A j \in 1..m : j \in 1..Len(s)
    BY <1>1
  <2>3. \A j \in 1..m : s[j] # s[i]
    BY <2>2 DEF Distinct
  <2> QED
    BY <1>4, <2>1, <2>2, <2>3 DEF Among
<1> QED
  BY <1>2, <1>4, <1>5, <1>6 DEF request, rest

\* Whatever SQS takes of a request is a part of what the relay has to send.
LEMMA SqsRequest ==
    ASSUME RelayInv
    PROVE  /\ \A a \in Sqs!Accepted :
                 /\ a \in Seq(Event) /\ Distinct(a)
                 /\ Among(a) \subseteq Among(todo) \ Among(Drop(todo, Len(Sqs!Request)))
           /\ Drop(todo, Len(Sqs!Request)) \in Seq(Event)
           /\ Distinct(Drop(todo, Len(Sqs!Request)))
           /\ Among(Drop(todo, Len(Sqs!Request))) \subseteq Among(todo)
<1> DEFINE request == Take(todo, ChunkSize)
           rest == Drop(todo, Len(request))
<1>1. todo \in Seq(Event) /\ Distinct(todo) /\ ChunkSize \in Nat
  BY SizeAssumption DEF RelayInv, TypeOK, CycleInv
<1>2. Sqs!Request = request
  BY SqsWords DEF Sqs!Request
<1>3. /\ request \in Seq(Event) /\ Distinct(request)
      /\ Among(request) \subseteq Among(todo)
      /\ rest \in Seq(Event) /\ Distinct(rest)
      /\ Among(rest) \subseteq Among(todo) \ Among(request)
  BY <1>1, RestIsBehind
<1> HIDE DEF request
<1>4. ASSUME NEW a \in Sqs!Accepted
      PROVE  a \in Seq(Event) /\ Distinct(a) /\ Among(a) \subseteq Among(request)
  <2>1. PICK S : a = Only(request, S)
    BY <1>2, SqsWords DEF Sqs!Accepted
  <2> QED
    BY <1>3, <2>1, OnlyOrders
<1> QED
  BY <1>2, <1>3, <1>4

\* The steps over SQS are among them.
LEMMA SqsMoves == RelayInv /\ Sqs!Next => Move
<1> SUFFICES ASSUME RelayInv, Sqs!Next PROVE Move
  OBVIOUS
<1>0. /\ \A a \in Sqs!Accepted :
            /\ a \in Seq(Event) /\ Distinct(a)
            /\ Among(a) \subseteq Among(todo) \ Among(Drop(todo, Len(Sqs!Request)))
      /\ Drop(todo, Len(Sqs!Request)) \in Seq(Event)
      /\ Distinct(Drop(todo, Len(Sqs!Request)))
      /\ Among(Drop(todo, Len(Sqs!Request))) \subseteq Among(todo)
  BY SqsRequest
<1>1. ASSUME NEW e \in Event, Sqs!Publish(e) PROVE Move
  <2>1. Publish(e)
    BY <1>1 DEF Sqs!Publish, Publish, Sqs!relay, relay
  <2> QED
    BY <2>1 DEF Move
<1>2. CASE Sqs!Fetch
  <2>1. Fetch
    BY <1>2, SqsCycle DEF Sqs!Fetch, Fetch, Sqs!store, store
  <2> QED
    BY <2>1 DEF Move
<1>3. CASE Sqs!Send
  <2> DEFINE rest == Drop(todo, Len(Sqs!Request))
  <2>1. PICK a \in Sqs!Accepted : received' = received \o a
    BY <1>3 DEF Sqs!Send
  <2>2. /\ pc = "send" /\ UNCHANGED <<store, fetched, group, faults>>
        /\ IF rest = <<>> THEN pc' = "mark" /\ todo' = group ELSE pc' = pc /\ todo' = rest
    BY <1>3, SqsWords DEF Sqs!Send, Sqs!store, store
  <2>3. a \in Seq(Event) /\ Adds(a) /\ Among(rest) \subseteq Among(todo) \ Among(a)
    BY <1>0, <2>1 DEF Adds
  <2>4. rest \in Seq(Event) /\ Distinct(rest)
    BY <1>0
  <2> HIDE DEF rest
  <2>5. Sending
    BY <2>2, <2>3, <2>4 DEF Sending
  <2> QED
    BY <2>5 DEF Move
<1>4. ASSUME NEW a \in Sqs!Accepted \union {<<>>}, received' = received \o a
      PROVE  \E b \in Seq(Event) : Adds(b)
  <2>1. a \in Seq(Event) /\ Distinct(a) /\ Among(a) \subseteq Among(todo)
    BY <1>0, <1>4, EmptyList
  <2> QED
    BY <1>4, <2>1 DEF Adds
<1>5. CASE Sqs!SendRaises
  <2>1. \E b \in Seq(Event) : Adds(b)
    BY <1>4, <1>5 DEF Sqs!SendRaises
  <2>2. Raising
    BY <1>5, <2>1 DEF Sqs!SendRaises, Raising, Sqs!store, store
  <2> QED
    BY <2>2 DEF Move
<1>6. CASE Sqs!Cancel
  <2>1. received' = received \/ (pc = "send" /\ \E b \in Seq(Event) : Adds(b))
    BY <1>4, <1>6 DEF Sqs!Cancel
  <2>2. Cancelling
    BY <1>6, <2>1, SqsCycle DEF Sqs!Cancel, Cancelling, Sqs!store, store
  <2> QED
    BY <2>2 DEF Move
<1>7. CASE Sqs!MarkPublished
  <2>1. MarkPublished
    BY <1>7, SqsCycle DEF Sqs!MarkPublished, MarkPublished
  <2> QED
    BY <2>1 DEF Move
<1>8. CASE Sqs!MarkFailed
  <2>1. MarkFailed
    BY <1>8, SqsCycle DEF Sqs!MarkFailed, MarkFailed
  <2> QED
    BY <2>1 DEF Move
<1>9. CASE Sqs!StoreRaises
  <2>1. StoreRaises
    BY <1>9, SqsCycle DEF Sqs!StoreRaises, StoreRaises, Sqs!store, store
  <2> QED
    BY <2>1 DEF Move
<1>10. CASE Sqs!Restart
  <2>1. Restart
    BY <1>10, SqsCycle DEF Sqs!Restart, Restart, Sqs!store, store
  <2> QED
    BY <2>1 DEF Move
<1> QED
  BY <1>1, <1>2, <1>3, <1>5, <1>6, <1>7, <1>8, <1>9, <1>10 DEF Sqs!Next, Sqs!RelayStep

\* The relay rests while the processor of the queue runs.
LEMMA RelayRests ==
    (RelayInv /\ UNCHANGED outboxVars => RelayInv') /\ (BusInv /\ UNCHANGED outboxVars => BusInv')
<1>1. ASSUME RelayInv, UNCHANGED outboxVars PROVE RelayInv'
  <2>1. TypeOK'
    BY <1>1 DEF RelayInv, outboxVars, TypeOK
  <2>2. SavedInv'
    BY <1>1 DEF RelayInv, outboxVars, SavedInv, Distinct, Among
  <2>3. CycleInv'
    BY <1>1 DEF RelayInv, outboxVars, CycleInv
  <2>4. CountedInv'
    BY <1>1 DEF RelayInv, outboxVars, CountedInv, Out
  <2> QED
    BY <2>1, <2>2, <2>3, <2>4 DEF RelayInv
<1>2. ASSUME BusInv, UNCHANGED outboxVars PROVE BusInv'
  <2>1. StatusInv'
    BY <1>2 DEF BusInv, outboxVars, StatusInv
  <2>2. FirstInOrder'
    BY <1>2 DEF BusInv, outboxVars, FirstInOrder, Before
  <2>3. Ordered(fetched)'
    BY <1>2 DEF BusInv, outboxVars, Ordered, Before
  <2>4. pc' = "send" => todo' = group' /\ Ordered(group)'
    BY <1>2 DEF BusInv, outboxVars, Ordered, Before
  <2>5. pc' = "mark" => \A e \in Among(todo') : Places(received', e) # {}
    BY <1>2 DEF BusInv, outboxVars
  <2> QED
    BY <2>1, <2>2, <2>3, <2>4, <2>5 DEF BusInv
<1> QED
  BY <1>1, <1>2

\* At the start nothing is saved, held or sent.
LEMMA RelayBegins == Init => RelayInv /\ BusInv
<1> SUFFICES ASSUME Init PROVE RelayInv /\ BusInv
  OBVIOUS
<1>0. /\ saved = <<>> /\ received = <<>> /\ pc = "idle" /\ fetched = <<>> /\ group = <<>>
      /\ todo = <<>> /\ faults = 0 /\ \A e \in Event : status[e] = "absent"
      /\ status = [e \in Event |-> "absent"] /\ retries = [e \in Event |-> 0]
      /\ MaxFaults \in Nat
  BY BoundAssumption DEF Init
<1>1. Distinct(<<>>) /\ Among(<<>>) = {} /\ <<>> \in Seq(Event) /\ \A e : Places(<<>>, e) = {}
  BY EmptyList
<1>2. TypeOK
  BY <1>0, <1>1 DEF TypeOK
<1>3. SavedInv
  BY <1>0, <1>1 DEF SavedInv
<1>4. CycleInv
  BY <1>0, <1>1 DEF CycleInv
<1>5. CountedInv
  <2>1. \A e : Cardinality(Places(received, e)) = 0
    BY <1>0, <1>1, FS_EmptySet
  <2> QED
    BY <1>0, <2>1 DEF CountedInv
<1>6. StatusInv /\ FirstInOrder
  BY <1>0, <1>1 DEF StatusInv, FirstInOrder
<1>7. Ordered(fetched)
  BY <1>0, <1>1 DEF Ordered
<1> QED
  BY <1>0, <1>2, <1>3, <1>4, <1>5, <1>6, <1>7 DEF RelayInv, BusInv

\* What the invariants say of the relay.
LEMMA RelaySuffices ==
    /\ RelayInv => TypeOK /\ Sqs!TypeOK /\ DuplicatesNeedFaults
    /\ RelayInv /\ BusInv => PublishedWasDelivered /\ FirstDeliveriesInOrder
<1> SUFFICES ASSUME RelayInv
             PROVE  /\ TypeOK /\ Sqs!TypeOK /\ DuplicatesNeedFaults
                    /\ BusInv => PublishedWasDelivered /\ FirstDeliveriesInOrder
  OBVIOUS
<1>0. received \in Seq(Event) /\ saved \in Seq(Event) /\ TypeOK
  BY DEF RelayInv, TypeOK
<1>1. \A e : Deliveries(e) = Places(received, e)
  BY <1>0 DEF Deliveries, Places
<1>2. Sqs!TypeOK
  BY <1>0 DEF TypeOK, Sqs!TypeOK
<1>3. DuplicatesNeedFaults
  BY <1>1 DEF DuplicatesNeedFaults, RelayInv, CountedInv
<1>4. ASSUME BusInv PROVE PublishedWasDelivered
  BY <1>1, <1>4 DEF BusInv, StatusInv, PublishedWasDelivered
<1>5. ASSUME BusInv PROVE FirstDeliveriesInOrder
  <2> SUFFICES ASSUME NEW i \in DOMAIN saved, NEW j \in DOMAIN saved, i < j,
                      TopicOf[saved[i]] = TopicOf[saved[j]], Places(received, saved[j]) # {}
               PROVE  \/ status[saved[i]] \in {"failed", "dead_letter"}
                      \/ \E k \in Places(received, saved[i]) :
                            \A l \in Places(received, saved[j]) : k < l
    BY <1>1 DEF FirstDeliveriesInOrder
  <2>1. i \in 1..Len(saved) /\ j \in 1..Len(saved) /\ saved[i] \in Event /\ saved[j] \in Event
    BY <1>0
  <2>2. Before(saved, saved[i], saved[j])
    BY <2>1 DEF Before
  <2>3. FirstInOrder
    BY <1>5 DEF BusInv
  <2> QED
    BY <2>1, <2>2, <2>3 DEF FirstInOrder
<1> QED
  BY <1>0, <1>2, <1>3, <1>4, <1>5

\* Over Service Bus what the store calls published was delivered, whatever raised or was
\* cancelled meanwhile, first deliveries of a topic come in the order of publication, and
\* an event comes twice only after a fault: for all events, topics and batch sizes.
THEOREM BusRelayIsFaithful ==
    Spec => [](TypeOK /\ PublishedWasDelivered /\ FirstDeliveriesInOrder /\ DuplicatesNeedFaults)
<1>1. Init => RelayInv /\ BusInv
  BY RelayBegins
<1>2. RelayInv /\ BusInv /\ [Next]_vars => (RelayInv /\ BusInv)'
  <2>1. RelayInv /\ BusInv /\ Next => RelayInv' /\ BusInv'
    BY BusMoves, RelayKept, BusKept
  <2>2. RelayInv /\ BusInv /\ UNCHANGED vars => RelayInv' /\ BusInv'
    BY RelayRests DEF vars, store, relay, outboxVars
  <2> QED
    BY <2>1, <2>2
<1>3. RelayInv /\ BusInv
        => TypeOK /\ PublishedWasDelivered /\ FirstDeliveriesInOrder /\ DuplicatesNeedFaults
  BY RelaySuffices
<1> QED
  BY <1>1, <1>2, <1>3, PTL DEF Spec

\* Over SQS, where a request may be refused in part, an event still comes twice only after
\* a fault.
THEOREM SqsRelayRepeatsForFaults == Sqs!Spec => [](Sqs!TypeOK /\ DuplicatesNeedFaults)
<1>1. Sqs!Init => RelayInv
  BY RelayBegins DEF Sqs!Init, Init
<1>2. RelayInv /\ [Sqs!Next]_Sqs!vars => RelayInv'
  <2>1. RelayInv /\ Sqs!Next => RelayInv'
    BY SqsMoves, RelayKept
  <2>2. RelayInv /\ UNCHANGED Sqs!vars => RelayInv'
    BY RelayRests DEF Sqs!vars, Sqs!store, Sqs!relay, outboxVars
  <2> QED
    BY <2>1, <2>2
<1>3. RelayInv => Sqs!TypeOK /\ DuplicatesNeedFaults
  BY RelaySuffices
<1> QED
  BY <1>1, <1>2, <1>3, PTL DEF Sqs!Spec

\* Both invariants, each for the brokers it holds for.
RelayParts == (part \in {"bus", "sqs"} => RelayInv) /\ (part = "bus" => BusInv)

\* The relay tells the truth about what it sent, over either broker: over Service Bus what
\* is published was delivered and first deliveries come in order, and over both an event
\* comes twice only after a fault.
THEOREM RelayHolds == MCSpec => []RelayIsFaithful
<1>1. MCInit => RelayParts
  BY RelayBegins DEF MCInit, RelayParts
<1>2. RelayParts /\ [MCNext]_<<part, outboxVars, queueVars>> => RelayParts'
  <2> SUFFICES ASSUME RelayParts, [MCNext]_<<part, outboxVars, queueVars>> PROVE RelayParts'
    OBVIOUS
  <2>1. CASE part' = part /\ part = "bus" /\ (Next \/ UNCHANGED outboxVars)
    <3>1. RelayInv /\ BusInv
      BY <2>1 DEF RelayParts
    <3>2. RelayInv' /\ BusInv'
      BY <2>1, <3>1, BusMoves, RelayKept, BusKept, RelayRests
    <3> QED
      BY <3>2 DEF RelayParts
  <2>2. CASE part' = part /\ part = "sqs" /\ (Sqs!Next \/ UNCHANGED outboxVars)
    <3>1. RelayInv
      BY <2>2 DEF RelayParts
    <3>2. RelayInv'
      BY <2>2, <3>1, SqsMoves, RelayKept, RelayRests
    <3> QED
      BY <2>2, <3>2 DEF RelayParts
  <2>3. CASE part' = part /\ UNCHANGED outboxVars
    BY <2>3, RelayRests DEF RelayParts
  <2> QED
    BY <2>1, <2>2, <2>3 DEF MCNext, BusStep, SqsStep, RedisStep, MemoryStep
<1>3. RelayParts => RelayIsFaithful
  BY RelaySuffices DEF RelayParts, RelayIsFaithful
<1> QED
  BY <1>1, <1>2, <1>3, PTL DEF MCSpec
===============================================================================
