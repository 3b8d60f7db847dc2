---------------------------- MODULE QueueProcessor ----------------------------
(***************************************************************************)
(* Calls of QueueProcessor.process of                                      *)
(* src/integrations/message_queues/queue_processor.py for messages that    *)
(* the broker may hand over several times, and the deduplication store     *)
(* they share: the in-memory one, whose keys stay, or the one on Redis,    *)
(* where a lock is set in one request and gets its TTL in the next.        *)
(***************************************************************************)
EXTENDS Integers, FiniteSets

CONSTANTS
    Call,           \* the calls of process
    Message,        \* the messages, by eventId
    NumHandlers,    \* handlers registered for the messages' eventType
    Store,          \* "memory" or "redis"
    MaxRetries,     \* max_retries
    MaxConcurrent,  \* max_concurrent_messages
    MaxFaults,      \* bound on store and sink errors and on cancelled calls
    MaxExpiries     \* bound on locks that run out

StoreAssumption == Store \in {"memory", "redis"}
BoundAssumption ==
    /\ IsFiniteSet(Call)
    /\ {NumHandlers, MaxRetries, MaxConcurrent, MaxFaults, MaxExpiries} \subseteq Nat

VARIABLES
    msg,        \* the message each call was made for
    pc,         \* where each call stands
    attempt,    \* its attempt
    at,         \* the handler it is about to invoke
    lock,       \* of each message: "free", "held" or "expiring", held with a TTL
    entry,      \* of each message: the ProcessingStatus the store shows, or "none"
    ran,        \* how often each handler has completed for each message
    dead,       \* the messages in the dead-letter sink
    expiries,   \* how often the lock of each message has run out
    faults      \* faults injected so far

vars == <<msg, pc, attempt, at, lock, entry, ran, dead, expiries, faults>>

-------------------------------------------------------------------------------
HandlerNo == 1..NumHandlers
Ended     == {"success", "duplicate", "dead_letter", "aborted"}
Holding   == {"ttl", "register", "invoke", "done", "failed", "sink"}
InFlight  == {c \in Call : pc[c] \in Holding \union {"acquire"}}

Goto(c, label) == pc' = [pc EXCEPT ![c] = label]

Init ==
    /\ msg \in [Call -> Message]
    /\ pc = [c \in Call |-> "waiting"]
    /\ attempt = [c \in Call |-> 1]
    /\ at = [c \in Call |-> 1]
    /\ lock = [m \in Message |-> "free"]
    /\ entry = [m \in Message |-> "none"]
    /\ ran = [m \in Message |-> [h \in HandlerNo |-> 0]]
    /\ dead = {}
    /\ expiries = [m \in Message |-> 0]
    /\ faults = 0

\* async with self._semaphore.
Enter(c) ==
    /\ pc[c] = "waiting"
    /\ Cardinality(InFlight) < MaxConcurrent
    /\ Goto(c, "acquire")
    /\ UNCHANGED <<msg, attempt, at, lock, entry, ran, dead, expiries, faults>>

\* mark_processing that decides on the status entry, as is_processed does.
Acquire_ByEntry(c) ==
    /\ pc[c] = "acquire"
    /\ \/ /\ entry[msg[c]] = "none"
          /\ lock' = [lock EXCEPT ![msg[c]] = "held"]
          /\ Goto(c, IF Store = "redis" THEN "ttl" ELSE "register")
       \/ /\ entry[msg[c]] # "none"
          /\ Goto(c, "duplicate")
          /\ UNCHANGED lock
    /\ UNCHANGED <<msg, attempt, at, entry, ran, dead, expiries, faults>>

\* mark_processing, up to its first request (SET NX on Redis); the in-memory
\* store writes the status under the same lock.
Acquire(c) ==
    /\ pc[c] = "acquire"
    /\ \/ /\ lock[msg[c]] = "free"
          /\ lock' = [lock EXCEPT ![msg[c]] = "held"]
          /\ IF Store = "redis"
             THEN Goto(c, "ttl") /\ UNCHANGED entry
             ELSE Goto(c, "invoke") /\ entry' = [entry EXCEPT ![msg[c]] = "processing"]
       \/ /\ lock[msg[c]] # "free"
          /\ Goto(c, "duplicate")
          /\ UNCHANGED <<lock, entry>>
    /\ UNCHANGED <<msg, attempt, at, ran, dead, expiries, faults>>

\* The two requests of mark_processing on Redis that follow SET NX.
SetTtl(c) ==
    /\ pc[c] = "ttl"
    /\ lock' = [lock EXCEPT ![msg[c]] = "expiring"]
    /\ Goto(c, "register")
    /\ UNCHANGED <<msg, attempt, at, entry, ran, dead, expiries, faults>>

Register(c) ==
    /\ pc[c] = "register"
    /\ entry' = [entry EXCEPT ![msg[c]] = "processing"]
    /\ Goto(c, "invoke")
    /\ UNCHANGED <<msg, attempt, at, lock, ran, dead, expiries, faults>>

-------------------------------------------------------------------------------
\* A handler returns; after the last one the message is marked done.
HandlerReturns(c) ==
    /\ pc[c] = "invoke"
    /\ at[c] \in HandlerNo
    /\ ran' = [ran EXCEPT ![msg[c]][at[c]] = @ + 1]
    /\ at' = [at EXCEPT ![c] = @ + 1]
    /\ UNCHANGED <<msg, pc, attempt, lock, entry, dead, expiries, faults>>

HandlersReturned(c) ==
    /\ pc[c] = "invoke"
    /\ at[c] > NumHandlers
    /\ Goto(c, "done")
    /\ UNCHANGED <<msg, attempt, at, lock, entry, ran, dead, expiries, faults>>

MarkDone(c) ==
    /\ pc[c] = "done"
    /\ entry' = [entry EXCEPT ![msg[c]] = "success"]
    /\ Goto(c, "success")
    /\ UNCHANGED <<msg, attempt, at, lock, ran, dead, expiries, faults>>

\* One attempt more than there are.
Retry_OnceMore(c) ==
    /\ at' = [at EXCEPT ![c] = 1]
    /\ IF attempt[c] > MaxRetries + 1
       THEN Goto(c, "failed") /\ UNCHANGED attempt
       ELSE attempt' = [attempt EXCEPT ![c] = @ + 1] /\ Goto(c, "invoke")

\* A retry that goes on behind the handler that failed.
Retry_NextHandler(c) ==
    /\ at' = [at EXCEPT ![c] = @ + 1]
    /\ IF attempt[c] > MaxRetries
       THEN Goto(c, "failed") /\ UNCHANGED attempt
       ELSE attempt' = [attempt EXCEPT ![c] = @ + 1] /\ Goto(c, "invoke")

\* The except clause of the attempt: after a backoff all handlers are invoked
\* again, unless this was the last attempt.
Retry(c) ==
    /\ at' = [at EXCEPT ![c] = 1]
    /\ IF attempt[c] > MaxRetries
       THEN Goto(c, "failed") /\ UNCHANGED attempt
       ELSE attempt' = [attempt EXCEPT ![c] = @ + 1] /\ Goto(c, "invoke")

HandlerRaises(c) ==
    /\ pc[c] = "invoke"
    /\ at[c] \in HandlerNo
    /\ Retry(c)
    /\ UNCHANGED <<msg, lock, entry, ran, dead, expiries, faults>>

\* mark_failed that lets the next delivery of the message in.
MarkFailed_Free(c) ==
    /\ pc[c] = "failed"
    /\ entry' = [entry EXCEPT ![msg[c]] = "failed"]
    /\ lock' = [lock EXCEPT ![msg[c]] = "free"]
    /\ Goto(c, "sink")
    /\ UNCHANGED <<msg, attempt, at, ran, dead, expiries, faults>>

\* The dead-letter part: mark_failed, then the send to the sink.
MarkFailed(c) ==
    /\ pc[c] = "failed"
    /\ entry' = [entry EXCEPT ![msg[c]] = "failed"]
    /\ Goto(c, "sink")
    /\ UNCHANGED <<msg, attempt, at, lock, ran, dead, expiries, faults>>

SendToSink(c) ==
    /\ pc[c] = "sink"
    /\ dead' = dead \union {msg[c]}
    /\ Goto(c, "dead_letter")
    /\ UNCHANGED <<msg, attempt, at, lock, entry, ran, expiries, faults>>

-------------------------------------------------------------------------------
\* mark_done raises inside the try: the attempt counts as failed, whether the
\* store has the new status or not.
MarkDoneRaises(c) ==
    /\ pc[c] = "done"
    /\ faults < MaxFaults
    /\ faults' = faults + 1
    /\ \/ UNCHANGED entry
       \/ entry' = [entry EXCEPT ![msg[c]] = "success"]
    /\ Retry(c)
    /\ UNCHANGED <<msg, lock, ran, dead, expiries>>

\* The task is cancelled, or a request outside the try raises: the call is over
\* where it stands.  The lock it holds stays.
Abort(c) ==
    /\ pc[c] \in Holding
    /\ faults < MaxFaults
    /\ faults' = faults + 1
    /\ Goto(c, "aborted")
    /\ UNCHANGED <<msg, attempt, at, lock, entry, ran, dead, expiries>>

\* processing_ttl_seconds have passed, perhaps while a handler still runs.
LockExpires(m) ==
    /\ lock[m] = "expiring"
    /\ expiries[m] < MaxExpiries
    /\ expiries' = [expiries EXCEPT ![m] = @ + 1]
    /\ lock' = [lock EXCEPT ![m] = "free"]
    /\ UNCHANGED <<msg, pc, attempt, at, entry, ran, dead, faults>>

Step(c) ==
    \/ Enter(c)
    \/ Acquire(c)
    \/ SetTtl(c)
    \/ Register(c)
    \/ HandlerReturns(c)
    \/ HandlersReturned(c)
    \/ HandlerRaises(c)
    \/ MarkDone(c)
    \/ MarkFailed(c)
    \/ SendToSink(c)

AllEnded == \A c \in Call : pc[c] \in Ended

Next ==
    \/ \E c \in Call : Step(c) \/ MarkDoneRaises(c) \/ Abort(c)
    \/ \E m \in Message : LockExpires(m)
    \/ AllEnded /\ UNCHANGED vars

Spec == Init /\ [][Next]_vars

\* Calls are tasks of one event loop and handlers return or raise.
FairSpec == Spec /\ \A c \in Call : WF_vars(Step(c))

-------------------------------------------------------------------------------
\* The types of the variables.
TypeOK ==
    /\ msg \in [Call -> Message]
    /\ pc \in [Call -> {"waiting", "acquire"} \union Holding \union Ended]
    /\ attempt \in [Call -> 1..MaxRetries + 1]
    /\ at \in [Call -> 1..NumHandlers + 1]
    /\ lock \in [Message -> {"free", "held", "expiring"}]
    /\ entry \in [Message -> {"none", "processing", "success", "failed"}]
    /\ ran \in [Message -> [HandlerNo -> Nat]]
    /\ dead \subseteq Message
    /\ expiries \in [Message -> 0..MaxExpiries]
    /\ faults \in 0..MaxFaults

\* Two calls work on one message only when its lock ran out meanwhile.
OneCallPerMessage ==
    \A c, d \in Call :
        c # d /\ msg[c] = msg[d] /\ pc[c] \in Holding /\ pc[d] \in Holding
            => expiries[msg[c]] > 0

\* The store says success only of a message every handler has completed.
SuccessMeansHandled ==
    \A m \in Message : entry[m] = "success" => \A h \in HandlerNo : ran[m][h] > 0

\* Retries and redeliveries together run a handler max_retries + 1 times at the
\* most, and as often again for each lock that ran out.
HandlerRunsBounded ==
    \A m \in Message, h \in HandlerNo :
        ran[m][h] <= (MaxRetries + 1) * (1 + expiries[m])

\* Handlers run in registration order in every attempt: none has completed more
\* often than the one registered before it.
RegistrationOrderKept ==
    \A m \in Message, h \in HandlerNo : h > 1 => ran[m][h] <= ran[m][h - 1]

\* A message is not called a success and given to the dead-letter sink, unless
\* it was processed again after its lock ran out.
DeadIsNotSuccess ==
    \A m \in dead : entry[m] = "success" => expiries[m] > 0

\* Every call ends: the semaphore is always handed on and no retry goes on for
\* ever, whatever the handlers do.
CallsEnd == \A c \in Call : <>(pc[c] \in Ended)

-------------------------------------------------------------------------------
\* "Exactly-once processing semantics".
ExactlyOnce == \A m \in Message, h \in HandlerNo : ran[m][h] <= 1

\* "Dead-letter queue forwarding after max_retries exhausted": a message the
\* store calls failed is in the sink, or on its way there.
FailedIsForwarded ==
    \A m \in Message :
        entry[m] = "failed" => m \in dead \/ \E c \in Call : msg[c] = m /\ pc[c] = "sink"

===============================================================================
