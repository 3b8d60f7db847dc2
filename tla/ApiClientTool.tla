------------------------------ MODULE ApiClientTool -----------------------------
(***************************************************************************)
(* APIClientTool (src/tools/api-client-tool/tool.py), which the agents     *)
(* share for their requests: a sliding window, a circuit breaker and       *)
(* retries with a growing delay.  It makes one call at a time; what time   *)
(* does to it are the requests, the delays and the pauses between calls.   *)
(***************************************************************************)
EXTENDS Integers, Sequences, FiniteSets

CONSTANTS
    Window, MaxRequests,    \* window_seconds, max_requests
    Threshold, Recovery,    \* of the breaker
    MaxRetries,
    Factor, MaxDelay,       \* backoff_factor, max_delay_seconds; the first delay is 1
    MaxTime                 \* bound on the clock

ToolAssumption ==
    /\ {Window, MaxRequests, Threshold, Recovery, MaxRetries} \subseteq Nat \ {0}
    /\ {Factor, MaxDelay, MaxTime} \subseteq Nat

VARIABLES
    now,
    timestamps,     \* of the limiter
    state, failures, openedAt, probeSent,   \* of the breaker
    pc,             \* "idle", "request" or "sleep"
    attempt, delay, wake,
    refused,        \* observed: the limiter refused the last call the breaker let in
    raised,         \* observed: the last request raised what nobody catches
    sent            \* observed: when requests were sent

breaker == <<state, failures, openedAt, probeSent>>
vars == <<now, timestamps, breaker, pc, attempt, delay, wake, refused, raised, sent>>

Init ==
    /\ now = 0 /\ timestamps = <<>> /\ sent = <<>>
    /\ state = "CLOSED" /\ failures = 0 /\ openedAt = 0 /\ probeSent = FALSE
    /\ pc = "idle" /\ attempt = 0 /\ delay = 1 /\ wake = 0
    /\ refused = FALSE /\ raised = FALSE

-------------------------------------------------------------------------------
\* state: half open once the timeout has passed.
Recovered == state = "OPEN" /\ now - openedAt >= Recovery

AllowRequest == state = "CLOSED" \/ Recovered \/ (state = "HALF_OPEN" /\ ~probeSent)

\* record_success, record_failure.
RecordSuccess ==
    state' = "CLOSED" /\ failures' = 0 /\ openedAt' = 0 /\ probeSent' = FALSE

RecordFailure_Late ==
    /\ failures' = failures + 1
    /\ IF failures > Threshold
       THEN state' = "OPEN" /\ openedAt' = now
       ELSE UNCHANGED <<state, openedAt>>
    /\ UNCHANGED probeSent

RecordFailure ==
    /\ failures' = failures + 1
    /\ IF state = "HALF_OPEN" \/ failures' >= Threshold
       THEN state' = "OPEN" /\ openedAt' = now
       ELSE UNCHANGED <<state, openedAt>>
    /\ probeSent' = (probeSent /\ state # "HALF_OPEN")

\* is_allowed: entries are evicted from the left, up to the first that is not older than
\* the window; one as old as the window is still in it.
Stale == {i \in DOMAIN timestamps : \A j \in 1..i : timestamps[j] < now - Window}
Current == SubSeq(timestamps, Cardinality(Stale) + 1, Len(timestamps))

Send == /\ pc' = "request" /\ attempt' = attempt + 1
        /\ sent' = Append(sent, now)

Return == pc' = "idle" /\ attempt' = 0 /\ delay' = 1

-------------------------------------------------------------------------------
\* call, of a method and to a host that are allowed.  The breaker is asked first, and
\* takes what it lets in for the probe; then the limiter.
CallBlocked ==
    /\ pc = "idle" /\ ~AllowRequest
    /\ UNCHANGED vars

CallAdmitted ==
    /\ pc = "idle" /\ AllowRequest
    /\ state' = IF Recovered THEN "HALF_OPEN" ELSE state
    /\ probeSent' = (state' = "HALF_OPEN")
    /\ IF Len(Current) < MaxRequests
       THEN Send /\ timestamps' = Append(Current, now) /\ refused' = FALSE
       ELSE /\ timestamps' = Current /\ refused' = TRUE
            /\ UNCHANGED <<pc, attempt, sent>>
    /\ raised' = FALSE
    /\ UNCHANGED <<now, failures, openedAt, delay, wake>>

Succeeds ==
    /\ pc = "request"
    /\ RecordSuccess /\ Return
    /\ UNCHANGED <<now, timestamps, wake, refused, raised, sent>>

\* A body of the wrong form, or an answer with a status from 400 to 499.
FailsForGood ==
    /\ pc = "request"
    /\ RecordFailure /\ Return
    /\ UNCHANGED <<now, timestamps, wake, refused, raised, sent>>

\* A timeout, 429 or a status from 500: again after a delay, whatever the breaker and
\* the limiter say, up to max_retries.
Fails ==
    /\ pc = "request"
    /\ RecordFailure
    /\ IF attempt < MaxRetries
       THEN /\ pc' = "sleep" /\ wake' = now + delay
            /\ delay' = IF delay * Factor < MaxDelay THEN delay * Factor ELSE MaxDelay
            /\ UNCHANGED attempt
       ELSE Return /\ UNCHANGED wake
    /\ UNCHANGED <<now, timestamps, refused, raised, sent>>

\* What _execute_request does not catch, such as a body that cannot be encoded.
Raises ==
    /\ pc = "request"
    /\ Return /\ raised' = TRUE
    /\ UNCHANGED <<now, timestamps, breaker, wake, refused, sent>>

Retry ==
    /\ pc = "sleep" /\ now >= wake
    /\ Send /\ timestamps' = Append(timestamps, now)
    /\ UNCHANGED <<now, breaker, delay, wake, refused, raised>>

Tick ==
    /\ now < MaxTime /\ now' = now + 1
    /\ pc = "sleep" => now < wake
    /\ UNCHANGED <<timestamps, breaker, pc, attempt, delay, wake, refused, raised, sent>>

Answer == Succeeds \/ FailsForGood \/ Fails \/ Raises

Work == Answer \/ Retry

Next == CallBlocked \/ CallAdmitted \/ Work \/ Tick \/ (now = MaxTime /\ UNCHANGED vars)

Spec == Init /\ [][Next]_vars

\* Requests return, and time goes on.
FairSpec == Spec /\ WF_vars(Work) /\ WF_vars(Tick)

-------------------------------------------------------------------------------
\* The types of the variables.
TypeOK ==
    /\ now \in 0..MaxTime /\ openedAt \in 0..now
    /\ state \in {"CLOSED", "OPEN", "HALF_OPEN"} /\ failures \in Nat
    /\ {probeSent, refused, raised} \subseteq BOOLEAN
    /\ pc \in {"idle", "request", "sleep"} /\ attempt \in 0..MaxRetries
    /\ \A i \in DOMAIN timestamps : timestamps[i] \in 0..now

SentInWindow(t) == {i \in DOMAIN sent : t - Window < sent[i] /\ sent[i] <= t}

\* The limiter is asked once for a call with all its retries: in no window are more
\* requests than the limit and the retries of one call.
WindowOverrunIsBounded ==
    \A t \in 0..now : Cardinality(SentInWindow(t)) < MaxRequests + MaxRetries

\* The breaker is closed exactly as long as fewer failures than its threshold follow
\* each other, though calls go on to try while it opens.
ClosedBelowThreshold == state = "CLOSED" <=> failures < Threshold

\* A half-open breaker whose probe is over has lost it to the limiter or to an
\* exception: an answer of any kind decides it.
AnswersDecideTheProbe ==
    state = "HALF_OPEN" /\ probeSent /\ pc = "idle" => refused \/ raised

\* Every call ends, unless the bound on the clock keeps it asleep.
CallsEnd == []<>(pc = "idle" \/ (pc = "sleep" /\ wake > MaxTime))

-------------------------------------------------------------------------------
\* "HALF_OPEN: one probe request is allowed after recovery_timeout_seconds. If it
\* succeeds, circuit closes. If it fails, circuit reopens.": a probe that was never
\* sent is waited for, and the tool refuses every call from then on.
ProbeIsDecided == state = "HALF_OPEN" /\ probeSent => pc # "idle"
===============================================================================
