----------------------------- MODULE Monitoring -----------------------------
(***************************************************************************)
(* What watches the agents: AnomalyDetector counts their events in sliding *)
(* windows, called by several threads and guarded by a lock per agent that *)
(* is made when it is first asked for; MCPAccessLogger is a proxy around   *)
(* an MCP server that records every call; observe_agent_run and the        *)
(* HalconEmitter append what a run was like to a file of sessions, which   *)
(* is read back whole, in a process that may stop in the middle of a line. *)
(* Utilities are in hundredths.                                            *)
(***************************************************************************)
EXTENDS Integers, Sequences, FiniteSets

CONSTANTS
    Threads, Agents,
    Windows,          \* kind of event -> [seconds, threshold]
    Runs,             \* what agent runs may be like
    MaxTime, MaxEvents, MaxCalls, MaxRuns, MaxFaults     \* bounds

Nobody == "nobody"
Global == "global"        \* _global_lock, of the block window

MonitoringAssumption ==
    /\ \A k \in DOMAIN Windows : Windows[k] \in [seconds : Nat, threshold : Nat]
    /\ Nobody \notin Threads
    /\ {MaxTime, MaxEvents, MaxCalls, MaxRuns, MaxFaults} \subseteq Nat

VARIABLES
    watcher,      \* which of the three is followed: they share no state
    clock, faults,
    locks,        \* agent -> the thread that made its lock, or Nobody
    held,         \* the locks that are held: who made them, for which agent
    raced,        \* agents whose lock two threads made at once (history)
    window,       \* kind -> agent -> times in the deque
    events,       \* kind -> agent -> times of all events (history)
    thread,       \* thread -> what it is doing, since when, and what it has counted
    alerts,       \* alerts that were raised: is the entry in the audit log
    accesses,     \* lines of mcp_access.jsonl
    denials,      \* denials in the audit log
    calls,        \* calls through the proxy (history)
    lines,        \* the file of sessions: lines of pieces of records
    torn,         \* its last line has no end
    kept          \* runs whose record was written whole (history)

detector == <<locks, held, raced, window, events, thread, alerts>>
proxy == <<accesses, denials, calls>>
sessions == <<lines, torn, kept>>
vars == <<watcher, clock, faults, detector, proxy, sessions>>

Kinds == DOMAIN Windows
Rest == [at |-> "rest"]
Watched == Agents \cup {Global}

-----------------------------------------------------------------------------
(* AnomalyDetector *)

Reported ==
    Cardinality({e \in Kinds \X Watched \X (1 .. MaxEvents) : e[3] <= Len(events[e[1]][e[2]])})
Attempts == Cardinality({i \in DOMAIN alerts : alerts[i].kind = "cross_tenant"})

\* A thread asks for the lock of an agent.  If there is none it makes one, and stores it.
Detect(t, k, a) ==
    /\ watcher = "detector" /\ thread[t] = Rest
    /\ Reported + Attempts < MaxEvents
    /\ (k = "block") <=> (a = Global)
    /\ thread' = [thread EXCEPT ![t] =
           [at |-> IF locks[a] = Nobody THEN "making" ELSE "waiting",
            kind |-> k, agent |-> a, lock |-> locks[a], now |-> 0, count |-> 0]]
    /\ UNCHANGED <<watcher, clock, faults, locks, held, raced, window, events, alerts,
                   proxy, sessions>>

\* The default factory of the dictionary has run; another thread's may have run meanwhile.
StoreLock(t) ==
    /\ thread[t].at = "making"
    /\ locks' = [locks EXCEPT ![thread[t].agent] = t]
    /\ raced' = IF locks[thread[t].agent] = Nobody THEN raced ELSE raced \cup {thread[t].agent}
    /\ thread' = [thread EXCEPT ![t].at = "waiting", ![t].lock = t]
    /\ UNCHANGED <<watcher, clock, faults, held, window, events, alerts, proxy, sessions>>

\* With the lock, the clock is read.
Acquire(t) ==
    /\ thread[t].at = "waiting"
    /\ <<thread[t].agent, thread[t].lock>> \notin held
    /\ held' = held \cup {<<thread[t].agent, thread[t].lock>>}
    /\ thread' = [thread EXCEPT ![t].at = "counting", ![t].now = clock]
    /\ UNCHANGED <<watcher, clock, faults, locks, raced, window, events, alerts,
                   proxy, sessions>>

\* Mutant: the event at the edge of the window is dropped.
Evict_Edge(times, now, seconds) ==
    LET stale == {i \in DOMAIN times : \A j \in 1 .. i : now - times[j] >= seconds}
    IN  SubSeq(times, Cardinality(stale) + 1, Len(times))

\* popleft() while the oldest time is out of the window.
Evict(times, now, seconds) ==
    LET stale == {i \in DOMAIN times : \A j \in 1 .. i : now - times[j] > seconds}
    IN  SubSeq(times, Cardinality(stale) + 1, Len(times))

Count(t) ==
    LET k == thread[t].kind
        a == thread[t].agent
        left == Append(Evict(window[k][a], thread[t].now, Windows[k].seconds), thread[t].now)
    IN  /\ thread[t].at = "counting"
        /\ window' = [window EXCEPT ![k][a] = left]
        /\ events' = [events EXCEPT ![k][a] = Append(@, thread[t].now)]
        /\ thread' = [thread EXCEPT ![t].at = "counted", ![t].count = Len(left)]
        /\ UNCHANGED <<watcher, clock, faults, locks, held, raced, alerts, proxy, sessions>>

\* An alert goes to the audit log, which may fail; what becomes of the webhook, sent from a
\* thread of its own, is only logged.
DispatchAlert(kind) ==
    \E written \in BOOLEAN :
        /\ written \/ faults < MaxFaults
        /\ faults' = IF written THEN faults ELSE faults + 1
        /\ alerts' = Append(alerts, [kind |-> kind, audited |-> written])

Release(t) ==
    /\ thread[t].at = "counted"
    /\ IF thread[t].count > Windows[thread[t].kind].threshold THEN DispatchAlert(thread[t].kind)
       ELSE UNCHANGED <<faults, alerts>>
    /\ held' = held \ {<<thread[t].agent, thread[t].lock>>}
    /\ thread' = [thread EXCEPT ![t] = Rest]
    /\ UNCHANGED <<watcher, clock, locks, raced, window, events, proxy, sessions>>

\* An attempt to reach another tenant is an alert at once: no lock, and no count.
DetectCrossTenantAttempt ==
    /\ watcher = "detector" /\ Reported + Attempts < MaxEvents
    /\ DispatchAlert("cross_tenant")
    /\ UNCHANGED <<watcher, clock, locks, held, raced, window, events, thread, proxy, sessions>>

-----------------------------------------------------------------------------
(* MCPAccessLogger.wrap_server *)

\* What a call of the wrapped server comes to.
Outcomes == {"response_ok", "response_denied", "dict_ok", "dict_error_text", "dict_error_object",
             "text", "coroutine", "raises", "odd_status"}

\* _extract_result_metadata; a status that is no number raises, and the call counts as raised.
Allowed(outcome) == outcome \in {"response_ok", "dict_ok", "text", "coroutine"}
Raises(outcome) == outcome \in {"raises", "odd_status"}

\* The reason is cut to 200 characters for the audit entry: one that is an object cannot be.
Audits(outcome) == ~Allowed(outcome) /\ outcome # "dict_error_object"

LogCall(outcome) ==
    /\ watcher = "proxy" /\ Len(calls) < MaxCalls
    /\ \E written, audited \in BOOLEAN :
           /\ faults + (IF written THEN 0 ELSE 1) + (IF audited THEN 0 ELSE 1) <= MaxFaults
           /\ faults' = faults + (IF written THEN 0 ELSE 1) + (IF audited THEN 0 ELSE 1)
           /\ accesses' = IF written THEN Append(accesses, [allowed |-> Allowed(outcome)])
                          ELSE accesses
           /\ denials' = IF Audits(outcome) /\ audited THEN denials + 1 ELSE denials
    /\ calls' = Append(calls, outcome)
    /\ UNCHANGED <<watcher, clock, detector, sessions>>

-----------------------------------------------------------------------------
(* observe_agent_run, HalconEmitter *)

Clamp(x) == IF x < 0 THEN 0 ELSE IF x > 100 THEN 100 ELSE x
AtLeastOne(n) == IF n < 1 THEN 1 ELSE n

\* What record_completion and the exception handler leave in the context.  A run that
\* was cancelled is not an Exception: its context is emitted as it stands.
Context(run) ==
    CASE run.end = "result" -> [success |-> run.error = "none", error |-> run.error,
                                score |-> run.score, wasted |-> run.wasted, total |-> run.total]
      [] run.end = "raises" -> [success |-> FALSE, error |-> run.error, score |-> 0,
                                wasted |-> run.wasted, total |-> 0]
      [] run.end = "cancelled" -> [success |-> FALSE, error |-> "none", score |-> 0,
                                   wasted |-> run.wasted, total |-> 0]

FailureMode(c) ==
    IF c.success \/ c.error \in {"none", "empty"} THEN "none"
    ELSE IF c.error \in {"timeout", "timeout connection"} THEN "api_timeout"
    ELSE IF c.error = "connection" THEN "connection_error"
    ELSE IF c.error = "rate" THEN "rate_limit"
    ELSE "tool_error"

ToHalconMetrics(c) ==
    [convergence |-> Clamp(100 - (c.wasted * 100) \div AtLeastOne(c.total)),
     adaptation |-> Clamp((c.wasted * 100) \div AtLeastOne(c.total)),
     utility |-> Clamp(c.score), success |-> c.success, mode |-> FailureMode(c),
     trajectory |-> IF c.success THEN "monotonic" ELSE IF c.score = 0 THEN "flat"
                    ELSE "non-monotonic"]

Valid(h) == {h.convergence, h.adaptation, h.utility} \subseteq 0 .. 100

\* Mutant: the file is opened to write, not to append.
WithPiece_Overwrites(piece) == <<<<piece>>>>

\* A piece goes to the line that has no end, or begins a line.
WithPiece(piece) ==
    IF torn THEN [lines EXCEPT ![Len(lines)] = Append(@, piece)] ELSE Append(lines, <<piece>>)

Written == Cardinality({at \in (1 .. MaxRuns) \X (1 .. MaxRuns) :
                            at[1] \in DOMAIN lines /\ at[2] \in DOMAIN lines[at[1]]})

\* The run ends, and emit() writes its line: whole, not at all, or the process stops in it
\* (of a torn line all may have been written but its end).
Observe(run) ==
    /\ watcher = "sessions" /\ Written < MaxRuns
    /\ LET h == ToHalconMetrics(Context(run))
           piece == [id |-> Written + 1, metrics |-> h, whole |-> TRUE]
       IN  IF Valid(h)
           THEN \/ /\ lines' = WithPiece(piece)
                   /\ kept' = kept \cup {[piece |-> piece, glued |-> torn]}
                   /\ torn' = FALSE /\ UNCHANGED faults
                \/ /\ faults < MaxFaults /\ faults' = faults + 1
                   /\ \E whole \in BOOLEAN : lines' = WithPiece([piece EXCEPT !.whole = whole])
                   /\ torn' = TRUE /\ UNCHANGED kept
                \/ /\ faults < MaxFaults /\ faults' = faults + 1
                   /\ UNCHANGED sessions
           ELSE UNCHANGED <<faults, sessions>>
    /\ UNCHANGED <<watcher, clock, detector, proxy>>

\* load_session_history: the lines that are one JSON value each.
Loaded == {lines[i][1] : i \in {i \in DOMAIN lines : Len(lines[i]) = 1 /\ lines[i][1].whole}}

Modes == {p.metrics.mode : p \in Loaded} \ {"none"}
CountOf(mode) == Cardinality({p \in Loaded : p.metrics.mode = mode})
DominantFailureMode == {m \in Modes : \A n \in Modes : CountOf(n) <= CountOf(m)}

-----------------------------------------------------------------------------
Tick ==
    /\ watcher = "detector" /\ clock < MaxTime /\ clock' = clock + 1
    /\ UNCHANGED <<watcher, faults, detector, proxy, sessions>>

Init ==
    /\ watcher \in {"detector", "proxy", "sessions"}
    /\ clock = 0 /\ faults = 0
    /\ locks = [a \in Watched |-> IF a = Global THEN Global ELSE Nobody]
    /\ held = {} /\ raced = {}
    /\ window = [k \in Kinds |-> [a \in Watched |-> <<>>]] /\ events = window
    /\ thread = [t \in Threads |-> Rest] /\ alerts = <<>>
    /\ accesses = <<>> /\ denials = 0 /\ calls = <<>>
    /\ lines = <<>> /\ torn = FALSE /\ kept = {}

Work == \E t \in Threads : StoreLock(t) \/ Acquire(t) \/ Count(t) \/ Release(t)

Next ==
    \/ Work \/ Tick \/ DetectCrossTenantAttempt
    \/ \E t \in Threads, k \in Kinds, a \in Watched : Detect(t, k, a)
    \/ \E outcome \in Outcomes : LogCall(outcome)
    \/ \E run \in Runs : Observe(run)

Spec == Init /\ [][Next]_vars
\* Threads that have begun go on.
FairSpec ==
    /\ Spec
    /\ \A t \in Threads :
           WF_vars(StoreLock(t) \/ Count(t) \/ Release(t)) /\ SF_vars(Acquire(t))

-----------------------------------------------------------------------------
(* Properties *)

TypeOK ==
    /\ watcher \in {"detector", "proxy", "sessions"}
    /\ window \in [Kinds -> [Watched -> Seq(Nat)]]
    /\ raced \subseteq Agents
    /\ \A t \in Threads : thread[t].at \in {"rest", "making", "waiting", "counting", "counted"}
    /\ Len(accesses) <= Len(calls) /\ denials <= Len(calls)
    /\ torn => lines # <<>>

Within(times, now, seconds) == Cardinality({i \in DOMAIN times : now - times[i] <= seconds})

\* A count is that of the events of that kind and agent within the window up to now,
\* whichever threads reported them, unless two threads made the agent's lock at once
\* ("all state mutations are protected by per-agent RLocks").
CountsAreExact ==
    \A t \in Threads :
        (thread[t].at = "counted" /\ thread[t].agent \notin raced) =>
            LET k == thread[t].kind
                a == thread[t].agent
            IN  thread[t].count = Within(events[k][a], thread[t].now, Windows[k].seconds)

\* The same without the exception: does not hold.
LockedCountsAreExact ==
    \A t \in Threads :
        thread[t].at = "counted" =>
            LET k == thread[t].kind
                a == thread[t].agent
            IN  thread[t].count = Within(events[k][a], thread[t].now, Windows[k].seconds)

\* A call through the proxy is one line of the log or a line the disk refused, and no more
\* calls are denials of the audit log than were denied.
CallsAreLogged ==
    /\ Len(calls) <= Len(accesses) + faults
    /\ Cardinality({i \in DOMAIN accesses : ~accesses[i].allowed})
           <= Cardinality({i \in DOMAIN calls : ~Allowed(calls[i])})
    /\ denials <= Cardinality({i \in DOMAIN calls : ~Allowed(calls[i])})

\* "Write to tamper-evident audit log (denials only - for security audit trail)": does
\* not hold, a JSON-RPC error object is a reason that cannot be cut to its length.
DenialsAreAudited ==
    Cardinality({i \in DOMAIN calls : ~Allowed(calls[i])}) <= denials + faults

\* What was written whole is read back, in a file that was torn before it as well, but for
\* the one record that was appended to the torn line: one for each fault at most.
SessionsReadBack ==
    /\ \A k \in kept : k.piece \in Loaded \/ k.glued
    /\ Cardinality({k \in kept : k.piece \notin Loaded}) <= faults

\* "All records are preserved": does not hold, the record after a torn one is glued to it.
EveryRecordIsPreserved == \A k \in kept : k.piece \in Loaded

\* A run that did not succeed has a failure mode: does not hold of one that was cancelled.
FailuresHaveModes == \A p \in Loaded : ~p.metrics.success => p.metrics.mode # "none"

MonitoringIsSound == CountsAreExact /\ CallsAreLogged /\ SessionsReadBack

\* A detection ends: locks are given back, whoever made them.
DetectionsEnd == \A t \in Threads : thread[t] # Rest ~> thread[t] = Rest
=============================================================================
