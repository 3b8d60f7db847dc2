------------------------------- MODULE ApiGateway -------------------------------
(***************************************************************************)
(* The API gateway (src/integrations/api_gateway): its middleware admits a *)
(* request (sliding windows, then the token, whose key may have to be      *)
(* fetched), a route changes a run, and a background task starts the run   *)
(* a while after it was created.  Identity provider: external.             *)
(***************************************************************************)
EXTENDS Integers, Sequences, FiniteSets

CONSTANTS
    Client,         \* addresses, by which requests are counted
    Window, Limit,            \* window_seconds, max_requests
    BurstWindow, Burst,     \* burst_window_seconds, burst_max_requests
    KeyLife,        \* how long the keys of the provider are kept
    MaxRuns, MaxTime, MaxKeys,  \* bounds on the runs, the clock and the key rotations
    MaxFetching     \* bound on the requests that wait for keys at a time

GatewayAssumption ==
    /\ {Window, Limit, BurstWindow, Burst, KeyLife} \subseteq Nat \ {0}
    /\ {MaxRuns, MaxTime, MaxFetching} \subseteq Nat /\ MaxKeys \in Nat \ {0}
    /\ BurstWindow <= Window

VARIABLES
    now,
    bucket, burst,  \* _buckets of the two limiters
    admitted,       \* observed, per client: when requests passed both
    runs,           \* _RUNS_STORE
    pending,        \* the runs whose background task sleeps
    provider,       \* the key of the identity provider
    rotated,        \* observed: when it was replaced last
    keys,           \* _jwks_cache and _jwks_fetched_at
    fetching        \* requests that wait for the keys

vars == <<now, bucket, burst, admitted, runs, pending, provider, rotated, keys, fetching>>

-------------------------------------------------------------------------------
Run == 1..MaxRuns
Terminal == {"completed", "cancelled"}

Init ==
    /\ now = 0
    /\ bucket = [c \in Client |-> <<>>] /\ burst = [c \in Client |-> <<>>]
    /\ admitted = [c \in Client |-> <<>>]
    /\ runs = [r \in Run |-> "none"] /\ pending = {}
    /\ provider = 1 /\ rotated = 0 /\ keys = [key |-> 0, at |-> 0] /\ fetching = {}

\* The routes, and the run a request names.
Op == {"start", "pause", "resume", "cancel", "list"}
Request == [client : Client, op : Op, run : Run, kid : 1..MaxKeys]

-------------------------------------------------------------------------------
Expired(timestamps, window) == {i \in DOMAIN timestamps : timestamps[i] <= now - window}

\* is_allowed: the timestamps that are still in the window.  They are kept in the order of
\* the clock, so those that are evicted come first.
InWindow(timestamps, window) ==
    SubSeq(timestamps, Cardinality(Expired(timestamps, window)) + 1, Len(timestamps))

RetryAfter(timestamps, window) == Head(timestamps) + window - now + 1

RetryAfter_Exact(timestamps, window) == Head(timestamps) + window - now - 1

\* The routes that change a run; the others read.
Route(q) ==
    LET s == runs[q.run]
        set(to) == runs' = [runs EXCEPT ![q.run] = to]
    IN  IF q.op = "start" /\ s = "none"
        THEN set("pending") /\ pending' = pending \union {q.run}
        ELSE /\ UNCHANGED pending
             /\ CASE q.op = "pause" /\ s = "running" -> set("paused")
                  [] q.op = "resume" /\ s = "paused" -> set("running")
                  [] q.op = "cancel" /\ s \notin Terminal \union {"none"} -> set("cancelled")
                  [] OTHER -> UNCHANGED runs

\* _decode_token with the key at hand: a token of another is refused.
Decode(q, key) == IF q.kid = key THEN Route(q) ELSE UNCHANGED <<runs, pending>>

Fresh == keys.key # 0 /\ now - keys.at <= KeyLife

Fresh_Any == keys.key # 0

\* The rate limiters, then the token.
Admit(q) ==
    LET c == q.client
        quick == InWindow(burst[c], BurstWindow)
        slow == InWindow(bucket[c], Window)
        none == UNCHANGED <<runs, pending, fetching>>
    IN  /\ provider >= q.kid
        /\ CASE Len(quick) >= Burst -> none /\ UNCHANGED <<bucket, burst, admitted>>
             [] Len(quick) < Burst /\ Len(slow) >= Limit ->
                   none /\ burst' = [burst EXCEPT ![c] = Append(quick, now)]
                   /\ UNCHANGED <<bucket, admitted>>
             [] OTHER ->
                   /\ burst' = [burst EXCEPT ![c] = Append(quick, now)]
                   /\ bucket' = [bucket EXCEPT ![c] = Append(slow, now)]
                   /\ admitted' = [admitted EXCEPT ![c] = Append(@, now)]
                   /\ IF Fresh
                      THEN Decode(q, keys.key) /\ UNCHANGED fetching
                      ELSE /\ Cardinality(fetching) < MaxFetching
                           /\ fetching' = fetching \union {[request |-> q, since |-> now]}
                           /\ UNCHANGED <<runs, pending>>
    /\ UNCHANGED <<now, provider, rotated, keys>>

\* _get_jwks_key: the keys are as old as the moment their request began.
FetchKeys(f) ==
    /\ f \in fetching
    /\ fetching' = fetching \ {f}
    /\ keys' = [key |-> provider, at |-> f.since]
    /\ Decode(f.request, provider)
    /\ UNCHANGED <<now, bucket, burst, admitted, provider, rotated>>

\* The provider does not answer: the client gets an error.
FetchFails(f) ==
    /\ f \in fetching
    /\ fetching' = fetching \ {f}
    /\ UNCHANGED <<now, bucket, burst, admitted, runs, pending, provider, rotated, keys>>

RotateKey ==
    /\ provider < MaxKeys /\ provider' = provider + 1 /\ rotated' = now
    /\ UNCHANGED <<now, bucket, burst, admitted, runs, pending, keys, fetching>>

SimulateRunStart_Kept(r) ==
    /\ r \in pending
    /\ runs' = [runs EXCEPT ![r] = "running"]
    /\ UNCHANGED <<now, bucket, burst, admitted, pending, provider, rotated, keys, fetching>>

\* _simulate_run_start: the run is set to running whatever became of it.
SimulateRunStart(r) ==
    /\ r \in pending
    /\ pending' = pending \ {r}
    /\ runs' = [runs EXCEPT ![r] = "running"]
    /\ UNCHANGED <<now, bucket, burst, admitted, provider, rotated, keys, fetching>>

Tick ==
    /\ now < MaxTime /\ now' = now + 1
    /\ UNCHANGED <<bucket, burst, admitted, runs, pending, provider, rotated, keys, fetching>>

Background ==
    \/ \E f \in fetching : FetchKeys(f) \/ FetchFails(f)
    \/ \E r \in Run : SimulateRunStart(r)

Next == Background \/ (\E q \in Request : Admit(q)) \/ RotateKey \/ Tick

Spec == Init /\ [][Next]_vars

\* The background tasks wake, and the provider answers or times out.
FairSpec == Spec /\ WF_vars(Background)

-------------------------------------------------------------------------------
\* The types of the variables.
TypeOK ==
    /\ now \in 0..MaxTime
    /\ \A c \in Client : Len(bucket[c]) <= Limit /\ Len(burst[c]) <= Burst
    /\ runs \in [Run -> {"none", "pending", "running", "paused", "cancelled"}]
    /\ pending \subseteq Run /\ provider \in 1..MaxKeys
    /\ keys \in [key : 0..MaxKeys, at : 0..MaxTime]
    /\ \A f \in fetching : f.request \in Request /\ f.since \in 0..now

\* How many were admitted within a window that ends at t.
Admitted(c, t, window) == Cardinality({i \in DOMAIN admitted[c] :
                                           admitted[c][i] > t - window /\ admitted[c][i] <= t})

\* No window of any position, not only those that end when a request arrives, holds
\* more admitted requests of a client than the limit; nor the short window.
WindowsHold ==
    \A c \in Client, t \in 0..now :
        Admitted(c, t, Window) <= Limit /\ Admitted(c, t, BurstWindow) <= Burst

\* A client that is refused and sends nothing for the retry_after it is told is not
\* refused by that window again.
Honest(timestamps, window, limit) ==
    LET inside  == InWindow(timestamps, window)
        waiting == now + RetryAfter(inside, window) - window
    IN  Len(inside) >= limit =>
            Cardinality({i \in DOMAIN inside : inside[i] > waiting}) < limit

AdviceIsHonest ==
    \A c \in Client :
        Honest(bucket[c], Window, Limit) /\ Honest(burst[c], BurstWindow, Burst)

\* A token of a key the provider has replaced is accepted, and one of the new key is
\* refused, for no longer than the life of the keys after the replacement.
ReplacedKeysFade == Fresh /\ keys.key # provider => now - rotated <= KeyLife

\* A run that was cancelled moves again only while its background task still sleeps,
\* and then once.
CancelHoldsOnce ==
    [][\A r \in Run : runs[r] = "cancelled" /\ runs'[r] # "cancelled" =>
          r \in pending /\ r \notin pending' /\ runs'[r] = "running"]_vars

\* A run that was created starts.
RunsStart == \A r \in Run : [](r \in pending => <>(r \notin pending))

-------------------------------------------------------------------------------
\* "Run is already terminal": a run that was cancelled before it started runs.
CancelledStays == [][\A r \in Run : runs[r] = "cancelled" => runs'[r] = "cancelled"]_vars
===============================================================================
