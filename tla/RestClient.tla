------------------------------ MODULE RestClient ------------------------------
(***************************************************************************)
(* Concurrent requests through one SalesforceClient: the circuit breaker,  *)
(* the retries and the retry after a 401 or 403 of BaseHTTPClient.request, *)
(* of src/integrations/rest_clients/base_client.py, and the shared token   *)
(* of salesforce_client.py.  Tokens are numbered as Salesforce issues      *)
(* them; 0 is the empty token of a cleared cache.                          *)
(***************************************************************************)
EXTENDS Integers, FiniteSets

CONSTANTS
    Requests,       \* calls of request
    Threshold,      \* failure_threshold
    MaxAttempts,    \* retry.max_attempts
    YoungHost,      \* the host booted less than a token's lifetime ago
    MaxUpsets       \* bound on tokens revoked, aged or refused while good

ASSUME ClientAssumption ==
    /\ {Threshold, MaxAttempts} \subseteq Nat \ {0}
    /\ MaxUpsets \in Nat
    /\ YoungHost \in BOOLEAN

VARIABLES
    breaker,    \* _state
    failures,   \* _failure_count
    cooled,     \* recovery_timeout has passed since the last failure
    token,      \* access_token of the cache
    aged,       \* the token in the cache is as good as expired
    young,      \* time.monotonic() is still below a token's lifetime
    minted,     \* tokens issued by Salesforce
    revoked,    \* Salesforce accepts no token up to this one
    drops,      \* times the cache was cleared, or its token came of age
    upsets,     \* upsets so far
    req         \* each request

client == <<token, aged, young, minted, drops>>
gate   == <<breaker, failures, cooled>>
env    == <<revoked, upsets>>
vars   == <<gate, client, env, req>>

-------------------------------------------------------------------------------
Waiting == [pc |-> "gate", attempt |-> 1, probe |-> FALSE, used |-> 0,
            reauth |-> FALSE, refused |-> 0, sends |-> 0]

Init ==
    /\ breaker = "CLOSED" /\ failures = 0 /\ cooled = FALSE
    /\ token = 0 /\ aged = FALSE /\ young = YoungHost
    /\ minted = 0 /\ revoked = 0 /\ drops = 0 /\ upsets = 0
    /\ req = [r \in Requests |-> Waiting]

Is(r, pc) == req[r].pc = pc

\* The request returns or raises; how it ended is of no use to the others.
Finish(r) == req' = [req EXCEPT ![r] = [Waiting EXCEPT !.pc = "done"]]

Upset == upsets < MaxUpsets /\ upsets' = upsets + 1

\* One attempt more than max_attempts.
NextAttempt_OneMore(r) ==
    IF req[r].attempt <= MaxAttempts
    THEN req' = [req EXCEPT ![r] = [Waiting EXCEPT !.attempt = req[r].attempt + 1,
                                                   !.sends = req[r].sends]]
    ELSE Finish(r)

\* An attempt that may be tried again, after a backoff, goes back to the gate.
NextAttempt(r) ==
    IF req[r].attempt < MaxAttempts
    THEN req' = [req EXCEPT ![r] = [Waiting EXCEPT !.attempt = req[r].attempt + 1,
                                                   !.sends = req[r].sends]]
    ELSE Finish(r)

\* _on_failure that opens the breaker one failure late.
OnFailure_Late ==
    /\ failures' = failures + 1
    /\ cooled' = FALSE
    /\ breaker' = IF failures' > Threshold THEN "OPEN" ELSE breaker

\* _on_failure: at the threshold the breaker opens, half open or not.
OnFailure ==
    /\ failures' = failures + 1
    /\ cooled' = FALSE
    /\ breaker' = IF failures' >= Threshold THEN "OPEN" ELSE breaker

\* _on_success, in whatever state the answer finds the breaker.
OnSuccess == breaker' = "CLOSED" /\ failures' = 0 /\ UNCHANGED cooled

\* CircuitBreaker.call under its lock: an open breaker that has cooled becomes
\* half open, and lets this request and every later one through.
Admit(r) ==
    /\ Is(r, "gate")
    /\ IF breaker = "OPEN" /\ ~cooled
       THEN Finish(r) /\ UNCHANGED breaker
       ELSE /\ breaker' = IF breaker = "OPEN" THEN "HALF_OPEN" ELSE breaker
            /\ req' = [req EXCEPT ![r].pc = "auth", ![r].probe = breaker' = "HALF_OPEN"]
    /\ UNCHANGED <<failures, cooled, client, env>>

\* is_expired: a cleared cache has issued_at 0, so its age is the host's uptime.
Expired == IF token = 0 THEN ~young ELSE aged

Send(r, t) == [req EXCEPT ![r].pc = "sent", ![r].used = t, ![r].sends = @ + 1]

\* _ensure_token that looks at the cache before it waits for the lock.
EnsureToken_Early(r) ==
    /\ Is(r, "auth")
    /\ req' = IF Expired THEN [req EXCEPT ![r].pc = "fetch"] ELSE Send(r, token)
    /\ UNCHANGED <<gate, client, env>>

\* _ensure_token, with _auth_lock held by the request that fetches; the headers
\* are built and the request goes out with the token of the cache.
EnsureToken(r) ==
    /\ Is(r, "auth")
    /\ \A s \in Requests : ~Is(s, "fetch")
    /\ req' = IF Expired THEN [req EXCEPT ![r].pc = "fetch"] ELSE Send(r, token)
    /\ UNCHANGED <<gate, client, env>>

\* _fetch_token.  A timeout counts for the breaker, a refusal does not.
FetchToken(r) ==
    /\ Is(r, "fetch")
    /\ \/ /\ minted' = minted + 1
          /\ token' = minted'
          /\ aged' = FALSE
          /\ req' = Send(r, minted')
          /\ UNCHANGED <<gate, young, drops>>
       \/ OnFailure /\ NextAttempt(r) /\ UNCHANGED client
       \/ Finish(r) /\ UNCHANGED <<gate, client>>
    /\ UNCHANGED env

\* _on_auth_error that keeps the token.
Unauthorized_Keep(r) ==
    IF req[r].reauth
    THEN Finish(r) /\ UNCHANGED client
    ELSE /\ req' = [req EXCEPT ![r].pc = "auth", ![r].reauth = TRUE, ![r].refused = req[r].used]
         /\ UNCHANGED client

\* _execute_with_auth_retry: the first 401 or 403 of an attempt clears the cache,
\* whatever token it holds by now, the second one is raised.
Unauthorized(r) ==
    IF req[r].reauth
    THEN Finish(r) /\ UNCHANGED client
    ELSE /\ req' = [req EXCEPT ![r].pc = "auth", ![r].reauth = TRUE, ![r].refused = req[r].used]
         /\ token' = 0
         /\ aged' = FALSE
         /\ drops' = drops + 1
         /\ UNCHANGED <<young, minted>>

\* A 429 that does not count as an attempt.
Answer_LimitFree(r) ==
    /\ Is(r, "sent")
    /\ \/ /\ req[r].used > revoked
          /\ OnSuccess
          /\ Finish(r)
       \/ /\ req' = [req EXCEPT ![r] = [Waiting EXCEPT !.attempt = req[r].attempt]]
          /\ UNCHANGED gate
    /\ UNCHANGED <<client, env>>

\* The response, or the exception that comes for it.  A 429 is retried but no
\* failure to the breaker; nor is an error that is not a timeout.
Answer(r) ==
    /\ Is(r, "sent")
    /\ \/ /\ req[r].used > revoked
          /\ OnSuccess
          /\ Finish(r)
          /\ UNCHANGED <<client, env>>
       \/ /\ req[r].used <= revoked
          /\ Unauthorized(r)
          /\ UNCHANGED <<gate, env>>
       \/ /\ req[r].used > revoked
          /\ Upset
          /\ Unauthorized(r)
          /\ UNCHANGED <<gate, revoked>>
       \/ OnFailure /\ NextAttempt(r) /\ UNCHANGED <<client, env>>
       \/ NextAttempt(r) /\ UNCHANGED <<gate, client, env>>
       \/ Finish(r) /\ UNCHANGED <<gate, client, env>>

\* Time passes: for an open breaker, for the token, for a young host.
Cool ==
    /\ breaker = "OPEN" /\ ~cooled
    /\ cooled' = TRUE
    /\ UNCHANGED <<breaker, failures, client, env, req>>

Age ==
    /\ token # 0 /\ ~aged
    /\ Upset
    /\ aged' = TRUE
    /\ drops' = drops + 1
    /\ UNCHANGED <<gate, token, young, minted, revoked, req>>

GrowOld ==
    /\ young /\ young' = FALSE
    /\ UNCHANGED <<gate, token, aged, minted, drops, env, req>>

\* Salesforce revokes the tokens it has issued.
Revoke ==
    /\ revoked < minted
    /\ Upset
    /\ revoked' = minted
    /\ UNCHANGED <<gate, client, req>>

Step(r) == Admit(r) \/ EnsureToken(r) \/ FetchToken(r) \/ Answer(r)

AllDone == \A r \in Requests : Is(r, "done")

Next ==
    \/ \E r \in Requests : Step(r)
    \/ Cool \/ Age \/ Revoke \/ GrowOld
    \/ AllDone /\ UNCHANGED vars

Spec == Init /\ [][Next]_vars

\* The event loop runs every task, and every httpx request is answered or times
\* out after timeout_seconds.
FairSpec == Spec /\ \A r \in Requests : WF_vars(Step(r))

-------------------------------------------------------------------------------
\* The types of the variables.
TypeOK ==
    /\ breaker \in {"CLOSED", "OPEN", "HALF_OPEN"}
    /\ failures \in Nat
    /\ {cooled, aged, young} \subseteq BOOLEAN
    /\ {token, revoked} \subseteq 0..minted
    /\ {minted, drops} \subseteq Nat
    /\ upsets \in 0..MaxUpsets
    /\ \A r \in Requests :
          /\ req[r].pc \in {"gate", "auth", "fetch", "sent", "done"}
          /\ req[r].attempt \in 1..MaxAttempts
          /\ {req[r].probe, req[r].reauth} \subseteq BOOLEAN
          /\ {req[r].used, req[r].refused} \subseteq 0..minted
          /\ req[r].sends \in Nat

\* The breaker lets requests through freely exactly while fewer than
\* failure_threshold failures came since the last success, in whatever order
\* the answers of concurrent requests and probes arrive.
BreakerCountsFailures == breaker = "CLOSED" <=> failures < Threshold

\* Retries and retries after a 401 multiply to two sends per attempt.
SendsBounded == \A r \in Requests : req[r].sends <= 2 * req[r].attempt

\* The retry after a 401 goes out with a token newer than the one refused, also
\* when other requests clear and fill the cache meanwhile.
RetryUsesNewToken ==
    \A r \in Requests : Is(r, "sent") /\ req[r].reauth => req[r].used > req[r].refused

\* Requests that find the cache empty together fetch one token between them.
NoTokenStampede == minted <= 1 + drops

\* Every request ends.
RequestsEnd == \A r \in Requests : <>Is(r, "done")

-------------------------------------------------------------------------------
\* "HALF_OPEN - a probe request is allowed": one request probes at a time.
OneProbe ==
    breaker = "HALF_OPEN" =>
        Cardinality({r \in Requests : req[r].probe /\ ~Is(r, "done")}) <= 1

\* "HALF_OPEN ... success closes it": only a half-open breaker is closed.
OnlyProbesClose == [][breaker = "OPEN" => breaker' # "CLOSED"]_vars

\* "Ensure a valid access token exists": no request goes out with an empty one.
TokenPresent == \A r \in Requests : Is(r, "sent") => req[r].used # 0

===============================================================================
