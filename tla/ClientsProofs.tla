----------------------------- MODULE ClientsProofs -----------------------------
(***************************************************************************)
(* Theorems about the clients of remote APIs: the requests of RestClient   *)
(* on either host, the tool of the agents, and the calls that take several *)
(* requests, each by an inductive invariant of its own; then the run that  *)
(* holds them together.                                                    *)
(***************************************************************************)
EXTENDS MCClients, FiniteSetTheorems, SequenceTheorems, NaturalsInduction, TLAPS

\* The instances count as the library does.
LEMMA SameCount ==
    /\ \A S : T!Cardinality(S) = Cardinality(S)
    /\ \A S : C!Cardinality(S) = Cardinality(S)
BY DEF T!Cardinality, C!Cardinality, Cardinality

-------------------------------------------------------------------------------
(* The requests through RestClient.  The two hosts differ in the requests, *)
(* in the bound on upsets and in whether a cleared cache looks fresh, so   *)
(* the lemmas about a step are about any set R of requests.                *)

Request ==
    [pc : {"gate", "auth", "fetch", "sent", "done"}, attempt : 1..MaxAttempts,
     probe : BOOLEAN, used : Nat, reauth : BOOLEAN, refused : Nat, sends : Nat]

ClientShape(R) ==
    /\ breaker \in {"CLOSED", "OPEN", "HALF_OPEN"} /\ failures \in Nat
    /\ cooled \in BOOLEAN /\ aged \in BOOLEAN /\ young \in BOOLEAN
    /\ token \in Nat /\ revoked \in Nat /\ minted \in Nat /\ drops \in Nat /\ upsets \in Nat
    /\ token <= minted /\ revoked <= minted
    /\ req \in [R -> Request]
    /\ \A r \in R : req[r].used <= minted /\ req[r].refused <= minted

\* Two sends are behind each earlier attempt, and one or two behind the one at hand.
SendsCounted(R) ==
    \A r \in R :
        /\ req[r].pc = "gate" => ~req[r].reauth
        /\ req[r].sends <= 2 * (req[r].attempt - 1) + (IF req[r].reauth THEN 1 ELSE 0)
                             + (IF req[r].pc = "sent" THEN 1 ELSE 0)

\* One request fetches at a time, and only while the cache has no good token; each loss of
\* a good token is paid for by a drop.
FetchesCounted(R) ==
    /\ \A r, s \in R : Is(r, "fetch") /\ Is(s, "fetch") => r = s
    /\ \A r \in R : Is(r, "fetch") => token = 0 \/ aged
    /\ minted + (IF token = 0 \/ aged THEN 1 ELSE 0) <= 1 + drops

\* The cache holds no token that a request about to retry was refused.
RefusedTokensLeave(R) ==
    /\ ~young
    /\ \A r \in R : req[r].reauth /\ (Is(r, "auth") \/ Is(r, "fetch")) =>
           token = 0 \/ token > req[r].refused
    /\ \A r \in R : Is(r, "sent") /\ req[r].reauth => req[r].used > req[r].refused

ClientInv(R) ==
    /\ ClientShape(R) /\ BreakerCountsFailures
    /\ SendsCounted(R) /\ FetchesCounted(R)

\* The steps with the sets and bounds of either host.
EnsuresToken(R, r) ==
    /\ Is(r, "auth")
    /\ \A s \in R : ~Is(s, "fetch")
    /\ req' = IF Expired THEN [req EXCEPT ![r] = [@ EXCEPT !.pc = "fetch"]] ELSE Send(r, token)
    /\ UNCHANGED <<gate, client, env>>

Refused(r) ==
    /\ Is(r, "sent")
    /\ Unauthorized(r)
    /\ revoked' = revoked /\ upsets' \in {upsets, upsets + 1}
    /\ UNCHANGED gate

Answered(r) ==
    /\ Is(r, "sent")
    /\ \/ OnSuccess /\ Finish(r)
       \/ OnFailure /\ NextAttempt(r)
       \/ NextAttempt(r) /\ UNCHANGED gate
       \/ Finish(r) /\ UNCHANGED gate
    /\ UNCHANGED <<client, env>>

Ages ==
    /\ token # 0 /\ ~aged
    /\ aged' = TRUE /\ drops' = drops + 1 /\ upsets' = upsets + 1
    /\ UNCHANGED <<gate, token, young, minted, revoked, req>>

Revokes ==
    /\ revoked' = minted /\ upsets' = upsets + 1
    /\ UNCHANGED <<gate, client, req>>

ClientStep(R) ==
    \/ \E r \in R : \/ Admit(r) \/ EnsuresToken(R, r) \/ FetchToken(r)
                    \/ Refused(r) \/ Answered(r)
    \/ Cool \/ Ages \/ Revokes \/ GrowOld
    \/ UNCHANGED vars

\* The threshold and the number of attempts are positive.
LEMMA ClientBounds ==
    /\ Threshold \in Nat \ {0} /\ MaxAttempts \in Nat \ {0} /\ MaxUpsets \in Nat
BY ClientAssumption

\* Each host takes such steps.
LEMMA OldSteps == Next => ClientStep(Requests)
<1> SUFFICES ASSUME Next PROVE ClientStep(Requests)
  OBVIOUS
<1>1. ASSUME NEW r \in Requests, EnsureToken(r) PROVE EnsuresToken(Requests, r)
  BY <1>1 DEF EnsureToken, EnsuresToken
<1>2. ASSUME NEW r \in Requests, Answer(r) PROVE Refused(r) \/ Answered(r)
  <2> USE DEF Refused, Answered, env, client
  <2>1. CASE req[r].used > revoked /\ OnSuccess /\ Finish(r) /\ UNCHANGED <<client, env>>
    BY <1>2, <2>1 DEF Answer
  <2>2. CASE req[r].used <= revoked /\ Unauthorized(r) /\ UNCHANGED <<gate, env>>
    BY <1>2, <2>2 DEF Answer
  <2>3. CASE req[r].used > revoked /\ Upset /\ Unauthorized(r) /\ UNCHANGED <<gate, revoked>>
    BY <1>2, <2>3 DEF Answer, Upset
  <2>4. CASE OnFailure /\ NextAttempt(r) /\ UNCHANGED <<client, env>>
    BY <1>2, <2>4 DEF Answer
  <2>5. CASE NextAttempt(r) /\ UNCHANGED <<gate, client, env>>
    BY <1>2, <2>5 DEF Answer
  <2>6. CASE Finish(r) /\ UNCHANGED <<gate, client, env>>
    BY <1>2, <2>6 DEF Answer
  <2> QED
    BY <1>2, <2>1, <2>2, <2>3, <2>4, <2>5, <2>6 DEF Answer
<1>3. Age => Ages
  BY DEF Age, Ages, Upset
<1>4. Revoke => Revokes
  BY DEF Revoke, Revokes, Upset
<1> QED
  BY <1>1, <1>2, <1>3, <1>4 DEF Next, Step, ClientStep

YoungRequests == Requests \ {CHOOSE r \in Requests : TRUE}

\* So are those of the young host.
LEMMA YoungSteps == Young!Next => ClientStep(YoungRequests)
<1> SUFFICES ASSUME Young!Next PROVE ClientStep(YoungRequests)
  OBVIOUS
<1> USE DEF Young!Is, Is, Young!gate, gate, Young!client, client, Young!env, env
<1> USE DEF Young!Waiting, Waiting, Young!Finish, Finish, Young!NextAttempt, NextAttempt
<1>1. ASSUME NEW r \in YoungRequests, Young!EnsureToken(r) PROVE EnsuresToken(YoungRequests, r)
  BY <1>1 DEF Young!EnsureToken, EnsuresToken, Young!Expired, Expired, Young!Send, Send,
     YoungRequests
<1>2. ASSUME NEW r \in YoungRequests, Young!Answer(r) PROVE Refused(r) \/ Answered(r)
  <2> DEFINE U == Young!Unauthorized(r)
             V == Unauthorized(r)
             S == OnSuccess
             F == OnFailure
  <2>a. U => V
    BY DEF Young!Unauthorized, Unauthorized
  <2>b. Young!OnSuccess => S
    BY DEF Young!OnSuccess, OnSuccess
  <2>c. Young!OnFailure => F
    BY DEF Young!OnFailure, OnFailure
  <2>d. Young!Upset => upsets' = upsets + 1
    BY DEF Young!Upset
  <2> HIDE DEF U, V, S, F
  <2> USE DEF Refused, Answered
  <2>1. CASE req[r].used > revoked /\ Young!OnSuccess /\ Finish(r) /\ UNCHANGED <<client, env>>
    BY <1>2, <2>1, <2>b DEF Young!Answer, S
  <2>2. CASE req[r].used <= revoked /\ U /\ UNCHANGED <<gate, env>>
    BY <1>2, <2>2, <2>a DEF Young!Answer, V
  <2>3. CASE req[r].used > revoked /\ Young!Upset /\ U /\ UNCHANGED <<gate, revoked>>
    BY <1>2, <2>3, <2>a, <2>d DEF Young!Answer, V
  <2>4. CASE Young!OnFailure /\ NextAttempt(r) /\ UNCHANGED <<client, env>>
    BY <1>2, <2>4, <2>c DEF Young!Answer, F
  <2>5. CASE NextAttempt(r) /\ UNCHANGED <<gate, client, env>>
    BY <1>2, <2>5 DEF Young!Answer
  <2>6. CASE Finish(r) /\ UNCHANGED <<gate, client, env>>
    BY <1>2, <2>6 DEF Young!Answer
  <2> QED
    BY <1>2, <2>1, <2>2, <2>3, <2>4, <2>5, <2>6 DEF Young!Answer, U
<1>3. Young!Age => Ages
  BY DEF Young!Age, Ages, Young!Upset
<1>4. Young!Revoke => Revokes
  BY DEF Young!Revoke, Revokes, Young!Upset
<1>5. ASSUME NEW r \in YoungRequests, Young!Admit(r) PROVE Admit(r)
  BY <1>5 DEF Young!Admit, Admit
<1>6. ASSUME NEW r \in YoungRequests, Young!FetchToken(r) PROVE FetchToken(r)
  <2>1. Young!OnFailure => OnFailure
    BY DEF Young!OnFailure, OnFailure
  <2> QED
    BY <1>6, <2>1 DEF Young!FetchToken, FetchToken, Young!Send, Send
<1>7. (Young!Cool => Cool) /\ (Young!GrowOld => GrowOld)
  BY DEF Young!Cool, Cool, Young!GrowOld, GrowOld
<1>8. UNCHANGED Young!vars => UNCHANGED vars
  BY DEF Young!vars, vars
<1>9. \A r : r \in YoungRequests <=> r \in Requests \ {CHOOSE x \in Requests : TRUE}
  BY DEF YoungRequests
<1>10. ASSUME NEW r \in YoungRequests, Young!Step(r)
       PROVE  Admit(r) \/ EnsuresToken(YoungRequests, r) \/ FetchToken(r)
                \/ Refused(r) \/ Answered(r)
  BY <1>1, <1>2, <1>5, <1>6, <1>10 DEF Young!Step
<1> QED
  BY <1>3, <1>4, <1>7, <1>8, <1>9, <1>10 DEF Young!Next, ClientStep

\* A request begins, and ends, as a record of its type.
LEMMA WaitingIsRequest == Waiting \in Request
<1>1. 1 \in 1..MaxAttempts
  BY ClientBounds
<1> QED
  BY <1>1 DEF Waiting, Request

\* Where the end takes a request.
LEMMA FinishGoes ==
    ASSUME NEW r, Finish(r)
    PROVE  \E q \in Request :
              /\ req' = [req EXCEPT ![r] = q]
              /\ q.pc = "done" /\ ~q.reauth /\ q.used = 0 /\ q.refused = 0
              /\ q.sends = 0 /\ q.attempt = 1
<1> DEFINE q == [Waiting EXCEPT !.pc = "done"]
<1>1. q \in Request
  BY WaitingIsRequest DEF Request
<1>2. /\ q.pc = "done" /\ q.reauth = FALSE /\ q.used = 0 /\ q.refused = 0
      /\ q.sends = 0 /\ q.attempt = 1
  BY DEF Waiting
<1> HIDE DEF q
<1>3. req' = [req EXCEPT ![r] = q]
  BY DEF Finish, q
<1> QED
  BY <1>1, <1>2, <1>3

\* Where the next attempt, or the end, takes a request.
LEMMA NextAttemptGoes ==
    ASSUME NEW R, ClientShape(R), NEW r \in R, NextAttempt(r) \/ Finish(r)
    PROVE  \E q \in Request :
              /\ req' = [req EXCEPT ![r] = q]
              /\ q.pc \in {"gate", "done"} /\ ~q.reauth /\ q.used = 0 /\ q.refused = 0
              /\ \/ q.sends = 0 /\ q.attempt = 1
                 \/ q.sends = req[r].sends /\ q.attempt = req[r].attempt + 1
<1>1. req[r] \in Request
  BY DEF ClientShape
<1>2. CASE Finish(r)
  BY <1>2, FinishGoes
<1>3. CASE NextAttempt(r) /\ req[r].attempt < MaxAttempts
  <2> DEFINE q == [Waiting EXCEPT !.attempt = req[r].attempt + 1, !.sends = req[r].sends]
  <2>1. q \in Request
    <3>1. req[r].attempt + 1 \in 1..MaxAttempts /\ req[r].sends \in Nat
      BY <1>1, <1>3, ClientBounds DEF Request
    <3> QED
      BY <3>1, WaitingIsRequest DEF Request
  <2>2. /\ q.pc = "gate" /\ q.reauth = FALSE /\ q.used = 0 /\ q.refused = 0
        /\ q.sends = req[r].sends /\ q.attempt = req[r].attempt + 1
    BY DEF Waiting
  <2> HIDE DEF q
  <2>3. req' = [req EXCEPT ![r] = q]
    BY <1>3 DEF NextAttempt, q
  <2> QED
    BY <2>1, <2>2, <2>3
<1> QED
  BY <1>2, <1>3 DEF NextAttempt

\* What a step does to one request: how the others fare, and the counts of its sends.
LEMMA RequestMoves ==
    ASSUME NEW R, ClientShape(R), SendsCounted(R), NEW r \in R, NEW q \in Request,
           req' = [req EXCEPT ![r] = q],
           q.pc = "gate" => ~q.reauth,
           q.sends <= 2 * (q.attempt - 1) + (IF q.reauth THEN 1 ELSE 0)
                         + (IF q.pc = "sent" THEN 1 ELSE 0)
    PROVE  /\ req' \in [R -> Request] /\ req'[r] = q
           /\ \A s \in R \ {r} : req'[s] = req[s]
           /\ SendsCounted(R)'
BY DEF ClientShape, SendsCounted

\* Admission asks the breaker, whose state is what it has counted.
LEMMA AdmitKeeps ==
    ASSUME NEW R, ClientInv(R), NEW r \in R, Admit(r)
    PROVE  ClientInv(R)' /\ (RefusedTokensLeave(R) => RefusedTokensLeave(R)')
<1> USE DEF ClientInv
<1>1. PICK q \in Request :
          /\ req' = [req EXCEPT ![r] = q]
          /\ q.pc \in {"auth", "done"} /\ ~q.reauth /\ q.used <= minted /\ q.refused <= minted
          /\ q.sends <= 2 * (q.attempt - 1)
  <2>1. CASE breaker = "OPEN" /\ ~cooled
    <3>1. Finish(r)
      BY <2>1 DEF Admit
    <3>2. PICK q \in Request :
              /\ req' = [req EXCEPT ![r] = q]
              /\ q.pc = "done" /\ ~q.reauth /\ q.used = 0 /\ q.refused = 0
              /\ q.sends = 0 /\ q.attempt = 1
      BY <3>1, FinishGoes
    <3>3. q.used <= minted /\ q.refused <= minted /\ q.sends <= 2 * (q.attempt - 1)
      <4>1. minted \in Nat
        BY DEF ClientShape
      <4> QED
        BY <3>2, <4>1
    <3> QED
      BY <3>2, <3>3
  <2>2. CASE ~(breaker = "OPEN" /\ ~cooled)
    <3> DEFINE q == [req[r] EXCEPT !.pc = "auth", !.probe = breaker' = "HALF_OPEN"]
    <3>1. req[r] \in Request /\ req[r].pc = "gate"
      BY DEF ClientShape, Admit, Is
    <3>2. q \in Request
      BY <3>1 DEF Request
    <3>3. req' = [req EXCEPT ![r] = q]
      BY <2>2 DEF Admit, ClientShape
    <3>4. /\ ~req[r].reauth /\ req[r].used <= minted /\ req[r].refused <= minted
          /\ req[r].sends <= 2 * (req[r].attempt - 1)
      BY <3>1 DEF SendsCounted, ClientShape, Request
    <3> QED
      BY <3>1, <3>2, <3>3, <3>4 DEF Request
  <2> QED
    BY <2>1, <2>2
<1>2. /\ req' \in [R -> Request] /\ req'[r] = q
      /\ \A s \in R \ {r} : req'[s] = req[s]
      /\ SendsCounted(R)'
  <2>1. q.sends <= 2 * (q.attempt - 1) + (IF q.reauth THEN 1 ELSE 0)
                         + (IF q.pc = "sent" THEN 1 ELSE 0)
    BY <1>1 DEF Request
  <2> QED
    BY <1>1, <2>1, RequestMoves
<1>3. /\ UNCHANGED <<failures, cooled, token, aged, young, minted, drops, revoked, upsets>>
      /\ breaker' = breaker \/ (breaker = "OPEN" /\ breaker' = "HALF_OPEN")
  BY DEF Admit, client, env
<1>4. ClientShape(R)'
  BY <1>1, <1>2, <1>3 DEF ClientShape
<1>5. BreakerCountsFailures'
  BY <1>3 DEF BreakerCountsFailures
<1>6. FetchesCounted(R)'
  BY <1>1, <1>2, <1>3 DEF FetchesCounted, Is
<1> QED
  BY <1>1, <1>2, <1>3, <1>4, <1>5, <1>6 DEF RefusedTokensLeave, Is

\* A request that takes the token from the cache, or waits for the lock.
LEMMA EnsureTokenKeeps ==
    ASSUME NEW R, ClientInv(R), NEW r \in R, EnsuresToken(R, r)
    PROVE  ClientInv(R)' /\ (RefusedTokensLeave(R) => RefusedTokensLeave(R)')
<1> USE DEF ClientInv
<1>0. req[r] \in Request /\ req[r].pc = "auth"
  BY DEF ClientShape, EnsuresToken, Is
<1>1. PICK q \in Request :
          /\ req' = [req EXCEPT ![r] = q]
          /\ q.reauth = req[r].reauth /\ q.refused = req[r].refused
          /\ q.attempt = req[r].attempt
          /\ \/ q.pc = "fetch" /\ q.used = req[r].used /\ q.sends = req[r].sends /\ Expired
             \/ q.pc = "sent" /\ q.used = token /\ q.sends = req[r].sends + 1 /\ ~Expired
  <2>1. CASE Expired
    <3> DEFINE q == [req[r] EXCEPT !.pc = "fetch"]
    <3>1. q \in Request
      BY <1>0 DEF Request
    <3> QED
      BY <1>0, <2>1, <3>1 DEF EnsuresToken, Request
  <2>2. CASE ~Expired
    <3> DEFINE q == [req[r] EXCEPT !.pc = "sent", !.used = token, !.sends = @ + 1]
    <3>1. q \in Request
      <4>1. token \in Nat /\ req[r].sends + 1 \in Nat
        BY <1>0 DEF Request, ClientShape
      <4> QED
        BY <1>0, <4>1 DEF Request
    <3>2. req' = [req EXCEPT ![r] = q]
      BY <2>2 DEF EnsuresToken, Send, ClientShape
    <3> QED
      BY <1>0, <2>2, <3>1, <3>2 DEF Request
  <2> QED
    BY <2>1, <2>2
<1>2. /\ req' \in [R -> Request] /\ req'[r] = q
      /\ \A s \in R \ {r} : req'[s] = req[s]
      /\ SendsCounted(R)'
  <2>1. req[r].sends <= 2 * (req[r].attempt - 1) + (IF req[r].reauth THEN 1 ELSE 0)
    BY <1>0 DEF SendsCounted, Request
  <2>2. q.sends <= 2 * (q.attempt - 1) + (IF q.reauth THEN 1 ELSE 0)
                         + (IF q.pc = "sent" THEN 1 ELSE 0)
    BY <1>0, <1>1, <2>1 DEF Request
  <2> QED
    BY <1>1, <2>2, RequestMoves
<1>3. UNCHANGED <<breaker, failures, cooled, token, aged, young, minted, drops, revoked, upsets>>
  BY DEF EnsuresToken, gate, client, env
<1>4. ClientShape(R)'
  BY <1>1, <1>2, <1>3 DEF ClientShape
<1>5. BreakerCountsFailures'
  BY <1>3 DEF BreakerCountsFailures
<1>6. FetchesCounted(R)'
  <2>1. \A s \in R : ~Is(s, "fetch")
    BY DEF EnsuresToken
  <2>2. Expired => token = 0 \/ aged
    BY DEF Expired
  <2> QED
    BY <1>1, <1>2, <1>3, <2>1, <2>2 DEF FetchesCounted, Is
<1>7. ASSUME RefusedTokensLeave(R) PROVE RefusedTokensLeave(R)'
  <2>1. ~Expired => token # 0
    BY <1>7 DEF RefusedTokensLeave, Expired
  <2> QED
    BY <1>0, <1>1, <1>2, <1>3, <1>7, <2>1 DEF RefusedTokensLeave, Is
<1> QED
  BY <1>2, <1>4, <1>5, <1>6, <1>7

\* A failure counts, whatever state it finds the breaker in.
LEMMA FailureCounts ==
    ASSUME failures \in Nat, breaker \in {"CLOSED", "OPEN", "HALF_OPEN"},
           BreakerCountsFailures, OnFailure
    PROVE  /\ failures' \in Nat /\ cooled' \in BOOLEAN
           /\ breaker' \in {"CLOSED", "OPEN", "HALF_OPEN"} /\ BreakerCountsFailures'
<1>1. failures' = failures + 1 /\ cooled' = FALSE
  BY DEF OnFailure
<1>2. failures' \in Nat /\ cooled' \in BOOLEAN
  <2>1. failures' \in Nat
    BY <1>1
  <2>2. cooled' \in BOOLEAN
    BY <1>1
  <2> QED
    BY <2>1, <2>2
<1>3. CASE failures + 1 >= Threshold
  <2>1. breaker' = "OPEN"
    BY <1>1, <1>3 DEF OnFailure
  <2> QED
    BY <1>1, <1>2, <1>3, <2>1, ClientBounds DEF BreakerCountsFailures
<1>4. CASE failures + 1 < Threshold
  <2>1. breaker' = breaker
    BY <1>1, <1>4, ClientBounds DEF OnFailure
  <2> QED
    BY <1>1, <1>2, <1>4, <2>1, ClientBounds DEF BreakerCountsFailures
<1> QED
  BY <1>3, <1>4, ClientBounds

\* The request that holds the lock fetches the one token that is missing.
LEMMA FetchTokenKeeps ==
    ASSUME NEW R, ClientInv(R), NEW r \in R, FetchToken(r)
    PROVE  ClientInv(R)' /\ (RefusedTokensLeave(R) => RefusedTokensLeave(R)')
<1> USE DEF ClientInv
<1>0. req[r] \in Request /\ req[r].pc = "fetch"
  BY DEF ClientShape, FetchToken, Is
<1>1. CASE minted' = minted + 1 /\ token' = minted' /\ aged' = FALSE
             /\ req' = Send(r, minted') /\ UNCHANGED <<gate, young, drops, env>>
  <2> DEFINE q == [req[r] EXCEPT !.pc = "sent", !.used = minted + 1, !.sends = @ + 1]
  <2>1. q \in Request
    <3>1. minted + 1 \in Nat /\ req[r].sends + 1 \in Nat
      BY <1>0 DEF Request, ClientShape
    <3> QED
      BY <1>0, <3>1 DEF Request
  <2>2. req' = [req EXCEPT ![r] = q]
    BY <1>1 DEF Send, ClientShape
  <2>3. /\ q.sends = req[r].sends + 1 /\ q.attempt = req[r].attempt /\ q.pc = "sent"
        /\ q.reauth = req[r].reauth /\ q.refused = req[r].refused /\ q.used = minted + 1
    BY <1>0 DEF Request
  <2> HIDE DEF q
  <2>4. /\ req' \in [R -> Request] /\ req'[r] = q
        /\ \A s \in R \ {r} : req'[s] = req[s]
        /\ SendsCounted(R)'
    <3>1. req[r].sends <= 2 * (req[r].attempt - 1) + (IF req[r].reauth THEN 1 ELSE 0)
      BY <1>0 DEF SendsCounted, Request
    <3>2. q.sends <= 2 * (q.attempt - 1) + (IF q.reauth THEN 1 ELSE 0)
                         + (IF q.pc = "sent" THEN 1 ELSE 0)
      BY <1>0, <2>1, <2>3, <3>1 DEF Request
    <3> QED
      BY <2>1, <2>2, <2>3, <3>2, RequestMoves
  <2>5. UNCHANGED <<breaker, failures, cooled, young, drops, revoked, upsets>>
    BY <1>1 DEF gate, env
  <2>6. ClientShape(R)'
    <3>1. minted' = minted + 1 /\ minted' \in Nat /\ token' = minted' /\ aged' \in BOOLEAN
      <4>1. minted \in Nat
        BY DEF ClientShape
      <4>2. minted' \in Nat
        BY <1>1, <4>1
      <4>3. aged' \in BOOLEAN
        BY <1>1
      <4> QED
        BY <1>1, <4>2, <4>3
    <3>2. \A s \in R : req'[s].used <= minted' /\ req'[s].refused <= minted'
      <4>1. \A s \in R : /\ req[s].used \in Nat /\ req[s].refused \in Nat
                         /\ req[s].used <= minted /\ req[s].refused <= minted
        BY DEF ClientShape, Request
      <4>2. minted \in Nat
        BY DEF ClientShape
      <4> QED
        BY <2>3, <2>4, <3>1, <4>1, <4>2
    <3> QED
      BY <2>4, <2>5, <3>1, <3>2 DEF ClientShape
  <2>7. BreakerCountsFailures'
    BY <2>5 DEF BreakerCountsFailures
  <2>8. FetchesCounted(R)'
    <3>1. \A s \in R : Is(s, "fetch") => s = r
      BY <1>0 DEF FetchesCounted, Is
    <3>2. token = 0 \/ aged
      BY <1>0 DEF FetchesCounted, Is
    <3>3. \A s \in R : ~Is(s, "fetch")'
      BY <2>3, <2>4, <3>1 DEF Is
    <3>4. minted + 1 <= 1 + drops
      BY <3>2 DEF FetchesCounted
    <3> QED
      BY <1>1, <2>5, <3>3, <3>4 DEF FetchesCounted, ClientShape
  <2>9. ASSUME RefusedTokensLeave(R) PROVE RefusedTokensLeave(R)'
    <3>1. \A s \in R : req[s] \in Request /\ req[s].refused <= minted
      BY DEF ClientShape
    <3>2. \A s \in R : minted + 1 > req[s].refused
      BY <3>1 DEF Request, ClientShape
    <3> QED
      BY <1>1, <2>3, <2>4, <2>5, <2>9, <3>2 DEF RefusedTokensLeave, Is
  <2> QED
    BY <2>4, <2>6, <2>7, <2>8, <2>9
<1>2. CASE /\ (OnFailure /\ NextAttempt(r)) \/ (Finish(r) /\ UNCHANGED gate)
           /\ UNCHANGED <<client, env>>
  <2>1. PICK q \in Request :
              /\ req' = [req EXCEPT ![r] = q]
              /\ q.pc \in {"gate", "done"} /\ ~q.reauth /\ q.used = 0 /\ q.refused = 0
              /\ \/ q.sends = 0 /\ q.attempt = 1
                 \/ q.sends = req[r].sends /\ q.attempt = req[r].attempt + 1
    BY <1>2, NextAttemptGoes
  <2>2. /\ req' \in [R -> Request] /\ req'[r] = q
        /\ \A s \in R \ {r} : req'[s] = req[s]
        /\ SendsCounted(R)'
    <3>1. req[r].sends <= 2 * (req[r].attempt - 1) + 2
      BY <1>0 DEF SendsCounted, Request
    <3>2. q.sends <= 2 * (q.attempt - 1) + (IF q.reauth THEN 1 ELSE 0)
                         + (IF q.pc = "sent" THEN 1 ELSE 0)
      BY <1>0, <2>1, <3>1 DEF Request
    <3> QED
      BY <2>1, <3>2, RequestMoves
  <2>3. UNCHANGED <<token, aged, young, minted, drops, revoked, upsets>>
    BY <1>2 DEF client, env
  <2>4. /\ failures' \in Nat /\ cooled' \in BOOLEAN
        /\ breaker' \in {"CLOSED", "OPEN", "HALF_OPEN"} /\ BreakerCountsFailures'
    <3>1. CASE OnFailure
      BY <3>1, FailureCounts DEF ClientShape
    <3>2. CASE UNCHANGED gate
      BY <3>2 DEF ClientShape, gate, BreakerCountsFailures
    <3> QED
      BY <1>2, <3>1, <3>2
  <2>5. ClientShape(R)'
    BY <2>1, <2>2, <2>3, <2>4 DEF ClientShape
  <2> QED
    BY <2>1, <2>2, <2>3, <2>4, <2>5 DEF FetchesCounted, RefusedTokensLeave, Is
<1> QED
  BY <1>1, <1>2 DEF FetchToken

\* A 401 clears the cache, once for each token that was refused.
LEMMA RefusedKeeps ==
    ASSUME NEW R, ClientInv(R), NEW r \in R, Refused(r)
    PROVE  ClientInv(R)' /\ (RefusedTokensLeave(R) => RefusedTokensLeave(R)')
<1> USE DEF ClientInv
<1>0. /\ req[r] \in Request /\ req[r].pc = "sent"
      /\ minted \in Nat /\ upsets \in Nat /\ drops \in Nat
  BY DEF ClientShape, Refused, Is
<1>1. req[r].sends <= 2 * (req[r].attempt - 1) + (IF req[r].reauth THEN 1 ELSE 0) + 1
  BY <1>0 DEF SendsCounted
<1>2. upsets' \in Nat
  BY <1>0 DEF Refused
<1>3. UNCHANGED <<breaker, failures, cooled, young, minted, revoked>>
  BY DEF Refused, Unauthorized, gate, client
<1>4. CASE req[r].reauth
  <2>1. Finish(r) /\ UNCHANGED <<token, aged, drops>>
    BY <1>4 DEF Refused, Unauthorized, client
  <2>2. PICK q \in Request : /\ req' = [req EXCEPT ![r] = q]
              /\ q.pc = "done" /\ ~q.reauth /\ q.used = 0 /\ q.refused = 0
              /\ q.sends = 0 /\ q.attempt = 1
    BY <2>1, FinishGoes
  <2>3. /\ req' \in [R -> Request] /\ req'[r] = q
        /\ \A s \in R \ {r} : req'[s] = req[s]
        /\ SendsCounted(R)'
    <3>1. q.sends <= 2 * (q.attempt - 1) + (IF q.reauth THEN 1 ELSE 0)
                         + (IF q.pc = "sent" THEN 1 ELSE 0)
      BY <2>2
    <3> QED
      BY <2>2, <3>1, RequestMoves
  <2>4. ClientShape(R)'
    BY <1>2, <1>3, <2>1, <2>2, <2>3 DEF ClientShape
  <2> QED
    BY <1>3, <2>1, <2>2, <2>3, <2>4
    DEF BreakerCountsFailures, FetchesCounted, RefusedTokensLeave, Is
<1>5. CASE ~req[r].reauth
  <2> DEFINE q == [req[r] EXCEPT !.pc = "auth", !.reauth = TRUE, !.refused = req[r].used]
  <2>1. token' = 0 /\ aged' = FALSE /\ drops' = drops + 1
    BY <1>5 DEF Refused, Unauthorized
  <2>2. req' = [req EXCEPT ![r] = q]
    BY <1>5 DEF Refused, Unauthorized, ClientShape
  <2>3. q \in Request
    BY <1>0 DEF Request
  <2>4. /\ q.pc = "auth" /\ q.reauth = TRUE /\ q.refused = req[r].used
        /\ q.used = req[r].used /\ q.sends = req[r].sends /\ q.attempt = req[r].attempt
    BY <1>0 DEF Request
  <2> HIDE DEF q
  <2>5. /\ req' \in [R -> Request] /\ req'[r] = q
        /\ \A s \in R \ {r} : req'[s] = req[s]
        /\ SendsCounted(R)'
    <3>1. q.sends <= 2 * (q.attempt - 1) + (IF q.reauth THEN 1 ELSE 0)
                         + (IF q.pc = "sent" THEN 1 ELSE 0)
      BY <1>0, <1>1, <1>5, <2>4 DEF Request
    <3> QED
      BY <2>2, <2>3, <2>4, <3>1, RequestMoves
  <2>6. ClientShape(R)'
    <3>1. token' \in Nat /\ drops' \in Nat /\ token' <= minted'
      BY <1>0, <1>3, <2>1
    <3>2. aged' \in BOOLEAN
      BY <2>1
    <3> QED
      BY <1>2, <1>3, <2>4, <2>5, <3>1, <3>2 DEF ClientShape
  <2>7. FetchesCounted(R)'
    <3>1. \A s \in R : Is(s, "fetch")' => Is(s, "fetch")
      BY <2>4, <2>5 DEF Is
    <3>2. minted <= 1 + drops
      BY <1>0 DEF FetchesCounted
    <3>3. minted' + (IF token' = 0 \/ aged' THEN 1 ELSE 0) <= 1 + drops'
      BY <1>0, <1>3, <2>1, <3>2
    <3> QED
      BY <2>1, <3>1, <3>3 DEF FetchesCounted
  <2>8. ASSUME RefusedTokensLeave(R) PROVE RefusedTokensLeave(R)'
    BY <1>3, <2>1, <2>4, <2>5, <2>8 DEF RefusedTokensLeave, Is
  <2> QED
    BY <1>3, <2>5, <2>6, <2>7, <2>8 DEF BreakerCountsFailures
<1> QED
  BY <1>4, <1>5

\* Any other answer is counted by the breaker and ends the attempt.
LEMMA AnsweredKeeps ==
    ASSUME NEW R, ClientInv(R), NEW r \in R, Answered(r)
    PROVE  ClientInv(R)' /\ (RefusedTokensLeave(R) => RefusedTokensLeave(R)')
<1> USE DEF ClientInv
<1>0. req[r] \in Request /\ req[r].pc = "sent"
  BY DEF ClientShape, Answered, Is
<1>1. UNCHANGED <<token, aged, young, minted, drops, revoked, upsets>>
  BY DEF Answered, client, env
<1>2. PICK q \in Request :
          /\ req' = [req EXCEPT ![r] = q]
          /\ q.pc \in {"gate", "done"} /\ ~q.reauth /\ q.used = 0 /\ q.refused = 0
          /\ \/ q.sends = 0 /\ q.attempt = 1
             \/ q.sends = req[r].sends /\ q.attempt = req[r].attempt + 1
  BY NextAttemptGoes DEF Answered
<1>3. /\ req' \in [R -> Request] /\ req'[r] = q
      /\ \A s \in R \ {r} : req'[s] = req[s]
      /\ SendsCounted(R)'
  <2>1. req[r].sends <= 2 * (req[r].attempt - 1) + 2
    BY <1>0 DEF SendsCounted, Request
  <2>2. q.sends <= 2 * (q.attempt - 1) + (IF q.reauth THEN 1 ELSE 0)
                       + (IF q.pc = "sent" THEN 1 ELSE 0)
    BY <1>0, <1>2, <2>1 DEF Request
  <2> QED
    BY <1>2, <2>2, RequestMoves
<1>4. /\ failures' \in Nat /\ cooled' \in BOOLEAN
      /\ breaker' \in {"CLOSED", "OPEN", "HALF_OPEN"} /\ BreakerCountsFailures'
  <2>1. CASE OnFailure
    BY <2>1, FailureCounts DEF ClientShape
  <2>2. CASE UNCHANGED gate
    BY <2>2 DEF ClientShape, gate, BreakerCountsFailures
  <2>3. CASE OnSuccess
    <3>1. failures' = 0 /\ breaker' = "CLOSED" /\ cooled' = cooled
      BY <2>3 DEF OnSuccess
    <3>2. cooled' \in BOOLEAN
      BY <3>1 DEF ClientShape
    <3> QED
      BY <3>1, <3>2, ClientBounds DEF BreakerCountsFailures
  <2> QED
    BY <2>1, <2>2, <2>3 DEF Answered
<1>5. ClientShape(R)'
  BY <1>1, <1>2, <1>3, <1>4 DEF ClientShape
<1> QED
  BY <1>1, <1>2, <1>3, <1>4, <1>5 DEF FetchesCounted, RefusedTokensLeave, Is

\* Every step keeps the invariants.
LEMMA ClientStepKeeps ==
    ASSUME NEW R, ClientInv(R), ClientStep(R)
    PROVE  ClientInv(R)' /\ (RefusedTokensLeave(R) => RefusedTokensLeave(R)')
<1>1. CASE \E r \in R : \/ Admit(r) \/ EnsuresToken(R, r) \/ FetchToken(r)
                        \/ Refused(r) \/ Answered(r)
  BY <1>1, AdmitKeeps, EnsureTokenKeeps, FetchTokenKeeps, RefusedKeeps, AnsweredKeeps
<1>2. CASE Cool
  <2>1. UNCHANGED <<breaker, failures, token, aged, young, minted, drops, revoked, upsets, req>>
    BY <1>2 DEF Cool, client, env
  <2>2. cooled' \in BOOLEAN
    BY <1>2 DEF Cool
  <2> QED
    BY <2>1, <2>2 DEF ClientInv, ClientShape, BreakerCountsFailures, SendsCounted,
       FetchesCounted, RefusedTokensLeave, Is
<1>3. CASE Ages
  <2>1. UNCHANGED <<breaker, failures, cooled, token, young, minted, revoked, req>>
    BY <1>3 DEF Ages, gate
  <2>2. aged' \in BOOLEAN
    BY <1>3 DEF Ages
  <2>3. /\ token # 0 /\ ~aged /\ aged' /\ drops' = drops + 1 /\ upsets' = upsets + 1
        /\ drops \in Nat /\ upsets \in Nat /\ minted \in Nat
    BY <1>3 DEF Ages, ClientInv, ClientShape
  <2>4. drops' \in Nat /\ upsets' \in Nat
    BY <2>3
  <2>5. minted' + (IF token' = 0 \/ aged' THEN 1 ELSE 0) <= 1 + drops'
    <3>1. minted <= 1 + drops
      BY <2>3 DEF ClientInv, FetchesCounted
    <3> QED
      BY <2>1, <2>3, <3>1
  <2> QED
    BY <2>1, <2>2, <2>3, <2>4, <2>5 DEF ClientInv, ClientShape, BreakerCountsFailures,
       SendsCounted, FetchesCounted, RefusedTokensLeave, Is
<1>4. CASE Revokes
  <2>1. UNCHANGED <<breaker, failures, cooled, token, aged, young, minted, drops, req>>
    BY <1>4 DEF Revokes, gate, client
  <2>2. revoked' = minted /\ upsets' \in Nat
    BY <1>4 DEF Revokes, ClientInv, ClientShape
  <2> QED
    BY <2>1, <2>2 DEF ClientInv, ClientShape, BreakerCountsFailures, SendsCounted,
       FetchesCounted, RefusedTokensLeave, Is
<1>5. CASE GrowOld
  <2>1. /\ UNCHANGED <<breaker, failures, cooled, token, aged, minted, drops, revoked, upsets, req>>
        /\ young' = FALSE
    BY <1>5 DEF GrowOld, gate, env
  <2>2. young' \in BOOLEAN
    BY <2>1
  <2> QED
    BY <2>1, <2>2 DEF ClientInv, ClientShape, BreakerCountsFailures, SendsCounted,
       FetchesCounted, RefusedTokensLeave, Is
<1>6. CASE UNCHANGED vars
  <2>1. UNCHANGED <<breaker, failures, cooled, token, aged, young, minted, drops, revoked,
                    upsets, req>>
    BY <1>6 DEF vars, gate, client, env
  <2> QED
    BY <2>1 DEF ClientInv, ClientShape, BreakerCountsFailures, SendsCounted,
       FetchesCounted, RefusedTokensLeave, Is
<1> QED
  BY <1>1, <1>2, <1>3, <1>4, <1>5, <1>6 DEF ClientStep

\* Both hosts begin with a closed breaker and no token.
LEMMA ClientStarts ==
    /\ Init => ClientInv(Requests) /\ (YoungHost = FALSE => RefusedTokensLeave(Requests))
    /\ Young!Init => ClientInv(YoungRequests)
<1>1. ASSUME NEW R, req = [r \in R |-> Waiting],
             breaker = "CLOSED" /\ failures = 0 /\ cooled = FALSE,
             token = 0 /\ aged = FALSE /\ young \in BOOLEAN,
             minted = 0 /\ revoked = 0 /\ drops = 0 /\ upsets = 0
      PROVE  ClientInv(R) /\ (young = FALSE => RefusedTokensLeave(R))
  <2>1. \A r \in R : /\ req[r].pc = "gate" /\ req[r].reauth = FALSE /\ req[r].sends = 0
                     /\ req[r].attempt = 1 /\ req[r].used = 0 /\ req[r].refused = 0
    BY <1>1 DEF Waiting
  <2>2. req \in [R -> Request]
    BY <1>1, WaitingIsRequest
  <2>3. cooled \in BOOLEAN /\ aged \in BOOLEAN
    BY <1>1
  <2>4. ClientShape(R)
    BY <1>1, <2>1, <2>2, <2>3 DEF ClientShape
  <2>5. BreakerCountsFailures
    BY <1>1, ClientBounds DEF BreakerCountsFailures
  <2>6. SendsCounted(R)
    BY <2>1 DEF SendsCounted
  <2>7. FetchesCounted(R)
    BY <1>1, <2>1 DEF FetchesCounted, Is
  <2> QED
    BY <1>1, <2>1, <2>4, <2>5, <2>6, <2>7 DEF ClientInv, RefusedTokensLeave, Is
<1>2. ASSUME Init PROVE ClientInv(Requests) /\ (YoungHost = FALSE => RefusedTokensLeave(Requests))
  <2>1. YoungHost \in BOOLEAN
    BY ClientAssumption
  <2> QED
    BY <1>1, <1>2, <2>1 DEF Init
<1>3. ASSUME Young!Init PROVE ClientInv(YoungRequests)
  <2>1. young \in BOOLEAN
    BY <1>3 DEF Young!Init
  <2> QED
    BY <1>1, <1>3, <2>1 DEF Young!Init, Young!Waiting, Waiting, YoungRequests
<1> QED
  BY <1>2, <1>3

\* The bounds of either host on upsets hold.
LEMMA UpsetsAreBounded ==
    /\ Init => upsets = 0
    /\ Young!Init => upsets = 0
    /\ upsets \in 0..MaxUpsets /\ Next => upsets' \in 0..MaxUpsets
    /\ upsets \in 0..MaxUpsets + 1 /\ Young!Next => upsets' \in 0..MaxUpsets + 1
<1>1. ASSUME Next
      PROVE  upsets' = upsets \/ (upsets < MaxUpsets /\ upsets' = upsets + 1)
  BY <1>1 DEF Next, Step, Admit, EnsureToken, FetchToken, Answer, Cool, Age, GrowOld, Revoke,
     Upset, env, vars
<1>2. ASSUME Young!Next
      PROVE  upsets' = upsets \/ (upsets < MaxUpsets + 1 /\ upsets' = upsets + 1)
  BY <1>2 DEF Young!Next, Young!Step, Young!Admit, Young!EnsureToken, Young!FetchToken,
     Young!Answer, Young!Cool, Young!Age, Young!GrowOld, Young!Revoke, Young!Upset, Young!env,
     Young!vars
<1> QED
  BY <1>1, <1>2, ClientBounds DEF Init, Young!Init

\* What the invariant says in the words of the run, for either host.
LEMMA ClientsHold ==
    /\ ClientInv(Requests) /\ upsets \in 0..MaxUpsets => TypeOK /\ SendsBounded
    /\ ClientInv(YoungRequests) /\ upsets \in 0..MaxUpsets + 1 =>
           Young!TypeOK /\ Young!SendsBounded
    /\ \A R : ClientInv(R) => NoTokenStampede /\ BreakerCountsFailures
                              /\ Young!BreakerCountsFailures
<1>1. ASSUME NEW R, ClientInv(R)
      PROVE  /\ breaker \in {"CLOSED", "OPEN", "HALF_OPEN"} /\ failures \in Nat
             /\ {cooled, aged, young} \subseteq BOOLEAN
             /\ {token, revoked} \subseteq 0..minted /\ {minted, drops} \subseteq Nat
             /\ \A r \in R :
                  /\ req[r].pc \in {"gate", "auth", "fetch", "sent", "done"}
                  /\ req[r].attempt \in 1..MaxAttempts
                  /\ {req[r].probe, req[r].reauth} \subseteq BOOLEAN
                  /\ {req[r].used, req[r].refused} \subseteq 0..minted
                  /\ req[r].sends \in Nat /\ req[r].sends <= 2 * req[r].attempt
  <2>1. ClientShape(R)
    BY <1>1 DEF ClientInv
  <2>2. ASSUME NEW r \in R
        PROVE  /\ req[r].pc \in {"gate", "auth", "fetch", "sent", "done"}
               /\ req[r].attempt \in 1..MaxAttempts
               /\ {req[r].probe, req[r].reauth} \subseteq BOOLEAN
               /\ {req[r].used, req[r].refused} \subseteq 0..minted
               /\ req[r].sends \in Nat /\ req[r].sends <= 2 * req[r].attempt
    <3>1. req[r] \in Request /\ req[r].used <= minted /\ req[r].refused <= minted
      BY <2>1 DEF ClientShape
    <3>2. req[r].probe \in BOOLEAN /\ req[r].reauth \in BOOLEAN
      BY <3>1 DEF Request
    <3>3. req[r].sends <= 2 * (req[r].attempt - 1) + 2
      BY <1>1, <3>1 DEF ClientInv, SendsCounted, Request
    <3>4. req[r].attempt \in 1..MaxAttempts /\ req[r].sends \in Nat
      BY <3>1 DEF Request
    <3>5. req[r].used \in 0..minted /\ req[r].refused \in 0..minted
      BY <2>1, <3>1 DEF Request, ClientShape
    <3>6. req[r].sends <= 2 * req[r].attempt
      BY <3>3, <3>4, ClientBounds
    <3>7. req[r].pc \in {"gate", "auth", "fetch", "sent", "done"}
      BY <3>1 DEF Request
    <3> QED
      BY <3>2, <3>4, <3>5, <3>6, <3>7
  <2>3. cooled \in BOOLEAN /\ aged \in BOOLEAN /\ young \in BOOLEAN
    BY <2>1 DEF ClientShape
  <2>4. token \in 0..minted /\ revoked \in 0..minted /\ minted \in Nat /\ drops \in Nat
    BY <2>1 DEF ClientShape
  <2>5. breaker \in {"CLOSED", "OPEN", "HALF_OPEN"} /\ failures \in Nat
    BY <2>1 DEF ClientShape
  <2> QED
    BY <2>2, <2>3, <2>4, <2>5
<1>2. ASSUME ClientInv(Requests), upsets \in 0..MaxUpsets PROVE TypeOK /\ SendsBounded
  BY <1>1, <1>2 DEF TypeOK, SendsBounded
<1>3. ASSUME ClientInv(YoungRequests), upsets \in 0..MaxUpsets + 1
      PROVE  Young!TypeOK /\ Young!SendsBounded
  BY <1>1, <1>3 DEF Young!TypeOK, Young!SendsBounded, YoungRequests
<1>4. ASSUME NEW R, ClientInv(R)
      PROVE  NoTokenStampede /\ BreakerCountsFailures /\ Young!BreakerCountsFailures
  <2>1. NoTokenStampede
    <3>1. minted \in Nat /\ drops \in Nat
      BY <1>4 DEF ClientInv, ClientShape
    <3> QED
      BY <1>4, <3>1 DEF ClientInv, FetchesCounted, NoTokenStampede
  <2> QED
    BY <1>4, <2>1 DEF ClientInv, BreakerCountsFailures, Young!BreakerCountsFailures
<1> QED
  BY <1>2, <1>3, <1>4

-------------------------------------------------------------------------------
(* The tool of the agents.                                                 *)

Resting ==
    /\ pc = "idle" <=> attempt = 0
    /\ pc = "sleep" => attempt < MaxRetries

ToolShape ==
    /\ now \in 0..MaxTime /\ openedAt \in 0..now
    /\ state \in {"CLOSED", "OPEN", "HALF_OPEN"} /\ failed \in Nat
    /\ probeSent \in BOOLEAN /\ refused \in BOOLEAN /\ raised \in BOOLEAN
    /\ pc \in {"idle", "request", "sleep"} /\ attempt \in 0..MaxRetries
    /\ Resting
    /\ timestamps \in Seq(Nat) /\ sent \in Seq(Nat)

\* The limiter has forgotten a beginning of what was sent, all of it older than the window.
Forgotten == Len(sent) - Len(timestamps)

LimiterKnows ==
    /\ Len(timestamps) <= Len(sent)
    /\ \A i \in 1..Len(sent) : sent[i] <= now
    /\ \A i \in 1..Len(timestamps) : timestamps[i] = sent[Forgotten + i]
    /\ \A i \in 1..Forgotten : sent[i] < now - Window
    /\ \A i, j \in 1..Len(sent) : i <= j => sent[i] <= sent[j]

\* While a call is on its way, the window holds what the limiter let in and its retries.
CallFits ==
    pc # "idle" => Cardinality(T!SentInWindow(now)) <= MaxRequests + attempt - 1

ToolInv ==
    /\ ToolShape /\ LimiterKnows /\ CallFits
    /\ T!WindowOverrunIsBounded /\ T!ClosedBelowThreshold /\ T!AnswersDecideTheProbe

\* What the assumption on the bounds of the tool says.
LEMMA ToolBounds ==
    /\ Window \in Nat \ {0} /\ MaxRequests \in Nat \ {0} /\ ToolThreshold \in Nat \ {0}
    /\ Recovery \in Nat \ {0} /\ MaxRetries \in Nat \ {0} /\ MaxTime \in Nat
BY CallersAssumption DEF T!ToolAssumption


\* A set of positions that is closed downwards is an interval from 1.
LEMMA InitialSegment ==
    ASSUME NEW L \in Nat, NEW S \in SUBSET (1..L),
           \A i \in S, j \in 1..L : j < i => j \in S
    PROVE  \E n \in 0..L : S = 1..n /\ Cardinality(S) = n
<1> DEFINE D == {n \in Nat : n + 1 \notin S}
<1>1. L \in D
  OBVIOUS
<1>2. PICK n \in D : \A m \in 0..n-1 : m \notin D
  <2>0. D \subseteq Nat /\ D # {}
    BY <1>1
  <2>1. \E n \in D : \A m \in D : ~(<<m, n>> \in OpToRel(<, Nat))
    <3> HIDE DEF D
    <3> QED
      BY <1>1, <2>0, NatLessThanWellFounded, WFMin
  <2>2. PICK n \in D : \A m \in D : ~(<<m, n>> \in OpToRel(<, Nat))
    BY <2>1
  <2>3. ASSUME NEW m \in D PROVE ~(m < n)
    BY <2>2, <2>3 DEF OpToRel
  <2>4. \A m \in 0..n-1 : m \notin D
    BY <2>3
  <2> QED
    BY <2>4
<1>3. S = 1..n
  <2>1. \A j \in 1..n : j \in S
    <3>1. ASSUME NEW j \in 1..n PROVE j \in S
      <4>1. j - 1 \in 0..n-1 /\ j - 1 \in Nat /\ (j - 1) + 1 = j
        OBVIOUS
      <4> QED
        BY <1>2, <4>1
    <3> QED
      BY <3>1
  <2>2. ASSUME NEW i \in S PROVE i \in 1..n
    <3>1. n + 1 \notin S /\ n \in Nat /\ i \in 1..L
      OBVIOUS
    <3>2. CASE i > n
      <4>1. i = n + 1 \/ n + 1 < i
        BY <3>1, <3>2
      <4>2. n + 1 \in 1..L
        BY <3>1, <3>2
      <4> QED
        BY <3>1, <4>1, <4>2
    <3> QED
      BY <3>1, <3>2
  <2> QED
    BY <2>1, <2>2
<1>4. n <= L
  <2>1. CASE n = 0
    BY <2>1
  <2>2. CASE n # 0
    BY <1>3, <2>2
  <2> QED
    BY <2>1, <2>2
<1>5. Cardinality(S) = n
  BY <1>3, FS_Interval
<1> QED
  BY <1>3, <1>4, <1>5

\* What is_allowed evicts.
LEMMA Evicted ==
    ASSUME ToolShape
    PROVE  \E n \in 0..Len(timestamps) :
              /\ n = Cardinality(T!Stale)
              /\ \A i \in 1..n : timestamps[i] < now - Window
              /\ n < Len(timestamps) => timestamps[n + 1] >= now - Window
              /\ T!Current \in Seq(Nat)
              /\ Len(T!Current) = Len(timestamps) - n
              /\ \A i \in 1..Len(timestamps) - n : T!Current[i] = timestamps[n + i]
<1>0. /\ Len(timestamps) \in Nat /\ DOMAIN timestamps = 1..Len(timestamps)
      /\ now \in Nat /\ Window \in Nat /\ \A i \in 1..Len(timestamps) : timestamps[i] \in Nat
  BY ToolBounds DEF ToolShape
<1>1. T!Stale \in SUBSET (1..Len(timestamps))
  BY <1>0 DEF T!Stale
<1>2. \A i \in T!Stale, j \in 1..Len(timestamps) : j < i => j \in T!Stale
  BY <1>0 DEF T!Stale
<1>3. PICK n \in 0..Len(timestamps) : T!Stale = 1..n /\ Cardinality(T!Stale) = n
  BY <1>0, <1>1, <1>2, InitialSegment
<1>4. \A i \in 1..n : timestamps[i] < now - Window
  BY <1>0, <1>3 DEF T!Stale
<1>5. n < Len(timestamps) => timestamps[n + 1] >= now - Window
  <2> SUFFICES ASSUME n < Len(timestamps), ~(timestamps[n + 1] >= now - Window) PROVE FALSE
    OBVIOUS
  <2>1. n + 1 \in 1..Len(timestamps) /\ timestamps[n + 1] < now - Window
    BY <1>0
  <2>2. \A j \in 1..n + 1 : timestamps[j] < now - Window
    BY <1>4, <2>1
  <2>3. n + 1 \in T!Stale
    BY <1>0, <2>1, <2>2 DEF T!Stale
  <2> QED
    BY <1>3, <2>3
<1>6. T!Current = SubSeq(timestamps, n + 1, Len(timestamps))
  BY <1>3, SameCount DEF T!Current
<1>7. n + 1 \in Int /\ Len(timestamps) \in Int
  BY <1>0
<1>8. \A i \in n + 1..Len(timestamps) : timestamps[i] \in Nat
  BY <1>0
<1>9. /\ T!Current \in Seq(Nat)
      /\ Len(T!Current) = IF n + 1 <= Len(timestamps) THEN Len(timestamps) - (n + 1) + 1 ELSE 0
      /\ \A i \in 1..Len(timestamps) - (n + 1) + 1 : T!Current[i] = timestamps[n + 1 + i - 1]
  BY <1>6, <1>7, <1>8, SubSeqProperties
<1> QED
  <2> DEFINE kept == T!Current
             L == Len(timestamps)
  <2> HIDE DEF kept, L
  <2>a. /\ n \in 0..L /\ L \in Nat
        /\ Len(kept) = IF n + 1 <= L THEN L - (n + 1) + 1 ELSE 0
        /\ \A i \in 1..L - (n + 1) + 1 : kept[i] = timestamps[n + 1 + i - 1]
    BY <1>0, <1>9 DEF kept, L
  <2>b. /\ L - (n + 1) + 1 = L - n /\ \A i \in 1..L - n : n + 1 + i - 1 = n + i
    BY <2>a
  <2>1. Len(T!Current) = Len(timestamps) - n
    BY <2>a DEF kept, L
  <2>2. \A i \in 1..Len(timestamps) - n : T!Current[i] = timestamps[n + i]
    BY <2>a, <2>b DEF kept, L
  <2> QED
    BY <1>3, <1>4, <1>5, <1>9, <2>1, <2>2

\* Windows are finite, before and after a step.
LEMMA WindowsAreFinite ==
    /\ \A t : sent \in Seq(Nat) => IsFiniteSet(T!SentInWindow(t))
                                   /\ Cardinality(T!SentInWindow(t)) \in Nat
    /\ \A t : T!SentInWindow(t) \in SUBSET (DOMAIN sent)
<1>1. \A t : T!SentInWindow(t) \in SUBSET (DOMAIN sent)
  BY DEF T!SentInWindow
<1>2. ASSUME sent \in Seq(Nat) PROVE IsFiniteSet(DOMAIN sent)
  <2>1. Len(sent) \in Nat /\ DOMAIN sent = 1..Len(sent)
    BY <1>2
  <2> QED
    BY <2>1, FS_Interval
<1> QED
  BY <1>1, <1>2, FS_Subset, FS_CardinalityType

\* A request sent now belongs to the window of now, and to no earlier one.
LEMMA SendingFills ==
    ASSUME ToolShape, sent' = Append(sent, now), now' = now,
           NEW n \in Nat, Cardinality(T!SentInWindow(now)) <= n, T!WindowOverrunIsBounded,
           n + 1 < MaxRequests + MaxRetries
    PROVE  /\ Cardinality(T!SentInWindow(now)') <= n + 1
           /\ T!WindowOverrunIsBounded'
<1> DEFINE L == Len(sent)
<1>1. /\ L \in Nat /\ DOMAIN sent = 1..L /\ now \in Nat /\ Window \in Nat \ {0}
      /\ DOMAIN sent' = 1..L + 1 /\ sent'[L + 1] = now
      /\ \A i \in 1..L : sent'[i] = sent[i] /\ sent[i] \in Nat
  BY ToolBounds DEF ToolShape
<1> HIDE DEF L
<1>2. T!SentInWindow(now)' = T!SentInWindow(now) \union {L + 1}
  <2>1. ASSUME NEW i PROVE i \in T!SentInWindow(now)' <=> i \in T!SentInWindow(now) \union {L + 1}
    <3>1. CASE i = L + 1
      BY <1>1, <3>1 DEF T!SentInWindow
    <3>2. CASE i \in 1..L
      BY <1>1, <3>2 DEF T!SentInWindow
    <3>3. CASE i \notin 1..L + 1
      BY <1>1, <3>3 DEF T!SentInWindow
    <3> QED
      BY <1>1, <3>1, <3>2, <3>3
  <2> QED
    BY <2>1
<1>3. ASSUME NEW t \in 0..now, t # now PROVE T!SentInWindow(t)' = T!SentInWindow(t)
  <2>1. ASSUME NEW i PROVE i \in T!SentInWindow(t)' <=> i \in T!SentInWindow(t)
    <3>1. CASE i = L + 1
      BY <1>1, <1>3, <3>1 DEF T!SentInWindow
    <3>2. CASE i \in 1..L
      BY <1>1, <3>2 DEF T!SentInWindow
    <3>3. CASE i \notin 1..L + 1
      BY <1>1, <3>3 DEF T!SentInWindow
    <3> QED
      BY <1>1, <3>1, <3>2, <3>3
  <2> QED
    BY <2>1
<1>4. sent \in Seq(Nat)
  BY DEF ToolShape
<1>5. Cardinality(T!SentInWindow(now)') <= n + 1
  <2>1. IsFiniteSet(T!SentInWindow(now)) /\ Cardinality(T!SentInWindow(now)) \in Nat
    BY <1>4, WindowsAreFinite
  <2> DEFINE S == T!SentInWindow(now)
             U == S \union {L + 1}
  <2>2. IsFiniteSet(U)
          /\ Cardinality(U) = IF L + 1 \in S THEN Cardinality(S) ELSE Cardinality(S) + 1
    <3> HIDE DEF S
    <3> QED
      BY <2>1, FS_AddElement DEF S
  <2>3. Cardinality(T!SentInWindow(now)') = Cardinality(U)
    BY <1>2
  <2> HIDE DEF U, S
  <2>4. Cardinality(S) <= n
    BY DEF S
  <2> QED
    BY <2>1, <2>2, <2>3, <2>4 DEF S
<1>6. T!WindowOverrunIsBounded'
  <2>1. ASSUME NEW t \in 0..now
        PROVE  Cardinality(T!SentInWindow(t)') < MaxRequests + MaxRetries
    <3>1. CASE t = now
      <4>1. IsFiniteSet(T!SentInWindow(now)) /\ IsFiniteSet(T!SentInWindow(now) \union {L + 1})
        BY <1>4, WindowsAreFinite, FS_AddElement
      <4>2. Cardinality(T!SentInWindow(now)') \in Nat
        BY <1>2, <4>1, FS_CardinalityType
      <4> QED
        BY <1>5, <3>1, <4>2, ToolBounds
    <3>2. CASE t # now
      BY <1>3, <3>2, SameCount DEF T!WindowOverrunIsBounded
    <3> QED
      BY <3>1, <3>2
  <2>2. \A t \in 0..now' : T!Cardinality(T!SentInWindow(t)') < MaxRequests + MaxRetries
    BY <2>1, SameCount
  <2> QED
    BY <2>2 DEF T!WindowOverrunIsBounded
<1> QED
  BY <1>5, <1>6

\* What the limiter keeps is all of the window, so a call it lets in finds room there.
LEMMA LimiterSeesTheWindow ==
    ASSUME ToolShape, LimiterKnows
    PROVE  Cardinality(T!SentInWindow(now)) <= Len(T!Current)
<1>1. PICK n \in 0..Len(timestamps) :
              /\ \A i \in 1..n : timestamps[i] < now - Window
              /\ Len(T!Current) = Len(timestamps) - n
  BY Evicted
<1> DEFINE L == Len(sent)
           K == Len(timestamps)
<1>2. /\ L \in Nat /\ K \in Nat /\ K <= L /\ DOMAIN sent = 1..L /\ n \in 0..K
      /\ Forgotten = L - K /\ now \in Nat /\ Window \in Nat
  BY ToolBounds DEF ToolShape, LimiterKnows, Forgotten
<1>3. \A i \in 1..L : sent[i] \in Nat
  BY DEF ToolShape
<1>4. \A i \in 1..L - K : sent[i] < now - Window
  BY <1>2 DEF LimiterKnows
<1>5. \A i \in 1..n : sent[(L - K) + i] < now - Window
  BY <1>1, <1>2 DEF LimiterKnows
<1> HIDE DEF L, K
<1>6. T!SentInWindow(now) \subseteq (L - K) + n + 1..L
  <2>1. ASSUME NEW i \in T!SentInWindow(now) PROVE i \in (L - K) + n + 1..L
    <3>1. i \in 1..L /\ now - Window < sent[i]
      BY <1>2 DEF T!SentInWindow
    <3>2. ~(i <= L - K)
      BY <1>2, <1>3, <1>4, <3>1
    <3>3. ~(L - K < i /\ i <= (L - K) + n)
      <4> SUFFICES ASSUME L - K < i, i <= (L - K) + n PROVE FALSE
        OBVIOUS
      <4>1. i - (L - K) \in 1..n /\ (L - K) + (i - (L - K)) = i
        BY <1>2, <3>1
      <4>2. sent[i] < now - Window
        BY <1>5, <4>1
      <4> QED
        BY <1>2, <1>3, <3>1, <4>2
    <3> QED
      BY <1>2, <3>1, <3>2, <3>3
  <2> QED
    BY <2>1
<1>7. /\ IsFiniteSet((L - K) + n + 1..L)
      /\ Cardinality((L - K) + n + 1..L) = K - n
  <2>1. (L - K) + n + 1 \in Int /\ L \in Int /\ ((L - K) + n + 1 > L => K - n = 0)
    BY <1>2
  <2>2. L - ((L - K) + n + 1) + 1 = K - n
    BY <1>2
  <2> QED
    BY <2>1, <2>2, FS_Interval
<1>8. Cardinality(T!SentInWindow(now)) <= K - n
  BY <1>6, <1>7, FS_Subset
<1> QED
  BY <1>1, <1>8 DEF K

\* Appending keeps a list's elements where they are and adds one at its end.
LEMMA AppendedTo ==
    ASSUME NEW S, NEW s \in Seq(S), NEW x \in S
    PROVE  /\ Append(s, x) \in Seq(S) /\ Len(Append(s, x)) = Len(s) + 1
           /\ \A i \in 1..Len(s) : Append(s, x)[i] = s[i]
           /\ Append(s, x)[Len(s) + 1] = x
  BY AppendProperties

\* Evicting and recording leave what the limiter has forgotten older than the window.
LEMMA LimiterKeeps ==
    ASSUME ToolShape, LimiterKnows, now' = now,
           NEW kept \in Seq(Nat), NEW n \in 0..Len(timestamps),
           Len(kept) = Len(timestamps) - n,
           \A i \in 1..Len(timestamps) - n : kept[i] = timestamps[n + i],
           \A i \in 1..n : timestamps[i] < now - Window,
           \/ timestamps' = kept /\ sent' = sent
           \/ timestamps' = Append(kept, now) /\ sent' = Append(sent, now)
    PROVE  /\ LimiterKnows'
           /\ timestamps' \in Seq(Nat) /\ sent' \in Seq(Nat)
<1> DEFINE L == Len(sent)
           K == Len(timestamps)
<1>1. /\ L \in Nat /\ K \in Nat /\ K <= L /\ n \in 0..K /\ Forgotten = L - K
      /\ Len(kept) = K - n /\ now \in Nat /\ Window \in Nat
  BY ToolBounds DEF ToolShape, LimiterKnows, Forgotten
<1>2. /\ \A i \in 1..L : sent[i] \in Nat /\ sent[i] <= now
      /\ \A i \in 1..K : timestamps[i] = sent[(L - K) + i]
      /\ \A i \in 1..L - K : sent[i] < now - Window
      /\ \A i, j \in 1..L : i <= j => sent[i] <= sent[j]
  BY <1>1 DEF LimiterKnows, ToolShape
<1>3. \A i \in 1..K - n : kept[i] = timestamps[n + i]
  OBVIOUS
<1>3a. \A i \in 1..n : timestamps[i] < now - Window
  OBVIOUS
<1>4. sent \in Seq(Nat)
  BY DEF ToolShape
<1> HIDE DEF L, K
<1>5. \A i \in 1..K - n : kept[i] = sent[(L - K) + n + i]
  <2>1. ASSUME NEW i \in 1..K - n PROVE kept[i] = sent[(L - K) + n + i]
    <3>1. n + i \in 1..K /\ (L - K) + (n + i) = (L - K) + n + i
      BY <1>1
    <3> QED
      BY <1>2, <1>3, <3>1
  <2> QED
    BY <2>1
<1>6. \A i \in 1..(L - K) + n : sent[i] < now - Window
  <2>1. ASSUME NEW i \in 1..(L - K) + n, i > L - K PROVE sent[i] < now - Window
    <3>1. i - (L - K) \in 1..n /\ i - (L - K) \in 1..K /\ (L - K) + (i - (L - K)) = i
      BY <1>1, <2>1
    <3> QED
      BY <1>2, <1>3a, <3>1
  <2> QED
    BY <1>1, <1>2, <2>1
<1>7. CASE timestamps' = kept /\ sent' = sent
  <2>1. Len(sent') = L /\ Len(timestamps') = K - n
    BY <1>1, <1>7 DEF L
  <2>2. Forgotten' = (L - K) + n
    BY <1>1, <2>1 DEF Forgotten
  <2>3. K - n <= L
    BY <1>1
  <2> QED
    BY <1>2, <1>4, <1>5, <1>6, <1>7, <2>1, <2>2, <2>3 DEF LimiterKnows
<1>8. CASE timestamps' = Append(kept, now) /\ sent' = Append(sent, now)
  <2>1. /\ sent' \in Seq(Nat) /\ Len(sent') = L + 1 /\ sent'[L + 1] = now
        /\ \A i \in 1..L : sent'[i] = sent[i]
    BY <1>1, <1>4, <1>8 DEF L
  <2>2. /\ timestamps' \in Seq(Nat) /\ Len(timestamps') = K - n + 1
        /\ timestamps'[K - n + 1] = now
        /\ \A i \in 1..K - n : timestamps'[i] = kept[i]
    <3>1. Len(kept) + 1 = K - n + 1 /\ Len(kept) \in Nat /\ now \in Nat
      BY <1>1
    <3>2. /\ Append(kept, now) \in Seq(Nat) /\ Len(Append(kept, now)) = Len(kept) + 1
          /\ \A i \in 1..Len(kept) : Append(kept, now)[i] = kept[i]
          /\ Append(kept, now)[Len(kept) + 1] = now
      BY <3>1, AppendedTo, Zenon
    <3>3. timestamps' = Append(kept, now)
      BY <1>8
    <3> QED
      BY <1>1, <3>2, <3>3
  <2>3. Forgotten' = (L - K) + n
    BY <1>1, <2>1, <2>2 DEF Forgotten
  <2>4. Len(timestamps') <= Len(sent')
    BY <1>1, <2>1, <2>2
  <2>5. \A i \in 1..Len(sent') : sent'[i] <= now'
    BY <1>1, <1>2, <2>1
  <2>6. \A i \in 1..Len(timestamps') : timestamps'[i] = sent'[Forgotten' + i]
    <3>1. ASSUME NEW i \in 1..K - n + 1 PROVE timestamps'[i] = sent'[(L - K) + n + i]
      <4>1. CASE i = K - n + 1
        <5>1. (L - K) + n + i = L + 1
          BY <1>1, <4>1
        <5> QED
          BY <2>1, <2>2, <4>1, <5>1
      <4>2. CASE i \in 1..K - n
        <5>1. (L - K) + n + i \in 1..L
          BY <1>1, <4>2
        <5> QED
          BY <1>5, <2>1, <2>2, <4>2, <5>1
      <4> QED
        BY <1>1, <4>1, <4>2
    <3> QED
      BY <2>2, <2>3, <3>1
  <2>7. \A i \in 1..Forgotten' : sent'[i] < now' - Window
    <3>1. ASSUME NEW i \in 1..(L - K) + n PROVE sent'[i] < now - Window
      <4>1. i \in 1..L
        BY <1>1
      <4> QED
        BY <1>6, <2>1, <4>1
    <3> QED
      BY <2>3, <3>1
  <2>8. \A i, j \in 1..Len(sent') : i <= j => sent'[i] <= sent'[j]
    <3>1. ASSUME NEW i \in 1..L + 1, NEW j \in 1..L + 1, i <= j PROVE sent'[i] <= sent'[j]
      <4>1. CASE j = L + 1
        BY <1>1, <2>1, <2>5, <4>1
      <4>2. CASE j \in 1..L
        <5>1. i \in 1..L
          BY <1>1, <3>1, <4>2
        <5> QED
          BY <1>2, <2>1, <3>1, <4>2, <5>1
      <4> QED
        BY <1>1, <4>1, <4>2
    <3> QED
      BY <2>1, <3>1
  <2> QED
    BY <2>1, <2>2, <2>4, <2>5, <2>6, <2>7, <2>8 DEF LimiterKnows
<1> QED
  BY <1>7, <1>8

\* A failure opens the breaker at the threshold and when it was half open.
LEMMA ToolFailureCounts ==
    ASSUME ToolShape, T!ClosedBelowThreshold, T!RecordFailure
    PROVE  /\ failed' \in Nat /\ openedAt' \in 0..now /\ probeSent' \in BOOLEAN
           /\ state' \in {"OPEN", "CLOSED"}
           /\ T!ClosedBelowThreshold'
<1>1. failed' = failed + 1 /\ failed \in Nat /\ now \in Nat /\ openedAt \in 0..now
  BY DEF T!RecordFailure, ToolShape
<1>2. probeSent' \in BOOLEAN
  BY DEF T!RecordFailure
<1>3. CASE state = "HALF_OPEN" \/ failed + 1 >= ToolThreshold
  <2>1. state' = "OPEN" /\ openedAt' = now
    BY <1>1, <1>3 DEF T!RecordFailure
  <2>2. failed + 1 >= ToolThreshold
    BY <1>1, <1>3, ToolBounds DEF T!ClosedBelowThreshold
  <2> QED
    BY <1>1, <1>2, <2>1, <2>2, ToolBounds DEF T!ClosedBelowThreshold
<1>4. CASE ~(state = "HALF_OPEN" \/ failed + 1 >= ToolThreshold)
  <2>1. state' = state /\ openedAt' = openedAt
    BY <1>1, <1>4 DEF T!RecordFailure
  <2>2. state = "CLOSED"
    BY <1>1, <1>4, ToolBounds DEF T!ClosedBelowThreshold
  <2> QED
    BY <1>1, <1>2, <1>4, <2>1, <2>2, ToolBounds DEF T!ClosedBelowThreshold
<1> QED
  BY <1>3, <1>4

\* Steps that send nothing and let no time pass.
LEMMA QuietSteps ==
    ASSUME UNCHANGED <<now, sent>>
    PROVE  /\ T!WindowOverrunIsBounded => T!WindowOverrunIsBounded'
           /\ T!SentInWindow(now)' = T!SentInWindow(now)
           /\ LimiterKnows /\ timestamps' = timestamps => LimiterKnows'
BY DEF T!WindowOverrunIsBounded, T!SentInWindow, LimiterKnows, Forgotten

\* A call that the breaker and the limiter let pass is sent and recorded once.
LEMMA ToolAdmits ==
    ASSUME ToolInv, T!CallAdmitted
    PROVE  ToolInv'
<1> USE DEF ToolInv
<1>1. PICK n \in 0..Len(timestamps) :
          /\ \A i \in 1..n : timestamps[i] < now - Window
          /\ T!Current \in Seq(Nat)
          /\ Len(T!Current) = Len(timestamps) - n
          /\ \A i \in 1..Len(timestamps) - n : T!Current[i] = timestamps[n + i]
  BY Evicted
<1>2. /\ pc = "idle" /\ UNCHANGED <<now, failed, openedAt, delay, wake>>
      /\ raised' = FALSE
      /\ state' = IF T!Recovered THEN "HALF_OPEN" ELSE state
      /\ T!AllowRequest
  BY DEF T!CallAdmitted
<1>3. probeSent' \in BOOLEAN /\ raised' \in BOOLEAN
  BY DEF T!CallAdmitted
<1>4. state' \in {"CLOSED", "OPEN", "HALF_OPEN"} /\ T!ClosedBelowThreshold'
  BY <1>2 DEF ToolShape, T!ClosedBelowThreshold, T!Recovered
<1>5. CASE Len(T!Current) < MaxRequests
  <2>1. /\ pc' = "request" /\ attempt' = attempt + 1 /\ sent' = Append(sent, now)
        /\ timestamps' = Append(T!Current, now) /\ refused' = FALSE
    BY <1>5 DEF T!CallAdmitted, T!Send
  <2>2. LimiterKnows' /\ timestamps' \in Seq(Nat) /\ sent' \in Seq(Nat)
    BY <1>1, <1>2, <2>1, LimiterKeeps
  <2>3. Cardinality(T!SentInWindow(now)) <= MaxRequests - 1
    <3>1. Cardinality(T!SentInWindow(now)) \in Nat
      BY WindowsAreFinite DEF ToolShape
    <3>2. Len(T!Current) \in Nat
      BY <1>1
    <3> QED
      BY <1>5, <3>1, <3>2, LimiterSeesTheWindow, ToolBounds
  <2>4. MaxRequests - 1 \in Nat /\ (MaxRequests - 1) + 1 < MaxRequests + MaxRetries
    BY ToolBounds
  <2>5. Cardinality(T!SentInWindow(now)') <= (MaxRequests - 1) + 1 /\ T!WindowOverrunIsBounded'
    BY <1>2, <2>1, <2>3, <2>4, SendingFills
  <2>6. attempt \in 0..MaxRetries /\ attempt = 0
    BY <1>2 DEF ToolShape, Resting
  <2>7. CallFits'
    BY <1>2, <2>1, <2>5, <2>6, ToolBounds, SameCount DEF CallFits
  <2>8. attempt' \in 0..MaxRetries
    BY <2>1, <2>6, ToolBounds
  <2>9. refused' \in BOOLEAN
    BY <2>1
  <2>10. ToolShape'
    BY <1>2, <1>3, <1>4, <2>1, <2>2, <2>8, <2>9 DEF ToolShape, Resting
  <2> QED
    BY <1>4, <2>1, <2>2, <2>5, <2>7, <2>10 DEF T!AnswersDecideTheProbe
<1>6. CASE ~(Len(T!Current) < MaxRequests)
  <2>1. /\ UNCHANGED <<pc, attempt, sent>>
        /\ timestamps' = T!Current /\ refused' = TRUE
    BY <1>6 DEF T!CallAdmitted
  <2>2. LimiterKnows' /\ timestamps' \in Seq(Nat) /\ sent' \in Seq(Nat)
    BY <1>1, <1>2, <2>1, LimiterKeeps
  <2>3. T!WindowOverrunIsBounded'
    BY <1>2, <2>1, QuietSteps
  <2>4. refused' \in BOOLEAN
    BY <2>1
  <2>5. ToolShape'
    BY <1>2, <1>3, <1>4, <2>1, <2>2, <2>4 DEF ToolShape, Resting
  <2> QED
    BY <1>2, <1>4, <2>1, <2>2, <2>3, <2>5 DEF CallFits, T!AnswersDecideTheProbe
<1> QED
  BY <1>5, <1>6

\* An answer that ends the call is counted by the breaker.
LEMMA ToolAnswers ==
    ASSUME ToolInv, T!Answer
    PROVE  ToolInv'
<1> USE DEF ToolInv
<1>1. pc = "request" /\ UNCHANGED <<now, timestamps, sent, refused>>
  BY DEF T!Answer, T!Succeeds, T!FailsForGood, T!Fails, T!Raises
<1>2. LimiterKnows' /\ T!WindowOverrunIsBounded' /\ T!SentInWindow(now)' = T!SentInWindow(now)
  BY <1>1, QuietSteps
<1>3. /\ failed' \in Nat /\ openedAt' \in 0..now /\ probeSent' \in BOOLEAN
      /\ state' \in {"CLOSED", "OPEN", "HALF_OPEN"} /\ T!ClosedBelowThreshold'
      /\ state' = "HALF_OPEN" => raised'
  <2>1. CASE T!Succeeds
    <3>1. state' = "CLOSED" /\ failed' = 0 /\ openedAt' = 0 /\ probeSent' = FALSE
      BY <2>1 DEF T!Succeeds, T!RecordSuccess
    <3>2. probeSent' \in BOOLEAN
      BY <3>1
    <3>3. 0 \in 0..now
      BY DEF ToolShape
    <3> QED
      BY <3>1, <3>2, <3>3, ToolBounds DEF T!ClosedBelowThreshold
  <2>2. CASE T!FailsForGood \/ T!Fails
    BY <2>2, ToolFailureCounts DEF T!FailsForGood, T!Fails
  <2>3. CASE T!Raises
    <3>1. UNCHANGED <<state, failed, openedAt, probeSent>> /\ raised' = TRUE
      BY <2>3 DEF T!Raises, T!breaker
    <3> QED
      BY <3>1 DEF ToolShape, T!ClosedBelowThreshold
  <2> QED
    BY <2>1, <2>2, <2>3 DEF T!Answer
<1>4. raised' \in BOOLEAN
  <2>1. raised' = raised \/ raised' = TRUE
    BY DEF T!Answer, T!Succeeds, T!FailsForGood, T!Fails, T!Raises
  <2> QED
    BY <2>1 DEF ToolShape
<1>5. \/ pc' = "idle" /\ attempt' = 0
      \/ pc' = "sleep" /\ attempt' = attempt /\ attempt < MaxRetries
  BY DEF T!Answer, T!Succeeds, T!FailsForGood, T!Fails, T!Raises, T!Return
<1>6. ToolShape'
  <2>1. 0 \in 0..MaxRetries
    BY ToolBounds
  <2> QED
    BY <1>1, <1>3, <1>4, <1>5, <2>1 DEF ToolShape, Resting
<1>7. CallFits'
  BY <1>1, <1>2, <1>5 DEF CallFits
<1>8. T!AnswersDecideTheProbe'
  BY <1>3 DEF T!AnswersDecideTheProbe
<1> QED
  BY <1>2, <1>3, <1>6, <1>7, <1>8

\* A retry is sent and recorded after its delay, without asking the limiter.
LEMMA ToolRetries ==
    ASSUME ToolInv, T!Retry
    PROVE  ToolInv'
<1> USE DEF ToolInv
<1>1. /\ pc = "sleep" /\ pc' = "request" /\ attempt' = attempt + 1 /\ sent' = Append(sent, now)
      /\ timestamps' = Append(timestamps, now)
      /\ UNCHANGED <<now, state, failed, openedAt, probeSent, refused, raised>>
  BY DEF T!Retry, T!Send, T!breaker
<1>2. attempt \in Nat /\ attempt < MaxRetries /\ attempt >= 1 /\ pc # "idle"
  BY <1>1 DEF ToolShape, Resting
<1>3. LimiterKnows' /\ timestamps' \in Seq(Nat) /\ sent' \in Seq(Nat)
  <2>1. timestamps \in Seq(Nat) /\ Len(timestamps) \in Nat
    BY DEF ToolShape
  <2>2. /\ 0 \in 0..Len(timestamps) /\ Len(timestamps) = Len(timestamps) - 0
        /\ \A i \in 1..Len(timestamps) - 0 : timestamps[i] = timestamps[0 + i]
        /\ \A i \in 1..0 : timestamps[i] < now - Window
    BY <2>1
  <2> QED
    BY <1>1, <2>1, <2>2, LimiterKeeps
<1>4. /\ Cardinality(T!SentInWindow(now)') <= (MaxRequests + attempt - 1) + 1
      /\ T!WindowOverrunIsBounded'
  <2>1. /\ MaxRequests + attempt - 1 \in Nat
        /\ (MaxRequests + attempt - 1) + 1 < MaxRequests + MaxRetries
    BY <1>2, ToolBounds
  <2>2. Cardinality(T!SentInWindow(now)) <= MaxRequests + attempt - 1
    BY <1>2 DEF CallFits
  <2> QED
    BY <1>1, <2>1, <2>2, SendingFills
<1>5. CallFits'
  <2>1. (MaxRequests + attempt - 1) + 1 = MaxRequests + attempt' - 1
    BY <1>1, <1>2, ToolBounds
  <2> QED
    BY <1>1, <1>4, <2>1 DEF CallFits
<1>6. ToolShape'
  <2>1. attempt' \in 0..MaxRetries /\ attempt' # 0
    BY <1>1, <1>2, ToolBounds
  <2> QED
    BY <1>1, <1>3, <2>1 DEF ToolShape, Resting
<1> QED
  BY <1>1, <1>3, <1>4, <1>5, <1>6 DEF T!ClosedBelowThreshold, T!AnswersDecideTheProbe

\* Time goes on, and what was sent leaves the window.
LEMMA ToolTicks ==
    ASSUME ToolInv, T!Tick
    PROVE  ToolInv'
<1> USE DEF ToolInv
<1>1. /\ now' = now + 1 /\ now < MaxTime
      /\ UNCHANGED <<timestamps, state, failed, openedAt, probeSent, pc, attempt, refused,
                     raised, sent>>
  BY DEF T!Tick, T!breaker
<1>2. now \in Nat /\ Window \in Nat \ {0} /\ MaxTime \in Nat
  BY ToolBounds DEF ToolShape
<1>3. sent \in Seq(Nat) /\ DOMAIN sent = 1..Len(sent) /\ \A i \in 1..Len(sent) : sent[i] \in Nat
  BY DEF ToolShape
<1>4. ToolShape'
  <2>1. now' \in 0..MaxTime /\ openedAt' \in 0..now'
    BY <1>1, <1>2 DEF ToolShape
  <2> QED
    BY <1>1, <2>1 DEF ToolShape, Resting
<1>5. LimiterKnows'
  <2>1. Forgotten' = Forgotten
    BY <1>1 DEF Forgotten
  <2>2. Len(timestamps) \in Nat /\ Forgotten \in Int
    BY DEF ToolShape, Forgotten
  <2>3. Forgotten <= Len(sent)
    BY <1>3, <2>2 DEF Forgotten, ToolShape
  <2>4. \A i \in 1..Len(sent) : sent[i] <= now'
    BY <1>1, <1>2, <1>3 DEF LimiterKnows
  <2>5. \A i \in 1..Forgotten : sent[i] < now' - Window
    <3>1. ASSUME NEW i \in 1..Forgotten PROVE sent[i] < now' - Window
      <4>1. sent[i] < now - Window /\ sent[i] \in Nat
        BY <1>3, <2>2, <2>3 DEF LimiterKnows
      <4> QED
        BY <1>1, <1>2, <4>1
    <3> QED
      BY <3>1
  <2> QED
    BY <1>1, <2>1, <2>4, <2>5 DEF LimiterKnows
<1>6. \A t : T!SentInWindow(t)' = {i \in DOMAIN sent : t' - Window < sent[i] /\ sent[i] <= t'}
  BY <1>1 DEF T!SentInWindow
<1>7. Cardinality(T!SentInWindow(now)') <= Cardinality(T!SentInWindow(now))
  <2>1. T!SentInWindow(now)' \subseteq T!SentInWindow(now)
    BY <1>1, <1>2, <1>3 DEF T!SentInWindow, LimiterKnows
  <2> QED
    BY <1>3, <2>1, WindowsAreFinite, FS_Subset
<1>8. Cardinality(T!SentInWindow(now)') \in Nat /\ Cardinality(T!SentInWindow(now)) \in Nat
  <2>1. IsFiniteSet(T!SentInWindow(now)')
    <3>1. T!SentInWindow(now)' \subseteq DOMAIN sent
      BY <1>1 DEF T!SentInWindow
    <3>2. IsFiniteSet(DOMAIN sent)
      BY <1>3, FS_Interval
    <3> QED
      BY <3>1, <3>2, FS_Subset
  <2> QED
    BY <1>3, <2>1, WindowsAreFinite, FS_CardinalityType
<1>9. CallFits'
  <2> SUFFICES ASSUME pc' # "idle"
               PROVE  Cardinality(T!SentInWindow(now)') <= MaxRequests + attempt' - 1
    BY DEF CallFits
  <2>1. Cardinality(T!SentInWindow(now)) <= MaxRequests + attempt - 1 /\ attempt \in Nat
    BY <1>1 DEF CallFits, ToolShape
  <2> QED
    BY <1>1, <1>7, <1>8, <2>1, ToolBounds
<1>10. T!WindowOverrunIsBounded'
  <2>1. ASSUME NEW t \in 0..now
        PROVE  Cardinality({i \in DOMAIN sent : t - Window < sent[i] /\ sent[i] <= t})
                  < MaxRequests + MaxRetries
    BY SameCount DEF T!WindowOverrunIsBounded, T!SentInWindow
  <2>2. Cardinality({i \in DOMAIN sent : now' - Window < sent[i] /\ sent[i] <= now'})
                  < MaxRequests + MaxRetries
    <3>1. Cardinality(T!SentInWindow(now)') < MaxRequests + MaxRetries
      <4>1. Cardinality(T!SentInWindow(now)) < MaxRequests + MaxRetries
        BY <1>2, <2>1 DEF T!SentInWindow
      <4> QED
        BY <1>7, <1>8, <4>1, ToolBounds
    <3> QED
      BY <1>1, <3>1 DEF T!SentInWindow
  <2>3. ASSUME NEW t \in 0..now'
        PROVE  Cardinality({i \in DOMAIN sent : t - Window < sent[i] /\ sent[i] <= t})
                  < MaxRequests + MaxRetries
    <3>1. t \in 0..now \/ t = now'
      BY <1>1, <1>2
    <3> QED
      BY <2>1, <2>2, <3>1
  <2>4. \A t \in 0..now' :
          T!Cardinality({i \in DOMAIN sent' : t - Window < sent'[i] /\ sent'[i] <= t})
              < MaxRequests + MaxRetries
    BY <1>1, <2>3, SameCount
  <2> QED
    BY <2>4 DEF T!WindowOverrunIsBounded, T!SentInWindow
<1> QED
  BY <1>1, <1>4, <1>5, <1>9, <1>10 DEF T!ClosedBelowThreshold, T!AnswersDecideTheProbe

\* A new tool has sent nothing.
LEMMA ToolStarts == T!Init => ToolInv
<1> SUFFICES ASSUME T!Init PROVE ToolInv
  OBVIOUS
<1>1. /\ now = 0 /\ timestamps = <<>> /\ sent = <<>> /\ state = "CLOSED" /\ failed = 0
      /\ openedAt = 0 /\ pc = "idle" /\ attempt = 0
  BY DEF T!Init
<1>2. probeSent \in BOOLEAN /\ refused \in BOOLEAN /\ raised \in BOOLEAN
  BY DEF T!Init
<1>3. timestamps \in Seq(Nat) /\ sent \in Seq(Nat) /\ Len(timestamps) = 0 /\ Len(sent) = 0
  BY <1>1
<1>4. ToolShape
  BY <1>1, <1>2, <1>3, ToolBounds DEF ToolShape, Resting
<1>5. LimiterKnows
  BY <1>1, <1>3 DEF LimiterKnows, Forgotten
<1>6. T!WindowOverrunIsBounded
  <2>1. ASSUME NEW t \in 0..now PROVE T!SentInWindow(t) = {}
    BY <1>1, <1>3 DEF T!SentInWindow
  <2>2. ASSUME NEW t \in 0..now PROVE Cardinality(T!SentInWindow(t)) < MaxRequests + MaxRetries
    BY <2>1, FS_EmptySet, ToolBounds
  <2> QED
    BY <2>2, SameCount DEF T!WindowOverrunIsBounded
<1> QED
  BY <1>1, <1>4, <1>5, <1>6, ToolBounds
  DEF ToolInv, CallFits, T!ClosedBelowThreshold, T!AnswersDecideTheProbe

\* Every step of the tool keeps its invariant.
LEMMA ToolSteps == ToolInv /\ T!Next => ToolInv'
<1> SUFFICES ASSUME ToolInv, T!Next PROVE ToolInv'
  OBVIOUS
<1>1. ASSUME UNCHANGED T!vars PROVE ToolInv'
  <2>1. UNCHANGED <<now, timestamps, state, failed, openedAt, probeSent, pc, attempt, delay,
                    wake, refused, raised, sent>>
    BY <1>1 DEF T!vars, T!breaker
  <2> QED
    BY <2>1 DEF ToolInv, ToolShape, Resting, LimiterKnows, Forgotten, CallFits,
       T!SentInWindow, T!WindowOverrunIsBounded, T!ClosedBelowThreshold,
       T!AnswersDecideTheProbe
<1> QED
  BY <1>1, ToolAdmits, ToolAnswers, ToolRetries, ToolTicks DEF T!Next, T!Work, T!CallBlocked

\* What the limiter remembers was sent by now.
LEMMA ToolTyped == ToolInv => T!TypeOK
<1> SUFFICES ASSUME ToolInv PROVE T!TypeOK
  OBVIOUS
<1>1. ASSUME NEW i \in DOMAIN timestamps PROVE timestamps[i] \in 0..now
  <2>1. /\ i \in 1..Len(timestamps) /\ timestamps[i] = sent[Forgotten + i]
        /\ Len(timestamps) \in Nat /\ Len(sent) \in Nat /\ Len(timestamps) <= Len(sent)
    BY <1>1 DEF ToolInv, ToolShape, LimiterKnows
  <2>2. Forgotten + i \in 1..Len(sent)
    BY <2>1 DEF Forgotten
  <2>3. sent[Forgotten + i] <= now /\ timestamps[i] \in Nat
    BY <2>2, <1>1 DEF ToolInv, ToolShape, LimiterKnows
  <2> QED
    BY <2>1, <2>3, ToolBounds DEF ToolInv, ToolShape
<1> QED
  BY <1>1 DEF ToolInv, ToolShape, T!TypeOK

-------------------------------------------------------------------------------
(* Ranks in a list of records.                                             *)

\* What the assumption on the bounds of the calls says.
LEMMA CallBounds ==
    /\ Tasks \subseteq C!Paged \union C!BulkTasks
    /\ Keys \subseteq Nat \ {0} /\ IsFiniteSet(Keys) /\ Starts \subseteq SUBSET Keys
    /\ Size \in Nat \ {0} /\ Caps \subseteq Nat \ {0}
    /\ MaxPolls \in Nat \ {0} /\ MaxAttempts \in Nat \ {0}
    /\ MaxChanges \in Nat /\ MaxFaults \in Nat
<1>1. C!IsFiniteSet(Keys) => IsFiniteSet(Keys)
  BY DEF C!IsFiniteSet, IsFiniteSet
<1> QED
  BY <1>1, CallersAssumption DEF C!CallsAssumption


\* The records of a list up to one, and their number.
UpTo(list, k) == {j \in list : j <= k}

\* A rank is the number of the positions up to it that count.
LEMMA RankCounts == \A list, k : C!Rank(list, k) = Cardinality(UpTo(list, k))
BY SameCount DEF C!Rank, UpTo

\* A set that holds the first records of a list.
Begins(list, D) == D \subseteq list /\ \A j \in D, k \in list \ D : j < k

\* Lists are finite sets of numbers.
LEMMA Lists ==
    ASSUME NEW S \in SUBSET Keys
    PROVE  IsFiniteSet(S) /\ Cardinality(S) \in Nat /\ S \subseteq Nat
           /\ Cardinality(S) <= Cardinality(Keys) /\ Cardinality(Keys) \in Nat
BY CallBounds, FS_Subset, FS_CardinalityType

\* A list that is not empty has a first record.
LEMMA FirstRecord ==
    ASSUME NEW S \in SUBSET Keys, S # {}
    PROVE  \E m \in S : \A j \in S : m <= j
<1>1. S \subseteq Nat
  BY Lists
<1>2. PICK m \in S : \A j \in S : ~(<<j, m>> \in OpToRel(<, Nat))
  BY <1>1, NatLessThanWellFounded, WFMin
<1>3. ASSUME NEW j \in S PROVE m <= j
  <2>1. j \in Nat /\ m \in Nat
    BY <1>1
  <2>2. ~(j < m)
    BY <1>2, <2>1 DEF OpToRel
  <2> QED
    BY <2>1, <2>2
<1> QED
  BY <1>3

\* The list up to a later record is longer.
LEMMA LaterIsLonger ==
    ASSUME NEW list \in SUBSET Keys, NEW j \in Nat, NEW k \in Nat, j <= k
    PROVE  /\ UpTo(list, j) \subseteq UpTo(list, k)
           /\ Cardinality(UpTo(list, j)) \in Nat /\ Cardinality(UpTo(list, k)) \in Nat
           /\ Cardinality(UpTo(list, j)) <= Cardinality(UpTo(list, k))
           /\ k \in list /\ j < k => Cardinality(UpTo(list, j)) < Cardinality(UpTo(list, k))
<1>1. list \subseteq Nat
  BY Lists
<1>2. UpTo(list, j) \subseteq UpTo(list, k) /\ UpTo(list, j) \in SUBSET Keys
      /\ UpTo(list, k) \in SUBSET Keys
  <2>1. \A i \in list : i <= j => i <= k
    BY <1>1
  <2>2. UpTo(list, j) \subseteq list /\ UpTo(list, k) \subseteq list
    BY DEF UpTo
  <2>3. UpTo(list, j) \subseteq UpTo(list, k)
    BY <2>1 DEF UpTo
  <2> QED
    BY <2>2, <2>3
<1>3. /\ IsFiniteSet(UpTo(list, j)) /\ Cardinality(UpTo(list, j)) \in Nat
      /\ IsFiniteSet(UpTo(list, k)) /\ Cardinality(UpTo(list, k)) \in Nat
  BY <1>2, Lists
<1>4. /\ Cardinality(UpTo(list, j)) <= Cardinality(UpTo(list, k))
      /\ Cardinality(UpTo(list, k)) = Cardinality(UpTo(list, j)) => UpTo(list, j) = UpTo(list, k)
  BY <1>2, <1>3, FS_Subset
<1>5. k \in list /\ j < k => UpTo(list, j) # UpTo(list, k)
  BY <1>1 DEF UpTo
<1> QED
  BY <1>2, <1>3, <1>4, <1>5

\* A list that is not empty has a last record, which is the maximum.
LEMMA LastRecord ==
    ASSUME NEW S \in SUBSET Keys, S # {}
    PROVE  C!Max(S) \in S /\ \A j \in S : j <= C!Max(S)
<1> DEFINE Behind(k) == Cardinality(S) - Cardinality(UpTo(S, k))
           B == {Behind(k) : k \in S}
<1>1. S \subseteq Nat /\ IsFiniteSet(S) /\ Cardinality(S) \in Nat
  BY Lists
<1>2. \A k \in S : Behind(k) \in Nat
  <2>1. ASSUME NEW k \in S PROVE Behind(k) \in Nat
    <3>1. UpTo(S, k) \in SUBSET S
      BY DEF UpTo
    <3>2. Cardinality(UpTo(S, k)) <= Cardinality(S) /\ IsFiniteSet(UpTo(S, k))
      BY <1>1, <3>1, FS_Subset
    <3>3. Cardinality(UpTo(S, k)) \in Nat
      BY <3>2, FS_CardinalityType
    <3> QED
      BY <1>1, <3>2, <3>3
  <2> QED
    BY <2>1
<1>3. B \subseteq Nat /\ B # {}
  <2>1. PICK k \in S : TRUE
    OBVIOUS
  <2>2. Behind(k) \in B
    BY <2>1
  <2> QED
    BY <1>2, <2>2
<1>4. PICK x \in B : \A y \in B : ~(<<y, x>> \in OpToRel(<, Nat))
  <2> HIDE DEF B
  <2> QED
    BY <1>3, NatLessThanWellFounded, WFMin
<1>5. PICK m \in S : x = Behind(m)
  BY <1>4
<1>6. ASSUME NEW j \in S PROVE m >= j
  <2> SUFFICES ASSUME m < j PROVE FALSE
    BY <1>1
  <2>0. m \in Nat /\ j \in Nat /\ m <= j
    BY <1>1
  <2>1. Cardinality(UpTo(S, m)) < Cardinality(UpTo(S, j))
    BY <2>0, LaterIsLonger
  <2>2. Cardinality(UpTo(S, m)) \in Nat /\ Cardinality(UpTo(S, j)) \in Nat
    BY <2>0, LaterIsLonger
  <2>3. Behind(j) < Behind(m)
    BY <1>1, <2>1, <2>2
  <2>4. Behind(j) \in B /\ Behind(j) \in Nat /\ Behind(m) \in Nat
    BY <1>2
  <2> QED
    <3> HIDE DEF B, Behind
    <3> QED
      BY <1>4, <1>5, <2>3, <2>4 DEF OpToRel
<1>7. C!Max(S) \in S /\ \A y \in S : C!Max(S) >= y
  BY <1>6 DEF C!Max
<1> QED
  BY <1>1, <1>7

\* Behind the first records of a list comes the record with the next rank.
LEMMA NextRank ==
    ASSUME NEW list \in SUBSET Keys, NEW D, Begins(list, D)
    PROVE  /\ D \in SUBSET Keys
           /\ \A k \in D : C!Rank(list, k) <= Cardinality(D)
           /\ \A k \in list \ D : C!Rank(list, k) > Cardinality(D)
           /\ list # D => \E k \in list \ D : C!Rank(list, k) = Cardinality(D) + 1
<1>1. D \in SUBSET Keys /\ D \in SUBSET list
  BY DEF Begins
<1>2. /\ IsFiniteSet(D) /\ Cardinality(D) \in Nat /\ list \subseteq Nat /\ D \subseteq Nat
      /\ \A k : IsFiniteSet(UpTo(list, k)) /\ Cardinality(UpTo(list, k)) \in Nat
  <2>1. \A k : UpTo(list, k) \in SUBSET Keys
    BY DEF UpTo
  <2> QED
    BY <1>1, <2>1, Lists
<1>3. ASSUME NEW k \in D PROVE C!Rank(list, k) <= Cardinality(D)
  <2>1. ASSUME NEW j \in list, j <= k PROVE j \in D
    <3>1. j \notin D => k < j
      BY DEF Begins
    <3> QED
      BY <1>2, <2>1, <3>1
  <2>2. UpTo(list, k) \in SUBSET D
    BY <2>1 DEF UpTo
  <2> QED
    BY <1>2, <2>2, FS_Subset, RankCounts
<1>4. ASSUME NEW k \in list \ D PROVE C!Rank(list, k) > Cardinality(D)
  <2>1. D \in SUBSET UpTo(list, k) /\ D # UpTo(list, k)
    BY <1>2 DEF UpTo, Begins
  <2>2. Cardinality(D) <= Cardinality(UpTo(list, k))
        /\ Cardinality(D) # Cardinality(UpTo(list, k))
    BY <1>2, <2>1, FS_Subset
  <2> QED
    BY <1>2, <2>2, RankCounts
<1>5. ASSUME list # D PROVE \E k \in list \ D : C!Rank(list, k) = Cardinality(D) + 1
  <2>1. list \ D # {} /\ list \ D \in SUBSET Keys
    BY <1>1, <1>5
  <2>2. PICK k \in list \ D : \A j \in list \ D : k <= j
    BY <2>1, FirstRecord
  <2>3. UpTo(list, k) = D \union {k}
    <3>1. \A j \in D : j < k /\ j \in list
      BY <2>2 DEF Begins
    <3>2. ASSUME NEW j \in list, j <= k, j \notin D PROVE j = k
      <4>1. k <= j /\ j \in Nat /\ k \in Nat
        BY <1>2, <2>2, <3>2
      <4> QED
        BY <3>2, <4>1
    <3>3. \A j \in D : j <= k
      BY <1>2, <3>1
    <3> QED
      BY <1>2, <2>2, <3>1, <3>2, <3>3 DEF UpTo
  <2>4. Cardinality(D \union {k}) = Cardinality(D) + 1
    BY <1>2, <2>2, FS_AddElement
  <2> QED
    BY <2>3, <2>4, RankCounts
<1> QED
  BY <1>1, <1>3, <1>4, <1>5

\* A page of n records that follows the first records of a list.
FollowsOn(list, D, n, P) ==
    /\ P \subseteq list \ D
    /\ list # D => P # {}
    /\ Begins(list, D \union P)
    /\ Cardinality(D \union P) = Cardinality(D) + Cardinality(P)
    /\ Cardinality(P) \in Nat /\ Cardinality(P) <= n
    /\ Cardinality(P) = n \/ D \union P = list

\* The records with the next ranks follow.
LEMMA NextPage ==
    ASSUME NEW list \in SUBSET Keys, NEW D, Begins(list, D), NEW n \in Nat \ {0}, NEW P,
           P = C!FromRank(list, Cardinality(D), n)
    PROVE  FollowsOn(list, D, n, P)
<1>1. /\ D \in SUBSET Keys /\ Cardinality(D) \in Nat /\ IsFiniteSet(D)
      /\ \A k \in D : C!Rank(list, k) <= Cardinality(D)
      /\ \A k \in list \ D : C!Rank(list, k) > Cardinality(D)
      /\ list # D => \E k \in list \ D : C!Rank(list, k) = Cardinality(D) + 1
  BY NextRank, Lists
<1>2. \A k : C!Rank(list, k) \in Nat
  <2>1. \A k : UpTo(list, k) \in SUBSET Keys
    BY DEF UpTo
  <2> QED
    BY <2>1, Lists, RankCounts
<1>3. \A k : k \in P <=> k \in list /\ C!Rank(list, k) > Cardinality(D)
                         /\ C!Rank(list, k) <= Cardinality(D) + n
  BY <1>1, <1>2 DEF C!FromRank
<1>4. P \subseteq list \ D
  BY <1>1, <1>2, <1>3
<1>5. list # D => P # {}
  <2>1. ASSUME NEW k \in list \ D, C!Rank(list, k) = Cardinality(D) + 1 PROVE k \in P
    BY <1>1, <1>3, <2>1
  <2> QED
    BY <1>1, <2>1
<1>6. Begins(list, D \union P)
  <2>1. ASSUME NEW j \in P, NEW k \in list \ (D \union P) PROVE j < k
    <3>1. C!Rank(list, k) > Cardinality(D) + n
      BY <1>1, <1>2, <1>3
    <3>2. C!Rank(list, j) <= Cardinality(D) + n
      BY <1>3
    <3>3. j \in Nat /\ k \in Nat
      BY <1>4, Lists
    <3>4. CASE k <= j
      <4>1. C!Rank(list, k) <= C!Rank(list, j)
        BY <3>3, <3>4, LaterIsLonger, RankCounts
      <4> QED
        BY <1>1, <1>2, <3>1, <3>2, <4>1
    <3> QED
      BY <3>3, <3>4
  <2> QED
    BY <1>4, <2>1 DEF Begins
<1>7. P \in SUBSET Keys /\ IsFiniteSet(P) /\ Cardinality(P) \in Nat
  <2>1. P \in SUBSET Keys
    BY <1>4
  <2> QED
    BY <2>1, Lists
<1>8. Cardinality(D \union P) = Cardinality(D) + Cardinality(P)
  <2>1. D \cap P = {}
    BY <1>4
  <2>2. Cardinality({}) = 0
    BY FS_EmptySet
  <2>3. Cardinality(D \union P) = Cardinality(D) + Cardinality(P) - Cardinality(D \cap P)
    BY <1>1, <1>7, FS_Union
  <2> QED
    BY <1>1, <1>7, <2>1, <2>2, <2>3
<1>9. Cardinality(P) <= n
  <2>1. CASE P = {}
    BY <2>1, FS_EmptySet
  <2>2. CASE P # {}
    <3> DEFINE m == C!Max(P)
    <3>1. m \in P /\ \A j \in P : j <= m
      BY <1>7, <2>2, LastRecord
    <3> HIDE DEF m
    <3>2. m \in Nat /\ list \subseteq Nat
      BY <1>4, <3>1, Lists
    <3>3. UpTo(list, m) = D \union P
      <4>1. \A j \in D : j <= m
        BY <1>1, <1>4, <3>1, <3>2 DEF Begins
      <4>2. \A k \in list \ (D \union P) : ~(k <= m)
        BY <1>6, <3>1, <3>2 DEF Begins
      <4> QED
        BY <1>4, <3>1, <4>1, <4>2 DEF UpTo, Begins
    <3>4. C!Rank(list, m) = Cardinality(D) + Cardinality(P)
      BY <1>8, <3>3, RankCounts
    <3>5. C!Rank(list, m) <= Cardinality(D) + n
      BY <1>3, <3>1
    <3> QED
      BY <1>1, <1>7, <3>4, <3>5
  <2> QED
    BY <2>1, <2>2
<1>10. ASSUME D \union P # list PROVE Cardinality(P) = n
  <2>1. PICK k \in list \ (D \union P) : C!Rank(list, k) = Cardinality(D \union P) + 1
    BY <1>6, <1>10, NextRank
  <2>2. C!Rank(list, k) > Cardinality(D) + n
    BY <1>1, <1>2, <1>3, <2>1
  <2> QED
    BY <1>1, <1>7, <1>8, <1>9, <2>1, <2>2
<1> QED
  BY <1>4, <1>5, <1>6, <1>7, <1>8, <1>9, <1>10 DEF FollowsOn

-------------------------------------------------------------------------------
(* Calls that take several requests.                                       *)

JobRecord == [state : {"none", "Open", "InProgress", "JobComplete", "Failed", "Aborted"},
              given : SUBSET Keys, done : SUBSET Keys]

CallsShape ==
    /\ task \in Tasks /\ cap \in Caps /\ counts \in BOOLEAN
    /\ held \in SUBSET Keys /\ stayed \subseteq held
    /\ shifted \in BOOLEAN /\ grew \in BOOLEAN
    /\ got \in SUBSET Keys /\ twice \subseteq got
    /\ place \in Nat /\ fetched \in Nat /\ total \in -1..Cardinality(Keys)
    /\ bulkJob \in JobRecord
    /\ polls \in 0..MaxPolls /\ tries \in 1..MaxAttempts
    /\ report \in [failed : Nat, successful : SUBSET Keys, refused : BOOLEAN]
    /\ task \in C!Paged => call \in {"page", "returned", "raised"} /\ bulkJob.state = "none"
    /\ task = "ingest" => call \in {"create", "upload", "close", "poll", "successfulResults",
                                    "failedResults", "returned", "raised"}
    /\ task = "bulk_query" => call \in {"create", "poll", "results", "returned", "raised"}

\* A read by page numbers has given the pages before this one, or, since the page that was
\* not full, all there is to give.
NumberedRead ==
    task \in {"paginate", "page_number"} /\ ~shifted =>
        /\ twice = {} /\ got \subseteq held /\ fetched = Cardinality(got)
        /\ \/ Begins(held, got) /\ Cardinality(got) = place * C!Per
           \/ stayed \subseteq got /\ \A j \in got : C!Rank(held, j) <= place * C!Per

\* A read by offsets has given the first records of the list.
OffsetRead ==
    task = "offset" /\ ~shifted =>
        twice = {} /\ Begins(held, got) /\ place = Cardinality(got)

\* A read by cursors has given the records up to the cursor that were there all the time.
CursorRead ==
    task \in {"cursor", "link_header", "query"} =>
        /\ twice = {}
        /\ \A j \in got : j <= place
        /\ \A k \in stayed : k <= place => k \in got

WholeRead == task = "none" /\ call = "page" => got = {} /\ twice = {}

\* The total paginate was told counts the list, unless that grew.
TotalIsKept ==
    task = "paginate" =>
        /\ ~counts => total = -1
        /\ counts /\ ~grew /\ place > 0 => total >= Cardinality(held)

Delivered ==
    task \in C!Paged /\ call = "returned" /\ ~C!Disturbed => stayed \subseteq got /\ twice = {}

ReadInv ==
    /\ NumberedRead /\ OffsetRead /\ CursorRead /\ WholeRead /\ TotalIsKept /\ Delivered

\* A bulk query gives the records of a job that selected what was there all the time.
QueryInv ==
    task = "bulk_query" =>
        /\ bulkJob.state = "JobComplete" => stayed \subseteq bulkJob.done
        /\ call \in {"results", "returned"} => bulkJob.state = "JobComplete"
        /\ call \in {"create", "poll"} => got = {} /\ twice = {} /\ place = 0
        /\ call = "results" => twice = {} /\ got = UpTo(bulkJob.done, place)
        /\ call = "returned" => twice = {} /\ got = bulkJob.done

Collecting == {"successfulResults", "failedResults", "returned"}

\* What was sent is what the job was given, and its result is read when it is over.
IngestInv ==
    task = "ingest" =>
        /\ call = "upload" => bulkJob.state = "Open"
        /\ call \in {"close", "poll"} => bulkJob.state # "none"
        /\ call = "poll" => bulkJob.state # "Open"
        /\ call \in {"close", "poll"} \union Collecting => bulkJob.given = held
        /\ call \in Collecting => /\ bulkJob.state \in {"JobComplete", "Failed", "Aborted"}
                                  /\ report.failed = Cardinality(held \ bulkJob.done)
        /\ call \in {"failedResults", "returned"} =>
               report.successful = bulkJob.done \/ report.refused

CallsInv == CallsShape /\ ReadInv /\ QueryInv /\ IngestInv

\* A page holds what was asked for, or what the server gives.
LEMMA PageSize ==
    ASSUME cap \in Caps
    PROVE  C!Per \in Nat \ {0} /\ (cap >= Size => C!Per = Size)
<1>1. cap \in Nat \ {0} /\ Size \in Nat \ {0}
  BY CallBounds
<1>2. CASE cap >= Size
  <2>1. Size \in {Size, cap} /\ \A y \in {Size, cap} : Size <= y
    BY <1>1, <1>2
  <2>2. C!Min({Size, cap}) \in {Size, cap} /\ \A y \in {Size, cap} : C!Min({Size, cap}) <= y
    BY <2>1 DEF C!Min
  <2>3. C!Min({Size, cap}) = Size
    BY <1>1, <1>2, <2>2
  <2> QED
    BY <1>1, <2>3 DEF C!Per
<1>3. CASE cap < Size
  <2>1. cap \in {Size, cap} /\ \A y \in {Size, cap} : cap <= y
    BY <1>1, <1>3
  <2>2. C!Min({Size, cap}) \in {Size, cap}
    BY <2>1 DEF C!Min
  <2> QED
    BY <1>1, <1>3, <2>2 DEF C!Per
<1> QED
  BY <1>1, <1>2, <1>3

\* What a turn of a loop does, whatever the style.
LEMMA PageIsRead ==
    ASSUME CallsShape, C!ReadPage
    PROVE  /\ task \in C!Paged /\ call = "page"
           /\ UNCHANGED <<task, held, cap, counts, stayed, shifted, grew, bulkJob, polls,
                          report, tries>>
           /\ C!Per' = C!Per
           /\ C!Records \in SUBSET held
           /\ \/ /\ UNCHANGED <<got, twice, place, fetched>>
                 /\ \/ call' = "raised"
                    \/ call' = "returned" /\ C!Records = {}
              \/ /\ C!Records # {}
                 /\ got' = got \union C!Records
                 /\ twice' = twice \union (got \intersect C!Records)
                 /\ place' = C!Follow(C!Records)
                 /\ fetched' = fetched + Cardinality(C!Records)
                 /\ call' = IF C!IsLast(C!Records) THEN "returned" ELSE "page"
                 /\ task = "query" => place = 0
<1>1. task \in C!Paged /\ call = "page"
  BY DEF C!ReadPage
<1>2. UNCHANGED <<task, held, cap, counts, stayed, shifted, grew, bulkJob, polls, report, tries>>
  BY DEF C!ReadPage, C!server, C!bulk
<1>3. C!Records \in SUBSET held
  BY <1>1 DEF C!Records, C!FromRank, C!After, C!Paged
<1>4. C!Per' = C!Per
  BY <1>2 DEF C!Per
<1>5. CASE ~C!Resolves
  BY <1>1, <1>2, <1>3, <1>4, <1>5 DEF C!ReadPage
<1>6. CASE C!Resolves /\ C!Records = {}
  BY <1>1, <1>2, <1>3, <1>4, <1>6 DEF C!ReadPage
<1>7. CASE C!Resolves /\ C!Records # {}
  <2>1. /\ got' = got \union C!Records
        /\ twice' = twice \union (got \intersect C!Records)
        /\ place' = C!Follow(C!Records)
        /\ fetched' = fetched + C!Cardinality(C!Records)
        /\ call' = IF C!IsLast(C!Records) THEN "returned" ELSE "page"
    BY <1>7 DEF C!ReadPage
  <2>2. task = "query" => place = 0
    BY <1>7 DEF C!Resolves
  <2> QED
    BY <1>1, <1>2, <1>3, <1>4, <1>7, <2>1, <2>2, SameCount
<1> QED
  BY <1>5, <1>6, <1>7

\* The types survive it.
LEMMA PageKeepsShape ==
    ASSUME CallsShape, C!ReadPage
    PROVE  CallsShape'
<1>1. /\ task \in C!Paged /\ call = "page"
      /\ UNCHANGED <<task, held, cap, counts, stayed, shifted, grew, bulkJob, polls, report, tries>>
      /\ C!Records \in SUBSET held /\ held \in SUBSET Keys
      /\ call' \in {"page", "returned", "raised"}
  BY PageIsRead DEF CallsShape
<1>2. C!Records \in SUBSET Keys /\ IsFiniteSet(C!Records) /\ Cardinality(C!Records) \in Nat
  <2>1. C!Records \in SUBSET Keys
    BY <1>1
  <2> QED
    BY <2>1, Lists
<1>3. got' \in SUBSET Keys /\ twice' \subseteq got' /\ fetched' \in Nat
  <2>1. CASE UNCHANGED <<got, twice, fetched>>
    BY <2>1 DEF CallsShape
  <2>2. CASE /\ got' = got \union C!Records
             /\ twice' = twice \union (got \intersect C!Records)
             /\ fetched' = fetched + Cardinality(C!Records)
    BY <1>2, <2>2 DEF CallsShape
  <2> QED
    BY <2>1, <2>2, PageIsRead
<1>4. place' \in Nat
  <2>1. CASE place' = C!Follow(C!Records) /\ C!Records # {}
    <3>1. C!Max(C!Records) \in Nat
      BY <1>2, <2>1, LastRecord, Lists
    <3>2. C!Cardinality(C!Records) \in Nat /\ place \in Nat
      BY <1>2, SameCount DEF CallsShape
    <3> QED
      BY <2>1, <3>1, <3>2 DEF C!Follow
  <2> QED
    BY <2>1, PageIsRead DEF CallsShape
<1>5. total' \in -1..Cardinality(Keys)
  <2>1. Cardinality(held) \in 0..Cardinality(Keys) /\ Cardinality(Keys) \in Nat
    BY <1>1, Lists
  <2>2. total' \in {total, -1, Cardinality(held)}
    BY SameCount DEF C!ReadPage
  <2> QED
    BY <2>1, <2>2 DEF CallsShape
<1>6. task # "ingest" /\ task # "bulk_query"
  BY <1>1 DEF C!Paged
<1> QED
  BY <1>1, <1>3, <1>4, <1>5, <1>6 DEF CallsShape

\* The facts about a page that the styles share.
LEMMA PageFacts ==
    ASSUME CallsShape, C!ReadPage
    PROVE  /\ task \in C!Paged /\ task' = task /\ held' = held /\ stayed' = stayed
           /\ counts' = counts /\ shifted' = shifted /\ grew' = grew /\ cap' = cap
           /\ C!Per' = C!Per /\ C!Per \in Nat \ {0} /\ (cap >= Size => C!Per = Size)
           /\ held \in SUBSET Keys /\ stayed \subseteq held /\ got \in SUBSET Keys
           /\ place \in Nat /\ IsFiniteSet(held) /\ Cardinality(held) \in Nat
           /\ IsFiniteSet(got) /\ Cardinality(got) \in Nat
           /\ held \subseteq Nat /\ got \subseteq Nat
<1>1. CallsShape
  OBVIOUS
<1>2. held \in SUBSET Keys /\ got \in SUBSET Keys /\ cap \in Caps
  BY <1>1 DEF CallsShape
<1> QED
  BY <1>1, <1>2, PageIsRead, PageSize, Lists DEF CallsShape

\* A cursor finds the records behind it.
LEMMA CursorsAreRead ==
    ASSUME CallsShape, CursorRead, C!ReadPage, task \in {"cursor", "link_header", "query"}
    PROVE  CursorRead' /\ (call' = "returned" => stayed' \subseteq got' /\ twice' = {})
<1> DEFINE D == UpTo(held, place)
           P == C!FromRank(held, Cardinality(D), C!Per)
<1>1. /\ task' = task /\ held' = held /\ stayed' = stayed /\ C!Per \in Nat \ {0}
      /\ held \in SUBSET Keys /\ stayed \subseteq held /\ place \in Nat
      /\ held \subseteq Nat /\ got \subseteq Nat
  BY PageFacts
<1>2. C!Records = P
  BY RankCounts DEF C!Records, C!After
<1>3. Begins(held, D)
  BY <1>1 DEF Begins, UpTo
<1>4. P \subseteq held \ D /\ (held # D => P # {}) /\ Begins(held, D \union P)
  <2>1. FollowsOn(held, D, C!Per, P)
    <3> HIDE DEF D
    <3> QED
      BY <1>1, <1>3, NextPage
  <2> QED
    BY <2>1 DEF FollowsOn
<1>5. /\ twice = {} /\ \A j \in got : j <= place
      /\ \A k \in stayed : k <= place => k \in got
  BY DEF CursorRead
<1>6. CASE UNCHANGED <<got, twice, place>>
  <2>1. CursorRead'
    BY <1>1, <1>5, <1>6 DEF CursorRead
  <2>2. CASE P = {}
    <3>1. held = D
      BY <1>4, <2>2
    <3>2. stayed \subseteq got
      BY <1>1, <1>5, <3>1 DEF UpTo
    <3> QED
      BY <1>1, <1>5, <1>6, <2>1, <3>2
  <2>3. CASE P # {}
    <3>1. call' # "returned" \/ got' = got \union P
      BY <1>2, <2>3, PageIsRead
    <3>2. got' # got \union P
      <4>1. PICK k \in P : TRUE
        BY <2>3
      <4>2. k \in Nat /\ ~(k <= place)
        BY <1>1, <1>4, <4>1 DEF UpTo
      <4>3. k \notin got
        BY <1>5, <4>2
      <4> QED
        BY <1>6, <4>1, <4>3
    <3> QED
      BY <2>1, <3>1, <3>2
  <2> QED
    BY <2>2, <2>3
<1>7. CASE /\ P # {} /\ got' = got \union P /\ twice' = twice \union (got \intersect P)
           /\ place' = C!Follow(P) /\ call' = IF C!IsLast(P) THEN "returned" ELSE "page"
  <2> DEFINE m == C!Max(P)
  <2>1. m \in P /\ \A j \in P : j <= m
    <3>1. P \in SUBSET Keys
      BY <1>1, <1>4
    <3> QED
      BY <1>7, <3>1, LastRecord
  <2>2. place' = m /\ (C!IsLast(P) <=> \A k \in held : k <= m)
    BY <1>7 DEF C!Follow, C!IsLast
  <2> HIDE DEF m, P
  <2>3. m \in Nat /\ m > place
    BY <1>1, <1>4, <2>1 DEF UpTo
  <2>4. \A j \in got \union P : j <= m
    <3>1. \A j \in got : j <= m
      BY <1>1, <1>5, <2>3
    <3> QED
      BY <2>1, <3>1
  <2>5. \A k \in stayed : k <= m => k \in got \union P
    <3>1. ASSUME NEW k \in stayed, k <= m, k \notin D \union P PROVE FALSE
      <4>1. m < k
        BY <1>1, <1>4, <2>1, <3>1 DEF Begins
      <4> QED
        BY <1>1, <2>3, <3>1, <4>1
    <3>2. \A k \in stayed : k \in D => k \in got
      BY <1>1, <1>5 DEF UpTo
    <3> QED
      BY <3>1, <3>2
  <2>6. twice' = {}
    <3>1. \A k \in P : ~(k <= place)
      BY <1>1, <1>4 DEF UpTo
    <3> QED
      BY <1>5, <1>7, <3>1
  <2>7. call' = "returned" => stayed \subseteq got \union P
    BY <1>1, <1>7, <2>2, <2>5
  <2> QED
    BY <1>1, <1>7, <2>2, <2>4, <2>5, <2>6, <2>7 DEF CursorRead
<1>8. CASE C!Records # {} /\ place' = C!Follow(C!Records)
           /\ got' = got \union C!Records
           /\ twice' = twice \union (got \intersect C!Records)
           /\ call' = IF C!IsLast(C!Records) THEN "returned" ELSE "page"
  BY <1>2, <1>7, <1>8
<1> QED
  BY <1>6, <1>8, PageIsRead

\* An offset finds the records behind those that were given.
LEMMA OffsetsAreRead ==
    ASSUME CallsShape, OffsetRead, C!ReadPage, task = "offset", ~shifted
    PROVE  OffsetRead' /\ (call' = "returned" => stayed' \subseteq got' /\ twice' = {})
<1> DEFINE P == C!Records
<1>1. /\ task' = task /\ held' = held /\ stayed' = stayed /\ C!Per \in Nat \ {0}
      /\ held \in SUBSET Keys /\ stayed \subseteq held /\ place \in Nat /\ shifted' = shifted
      /\ IsFiniteSet(held) /\ Cardinality(held) \in Nat /\ Cardinality(got) \in Nat
  BY PageFacts
<1>2. twice = {} /\ Begins(held, got) /\ place = Cardinality(got)
  BY DEF OffsetRead
<1>3. P = C!FromRank(held, Cardinality(got), C!Per)
  BY <1>2 DEF C!Records
<1>4. /\ P \subseteq held \ got /\ (held # got => P # {}) /\ Begins(held, got \union P)
      /\ Cardinality(got \union P) = Cardinality(got) + Cardinality(P)
  <2>1. FollowsOn(held, got, C!Per, P)
    BY <1>1, <1>2, <1>3, NextPage
  <2> QED
    BY <2>1 DEF FollowsOn
<1>5. CASE UNCHANGED <<got, twice, place>> /\ (call' = "raised" \/ P = {})
  <2>1. P = {} => stayed \subseteq got
    BY <1>1, <1>4
  <2> QED
    BY <1>1, <1>2, <1>5, <2>1 DEF OffsetRead
<1>6. CASE /\ got' = got \union P /\ twice' = twice \union (got \intersect P)
           /\ place' = C!Follow(P) /\ call' = IF C!IsLast(P) THEN "returned" ELSE "page"
  <2>1. place' = place + Cardinality(P)
    BY <1>6, SameCount DEF C!Follow
  <2>2. C!IsLast(P) => place' >= Cardinality(held)
    BY <1>6, SameCount DEF C!IsLast
  <2> HIDE DEF P
  <2>3. twice' = {} /\ place' = Cardinality(got')
    BY <1>2, <1>4, <1>6, <2>1
  <2>4. got' \in SUBSET held
    BY <1>4, <1>6 DEF Begins
  <2>5. C!IsLast(P) => got' = held
    <3>1. Cardinality(got') <= Cardinality(held) /\ Cardinality(got') \in Nat
          /\ (Cardinality(held) = Cardinality(got') => got' = held)
      BY <1>1, <2>4, FS_Subset, FS_CardinalityType
    <3> QED
      BY <1>1, <2>2, <2>3, <3>1
  <2> QED
    BY <1>1, <1>4, <1>6, <2>3, <2>5 DEF OffsetRead
<1>7. CASE got' = got \union C!Records /\ place' = C!Follow(C!Records)
           /\ twice' = twice \union (got \intersect C!Records)
           /\ call' = IF C!IsLast(C!Records) THEN "returned" ELSE "page"
  BY <1>6, <1>7
<1> QED
  BY <1>5, <1>7, PageIsRead

\* A page number counts the pages before it.
LEMMA NumbersAreRead ==
    ASSUME CallsShape, NumberedRead, TotalIsKept, C!ReadPage,
           task \in {"paginate", "page_number"}, ~shifted
    PROVE  /\ NumberedRead'
           /\ call' = "returned" /\ ~C!Disturbed' => stayed' \subseteq got' /\ twice' = {}
<1> DEFINE n == C!Per
           P == C!Records
           Whole(D, p) == Begins(held, D) /\ Cardinality(D) = p * n
           Short(D, p) == stayed \subseteq D /\ \A j \in D : C!Rank(held, j) <= p * n
<1>1. /\ task' = task /\ held' = held /\ stayed' = stayed /\ C!Per' = n /\ n \in Nat \ {0}
      /\ held \in SUBSET Keys /\ stayed \subseteq held /\ place \in Nat /\ shifted' = shifted
      /\ IsFiniteSet(held) /\ Cardinality(held) \in Nat /\ Cardinality(got) \in Nat
      /\ cap' = cap /\ counts' = counts /\ grew' = grew /\ (cap >= Size => n = Size)
      /\ IsFiniteSet(got)
  BY PageFacts
<1>2. twice = {} /\ got \subseteq held /\ fetched = Cardinality(got)
      /\ (Whole(got, place) \/ Short(got, place))
  BY DEF NumberedRead
<1>3. P = C!FromRank(held, place * n, n)
  BY DEF C!Records
<1> HIDE DEF n
<1>4. place * n \in Nat /\ (place + 1) * n = place * n + n /\ (place + 1) * n \in Nat
  BY <1>1
<1>5. \A k : C!Rank(held, k) \in Nat
  <2>1. \A k : UpTo(held, k) \in SUBSET Keys
    BY <1>1 DEF UpTo
  <2> QED
    BY <2>1, Lists, RankCounts
<1>6. \A k : k \in P <=> k \in held /\ C!Rank(held, k) > place * n
                         /\ C!Rank(held, k) <= (place + 1) * n
  BY <1>1, <1>3, <1>4, <1>5 DEF C!FromRank
<1> HIDE DEF P
<1>7. P \in SUBSET held /\ IsFiniteSet(P) /\ Cardinality(P) \in Nat
  <2>1. P \in SUBSET held
    BY <1>6
  <2>2. P \in SUBSET Keys
    BY <1>1, <2>1
  <2> QED
    BY <2>1, <2>2, Lists
<1>8. ASSUME Whole(got, place)
      PROVE  /\ Whole(got \union P, place + 1) \/ got \union P = held
             /\ Cardinality(got \union P) = Cardinality(got) + Cardinality(P)
             /\ got \intersect P = {}
             /\ P = {} => got = held
             /\ Cardinality(got \union P) <= (place + 1) * n
  <2>1. FollowsOn(held, got, n, P)
    BY <1>1, <1>3, <1>8, NextPage
  <2>2. Cardinality(P) = n => Whole(got \union P, place + 1)
    BY <1>1, <1>4, <1>8, <2>1 DEF FollowsOn
  <2>3. Cardinality(got) + Cardinality(P) <= (place + 1) * n
    BY <1>1, <1>4, <1>8, <2>1 DEF FollowsOn
  <2> QED
    BY <2>1, <2>2, <2>3 DEF FollowsOn
<1>9. ASSUME Short(got, place)
      PROVE  /\ Short(got \union P, place + 1)
             /\ got \intersect P = {}
             /\ Cardinality(got \union P) = Cardinality(got) + Cardinality(P)
  <2>1. \A j \in got : C!Rank(held, j) <= (place + 1) * n
    BY <1>1, <1>4, <1>5, <1>9
  <2>2. got \intersect P = {}
    BY <1>4, <1>5, <1>6, <1>9
  <2>3. Cardinality(got \union P) = Cardinality(got) + Cardinality(P) - Cardinality(got \cap P)
    BY <1>1, <1>7, FS_Union
  <2>4. Cardinality(got \union P) = Cardinality(got) + Cardinality(P)
    <3>1. Cardinality(got \cap P) = 0
      BY <2>2, FS_EmptySet, Zenon
    <3>2. \A x, y \in Nat : x + y - 0 = x + y
      OBVIOUS
    <3> QED
      BY <1>1, <1>7, <2>3, <3>1, <3>2
  <2> QED
    BY <1>6, <1>9, <2>1, <2>2, <2>4
<1>10. ASSUME got \union P = held, Cardinality(held) <= (place + 1) * n
       PROVE  Short(got \union P, place + 1)
  <2>1. \A k \in held : UpTo(held, k) \in SUBSET held
    BY DEF UpTo
  <2>2. \A k \in held : Cardinality(UpTo(held, k)) <= Cardinality(held)
    BY <1>1, <2>1, FS_Subset
  <2>3. \A k \in held : C!Rank(held, k) <= (place + 1) * n
    BY <1>1, <1>4, <1>5, <1>10, <2>2, RankCounts
  <2> QED
    BY <1>1, <1>10, <2>3
<1>11. CASE UNCHANGED <<got, twice, place, fetched>> /\ (call' = "raised" \/ P = {})
  <2>1. P = {} => stayed \subseteq got
    BY <1>1, <1>2, <1>8
  <2>2. NumberedRead'
    BY <1>1, <1>2, <1>11 DEF NumberedRead
  <2> QED
    BY <1>1, <1>2, <1>11, <2>1, <2>2
<1>12. CASE /\ got' = got \union P /\ twice' = twice \union (got \intersect P)
            /\ fetched' = fetched + Cardinality(P) /\ place' = place + 1
            /\ call' = IF C!IsLast(P) THEN "returned" ELSE "page"
  <2>1. /\ twice' = {} /\ got' \subseteq held /\ fetched' = Cardinality(got')
        /\ Cardinality(got') \in Nat /\ Cardinality(got') <= Cardinality(held)
        /\ (Cardinality(got') = Cardinality(held) => got' = held)
    <3>1. got' \in SUBSET held
      BY <1>2, <1>7, <1>12
    <3>2. Cardinality(got') \in Nat /\ Cardinality(got') <= Cardinality(held)
          /\ (Cardinality(held) = Cardinality(got') => got' = held)
      BY <1>1, <3>1, FS_Subset, FS_CardinalityType
    <3> QED
      BY <1>2, <1>8, <1>9, <1>12, <3>1, <3>2
  <2>2. Whole(got', place') \/ Short(got', place')
    <3>1. CASE Whole(got, place)
      BY <1>8, <1>10, <1>12, <3>1
    <3>2. CASE Short(got, place)
      BY <1>9, <1>12, <3>2
    <3> QED
      BY <1>2, <3>1, <3>2
  <2>3. NumberedRead'
    BY <1>1, <1>12, <2>1, <2>2 DEF NumberedRead
  <2>4. ASSUME C!IsLast(P), ~C!Disturbed' PROVE stayed \subseteq got'
    <3>1. CASE task = "paginate"
      <4>1. total' >= 0 /\ fetched + Cardinality(P) >= total'
        BY <2>4, <3>1, SameCount DEF C!IsLast
      <4>2. counts /\ total' >= Cardinality(held)
        <5>1. total' = IF place = 0 THEN IF counts THEN Cardinality(held) ELSE -1 ELSE total
          BY <3>1, SameCount DEF C!ReadPage
        <5>2. ~(counts /\ grew)
          BY <1>1, <2>4, <3>1 DEF C!Disturbed
        <5>3. /\ ~counts => total = -1
              /\ counts /\ ~grew /\ place > 0 => total >= Cardinality(held)
          BY <3>1 DEF TotalIsKept
        <5> QED
          BY <1>1, <4>1, <5>1, <5>2, <5>3
      <4>3. total' \in Int
        <5>1. total' \in -1..Cardinality(Keys)
          BY PageKeepsShape DEF CallsShape
        <5> QED
          BY <5>1, <1>1, Lists
      <4>4. Cardinality(got') >= Cardinality(held)
        BY <1>1, <1>2, <1>7, <1>12, <2>1, <4>1, <4>2, <4>3
      <4> QED
        BY <1>1, <2>1, <4>4
    <3>2. CASE task = "page_number"
      <4>1. counts /\ (place + 1) * Size >= Cardinality(held)
        <5>1. counts
          BY <2>4, <3>2 DEF C!IsLast
        <5>2. C!Follow(P) = place + 1
          BY <3>2 DEF C!Follow
        <5> QED
          BY <2>4, <3>2, <5>1, <5>2, SameCount DEF C!IsLast
      <4>2. ~(cap < Size)
        BY <1>1, <2>4, <3>2, <4>1 DEF C!Disturbed
      <4>3. cap \in Nat /\ Size \in Nat
        BY CallBounds DEF CallsShape
      <4>4. n = Size
        BY <1>1, <4>2, <4>3
      <4>5. CASE Whole(got', place')
        <5>1. Cardinality(got') >= Cardinality(held)
          BY <1>12, <4>1, <4>4, <4>5
        <5> QED
          BY <1>1, <2>1, <5>1
      <4> QED
        BY <2>2, <4>5
    <3> QED
      BY <3>1, <3>2
  <2> QED
    BY <1>1, <1>12, <2>1, <2>3, <2>4
<1>13. CASE /\ got' = got \union C!Records /\ place' = C!Follow(C!Records)
            /\ twice' = twice \union (got \intersect C!Records)
            /\ fetched' = fetched + Cardinality(C!Records)
            /\ call' = IF C!IsLast(C!Records) THEN "returned" ELSE "page"
  <2>1. place' = place + 1
    BY <1>13 DEF C!Follow
  <2> QED
    BY <1>12, <1>13, <2>1 DEF P
<1> QED
  BY <1>11, <1>13, PageIsRead DEF P

\* The total is told with the first page.
LEMMA TotalIsTold ==
    ASSUME CallsShape, TotalIsKept, C!ReadPage
    PROVE  TotalIsKept'
<1>1. /\ task' = task /\ held' = held /\ counts' = counts /\ grew' = grew /\ place \in Nat
      /\ Cardinality(held) \in Nat
  BY PageFacts
<1>2. SUFFICES ASSUME task = "paginate"
               PROVE  /\ ~counts => total' = -1
                      /\ counts /\ ~grew /\ place' > 0 => total' >= Cardinality(held)
  BY <1>1 DEF TotalIsKept
<1>3. total' = IF place = 0 THEN IF counts THEN Cardinality(held) ELSE -1 ELSE total
  BY <1>2, SameCount DEF C!ReadPage
<1>4. /\ ~counts => total = -1
      /\ counts /\ ~grew /\ place > 0 => total >= Cardinality(held)
  BY <1>2 DEF TotalIsKept
<1> QED
  BY <1>1, <1>3, <1>4

\* A turn of a loop keeps the reads true.
LEMMA PageKeepsReads ==
    ASSUME CallsShape, ReadInv, C!ReadPage
    PROVE  ReadInv'
<1>1. /\ task \in C!Paged /\ task' = task /\ held' = held /\ stayed' = stayed
      /\ shifted' = shifted /\ stayed \subseteq held /\ counts' = counts /\ grew' = grew
  BY PageFacts
<1>2. TotalIsKept'
  BY TotalIsTold DEF ReadInv
<1>3. CASE task \in {"cursor", "link_header", "query"}
  <2>1. CursorRead' /\ (call' = "returned" => stayed' \subseteq got' /\ twice' = {})
    BY <1>3, CursorsAreRead DEF ReadInv
  <2> QED
    BY <1>1, <1>2, <1>3, <2>1 DEF ReadInv, NumberedRead, OffsetRead, WholeRead, Delivered
<1>4. CASE task = "offset"
  <2>1. ~shifted => OffsetRead' /\ (call' = "returned" => stayed' \subseteq got' /\ twice' = {})
    BY <1>4, OffsetsAreRead DEF ReadInv
  <2>2. OffsetRead'
    BY <1>1, <2>1 DEF OffsetRead
  <2>3. Delivered'
    BY <1>1, <1>4, <2>1 DEF Delivered, C!Disturbed
  <2> QED
    BY <1>1, <1>2, <1>4, <2>2, <2>3 DEF ReadInv, NumberedRead, CursorRead, WholeRead
<1>5. CASE task \in {"paginate", "page_number"}
  <2>1. ~shifted =>
            /\ NumberedRead'
            /\ call' = "returned" /\ ~C!Disturbed' => stayed' \subseteq got' /\ twice' = {}
    BY <1>5, NumbersAreRead DEF ReadInv
  <2>2. NumberedRead'
    BY <1>1, <2>1 DEF NumberedRead
  <2>3. Delivered'
    <3>1. CASE task = "paginate" /\ shifted
      BY <1>1, <3>1 DEF Delivered, C!Disturbed
    <3>2. CASE task = "page_number" /\ shifted
      BY <1>1, <3>2 DEF Delivered, C!Disturbed
    <3> QED
      BY <1>5, <2>1, <3>1, <3>2 DEF Delivered
  <2> QED
    BY <1>1, <1>2, <1>5, <2>2, <2>3 DEF ReadInv, OffsetRead, CursorRead, WholeRead
<1>6. CASE task = "none"
  <2>1. C!Records = held /\ C!IsLast(C!Records)
    BY <1>6 DEF C!Records, C!IsLast
  <2>2. got = {} /\ twice = {}
    BY <1>6, PageIsRead DEF ReadInv, WholeRead
  <2>3. call' # "page" /\ (call' = "returned" => stayed \subseteq got' /\ twice' = {})
    <3>1. CASE UNCHANGED <<got, twice>> /\ (call' = "raised" \/ (call' = "returned" /\ held = {}))
      BY <1>1, <2>2, <3>1
    <3>2. CASE /\ got' = got \union held /\ twice' = twice \union (got \intersect held)
               /\ call' = "returned"
      BY <1>1, <2>2, <3>2
    <3> QED
      BY <2>1, <3>1, <3>2, PageIsRead
  <2> QED
    BY <1>1, <1>2, <1>6, <2>3
    DEF ReadInv, NumberedRead, OffsetRead, CursorRead, WholeRead, Delivered
<1> QED
  BY <1>1, <1>3, <1>4, <1>5, <1>6 DEF C!Paged

\* Records that come and go behind a record do not change its rank.
LEMMA RankIsKept ==
    ASSUME NEW list \in SUBSET Keys, NEW k \in Keys, NEW new,
           new = IF k \in list THEN list \ {k} ELSE list \union {k},
           NEW j \in Keys, j < k
    PROVE  C!Rank(new, j) = C!Rank(list, j)
<1>1. k \in Nat /\ j \in Nat
  BY CallBounds
<1>2. UpTo(new, j) = UpTo(list, j)
  BY <1>1 DEF UpTo
<1> QED
  BY <1>2, RankCounts

\* Others write to the list: behind the place of a read, before it, or in between.
LEMMA ChangeIsTold ==
    ASSUME CallsInv, NEW k \in Keys, C!Change(k)
    PROVE  CallsInv'
<1>1. /\ task' = task /\ call' = call /\ cap' = cap /\ counts' = counts
      /\ UNCHANGED <<got, twice, place, fetched, total, bulkJob, polls, report, tries>>
      /\ task # "ingest" /\ call \notin {"returned", "raised"}
      /\ held' = IF k \in held THEN held \ {k} ELSE held \union {k}
      /\ stayed' = stayed \ {k}
      /\ shifted' = (shifted \/ \E j \in got : k <= j)
      /\ grew' = (grew \/ k \notin held)
  BY DEF C!Change, C!read, C!bulk
<1>2. CallsShape
  BY DEF CallsInv
<1>3. held \in SUBSET Keys /\ held' \in SUBSET Keys /\ stayed \subseteq held /\ got \in SUBSET Keys
      /\ C!Per' = C!Per /\ stayed' \subseteq held' /\ k \in Nat /\ got \subseteq Nat
  <2>1. held \in SUBSET Keys /\ stayed \subseteq held /\ got \in SUBSET Keys
    BY <1>2 DEF CallsShape
  <2>2. C!Per' = C!Per
    BY <1>1 DEF C!Per
  <2> QED
    BY <1>1, <2>1, <2>2, CallBounds
<1>4. CallsShape'
  <2>1. shifted' \in BOOLEAN /\ grew' \in BOOLEAN
    BY <1>1
  <2> QED
    BY <1>1, <1>2, <1>3, <2>1 DEF CallsShape
<1>5. ~shifted' => ~shifted /\ k \notin got /\ \A j \in got : j < k /\ j \in Nat
  <2>1. \A j \in got : ~(k <= j) => j < k /\ j \in Nat
    BY <1>3
  <2>2. k \in got => \E j \in got : k <= j
    BY <1>3
  <2> QED
    BY <1>1, <2>1, <2>2, Zenon
<1>6. Begins(held, got) /\ ~shifted' => Begins(held', got)
  BY <1>1, <1>3, <1>5 DEF Begins
<1>7. NumberedRead'
  <2> SUFFICES ASSUME task \in {"paginate", "page_number"}, ~shifted'
               PROVE  NumberedRead'
    BY <1>1 DEF NumberedRead
  <2>1. /\ twice = {} /\ got \subseteq held /\ fetched = Cardinality(got)
        /\ \/ Begins(held, got) /\ Cardinality(got) = place * C!Per
           \/ stayed \subseteq got /\ \A j \in got : C!Rank(held, j) <= place * C!Per
    BY <1>5 DEF CallsInv, ReadInv, NumberedRead
  <2>2. got \subseteq held'
    BY <1>1, <1>5, <2>1
  <2>3. \A j \in got : C!Rank(held', j) = C!Rank(held, j)
    BY <1>1, <1>3, <1>5, RankIsKept
  <2>4. stayed \subseteq got => stayed' \subseteq got
    BY <1>1
  <2> QED
    BY <1>1, <1>3, <1>5, <1>6, <2>1, <2>2, <2>3, <2>4 DEF NumberedRead
<1>8. OffsetRead'
  BY <1>1, <1>5, <1>6 DEF CallsInv, ReadInv, OffsetRead
<1>9. CursorRead'
  BY <1>1 DEF CallsInv, ReadInv, CursorRead
<1>10. WholeRead' /\ Delivered'
  BY <1>1 DEF CallsInv, ReadInv, WholeRead, Delivered
<1>11. TotalIsKept'
  <2> SUFFICES ASSUME task = "paginate" PROVE TotalIsKept'
    BY <1>1 DEF TotalIsKept
  <2>1. /\ ~counts => total = -1
        /\ counts /\ ~grew /\ place > 0 => total >= Cardinality(held)
    BY DEF CallsInv, ReadInv, TotalIsKept
  <2>2. ASSUME ~grew' PROVE Cardinality(held') <= Cardinality(held)
    <3>1. held' \in SUBSET held
      BY <1>1, <2>2
    <3> QED
      BY <1>3, <3>1, Lists, FS_Subset
  <2>3. Cardinality(held') \in Nat /\ Cardinality(held) \in Nat /\ total \in Int
    <3>1. total \in -1..Cardinality(Keys) /\ Cardinality(Keys) \in Nat
      BY <1>2, <1>3, Lists DEF CallsShape
    <3> QED
      BY <1>3, <3>1, Lists
  <2>4. ASSUME counts', ~grew', place' > 0 PROVE total' >= Cardinality(held')
    <3>1. ~grew /\ total >= Cardinality(held)
      BY <1>1, <2>1, <2>4
    <3> QED
      BY <1>1, <2>2, <2>3, <2>4, <3>1
  <2> QED
    BY <1>1, <2>1, <2>4 DEF TotalIsKept
<1>12. QueryInv'
  BY <1>1 DEF CallsInv, QueryInv, UpTo
<1>13. IngestInv'
  BY <1>1 DEF IngestInv
<1> QED
  BY <1>4, <1>7, <1>8, <1>9, <1>10, <1>11, <1>12, <1>13 DEF CallsInv, ReadInv

-------------------------------------------------------------------------------
(* Bulk jobs.                                                              *)

\* A call that is at a step of a bulk job reads no list.
LEMMA BulkIsNoRead ==
    ASSUME CallsShape, call \notin {"page", "returned", "raised"}
    PROVE  /\ task \in C!BulkTasks
           /\ task' = task => ReadInv'
<1>1. task \in C!BulkTasks /\ task \notin C!Paged
  <2>1. task \notin C!Paged /\ task \in Tasks
    BY DEF CallsShape
  <2> QED
    BY <2>1, CallBounds
<1> QED
  BY <1>1 DEF ReadInv, NumberedRead, OffsetRead, CursorRead, WholeRead, TotalIsKept, Delivered,
     C!Paged

\* The fields of a job and of a report.
LEMMA BulkFields ==
    ASSUME CallsShape
    PROVE  /\ bulkJob \in JobRecord /\ bulkJob.done \in SUBSET Keys
           /\ bulkJob.given \in SUBSET Keys
           /\ bulkJob.state \in {"none", "Open", "InProgress", "JobComplete", "Failed", "Aborted"}
           /\ Cardinality(bulkJob.given \ bulkJob.done) \in Nat
<1>1. bulkJob \in JobRecord
  BY DEF CallsShape
<1>2. bulkJob.given \in SUBSET Keys /\ bulkJob.done \in SUBSET Keys
  BY <1>1 DEF JobRecord
<1>3. bulkJob.given \ bulkJob.done \in SUBSET Keys
  BY <1>2
<1> QED
  BY <1>1, <1>2, <1>3, Lists DEF JobRecord

\* The first request of a bulk job.
LEMMA JobIsCreated ==
    ASSUME CallsInv, C!CreateBulkJob
    PROVE  CallsInv'
<1>1. /\ call = "create" /\ task' = task
      /\ UNCHANGED <<held, cap, counts, stayed, shifted, grew, got, twice, place, fetched,
                     total, polls, report>>
  BY DEF C!CreateBulkJob, C!server, C!read
<1>2. CallsShape /\ QueryInv /\ IngestInv /\ task \in C!BulkTasks /\ ReadInv'
  BY <1>1, BulkIsNoRead DEF CallsInv
<1>3. MaxAttempts \in Nat \ {0} /\ tries \in 1..MaxAttempts
  BY <1>2, CallBounds DEF CallsShape
<1>4. CASE /\ call' = IF task = "ingest" THEN "upload" ELSE "poll"
           /\ tries' = 1
           /\ bulkJob' = [C!NoJob EXCEPT !.state = IF task = "ingest" THEN "Open"
                                                   ELSE "InProgress"]
  <2>1. bulkJob' \in JobRecord /\ bulkJob'.state = IF task = "ingest" THEN "Open" ELSE "InProgress"
    BY <1>4 DEF JobRecord, C!NoJob
  <2>2. tries' \in 1..MaxAttempts
    BY <1>3, <1>4
  <2>3. CallsShape'
    BY <1>1, <1>2, <1>4, <2>1, <2>2 DEF CallsShape, C!BulkTasks, C!Paged
  <2>4. QueryInv'
    BY <1>1, <1>2, <1>4, <2>1 DEF QueryInv
  <2>5. IngestInv'
    BY <1>1, <1>4, <2>1 DEF IngestInv, Collecting
  <2> QED
    BY <1>2, <2>3, <2>4, <2>5 DEF CallsInv
<1>5. CASE C!Lost /\ bulkJob' = bulkJob
  <2>1. tries' \in 1..MaxAttempts /\ call' \in {"create", "raised"}
    BY <1>1, <1>3, <1>5 DEF C!Lost
  <2>2. CallsShape'
    BY <1>1, <1>2, <1>5, <2>1 DEF CallsShape, C!BulkTasks, C!Paged
  <2>3. QueryInv'
    BY <1>1, <1>2, <1>5, <2>1 DEF QueryInv
  <2>4. IngestInv'
    BY <1>1, <1>2, <1>5, <2>1 DEF IngestInv, Collecting
  <2> QED
    BY <1>2, <2>2, <2>3, <2>4 DEF CallsInv
<1> QED
  BY <1>4, <1>5 DEF C!CreateBulkJob, C!Proceed

\* The records of the call are uploaded, or the job is aborted.
LEMMA DataIsUploaded ==
    ASSUME CallsInv, C!UploadBulkData
    PROVE  CallsInv'
<1>1. /\ call = "upload" /\ task' = task /\ tries' = 1
      /\ UNCHANGED <<held, cap, counts, stayed, shifted, grew, got, twice, place, fetched,
                     total, polls, report>>
      /\ \/ bulkJob' = [bulkJob EXCEPT !.given = held] /\ call' = "close"
         \/ bulkJob' = bulkJob /\ call' = "raised"
  BY DEF C!UploadBulkData, C!Proceed, C!server, C!read
<1>2. CallsShape /\ QueryInv /\ IngestInv /\ task \in C!BulkTasks /\ ReadInv'
  BY <1>1, BulkIsNoRead DEF CallsInv
<1>3. task = "ingest" /\ bulkJob.state = "Open" /\ bulkJob \in JobRecord /\ held \in SUBSET Keys
  BY <1>1, <1>2 DEF IngestInv, CallsShape, C!BulkTasks
<1>4. /\ bulkJob' \in JobRecord /\ bulkJob'.state = "Open"
      /\ call' = "close" => bulkJob'.given = held
  BY <1>1, <1>3 DEF JobRecord
<1>5. tries' \in 1..MaxAttempts
  BY <1>1, CallBounds
<1>6. CallsShape'
  BY <1>1, <1>2, <1>3, <1>4, <1>5 DEF CallsShape, C!Paged
<1>7. QueryInv' /\ IngestInv'
  BY <1>1, <1>3, <1>4 DEF QueryInv, IngestInv, Collecting
<1> QED
  BY <1>2, <1>6, <1>7 DEF CallsInv

\* The job is closed for uploads, and its server may begin.
LEMMA JobIsClosed ==
    ASSUME CallsInv, C!CloseBulkJob
    PROVE  CallsInv'
<1>1. /\ call = "close" /\ task' = task
      /\ bulkJob' = [bulkJob EXCEPT !.state = IF @ = "Open" THEN "InProgress" ELSE @]
      /\ UNCHANGED <<held, cap, counts, stayed, shifted, grew, got, twice, place, fetched,
                     total, polls, report>>
      /\ \/ call' = "poll" /\ tries' = 1
         \/ C!Lost
         \/ call' = "raised" /\ tries' = 1
  BY DEF C!CloseBulkJob, C!Proceed, C!server, C!read
<1>2. CallsShape /\ QueryInv /\ IngestInv /\ task \in C!BulkTasks /\ ReadInv'
  BY <1>1, BulkIsNoRead DEF CallsInv
<1>3. task = "ingest" /\ bulkJob.state # "none" /\ bulkJob.given = held /\ bulkJob \in JobRecord
  BY <1>1, <1>2 DEF IngestInv, CallsShape, C!BulkTasks
<1>4. /\ bulkJob' \in JobRecord /\ bulkJob'.state \notin {"none", "Open"}
      /\ bulkJob'.given = held
  BY <1>1, <1>3 DEF JobRecord
<1>5. tries' \in 1..MaxAttempts /\ call' \in {"close", "poll", "raised"}
  <2>1. tries \in 1..MaxAttempts /\ MaxAttempts \in Nat \ {0}
    BY <1>2, CallBounds DEF CallsShape
  <2>2. CASE C!Lost
    BY <1>1, <2>1, <2>2 DEF C!Lost
  <2>3. CASE call' \in {"poll", "raised"} /\ tries' = 1
    BY <2>1, <2>3
  <2> QED
    BY <1>1, <2>2, <2>3
<1>6. CallsShape'
  BY <1>1, <1>2, <1>3, <1>4, <1>5 DEF CallsShape, C!Paged
<1>7. QueryInv' /\ IngestInv'
  BY <1>1, <1>3, <1>4, <1>5 DEF QueryInv, IngestInv, Collecting
<1> QED
  BY <1>2, <1>6, <1>7 DEF CallsInv

\* The server settles each record of the job.
LEMMA JobIsProcessed ==
    ASSUME CallsInv, C!Process
    PROVE  CallsInv'
<1>1. /\ bulkJob.state = "InProgress" /\ task' = task /\ call' = call /\ tries' = tries
      /\ UNCHANGED <<held, cap, counts, stayed, shifted, grew, got, twice, place, fetched,
                     total, polls, report>>
  BY DEF C!Process, C!server, C!read
<1>2. CallsShape /\ QueryInv /\ IngestInv /\ bulkJob \in JobRecord /\ held \in SUBSET Keys
      /\ stayed \subseteq held
  BY DEF CallsInv, CallsShape
<1>3. PICK st \in {"JobComplete", "Failed", "Aborted"}, done \in SUBSET held :
          /\ IF task = "ingest" THEN done \subseteq bulkJob.given
             ELSE done = IF st = "JobComplete" THEN held ELSE {}
          /\ bulkJob' = [bulkJob EXCEPT !.state = st, !.done = done]
  BY DEF C!Process
<1>4. /\ bulkJob' \in JobRecord /\ bulkJob'.state = st /\ bulkJob'.given = bulkJob.given
      /\ bulkJob'.done = done
  BY <1>2, <1>3 DEF JobRecord
<1>5. CallsShape' /\ task \notin C!Paged
  BY <1>1, <1>2, <1>4 DEF CallsShape
<1>6. ReadInv'
  BY <1>1, <1>5 DEF ReadInv, NumberedRead, OffsetRead, CursorRead, WholeRead, TotalIsKept,
     Delivered, C!Paged
<1>7. QueryInv'
  <2> SUFFICES ASSUME task = "bulk_query" PROVE QueryInv'
    BY <1>1 DEF QueryInv
  <2>1. call \notin {"results", "returned"} /\ (st = "JobComplete" => stayed \subseteq done)
    BY <1>1, <1>2, <1>3 DEF QueryInv
  <2> QED
    BY <1>1, <1>2, <1>4, <2>1 DEF QueryInv
<1>8. IngestInv'
  <2> SUFFICES ASSUME task = "ingest" PROVE IngestInv'
    BY <1>1 DEF IngestInv
  <2>1. call \notin Collecting \union {"upload"}
    BY <1>1, <1>2 DEF IngestInv
  <2> QED
    BY <1>1, <1>2, <1>3, <1>4, <2>1 DEF IngestInv, Collecting
<1> QED
  BY <1>5, <1>6, <1>7, <1>8 DEF CallsInv

\* A poll finds the job at work, settled, or gone.
LEMMA JobIsPolled ==
    ASSUME CallsInv, C!PollBulkJob \/ C!GiveUp
    PROVE  CallsInv'
<1>1. /\ call = "poll" /\ task' = task /\ bulkJob' = bulkJob
      /\ UNCHANGED <<held, cap, counts, stayed, shifted, grew, got, twice, place, fetched,
                     total>>
  BY DEF C!PollBulkJob, C!GiveUp, C!server, C!read, C!bulk
<1>2. CallsShape /\ QueryInv /\ IngestInv /\ task \in C!BulkTasks /\ ReadInv'
  BY <1>1, BulkIsNoRead DEF CallsInv
<1>3. /\ polls \in 0..MaxPolls /\ MaxPolls \in Nat /\ MaxAttempts \in Nat \ {0}
      /\ report \in [failed : Nat, successful : SUBSET Keys, refused : BOOLEAN]
      /\ held \in SUBSET Keys
  BY <1>2, CallBounds DEF CallsShape
<1>4. CASE polls' = polls + 1 /\ polls < MaxPolls /\ UNCHANGED <<call, report, tries>>
  <2>1. polls' \in 0..MaxPolls
    BY <1>3, <1>4
  <2>2. CallsShape'
    BY <1>1, <1>2, <1>4, <2>1 DEF CallsShape
  <2> QED
    BY <1>1, <1>2, <1>4, <2>2 DEF CallsInv, QueryInv, IngestInv
<1>5. CASE /\ bulkJob.state # "InProgress" /\ polls' = polls /\ tries' = 1
           /\ call' = IF task = "ingest" THEN "successfulResults"
                      ELSE IF bulkJob.state = "JobComplete" THEN "results" ELSE "raised"
           /\ report' = [report EXCEPT !.failed = IF task = "ingest" THEN C!Failures ELSE 0]
  <2>1. C!Failures = Cardinality(bulkJob.given \ bulkJob.done) /\ C!Failures \in Nat
    BY <1>2, SameCount, BulkFields DEF C!Failures
  <2>2. /\ report' \in [failed : Nat, successful : SUBSET Keys, refused : BOOLEAN]
        /\ task = "ingest" => report'.failed = C!Failures
    BY <1>3, <1>5, <2>1
  <2>3. tries' \in 1..MaxAttempts
    BY <1>3, <1>5
  <2>4. CallsShape'
    BY <1>1, <1>2, <1>5, <2>2, <2>3 DEF CallsShape, C!BulkTasks, C!Paged
  <2>5. IngestInv'
    <3> SUFFICES ASSUME task = "ingest" PROVE IngestInv'
      BY <1>1 DEF IngestInv
    <3>1. bulkJob.state \in {"JobComplete", "Failed", "Aborted"} /\ bulkJob.given = held
      BY <1>1, <1>2, <1>5, BulkFields DEF IngestInv
    <3> QED
      BY <1>1, <1>5, <2>1, <2>2, <3>1 DEF IngestInv, Collecting
  <2>6. QueryInv'
    <3> SUFFICES ASSUME task = "bulk_query" PROVE QueryInv'
      BY <1>1 DEF QueryInv
    <3>1. UpTo(bulkJob.done, place) = {}
      <4>1. place = 0 /\ bulkJob.done \subseteq Nat \ {0}
        BY <1>1, <1>2, BulkFields, CallBounds DEF QueryInv
      <4> QED
        BY <4>1 DEF UpTo
    <3> QED
      BY <1>1, <1>2, <1>5, <3>1 DEF QueryInv, UpTo
  <2> QED
    BY <1>2, <2>4, <2>5, <2>6 DEF CallsInv
<1>6. CASE call' = "raised" /\ tries' = 1 /\ UNCHANGED <<polls, report>>
  <2>1. tries' \in 1..MaxAttempts
    BY <1>3, <1>6
  <2>2. CallsShape'
    BY <1>1, <1>2, <1>6, <2>1 DEF CallsShape, C!BulkTasks, C!Paged
  <2> QED
    BY <1>1, <1>2, <1>6, <2>2 DEF CallsInv, QueryInv, IngestInv, Collecting
<1>7. CASE C!GiveUp
  BY <1>6, <1>7 DEF C!GiveUp, C!Proceed, C!bulk
<1>8. CASE C!PollBulkJob
  BY <1>4, <1>5, <1>8 DEF C!PollBulkJob, C!Proceed
<1> QED
  BY <1>7, <1>8

\* The results of a settled job are fetched, each kind by a request.
LEMMA ResultsAreCollected ==
    ASSUME CallsInv, C!CollectBulkResults
    PROVE  CallsInv'
<1>1. /\ call \in {"successfulResults", "failedResults"} /\ task' = task /\ bulkJob' = bulkJob
      /\ call' = IF call = "successfulResults" THEN "failedResults" ELSE "returned"
      /\ tries' = 1
      /\ UNCHANGED <<held, cap, counts, stayed, shifted, grew, got, twice, place, fetched,
                     total, polls>>
      /\ \/ report' = IF call = "successfulResults"
                      THEN [report EXCEPT !.successful = bulkJob.done] ELSE report
         \/ report' = [report EXCEPT !.refused = TRUE]
  BY DEF C!CollectBulkResults, C!Proceed, C!server, C!read
<1>2. CallsShape /\ QueryInv /\ IngestInv /\ task \in C!BulkTasks /\ ReadInv'
  BY <1>1, BulkIsNoRead DEF CallsInv
<1>3. task = "ingest"
  BY <1>1, <1>2 DEF CallsShape, C!BulkTasks
<1>4. /\ report \in [failed : Nat, successful : SUBSET Keys, refused : BOOLEAN]
      /\ bulkJob.done \in SUBSET Keys
  BY <1>2, BulkFields DEF CallsShape
<1>5. /\ report' \in [failed : Nat, successful : SUBSET Keys, refused : BOOLEAN]
      /\ report'.failed = report.failed
      /\ \/ report'.successful = bulkJob.done
         \/ report'.refused
         \/ call # "successfulResults" /\ report' = report
  BY <1>1, <1>4
<1>6. tries' \in 1..MaxAttempts
  BY <1>1, CallBounds
<1>7. CallsShape'
  BY <1>1, <1>2, <1>3, <1>5, <1>6 DEF CallsShape, C!Paged
<1>8. IngestInv'
  <2>1. /\ bulkJob.given = held /\ bulkJob.state \in {"JobComplete", "Failed", "Aborted"}
        /\ report.failed = Cardinality(held \ bulkJob.done)
        /\ call = "failedResults" => report.successful = bulkJob.done \/ report.refused
    BY <1>1, <1>2, <1>3 DEF IngestInv, Collecting
  <2>2. report'.successful = bulkJob.done \/ report'.refused
    BY <1>1, <1>5, <2>1
  <2> QED
    BY <1>1, <1>5, <2>1, <2>2 DEF IngestInv, Collecting
<1>9. QueryInv'
  BY <1>1, <1>3 DEF QueryInv
<1> QED
  BY <1>2, <1>7, <1>8, <1>9 DEF CallsInv

\* The results become the report of the call.
LEMMA ResultsAreRead ==
    ASSUME CallsInv, C!ReadResults
    PROVE  CallsInv'
<1> DEFINE page == C!After(bulkJob.done, place, C!Per)
           D == UpTo(bulkJob.done, place)
<1>1. /\ call = "results" /\ task' = task /\ bulkJob' = bulkJob /\ tries' = 1
      /\ UNCHANGED <<held, cap, counts, stayed, shifted, grew, fetched, total, polls, report>>
      /\ got' = got \union page /\ twice' = twice \union (got \intersect page)
      /\ place' = IF page = {} THEN place ELSE C!Max(page)
      /\ call' = IF \E k \in bulkJob.done : k > place' THEN "results" ELSE "returned"
  BY DEF C!ReadResults, C!Proceed, C!server, C!bulk
<1>2. CallsShape /\ QueryInv /\ task \in C!BulkTasks /\ ReadInv'
  BY <1>1, BulkIsNoRead DEF CallsInv
<1>3. task = "bulk_query" /\ bulkJob.done \in SUBSET Keys /\ place \in Nat /\ cap \in Caps
  BY <1>1, <1>2, BulkFields DEF CallsShape, C!BulkTasks
<1>4. /\ bulkJob.state = "JobComplete" /\ stayed \subseteq bulkJob.done /\ twice = {} /\ got = D
  BY <1>1, <1>2, <1>3 DEF QueryInv
<1>5. FollowsOn(bulkJob.done, D, C!Per, page)
  <2>1. page = C!FromRank(bulkJob.done, Cardinality(D), C!Per)
    BY RankCounts DEF C!After
  <2>2. Begins(bulkJob.done, D)
    <3>1. bulkJob.done \subseteq Nat
      BY <1>3, Lists
    <3> QED
      BY <1>3, <3>1 DEF Begins, UpTo
  <2>3. C!Per \in Nat \ {0}
    BY <1>3, PageSize
  <2> HIDE DEF D, page
  <2> QED
    BY <1>3, <2>1, <2>2, <2>3, NextPage
<1> HIDE DEF page
<1>6. /\ page \subseteq bulkJob.done \ D
      /\ bulkJob.done # D => page # {}
      /\ Begins(bulkJob.done, D \union page)
  BY <1>5 DEF FollowsOn
<1>7. bulkJob.done \subseteq Nat /\ page \in SUBSET Keys
  BY <1>3, <1>6, Lists
<1>8. place' \in Nat /\ got' = UpTo(bulkJob.done, place')
  <2>1. CASE page = {}
    BY <1>1, <1>3, <1>4, <2>1
  <2>2. CASE page # {}
    <3>1. place' \in page /\ \A j \in page : j <= place'
      BY <1>1, <1>7, <2>2, LastRecord
    <3>2. place' \in Nat /\ place' > place
      BY <1>3, <1>6, <1>7, <3>1 DEF UpTo
    <3>3. \A j \in D : j <= place'
      BY <1>3, <1>7, <3>2 DEF UpTo
    <3>4. \A k \in bulkJob.done : k <= place' => k \in D \union page
      <4>1. \A k \in bulkJob.done \ (D \union page) : place' < k
        BY <1>6, <3>1 DEF Begins
      <4> QED
        BY <1>7, <3>2, <4>1
    <3>5. D \union page \subseteq bulkJob.done
      BY <1>6 DEF UpTo
    <3>6. UpTo(bulkJob.done, place') = D \union page
      <4> HIDE DEF D
      <4> QED
        BY <3>1, <3>3, <3>4, <3>5 DEF UpTo
    <3> QED
      BY <1>1, <1>4, <3>2, <3>6
  <2> QED
    BY <2>1, <2>2
<1>9. twice' = {} /\ got' \in SUBSET Keys
  BY <1>1, <1>3, <1>4, <1>6, <1>8 DEF UpTo
<1>10. call' = "returned" => got' = bulkJob.done
  <2>1. call' = "returned" => \A k \in bulkJob.done : ~(k > place')
    BY <1>1
  <2> QED
    BY <1>7, <1>8, <2>1 DEF UpTo
<1>11. tries' \in 1..MaxAttempts
  BY <1>1, CallBounds
<1>12. CallsShape'
  <2>1. call' \in {"results", "returned"}
    BY <1>1
  <2> QED
    BY <1>1, <1>2, <1>3, <1>8, <1>9, <1>11, <2>1 DEF CallsShape, C!Paged
<1>13. QueryInv'
  BY <1>1, <1>4, <1>8, <1>9, <1>10 DEF QueryInv
<1>14. IngestInv'
  BY <1>1, <1>3 DEF IngestInv
<1> QED
  BY <1>2, <1>12, <1>13, <1>14 DEF CallsInv

-------------------------------------------------------------------------------
\* The last attempt of a request failed, and the call raises.
LEMMA CallRaises ==
    ASSUME CallsInv, C!Raise
    PROVE  CallsInv'
<1>1. /\ call' = "raised" /\ task' = task
      /\ UNCHANGED <<held, cap, counts, stayed, shifted, grew, got, twice, place, fetched,
                     total, bulkJob, polls, report, tries>>
  BY DEF C!Raise, C!server, C!read, C!bulk
<1>2. task \in C!Paged \union C!BulkTasks /\ CallsShape
  BY CallBounds DEF CallsInv, CallsShape
<1>3. CallsShape'
  BY <1>1, <1>2 DEF CallsShape
<1>4. NumberedRead' /\ C!Per' = C!Per
  BY <1>1 DEF CallsInv, ReadInv, NumberedRead, C!Per
<1>5. OffsetRead' /\ CursorRead' /\ WholeRead' /\ TotalIsKept' /\ Delivered'
  BY <1>1 DEF CallsInv, ReadInv, OffsetRead, CursorRead, WholeRead, TotalIsKept, Delivered
<1>6. QueryInv' /\ IngestInv'
  BY <1>1 DEF CallsInv, QueryInv, IngestInv, Collecting
<1> QED
  BY <1>3, <1>4, <1>5, <1>6 DEF CallsInv, ReadInv

\* Every step of a call, of its server or of another client keeps the invariant.
LEMMA CallsAreKept ==
    ASSUME CallsInv, UNCHANGED callVars
    PROVE  CallsInv'
<1>1. CallsShape'
  BY DEF CallsInv, CallsShape, callVars
<1>2. ReadInv'
  BY DEF CallsInv, ReadInv, NumberedRead, OffsetRead, CursorRead, WholeRead, TotalIsKept,
     Delivered, C!Per, C!Disturbed, callVars
<1>3. QueryInv' /\ IngestInv'
  BY DEF CallsInv, QueryInv, IngestInv, callVars
<1> QED
  BY <1>1, <1>2, <1>3 DEF CallsInv

\* Every step of a call that takes several requests keeps what is known of it.
LEMMA CallSteps ==
    ASSUME CallsInv, C!Next
    PROVE  CallsInv'
<1>1. CASE C!ReadPage
  <2>1. CallsShape' /\ ReadInv' /\ task \in C!Paged /\ task' = task
    BY <1>1, PageKeepsShape, PageKeepsReads, PageFacts DEF CallsInv
  <2> QED
    BY <2>1 DEF CallsInv, QueryInv, IngestInv, C!Paged
<1>2. CASE C!Bulk
  BY <1>2, JobIsCreated, DataIsUploaded, JobIsClosed, JobIsPolled, ResultsAreCollected,
     ResultsAreRead DEF C!Bulk
<1>3. CASE C!Process
  BY <1>3, JobIsProcessed
<1>4. CASE C!Raise
  BY <1>4, CallRaises
<1>5. CASE C!Idle
  <2>1. UNCHANGED callVars
    BY <1>5 DEF C!Idle, C!vars, C!server, C!read, C!bulk, callVars
  <2> QED
    BY <2>1, CallsAreKept
<1>6. CASE \E k \in Keys : C!Change(k)
  BY <1>6, ChangeIsTold
<1> QED
  BY <1>1, <1>2, <1>3, <1>4, <1>5, <1>6 DEF C!Next, C!Work

\* They hold of a call that begins.
LEMMA CallStarts ==
    ASSUME C!Init
    PROVE  CallsInv
<1>1. task \in Tasks /\ held \in SUBSET Keys /\ 1 \in 1..MaxAttempts /\ 0 \in 0..MaxPolls
      /\ Tasks \subseteq C!Paged \union C!BulkTasks /\ cap \in Caps
  BY CallBounds DEF C!Init
<1>2. C!Per \in Nat \ {0} /\ 0 * C!Per = 0 /\ Cardinality({}) = 0
      /\ Cardinality(Keys) \in Nat
  <2>1. Keys \in SUBSET Keys
    OBVIOUS
  <2> QED
    BY <1>1, <2>1, PageSize, FS_EmptySet, Lists
<1>3. C!NoJob \in JobRecord /\ C!NoJob.state = "none"
      /\ C!NoReport \in [failed : Nat, successful : SUBSET Keys, refused : BOOLEAN]
  BY DEF C!NoJob, C!NoReport, JobRecord
<1>4. CallsShape
  <2>1. total \in -1..Cardinality(Keys) /\ place \in Nat /\ fetched \in Nat
        /\ polls \in 0..MaxPolls /\ tries \in 1..MaxAttempts
    BY <1>1, <1>2 DEF C!Init
  <2>2. /\ task \in C!Paged => call \in {"page", "returned", "raised"} /\ bulkJob.state = "none"
        /\ task = "ingest" => call = "create"
        /\ task = "bulk_query" => call = "create"
    BY <1>3 DEF C!Init, C!Paged
  <2>3. shifted \in BOOLEAN /\ grew \in BOOLEAN /\ counts \in BOOLEAN /\ stayed \subseteq held
        /\ got \in SUBSET Keys /\ twice \subseteq got
    BY DEF C!Init
  <2>4. bulkJob \in JobRecord
        /\ report \in [failed : Nat, successful : SUBSET Keys, refused : BOOLEAN]
    BY <1>3 DEF C!Init
  <2> QED
    BY <1>1, <2>1, <2>2, <2>3, <2>4 DEF CallsShape
<1>5. Begins(held, {})
  BY DEF Begins
<1>6. NumberedRead
  BY <1>2, <1>5 DEF C!Init, NumberedRead
<1>7. ReadInv
  <2>1. held \subseteq Nat \ {0}
    BY <1>1, CallBounds
  <2>2. \A k \in held : ~(k <= 0)
    BY <2>1
  <2> QED
    BY <1>2, <1>5, <1>6, <2>2
    DEF C!Init, ReadInv, OffsetRead, CursorRead, WholeRead, TotalIsKept, Delivered
<1>8. QueryInv /\ IngestInv
  BY <1>3 DEF C!Init, QueryInv, IngestInv, Collecting, C!Paged
<1> QED
  BY <1>4, <1>7, <1>8 DEF CallsInv

\* What a call gives its caller is what the server holds.
LEMMA CallsHold ==
    ASSUME CallsInv
    PROVE  C!TypeOK /\ C!ReadsAreWhole /\ C!ResultsAreTrue
<1>1. C!TypeOK
  <2>1. task \in C!Paged \union C!BulkTasks
    BY CallBounds DEF CallsInv, CallsShape
  <2> QED
    BY <2>1, SameCount DEF CallsInv, CallsShape, C!TypeOK, C!BulkTasks
<1>2. C!ReadsAreWhole
  BY DEF CallsInv, ReadInv, Delivered, QueryInv, C!ReadsAreWhole
<1>3. C!ResultsAreTrue
  BY SameCount DEF CallsInv, IngestInv, Collecting, C!ResultsAreTrue
<1> QED
  BY <1>1, <1>2, <1>3

-------------------------------------------------------------------------------
(* The parts together: one of the four runs, the others stay at their      *)
(* start.                                                                  *)

ClientsInv ==
    /\ part \in {"old", "young", "tool", "calls"}
    /\ part = "old" => /\ ClientInv(Requests) /\ RefusedTokensLeave(Requests)
                       /\ upsets \in 0..MaxUpsets
    /\ part = "young" => ClientInv(YoungRequests) /\ upsets \in 0..MaxUpsets + 1
    /\ ToolInv /\ CallsInv

\* The run begins in initial states of all components.
LEMMA ClientsInit == MCInit => ClientsInv
<1> SUFFICES ASSUME MCInit PROVE ClientsInv
  OBVIOUS
<1>1. part \in {"old", "young", "tool", "calls"} /\ T!Init /\ C!Init
  BY DEF MCInit
<1>2. ToolInv /\ CallsInv
  BY <1>1, ToolStarts, CallStarts
<1>3. part = "old" => Init
  BY DEF MCInit
<1>4. part = "young" => Young!Init
  BY DEF MCInit
<1>5. part = "old" => /\ ClientInv(Requests) /\ RefusedTokensLeave(Requests)
                      /\ upsets \in 0..MaxUpsets
  BY <1>3, ClientStarts, UpsetsAreBounded, ClientBounds, OldHost
<1>6. part = "young" => ClientInv(YoungRequests) /\ upsets \in 0..MaxUpsets + 1
  BY <1>4, ClientStarts, UpsetsAreBounded, ClientBounds
<1> QED
  BY <1>1, <1>2, <1>5, <1>6 DEF ClientsInv

\* A client, and the tool, whose variables stay as they are.
LEMMA ClientStays ==
    ASSUME NEW R, ClientInv(R), UNCHANGED vars
    PROVE  ClientInv(R)'
<1>1. ClientStep(R)
  BY DEF ClientStep
<1> QED
  BY <1>1, ClientStepKeeps

\* The steps of the other components leave the tool alone.
LEMMA ToolStays ==
    ASSUME ToolInv, UNCHANGED toolVars
    PROVE  ToolInv'
BY DEF toolVars, ToolInv, ToolShape, Resting, LimiterKnows, Forgotten, CallFits,
   T!SentInWindow, T!WindowOverrunIsBounded, T!ClosedBelowThreshold, T!AnswersDecideTheProbe

\* A step of the run is one of a component, and keeps the invariants of all.
LEMMA ClientsStep == ClientsInv /\ [MCNext]_mcVars => ClientsInv'
<1> SUFFICES ASSUME ClientsInv, [MCNext]_mcVars PROVE ClientsInv'
  OBVIOUS
<1>1. CASE part = "old" /\ Next /\ UNCHANGED <<part, toolVars, callVars>>
  <2>1. ClientInv(Requests)' /\ RefusedTokensLeave(Requests)' /\ upsets' \in 0..MaxUpsets
    BY <1>1, OldSteps, ClientStepKeeps, UpsetsAreBounded DEF ClientsInv
  <2>2. ToolInv' /\ CallsInv'
    BY <1>1, ToolStays, CallsAreKept DEF ClientsInv
  <2> QED
    BY <1>1, <2>1, <2>2 DEF ClientsInv
<1>2. CASE part = "young" /\ Young!Next /\ UNCHANGED <<part, toolVars, callVars>>
  <2>1. ClientInv(YoungRequests)' /\ upsets' \in 0..MaxUpsets + 1
    BY <1>2, YoungSteps, ClientStepKeeps, UpsetsAreBounded DEF ClientsInv
  <2>2. ToolInv' /\ CallsInv'
    BY <1>2, ToolStays, CallsAreKept DEF ClientsInv
  <2> QED
    BY <1>2, <2>1, <2>2 DEF ClientsInv
<1>3. CASE part = "tool" /\ T!Next /\ UNCHANGED <<part, vars, callVars>>
  <2>1. ToolInv' /\ CallsInv'
    BY <1>3, ToolSteps, CallsAreKept DEF ClientsInv
  <2> QED
    BY <1>3, <2>1 DEF ClientsInv
<1>4. CASE part = "calls" /\ C!Next /\ UNCHANGED <<part, vars, toolVars>>
  <2>1. ToolInv' /\ CallsInv'
    BY <1>4, ToolStays, CallSteps DEF ClientsInv
  <2> QED
    BY <1>4, <2>1 DEF ClientsInv
<1>5. CASE UNCHANGED mcVars
  <2>1. UNCHANGED <<part, vars, upsets>> /\ ToolInv' /\ CallsInv'
    BY <1>5, ToolStays, CallsAreKept DEF ClientsInv, mcVars, vars, env
  <2>2. part = "old" => ClientInv(Requests)' /\ RefusedTokensLeave(Requests)'
    <3>1. ClientStep(Requests)
      BY <2>1 DEF ClientStep
    <3> QED
      BY <3>1, ClientStepKeeps DEF ClientsInv
  <2>3. part = "young" => ClientInv(YoungRequests)'
    BY <2>1, ClientStays DEF ClientsInv
  <2> QED
    BY <2>1, <2>2, <2>3 DEF ClientsInv
<1> QED
  BY <1>1, <1>2, <1>3, <1>4, <1>5 DEF MCNext

\* The invariants of the run.
LEMMA ClientsRun == MCSpec => []ClientsInv
<1> QED
  BY ClientsInit, ClientsStep, PTL DEF MCSpec

\* The breaker of the clients is closed exactly below its threshold, whoever of any number
\* of requests fails; the one of the tool too, and an answer decides its probe; and a retry
\* after a 401 on a host that is not young goes out with a newer token.
THEOREM AnswersHeeded == MCSpec => []AnswersAreHeeded
<1>1. ASSUME ClientsInv PROVE AnswersAreHeeded
  <2>1. CASE part = "old"
    <3>1. RetryUsesNewToken
      BY <1>1, <2>1 DEF ClientsInv, RefusedTokensLeave, RetryUsesNewToken
    <3> QED
      BY <1>1, <2>1, <3>1, ClientsHold DEF ClientsInv, AnswersAreHeeded
  <2>2. CASE part = "young"
    BY <1>1, <2>2, ClientsHold DEF ClientsInv, AnswersAreHeeded
  <2>3. CASE part = "tool"
    BY <1>1, <2>3, ToolTyped DEF ClientsInv, ToolInv, AnswersAreHeeded
  <2> QED
    BY <1>1, <2>1, <2>2, <2>3 DEF ClientsInv, AnswersAreHeeded
<1> QED
  BY <1>1, ClientsRun, PTL

\* Any number of requests that find the cache empty together fetch one token between them,
\* none sends more than twice per attempt, and the tool overruns its window by no more
\* than the retries of one call.
THEOREM TrafficBounded == MCSpec => []TrafficIsBounded
<1>1. ASSUME ClientsInv PROVE TrafficIsBounded
  <2>1. CASE part = "old"
    BY <1>1, <2>1, ClientsHold DEF ClientsInv, TrafficIsBounded
  <2>2. CASE part = "young"
    BY <1>1, <2>2, ClientsHold DEF ClientsInv, TrafficIsBounded
  <2>3. CASE part = "tool"
    BY <1>1, <2>3 DEF ClientsInv, ToolInv, TrafficIsBounded
  <2> QED
    BY <1>1, <2>1, <2>2, <2>3 DEF ClientsInv, TrafficIsBounded
<1> QED
  BY <1>1, ClientsRun, PTL

\* Reads of a list of any length in pages of any size, while any number of changes are made
\* to it, and bulk jobs of any records, give their caller what the server holds.
THEOREM CallsReturn == MCSpec => []CallsReturnAll
<1>1. ClientsInv => CallsReturnAll
  BY CallsHold DEF ClientsInv, CallsReturnAll
<1> QED
  BY <1>1, ClientsRun, PTL
===============================================================================
