------------------------------- MODULE MCClients -------------------------------
(***************************************************************************)
(* The clients of remote APIs.  Concurrent requests through RestClient, on *)
(* two hosts.  Of old host: three requests of two attempts each, and a     *)
(* breaker that opens at the second failure, so a request may still be in  *)
(* flight when it opens, and two may meet it half open.  Of young host,    *)
(* which has booted so recently that an empty token cache looks fresh: two *)
(* requests, and one upset more.  And the tool of the agents               *)
(* (ApiClientTool, T), call by call, over three of its windows.  And calls *)
(* that take several requests (ClientCalls, C): paged reads of up to three *)
(* records that change twice, and bulk jobs.  One of the four runs in a    *)
(* behaviour.                                                              *)
(***************************************************************************)
EXTENDS RestClient

CONSTANTS Window, MaxRequests, ToolThreshold, Recovery, MaxRetries, Factor, MaxDelay, MaxTime,
    Tasks, Keys, Starts, Size, Caps, MaxPolls, MaxChanges, MaxFaults

VARIABLES
    part,   \* what runs: "old" or "young" host, "tool" or "calls"
    now, timestamps, state, failed, openedAt, probeSent, pc, attempt, delay, wake, refused,
    raised, sent,
    task, call, held, cap, counts, stayed, shifted, grew, got, twice, place, fetched, total,
    bulkJob, polls, tries, report, changes, faults

toolVars == <<now, timestamps, state, failed, openedAt, probeSent, pc, attempt, delay, wake,
              refused, raised, sent>>
callVars == <<task, call, held, cap, counts, stayed, shifted, grew, got, twice, place, fetched,
              total, bulkJob, polls, tries, report, changes, faults>>

Young == INSTANCE RestClient
            WITH Requests <- Requests \ {CHOOSE r \in Requests : TRUE},
                 YoungHost <- TRUE, MaxUpsets <- MaxUpsets + 1
T == INSTANCE ApiClientTool WITH Threshold <- ToolThreshold, failures <- failed
C == INSTANCE ClientCalls

ASSUME CallersAssumption == T!ToolAssumption /\ C!CallsAssumption

\* The host of part "old" has been up for longer than a token lives.
ASSUME OldHost == YoungHost = FALSE

MCInit ==
    /\ part \in {"old", "young", "tool", "calls"}
    /\ IF part = "young" THEN Young!Init ELSE Init
    /\ T!Init
    /\ C!Init
    /\ part # "calls" => /\ task = CHOOSE t \in Tasks : TRUE
                         /\ held = CHOOSE list \in Starts : TRUE
                         /\ cap = CHOOSE n \in Caps : TRUE
                         /\ counts

MCNext ==
    \/ part = "old" /\ Next /\ UNCHANGED <<part, toolVars, callVars>>
    \/ part = "young" /\ Young!Next /\ UNCHANGED <<part, toolVars, callVars>>
    \/ part = "tool" /\ T!Next /\ UNCHANGED <<part, vars, callVars>>
    \/ part = "calls" /\ C!Next /\ UNCHANGED <<part, vars, toolVars>>

\* The steps that are taken as long as there is one to take; time goes on with them.
Progress ==
    \/ /\ \/ part = "old" /\ \E r \in Requests : Step(r)
          \/ part = "young" /\ \E r \in DOMAIN req : Young!Step(r)
       /\ UNCHANGED <<part, toolVars, callVars>>
    \/ part = "tool" /\ (T!Work \/ T!Tick) /\ UNCHANGED <<part, vars, callVars>>
    \/ part = "calls" /\ C!Work /\ UNCHANGED <<part, vars, toolVars>>

mcVars == <<part, vars, toolVars, callVars>>

MCSpec == MCInit /\ [][MCNext]_mcVars /\ WF_mcVars(Progress)

-------------------------------------------------------------------------------
\* The breakers say what the answers were: the one of the clients counts failures of
\* every request, the one of the tool is closed below its threshold and only there,
\* and what decides its probe is an answer.  Unless the host is young, the retry after
\* a 401 goes out with a token newer than the one refused, also when other requests
\* clear and fill the cache.
AnswersAreHeeded ==
    CASE part = "old"   -> TypeOK /\ BreakerCountsFailures /\ RetryUsesNewToken
      [] part = "young" -> Young!TypeOK /\ Young!BreakerCountsFailures
      [] part = "tool"  -> T!TypeOK /\ T!ClosedBelowThreshold /\ T!AnswersDecideTheProbe
      [] OTHER          -> TRUE

\* Requests that find the cache empty together fetch one token between them; retries
\* and retries after a 401 multiply to two sends per attempt; and the tool overruns
\* its window by no more than the retries of one call.
TrafficIsBounded ==
    CASE part = "old"   -> NoTokenStampede /\ SendsBounded
      [] part = "young" -> NoTokenStampede /\ Young!SendsBounded
      [] part = "tool"  -> T!WindowOverrunIsBounded
      [] OTHER          -> TRUE

\* What a read page by page, a bulk query or a bulk job gives its caller is what the
\* server holds, while others change it: ClientCalls states what excuses a gap.
CallsReturnAll ==
    part = "calls" => C!TypeOK /\ C!ReadsAreWhole /\ C!ResultsAreTrue

\* Every request ends, whatever is answered, on a young host too; and every call of
\* the tool, but for the one that still sleeps when the clock is at its bound, every read
\* and every wait for a job.
AllRequestsEnd ==
    []<>(CASE part = "tool" -> pc = "idle" \/ (pc = "sleep" /\ wake > MaxTime)
           [] part = "calls" -> call \in {"returned", "raised"}
           [] OTHER -> \A r \in DOMAIN req : Is(r, "done"))
===============================================================================
