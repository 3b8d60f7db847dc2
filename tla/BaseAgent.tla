------------------------------- MODULE BaseAgent -------------------------------
(***************************************************************************)
(* BaseAgent and its CircuitBreaker (src/agents/_shared/base_agent.py):    *)
(* the loop of an agent around a language model, several executions of     *)
(* which share the breaker of one instance.  The model and the tools are   *)
(* external.                                                               *)
(***************************************************************************)
EXTENDS Integers

CONSTANTS
    Execution,      \* calls of _run_tool_loop on one agent
    Threshold,      \* of the breaker
    MaxIterations,
    MaxRounds       \* bound on the loops an execution runs

BreakerAssumption ==
    /\ {Threshold, MaxIterations} \subseteq Nat \ {0}
    /\ MaxRounds \in Nat

VARIABLES
    state,      \* of the breaker: "closed", "open" or "half_open"
    failures,   \* _consecutive_failures
    elapsed,    \* reset_seconds have passed since the last failure
    pc,         \* of each execution: "out" or "ask"
    iteration,
    rounds,     \* loops begun
    outcome     \* of the last loop: "none", "text", "raised" or "refused"

vars == <<state, failures, elapsed, pc, iteration, rounds, outcome>>

Init ==
    /\ state = "closed" /\ failures = 0 /\ elapsed = FALSE
    /\ pc = [e \in Execution |-> "out"]
    /\ iteration = [e \in Execution |-> 1]
    /\ rounds = [e \in Execution |-> 0]
    /\ outcome = [e \in Execution |-> "none"]

RecordSuccess == state' = "closed" /\ failures' = 0 /\ UNCHANGED elapsed

\* The count starts again once the breaker has opened.
RecordFailure_Restart ==
    /\ failures' = IF failures + 1 >= Threshold THEN 0 ELSE failures + 1
    /\ elapsed' = FALSE
    /\ state' = IF failures + 1 >= Threshold THEN "open" ELSE state

RecordFailure ==
    /\ failures' = failures + 1
    /\ elapsed' = FALSE
    /\ state' = IF failures + 1 >= Threshold THEN "open" ELSE state

\* Time passes; the clock is read when somebody asks for the state.
TimePasses ==
    /\ state = "open" /\ ~elapsed
    /\ elapsed' = TRUE
    /\ UNCHANGED <<state, failures, pc, iteration, rounds, outcome>>

\* check: an open breaker lets any number of executions through after the timeout.
Start(e) ==
    /\ pc[e] = "out" /\ rounds[e] < MaxRounds
    /\ rounds' = [rounds EXCEPT ![e] = @ + 1]
    /\ state' = IF state = "open" /\ elapsed THEN "half_open" ELSE state
    /\ IF state' = "open"
       THEN outcome' = [outcome EXCEPT ![e] = "refused"] /\ UNCHANGED <<pc, iteration>>
       ELSE /\ pc' = [pc EXCEPT ![e] = "ask"]
            /\ iteration' = [iteration EXCEPT ![e] = 1]
            /\ UNCHANGED outcome
    /\ UNCHANGED <<failures, elapsed>>

Leave(e, how) ==
    /\ pc' = [pc EXCEPT ![e] = "out"]
    /\ outcome' = [outcome EXCEPT ![e] = how]
    /\ UNCHANGED <<iteration, rounds>>

Finish(e)    == pc[e] = "ask" /\ RecordSuccess /\ Leave(e, "text")
ApiFails(e)  == pc[e] = "ask" /\ RecordFailure /\ Leave(e, "raised")

\* The model asks for tools, whose errors are answers.  The last iteration ends
\* with an error, which counts as a failure.
UseTools(e) ==
    /\ pc[e] = "ask"
    /\ \/ /\ iteration[e] < MaxIterations
          /\ iteration' = [iteration EXCEPT ![e] = @ + 1]
          /\ UNCHANGED <<state, failures, elapsed, pc, rounds, outcome>>
       \/ iteration[e] = MaxIterations /\ RecordFailure /\ Leave(e, "raised")

Step(e) == Start(e) \/ Finish(e) \/ ApiFails(e) \/ UseTools(e)

Idle == /\ \A e \in Execution : pc[e] = "out" /\ rounds[e] = MaxRounds
        /\ state = "open" => elapsed
        /\ UNCHANGED vars

Next == (\E e \in Execution : Step(e)) \/ TimePasses \/ Idle

Spec == Init /\ [][Next]_vars

\* The model answers, and the clock goes on.
FairSpec == Spec /\ WF_vars(\E e \in Execution : Step(e)) /\ WF_vars(TimePasses)

-------------------------------------------------------------------------------
\* The types of the variables.
TypeOK ==
    /\ state \in {"closed", "open", "half_open"}
    /\ failures \in Nat /\ elapsed \in BOOLEAN
    /\ pc \in [Execution -> {"out", "ask"}]
    /\ iteration \in [Execution -> 1..MaxIterations]
    /\ rounds \in [Execution -> 0..MaxRounds]
    /\ outcome \in [Execution -> {"none", "text", "raised", "refused"}]

\* The breaker is closed exactly as long as fewer than threshold failures have
\* followed each other, whatever executions end while it is open or half open; so
\* one failing probe opens it again.
ClosedBelowThreshold == state = "closed" <=> failures < Threshold

\* Every loop ends.
LoopsEnd == []<>(\A e \in Execution : pc[e] = "out")

-------------------------------------------------------------------------------
\* The state transitions CircuitBreaker lists: an open breaker is closed by way of
\* half open.  The success of an execution that began before it opened closes it.
OpenClosesByProbe == [][state = "open" => state' # "closed"]_vars

\* "automatic half-open probe": one execution at a time tries a half-open breaker.
OneProbe ==
    state = "half_open" => \A e, f \in Execution : pc[e] = "ask" /\ pc[f] = "ask" => e = f

===============================================================================
