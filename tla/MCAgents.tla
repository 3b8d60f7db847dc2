------------------------------- MODULE MCAgents -------------------------------
(***************************************************************************)
(* The loops around a language model: of the orchestrator, of the          *)
(* execution agent it calls (E), of the multi-agent orchestrator and its   *)
(* specialists (M), of the agents that share a breaker (B) and of the      *)
(* validation agent (V).  One of them runs in a behaviour and the others   *)
(* rest in an initial state.  The orchestrator sees of an agent only what  *)
(* a delegation returns, which OrchestratorAgent lets be anything that an  *)
(* invocation of the agent, or its loss, may amount to.                    *)
(*                                                                         *)
(* Orchestrator: two batches of up to two tools; what the first one        *)
(* returned is what the model knows when it asks for the second.           *)
(* Execution agent: two invocations of an obedient agent, of which either  *)
(* may be a dry run, or overlap the other one, or die; the first one is    *)
(* the one of the two that is not barred, and not a dry run.               *)
(* Two runs of the multi-agent orchestrator, which both know the migration *)
(* agent; three executions on one breaker; two entities to validate.       *)
(***************************************************************************)
EXTENDS OrchestratorAgent

CONSTANTS
    Invocations, MaxRetries, MaxAgentIterations, MaxFaults, Obedient,
    Specialists,    \* what the supervisor of each run delegates to
    Slot, MaxRounds, MaxSteps, MaxModelFaults,
    Execution, Threshold, MaxLoopIterations, MaxLoops,
    Entity, MaxTrouble, MaxGateIterations

VARIABLES
    part,   \* the loop that runs
    complete, runs, saved, paused, lost, faults, inv,
    step, round, owner, eventLog, emitted, trail, task, history, crossed, modelFaults,
    state, failures, elapsed, at, turn, rounds, outcome,
    entities, skip, truth, stage, attempt, kept, overall, answered, trouble

agentVars == <<complete, runs, saved, paused, lost, faults, inv>>
multiVars == <<step, round, owner, eventLog, emitted, trail, task, history, crossed, modelFaults>>
baseVars  == <<state, failures, elapsed, at, turn, rounds, outcome>>
gateVars  == <<entities, skip, truth, stage, attempt, kept, overall, answered, trouble>>

E == INSTANCE ExecutionAgent WITH MaxIterations <- MaxAgentIterations
M == INSTANCE MultiAgent
        WITH Run <- DOMAIN Specialists, Agents <- Specialists, MaxIterations <- MaxRounds,
             MaxFaults <- MaxModelFaults, pc <- step, iteration <- round, faults <- modelFaults
B == INSTANCE BaseAgent
        WITH MaxIterations <- MaxLoopIterations, MaxRounds <- MaxLoops, pc <- at, iteration <- turn
V == INSTANCE ValidationAgent
        WITH MaxIterations <- MaxGateIterations, pc <- stage, iteration <- attempt

ASSUME Assumptions ==
    E!AgentAssumption /\ M!SupervisorAssumption /\ B!BreakerAssumption /\ V!GateAssumption

TwoRuns == [r1 |-> {"migration", "security"},
            r2 |-> {"migration", "validation", "documentation"}]

NoTrouble == \A c \in V!Check : truth[c] = "PASSED"

MCInit ==
    /\ part \in {"orchestrator", "execution", "multi", "base", "gates"}
    /\ Init /\ risk \in (IF part = "orchestrator" THEN {"MEDIUM", "CRITICAL"} ELSE {"MEDIUM"})
    /\ E!Init /\ ~inv[1].barred /\ (inv[1].dry => inv[2].dry)
    /\ part # "execution" => ~inv[2].dry /\ ~inv[2].barred
    /\ M!Init /\ (part # "multi" => owner = CHOOSE r \in DOMAIN Specialists : TRUE)
    /\ V!Init /\ (part # "gates" => NoTrouble /\ entities = Entity /\ ~skip)
    /\ B!Init

MCNext ==
    \/ part = "orchestrator" /\ Next
         /\ UNCHANGED <<part, agentVars, multiVars, baseVars, gateVars>>
    \/ part = "execution" /\ E!Next
         /\ UNCHANGED <<part, vars, multiVars, baseVars, gateVars>>
    \/ part = "multi" /\ M!Next /\ UNCHANGED <<part, vars, agentVars, baseVars, gateVars>>
    \/ part = "base" /\ B!Next /\ UNCHANGED <<part, vars, agentVars, multiVars, gateVars>>
    \/ part = "gates" /\ V!Next /\ UNCHANGED <<part, vars, agentVars, multiVars, baseVars>>

\* The steps that are taken as long as there is one to take.  An answer of the model
\* of the validation agent names finitely many tools, which its iterations do not count.
Progress ==
    \/ part = "orchestrator" /\ Step
         /\ UNCHANGED <<part, agentVars, multiVars, baseVars, gateVars>>
    \/ part = "execution" /\ (\E i \in Invocations : E!Step(i))
         /\ UNCHANGED <<part, vars, multiVars, baseVars, gateVars>>
    \/ part = "multi" /\ M!Step /\ UNCHANGED <<part, vars, agentVars, baseVars, gateVars>>
    \/ part = "base" /\ (\E e \in Execution : B!Step(e))
         /\ UNCHANGED <<part, vars, agentVars, multiVars, gateVars>>
    \/ part = "gates" /\ (V!Ask \/ V!EndAnswer)
         /\ UNCHANGED <<part, vars, agentVars, multiVars, baseVars>>

MCSpec ==
    /\ MCInit /\ [][MCNext]_<<part, vars, agentVars, multiVars, baseVars, gateVars>>
    /\ WF_<<vars, agentVars, multiVars, baseVars, gateVars>>(Progress)

-------------------------------------------------------------------------------
\* A run is completed only with an execution that no gate had blocked, and one of
\* high risk never; a block decides the run: OrchestratorAgent states all three.
CompletionIsEarned ==
    part = "orchestrator" =>
        /\ TypeOK
        /\ CompletedWasUnblocked /\ HighRiskNeverCompletes /\ BlockDecidesTheRun

\* What an invocation reports is what became of the step: a completion that ran,
\* a skip that another one completed, a checkpoint behind a run; and each run of the
\* step has an invocation, or a lost answer, to explain it.
StatusesAreHonest ==
    part = "execution" =>
        /\ E!TypeOK
        /\ E!CompletedWasRun /\ E!SkippedWasCompleted /\ E!SavedAfterRun
        /\ E!RunsExplained /\ E!PausedAfterFailure

\* What is claimed was done: the trail of a run and the records of a specialist are
\* its own unless another one overlapped, and a validation that passed is proven.
ClaimsAreBacked ==
    /\ part = "multi" => M!TypeOK /\ M!TrailsNeedOverlap /\ M!RecordsNeedOverlap
    /\ part = "gates" => V!TypeOK /\ V!PassIsProven

\* Whatever order the executions end in, the breaker they share is closed when fewer
\* than Threshold of them failed in a row, and only then.
ClosedBelowThreshold == part = "base" => B!TypeOK /\ B!ClosedBelowThreshold

\* Every run, invocation and loop ends.
LoopsEnd ==
    <>[](CASE part = "orchestrator" -> pc = "done"
           [] part = "execution" -> E!AllDone
           [] part = "multi" -> \A r \in DOMAIN step : step[r] = "done"
           [] part = "base" -> \A e \in Execution : at[e] = "out"
           [] part = "gates" -> stage \in {"returned", "failed"})
===============================================================================
