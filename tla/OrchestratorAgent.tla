--------------------------- MODULE OrchestratorAgent ---------------------------
(***************************************************************************)
(* One run of the orchestrator of src/agents/orchestrator-agent/agent.py:  *)
(* a language model asks for batches of tools, the tools delegate to the   *)
(* specialist agents over HTTP and evaluate gates, and the run decides     *)
(* after each batch whether it is blocked and at the end how it ended.     *)
(* The language model may ask for any tools; it hands on results as it got *)
(* them, or leaves them out.                                               *)
(***************************************************************************)
EXTENDS Integers, SequencesExt

CONSTANTS
    MaxIterations,  \* max_iterations
    MaxBlocks,      \* bound on the tools in one response
    AutoApprove     \* HITL_AUTO_APPROVE

ASSUME RunAssumption ==
    /\ {MaxIterations, MaxBlocks} \subseteq Nat \ {0}
    /\ AutoApprove \in BOOLEAN

VARIABLES
    risk,       \* risk_level
    pc,         \* "ask" the model, "tools", "judge" the batch, or "done"
    iteration,
    batch,      \* the tools asked for, in order
    phase,      \* current_phase
    out,        \* plan_, validation_, security_, execution_ and debugging_output
    told,       \* what the model had been told when it asked for the batch
    failed,     \* blocking_decision is BLOCK, gates_failed is not empty
    approved,   \* an operator's token was handed out in this run
    loaded,     \* the execution agent has carried out its task
    final       \* final_status and final_decision, and the record of the session

vars == <<risk, pc, iteration, batch, phase, out, told, failed, approved, loaded, final>>

-------------------------------------------------------------------------------
HighRisk == {"HIGH", "CRITICAL"}
Gates    == {"PLANNING_GATE", "VALIDATION_GATE", "SECURITY_GATE", "HUMAN_APPROVAL_GATE",
             "EXECUTION_GATE"}

\* _phase_map.  The gate tools leave the phase alone.
PhaseOf == [plan     |-> "PLANNING",
            validate |-> "VALIDATING",
            secure   |-> "SECURITY_CHECK",
            parallel |-> "VALIDATING",
            execute  |-> "EXECUTING",
            debug    |-> "DEBUGGING",
            approve  |-> "AWAITING_HUMAN_APPROVAL"]

\* The tools offered to the model: the delegations, and those the orchestrator
\* carries out itself.
Delegations == {"plan", "validate", "secure", "execute", "debug", "parallel"}
Tools == Delegations \union {"gates", "approve", "emit"}

\* The tools of one response.
Batches == BoundedSeq(Tools, MaxBlocks) \ {<<>>}

\* What a delegation may return.  A call that fails, or is answered too late, is
\* a "stub", which reads like a success; of a diagnosis nothing is read.
Verdicts == [plan       |-> {"stub", "APPROVED", "BLOCKED"},
             validation |-> {"stub", "pass", "fail"},
             security   |-> {"stub", "pass", "fail"},
             execution  |-> {"stub", "good", "poor", "error"},
             debugging  |-> {"found"}]

Outputs == [k \in DOMAIN Verdicts |-> Verdicts[k] \union {"none"}]

Init ==
    /\ risk \in {"LOW", "MEDIUM", "HIGH", "CRITICAL"}
    /\ pc = "ask"
    /\ iteration = 1
    /\ batch = <<>>
    /\ phase = "INITIALISED"
    /\ out = [k \in DOMAIN Verdicts |-> "none"]
    /\ told = out
    /\ failed = FALSE
    /\ approved = FALSE
    /\ loaded = FALSE
    /\ final = [status |-> "none", decision |-> "none", record |-> {}]

\* _enforce_gates that overlooks the gates evaluated.
CanProceed_Forgets == risk \notin HighRisk

\* _enforce_gates that overlooks the risk.
CanProceed_AnyRisk == ~failed

\* _enforce_gates.  The state has a human_approval_token that nothing ever sets.
CanProceed == ~failed /\ risk \notin HighRisk

\* _tool_enforce_blocking_gates for one gate and the results handed to it; the
\* execution gate and one that is unknown never block.
Blocks(gate, given) ==
    \/ gate = "PLANNING_GATE" /\ given.plan \in {"none", "BLOCKED"}
    \/ gate = "VALIDATION_GATE" /\ given.validation \in {"none", "fail"}
    \/ gate = "SECURITY_GATE" /\ given.security \in {"none", "fail"}
    \/ gate = "HUMAN_APPROVAL_GATE" /\ given.risk \in HighRisk /\ ~given.token

\* What the model may hand to the gates: what it was told, or less; any token.
Given ==
    {[plan |-> p, validation |-> v, security |-> s, risk |-> r, token |-> t] :
        p \in {"none", told.plan}, v \in {"none", told.validation},
        s \in {"none", told.security}, r \in {"MEDIUM", risk}, t \in BOOLEAN}

\* The response of the model: tools to run, which take up their phases in order
\* before the first of them is awaited.
Respond(tools) ==
    LET phased == {k \in DOMAIN tools : tools[k] \in DOMAIN PhaseOf}
    IN  /\ pc = "ask"
        /\ batch' = tools
        /\ \/ phased = {} /\ UNCHANGED phase
           \/ \E k \in phased : (\A j \in phased : j <= k) /\ phase' = PhaseOf[tools[k]]
        /\ told' = out
        /\ pc' = "tools"
        /\ UNCHANGED <<risk, iteration, out, failed, approved, loaded, final>>

\* No tools, or end_turn: the loop ends with the state as it is.
EndTurn ==
    /\ pc = "ask"
    /\ pc' = "finish"
    /\ UNCHANGED <<risk, iteration, batch, phase, out, told, failed, approved, loaded, final>>

\* The API of the model raises.
ApiError ==
    /\ pc = "ask"
    /\ phase' = "FAILED"
    /\ pc' = "finish"
    /\ UNCHANGED <<risk, iteration, batch, out, told, failed, approved, loaded, final>>

\* What each tool brings about once it has answered, as the loop reads its result.
Plan ==
    /\ \E v \in Verdicts.plan : out' = [out EXCEPT !.plan = v]
    /\ UNCHANGED <<failed, approved, loaded>>

Validate ==
    /\ \E v \in Verdicts.validation : out' = [out EXCEPT !.validation = v]
    /\ UNCHANGED <<failed, approved, loaded>>

Secure ==
    /\ \E s \in Verdicts.security : out' = [out EXCEPT !.security = s]
    /\ UNCHANGED <<failed, approved, loaded>>

\* Both side by side; one that raises has failed its gate.
ValidateAndSecure ==
    /\ \E v \in Verdicts.validation, s \in Verdicts.security :
          out' = [out EXCEPT !.validation = v, !.security = s]
    /\ UNCHANGED <<failed, approved, loaded>>

\* A stub may stand for an agent that has carried out its task, or goes on with it.
Execute ==
    /\ \E v \in Verdicts.execution :
          /\ out' = [out EXCEPT !.execution = v]
          /\ \/ loaded' = TRUE
             \/ v = "stub" /\ UNCHANGED loaded
    /\ UNCHANGED <<failed, approved>>

Debug ==
    /\ \E v \in Verdicts.debugging : out' = [out EXCEPT !.debugging = v]
    /\ UNCHANGED <<failed, approved, loaded>>

\* The token goes to the model alone.  Without HITL_AUTO_APPROVE none is handed out.
Approve ==
    /\ approved' = (approved \/ AutoApprove)
    /\ UNCHANGED <<out, failed, loaded>>

\* One of the gates to check blocks: each reason to is recorded as a failed gate.  A
\* gate that lets pass is told to the model and recorded nowhere.
CheckGates ==
    /\ \E gate \in Gates : \E given \in Given : Blocks(gate, given)
    /\ failed' = TRUE
    /\ UNCHANGED <<out, approved, loaded>>

\* A decision is logged, or a tool has raised, for its arguments perhaps, or has found
\* nothing to record: only the model hears of it.
Tell == UNCHANGED <<out, failed, approved, loaded>>

Outcome(tool) ==
    \/ tool = "plan" /\ Plan
    \/ tool = "validate" /\ Validate
    \/ tool = "secure" /\ Secure
    \/ tool = "parallel" /\ ValidateAndSecure
    \/ tool = "execute" /\ Execute
    \/ tool = "debug" /\ Debug
    \/ tool = "approve" /\ Approve
    \/ tool = "gates" /\ CheckGates
    \/ Tell

\* The next result of the batch is absorbed into the state, in the order of the
\* blocks.
Absorb ==
    /\ pc = "tools"
    /\ batch # <<>>
    /\ batch' = Tail(batch)
    /\ Outcome(Head(batch))
    /\ UNCHANGED <<risk, pc, iteration, phase, told, final>>

\* A loop that does not count its iterations.
Judge_Uncounted ==
    /\ pc = "tools"
    /\ batch = <<>>
    /\ IF ~CanProceed
       THEN phase' = "BLOCKED" /\ pc' = "finish"
       ELSE pc' = "ask" /\ UNCHANGED phase
    /\ UNCHANGED <<risk, iteration, batch, out, told, failed, approved, loaded, final>>

\* A loop that runs once more.
Judge_OneMore ==
    /\ pc = "tools"
    /\ batch = <<>>
    /\ IF ~CanProceed
       THEN phase' = "BLOCKED" /\ pc' = "finish" /\ UNCHANGED iteration
       ELSE IF iteration > MaxIterations
            THEN pc' = "finish" /\ UNCHANGED <<phase, iteration>>
            ELSE pc' = "ask" /\ iteration' = iteration + 1 /\ UNCHANGED phase
    /\ UNCHANGED <<risk, batch, out, told, failed, approved, loaded, final>>

\* After a batch the state is judged: blocked, out of iterations, or go on.
Judge ==
    /\ pc = "tools"
    /\ batch = <<>>
    /\ IF ~CanProceed
       THEN phase' = "BLOCKED" /\ pc' = "finish" /\ UNCHANGED iteration
       ELSE IF iteration = MaxIterations
            THEN pc' = "finish" /\ UNCHANGED <<phase, iteration>>
            ELSE pc' = "ask" /\ iteration' = iteration + 1 /\ UNCHANGED phase
    /\ UNCHANGED <<risk, batch, out, told, failed, approved, loaded, final>>

\* The status and the decision of the run.
Verdict ==
    IF phase = "FAILED" THEN [status |-> "FAILED", decision |-> "BLOCK"]
    ELSE IF phase = "BLOCKED" \/ ~CanProceed THEN [status |-> "BLOCKED", decision |-> "BLOCK"]
    ELSE IF out.execution \notin {"none", "error"}
         THEN [status |-> "COMPLETED", decision |-> "ALLOW"]
    ELSE [status |-> phase, decision |-> "WARN"]

\* _emit_halcon_metrics: what the session is said to have been worth, in tenths, the
\* share of its gates that passed, whether it was debugged, and by an operator approved.
\* No gate is ever recorded as passed, and no token.
Metrics(status) ==
    [utility  |-> CASE status = "COMPLETED" -> 10 [] status = "BLOCKED" -> 2 [] OTHER -> 0,
     passed   |-> IF failed THEN 0 ELSE 1,
     debugged |-> out.debugging # "none",
     approved |-> FALSE]

\* The result of the run.  A record that cannot be written is given up.
Finish ==
    /\ pc = "finish"
    /\ pc' = "done"
    /\ \E record \in SUBSET {Metrics(Verdict.status)} :
          final' = [status |-> Verdict.status, decision |-> Verdict.decision, record |-> record]
    /\ UNCHANGED <<risk, iteration, batch, phase, out, told, failed, approved, loaded>>

Step == EndTurn \/ ApiError \/ Absorb \/ Judge \/ Finish
            \/ \E tools \in Batches : Respond(tools)

Next == Step \/ (pc = "done" /\ UNCHANGED vars)

Spec == Init /\ [][Next]_vars

\* The loop is sequential; the model and the agents answer or time out.
FairSpec == Spec /\ WF_vars(Step)

-------------------------------------------------------------------------------
\* The types of the variables.
TypeOK ==
    /\ risk \in {"LOW", "MEDIUM", "HIGH", "CRITICAL"}
    /\ pc \in {"ask", "tools", "finish", "done"}
    /\ iteration \in 1..MaxIterations
    /\ batch \in Batches \union {<<>>}
    /\ phase \in {PhaseOf[t] : t \in DOMAIN PhaseOf} \union {"INITIALISED", "BLOCKED", "FAILED"}
    /\ \A k \in DOMAIN Verdicts : {out[k], told[k]} \subseteq Outputs[k]
    /\ {failed, approved, loaded} \subseteq BOOLEAN
    /\ final.decision \in {"none", "ALLOW", "WARN", "BLOCK"}

\* A gate that blocked decides the run, whatever ran in the same batch.
BlockDecidesTheRun == pc = "done" /\ failed => final.decision = "BLOCK"

\* A run of high risk ends within its first batch and is not completed, since
\* the approval it needs reaches the state by no way.
HighRiskNeverCompletes ==
    risk \in HighRisk => iteration = 1 /\ final.status # "COMPLETED"

\* A run is completed only if the execution agent was called and did not report
\* an error, and no gate had blocked by then.
CompletedWasUnblocked ==
    final.decision = "ALLOW" => ~failed /\ out.execution \notin {"none", "error"}

\* Every run ends.
RunEnds == <>(pc = "done")

-------------------------------------------------------------------------------
\* "Only call after both gates have passed": the tool that executes is
\* "BLOCKED if VALIDATION_GATE or SECURITY_GATE = BLOCK".
ExecutionOnlyAfterGates ==
    [][pc = "ask" /\ pc' = "tools" /\ Contains(batch', "execute")
          => out.validation # "fail" /\ out.security # "fail"]_vars

\* "human_approval_required": the record tells that an operator has approved.
RecordTellsApproval ==
    pc = "done" => \A metrics \in final.record : metrics.approved = approved

\* "human_approval_token present and not expired": an approved run goes on.
ApprovalUnblocks == pc = "done" /\ approved /\ ~failed /\ phase # "FAILED"
                        => final.decision # "BLOCK"

\* "no stubs, no mocks in production": a completed run has loaded something.
CompletedWasExecuted == final.status = "COMPLETED" => loaded

\* EXECUTION_GATE, "success_rate >= 90% and no hard failures".
CompletedWithinErrorRate == final.status = "COMPLETED" => out.execution # "poor"

===============================================================================
