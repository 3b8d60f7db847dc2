---------------------------- MODULE ExecutionAgent ----------------------------
(***************************************************************************)
(* Invocations of the execution agent for one step of a plan, of           *)
(* src/agents/execution-agent/agent.py: the orchestrator calls the agent   *)
(* again after a failure or a crash, also while an earlier invocation is   *)
(* still at work.  The control plane that runs the step is external; its   *)
(* requests and its answers may be lost.                                   *)
(***************************************************************************)
EXTENDS Integers, FiniteSets

CONSTANTS
    Invocations,    \* runs of ExecutionAgent.execute for the same step
    MaxRetries,     \* max_retries of _http_request_with_retry
    MaxIterations,  \* max_iterations
    MaxFaults,      \* bound on lost requests, lost answers and crashes
    Obedient        \* the language model keeps to the workflow of its prompt

AgentAssumption ==
    /\ {MaxRetries, MaxIterations} \subseteq Nat \ {0}
    /\ MaxFaults \in Nat
    /\ Obedient \in BOOLEAN

VARIABLES
    complete,   \* the control plane has the step as completed
    runs,       \* requests to execute the step that it carried out to completion
    saved,      \* it has a checkpoint of the step
    paused,     \* it has been told to pause the migration
    lost,       \* answers to a request that was carried out which got lost
    faults,     \* faults so far
    inv         \* each invocation

plane == <<complete, runs, saved, paused>>
vars  == <<plane, lost, faults, inv>>

-------------------------------------------------------------------------------
Tools == {"check", "phase", "execute", "checkpoint", "pause"}

\* Last result per tool; dry is the context's dry_run, barred that the step is
\* destructive and the context has no operator, sent that execute was requested.
NoResults == [tool \in Tools |-> "none"]

Init ==
    /\ complete = FALSE /\ runs = 0 /\ saved = FALSE /\ paused = FALSE
    /\ lost = 0 /\ faults = 0
    /\ inv \in [Invocations ->
                   {[pc |-> "idle", dry |-> d, barred |-> b, iteration |-> 1, tries |-> 1,
                     raw |-> NoResults, sent |-> FALSE, status |-> "none"] : d, b \in BOOLEAN}]

Is(i, pc) == inv[i].pc = pc

Fault == faults < MaxFaults /\ faults' = faults + 1

Begin(i) ==
    /\ Is(i, "idle")
    /\ inv' = IF inv[i].barred
              THEN [inv EXCEPT ![i].pc = "done", ![i].status = "BLOCKED"]
              ELSE [inv EXCEPT ![i].pc = "ask"]
    /\ UNCHANGED <<plane, lost, faults>>

\* The workflow of the prompt: check first, stop if the step is completed, look at the
\* phase perhaps, execute, save a checkpoint after a success, and after a failure
\* that is critical pause the migration.
Workflow(raw) ==
    {tool \in Tools :
        \/ tool = "check" /\ raw.check = "none"
        \/ /\ raw.check \notin {"none", "IDEMPOTENT_SKIP"}
           /\ \/ tool \in {"phase", "execute"} /\ raw.execute = "none" /\ raw[tool] = "none"
              \/ tool = "checkpoint" /\ raw.execute = "COMPLETED" /\ raw.checkpoint = "none"
              \/ tool = "pause" /\ raw.execute = "FAILED" /\ raw.pause = "none"}

\* A tool answers without a request: a step that is only simulated, and a pause that
\* names no operator.
Local(i, tool, answer) ==
    [inv EXCEPT ![i].raw[tool] = answer,
                ![i].iteration = @ + 1,
                ![i].pc = IF inv[i].iteration < MaxIterations THEN "ask" ELSE "end"]

\* A tool makes its request.
Send(i, tool) ==
    [inv EXCEPT ![i].pc = tool, ![i].tries = 1, ![i].sent = @ \/ tool = "execute"]

\* The model asks for a tool, with the dry_run it was told or, if it does not
\* keep to the prompt, with another.
Ask(i, tool, dry) ==
    /\ Is(i, "ask")
    /\ Obedient => tool \in Workflow(inv[i].raw) /\ dry = inv[i].dry
    /\ inv' = IF tool = "execute" /\ dry THEN Local(i, tool, "COMPLETED") ELSE Send(i, tool)
    /\ UNCHANGED <<plane, lost, faults>>

PauseUnauthorised(i) ==
    /\ Is(i, "ask")
    /\ Obedient => "pause" \in Workflow(inv[i].raw)
    /\ inv' = Local(i, "pause", "REJECTED")
    /\ UNCHANGED <<plane, lost, faults>>

\* The model asks for nothing more.
EndTurn(i) ==
    /\ Is(i, "ask")
    /\ Obedient => Workflow(inv[i].raw) \subseteq {"pause"}
    /\ inv' = [inv EXCEPT ![i].pc = "end"]
    /\ UNCHANGED <<plane, lost, faults>>

\* A tool has returned; its result replaces an earlier one of the same tool.
Result(i, result) ==
    [inv EXCEPT ![i].raw[inv[i].pc] = result,
                ![i].iteration = @ + 1,
                ![i].pc = IF inv[i].iteration < MaxIterations THEN "ask" ELSE "end"]

\* What a tool returns when its request failed MaxRetries times.
GivesUp == [check |-> "UNKNOWN", phase |-> "UNKNOWN", execute |-> "FAILED",
            checkpoint |-> "CHECKPOINT_FAILED", pause |-> "PAUSE_FAILED"]

\* A request failed: it is tried again, or the tool gives up.
Failed(i) ==
    IF inv[i].tries < MaxRetries
    THEN [inv EXCEPT ![i].tries = @ + 1]
    ELSE Result(i, GivesUp[inv[i].pc])

\* What the control plane does about a request of each tool, and its answer.
CheckStep(answer) ==
    /\ answer = IF complete THEN "IDEMPOTENT_SKIP" ELSE "PROCEED"
    /\ UNCHANGED plane

PhaseStatus(answer) == answer = "STATUS" /\ UNCHANGED plane

ExecuteStep(answer) ==
    \/ /\ answer = "COMPLETED"
       /\ complete' = TRUE /\ runs' = runs + 1 /\ UNCHANGED <<saved, paused>>
    \/ answer = "FAILED" /\ UNCHANGED plane

CreateCheckpoint(answer) ==
    /\ answer = "CHECKPOINT_CREATED"
    /\ saved' = TRUE /\ UNCHANGED <<complete, runs, paused>>

Pause(answer) ==
    /\ answer = "PAUSED"
    /\ paused' = TRUE /\ UNCHANGED <<complete, runs, saved>>

Serve(tool, answer) ==
    \/ tool = "check" /\ CheckStep(answer)
    \/ tool = "phase" /\ PhaseStatus(answer)
    \/ tool = "execute" /\ ExecuteStep(answer)
    \/ tool = "checkpoint" /\ CreateCheckpoint(answer)
    \/ tool = "pause" /\ Pause(answer)

Answers == {"IDEMPOTENT_SKIP", "PROCEED", "STATUS", "COMPLETED", "FAILED", "CHECKPOINT_CREATED",
            "PAUSED", "REJECTED"}

\* Requests that are repeated although they were answered.
Request_NoReturn(i) ==
    /\ inv[i].pc \in Tools
    /\ \E answer \in Answers :
          /\ Serve(inv[i].pc, answer)
          /\ inv' = IF inv[i].tries < MaxRetries THEN [inv EXCEPT ![i].tries = @ + 1]
                    ELSE Result(i, answer)
          /\ UNCHANGED <<lost, faults>>

\* One request of _http_request_with_retry: answered, carried out with the
\* answer lost, or not carried out.  An answer that cannot be read is lost, and
\* not asked for again.
Request(i) ==
    /\ inv[i].pc \in Tools
    /\ \/ \E answer \in Answers :
             /\ Serve(inv[i].pc, answer)
             /\ \/ inv' = Result(i, answer) /\ UNCHANGED <<lost, faults>>
                \/ /\ Fault /\ lost' = lost + 1
                   /\ inv' \in {Failed(i), Result(i, GivesUp[inv[i].pc])}
       \/ Fault /\ inv' = Failed(i) /\ UNCHANGED <<plane, lost>>

\* _build_step_result that looks at the execution first.
StepStatus_ExecutionFirst(raw) ==
    IF raw.check # "none" /\ raw.execute # "COMPLETED" THEN "ALREADY_COMPLETED"
    ELSE IF raw.execute = "COMPLETED" THEN "COMPLETED"
    ELSE "FAILED"

\* _build_step_result.
StepStatus(raw) ==
    IF raw.check = "IDEMPOTENT_SKIP" THEN "ALREADY_COMPLETED"
    ELSE IF raw.execute = "COMPLETED" THEN "COMPLETED"
    ELSE "FAILED"

End(i) ==
    /\ Is(i, "end")
    /\ inv' = [inv EXCEPT ![i].pc = "done", ![i].status = StepStatus(inv[i].raw)]
    /\ UNCHANGED <<plane, lost, faults>>

\* The API of the model raises.
ApiError(i) ==
    /\ Is(i, "ask")
    /\ inv' = [inv EXCEPT ![i].pc = "done", ![i].status = "FAILED"]
    /\ UNCHANGED <<plane, lost, faults>>

\* The process of the agent dies, with or without a request on its way.
Crash(i) ==
    /\ inv[i].pc \notin {"idle", "done"}
    /\ Fault
    /\ inv' = [inv EXCEPT ![i].pc = "done", ![i].status = "crashed"]
    /\ UNCHANGED <<plane, lost>>

Step(i) ==
    \/ Begin(i) \/ PauseUnauthorised(i) \/ EndTurn(i) \/ Request(i) \/ End(i) \/ ApiError(i)
    \/ \E tool \in Tools, dry \in BOOLEAN : Ask(i, tool, dry)

AllDone == \A i \in Invocations : Is(i, "done")

Next ==
    \/ \E i \in Invocations : Step(i) \/ Crash(i)
    \/ AllDone /\ UNCHANGED vars

Spec == Init /\ [][Next]_vars

\* The loop of an invocation is sequential; every request is answered or fails.
FairSpec == Spec /\ \A i \in Invocations : WF_vars(Step(i))

-------------------------------------------------------------------------------
\* The types of the variables.
TypeOK ==
    /\ {complete, saved, paused} \subseteq BOOLEAN
    /\ {runs, lost} \subseteq Nat
    /\ faults \in 0..MaxFaults
    /\ \A i \in Invocations :
          /\ inv[i].pc \in {"idle", "ask", "end", "done"} \union Tools
          /\ inv[i].iteration \in 1..MaxIterations + 1
          /\ inv[i].tries \in 1..MaxRetries
          /\ {inv[i].dry, inv[i].barred, inv[i].sent} \subseteq BOOLEAN
          /\ \A tool \in Tools :
                inv[i].raw[tool] \in Answers \union {"none", GivesUp[tool]}
          /\ inv[i].status \in {"none", "ALREADY_COMPLETED", "COMPLETED", "FAILED", "BLOCKED",
                                "crashed"}

\* "COMPLETED" is the status of a step that ran, or of a dry run; a result that
\* got lost, or a service that failed, is never taken for a success.
CompletedWasRun == \A i \in Invocations : inv[i].status = "COMPLETED" /\ ~inv[i].dry => complete

\* "ALREADY_COMPLETED" is reported for a step that an invocation other than this
\* one completed.
SkippedWasCompleted ==
    \A i \in Invocations :
        inv[i].status = "ALREADY_COMPLETED" =>
            complete /\ \E j \in Invocations \ {i} : inv[j].sent

\* A step runs once for each invocation that was not told of its completion, and
\* beyond that only for a retry of a request whose answer got lost.
RunsExplained == runs <= Cardinality({i \in Invocations : inv[i].sent}) + lost

\* A checkpoint is saved only of a step that ran, and a dry run saves its own.
SavedAfterRun == saved => complete \/ \E i \in Invocations : inv[i].dry

\* An agent that keeps to its prompt pauses a migration only after it was told, or had
\* to assume, that the step failed.
PausedAfterFailure ==
    Obedient /\ paused => \E i \in Invocations : inv[i].raw.execute = "FAILED"

\* Every invocation ends.
InvocationsEnd == \A i \in Invocations : <>Is(i, "done")

-------------------------------------------------------------------------------
\* "Safe to call multiple times for the same step": a step that is completed
\* is not executed again; nothing in a request tells the control plane that it is
\* one it has carried out.
CompletedStepNotRepeated == [][complete => UNCHANGED runs]_vars

\* "Use when the step fails critically": the step a migration is paused for has not
\* completed.  It may have, with its answer lost, or by another invocation.
PausedStepIsOpen == [][paused' /\ ~paused => ~complete]_vars

\* "Always checks if step already completed before running".
ChecksBeforeRunning == \A i \in Invocations : Is(i, "execute") => inv[i].raw.check # "none"

===============================================================================
