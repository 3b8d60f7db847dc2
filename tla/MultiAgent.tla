------------------------------ MODULE MultiAgent -------------------------------
(***************************************************************************)
(* MultiAgentOrchestrator (src/agents/orchestrator) and the four           *)
(* specialists it delegates to: agents of migration, data validation,      *)
(* documentation and security audit, one instance of each.  Each is a loop *)
(* around a language model, which is external and answers anything.        *)
(* Several runs of one orchestrator may be under way, and one answer of    *)
(* its model may delegate to several agents, or to one agent several       *)
(* times, in parallel.                                                     *)
(***************************************************************************)
EXTENDS Integers, FiniteSets, Functions

CONSTANTS
    Run,            \* calls of run on one orchestrator
    Slot,           \* how many delegations one answer may ask for
    Agents,         \* for each of them, the specialists its model asks for
    MaxIterations,  \* of run
    MaxSteps,       \* of the loops of the specialists
    MaxFaults       \* bound on failing requests to the model

\* AgentName
AgentName == {"migration", "validation", "documentation", "security"}

SupervisorAssumption ==
    /\ IsFiniteSet(Slot)
    /\ Agents \in [Run -> SUBSET AgentName]
    /\ {MaxIterations, MaxSteps} \subseteq Nat \ {0} /\ MaxFaults \in Nat

VARIABLES
    pc,         \* of each run: "idle", "ask", "wait" or "done"
    iteration,
    owner,      \* _orchestration_id
    eventLog,   \* how many events of each run _event_log holds
    emitted,    \* how many events each run has emitted
    trail,      \* the events of the result of each run
    task,       \* the delegations of each run
    history,    \* what the agents remember: calls of each delegation
    crossed,    \* runs that overlapped with another one
    faults

vars == <<pc, iteration, owner, eventLog, emitted, trail, task, history, crossed, faults>>

Delegation == Run \X Slot
Nobody == [d \in Delegation |-> 0]

\* A delegation: calls counts its tool calls, seen those its result lists, report
\* is what its report says, found is TRUE once a tool has found something critical.
NoTask == [agent |-> "none", pc |-> "none", step |-> 1, calls |-> 0, seen |-> Nobody,
           error |-> FALSE, report |-> "none", found |-> FALSE, shared |-> FALSE]

Init ==
    /\ pc = [r \in Run |-> "idle"]
    /\ iteration = [r \in Run |-> 1]
    /\ owner \in Run
    /\ eventLog = [r \in Run |-> 0] /\ emitted = [r \in Run |-> 0]
    /\ trail = [r \in Run |-> [id |-> owner, events |-> eventLog]]
    /\ task = [d \in Delegation |-> NoTask]
    /\ history = [a \in AgentName |-> Nobody]
    /\ crossed = {}
    /\ faults = 0

Fault == faults < MaxFaults /\ faults' = faults + 1

Active(r) == pc[r] \in {"ask", "wait"}
AtWork(d) == task[d].pc \in {"ask", "tool"}

Emit(r, n) ==
    /\ eventLog' = [eventLog EXCEPT ![r] = @ + n]
    /\ emitted' = [emitted EXCEPT ![r] = @ + n]

\* run: the id and the log of the orchestrator are set anew.
StartRun(r) ==
    /\ pc[r] = "idle"
    /\ pc' = [pc EXCEPT ![r] = "ask"]
    /\ owner' = r
    /\ eventLog' = [q \in Run |-> IF q = r THEN 1 ELSE 0]
    /\ emitted' = [emitted EXCEPT ![r] = 1]
    /\ LET others == {q \in Run : Active(q)}
       IN  crossed' = IF others = {} THEN crossed ELSE crossed \union others \union {r}
    /\ UNCHANGED <<iteration, trail, task, history, faults>>

\* The results of the run are returned, and with them its trail.
EndRun(r) ==
    /\ task' = [d \in Delegation |-> IF d[1] = r THEN NoTask ELSE task[d]]
    /\ pc' = [pc EXCEPT ![r] = "done"]
    /\ Emit(r, 1)
    /\ trail' = [trail EXCEPT ![r] = [id |-> owner, events |-> eventLog']]

\* The model is done, its request failed, or it names an agent nobody knows.
Finish(r) ==
    /\ pc[r] = "ask"
    /\ UNCHANGED faults \/ Fault
    /\ EndRun(r)
    /\ UNCHANGED <<iteration, owner, history, crossed>>

\* Agents that keep their records in themselves, and reset them at each start.
Remembers == {"migration", "documentation"}

\* A delegation that shares an agent that remembers with one under way.
Shares(d, agents, r) ==
    LET agentOf(e) == IF e[1] = r /\ e[2] \in DOMAIN agents THEN agents[e[2]]
                      ELSE IF AtWork(e) THEN task[e].agent ELSE "none"
    IN  agentOf(d) \in Remembers /\ \E e \in Delegation \ {d} : agentOf(e) = agentOf(d)

\* What an answer may ask for: one delegation for each element of the domain, to be
\* carried out in parallel, or a synthesis of results, which leaves no trace.
Answers(r) == UNION {[slots -> Agents[r]] : slots \in SUBSET Slot}

Delegate(r) ==
    /\ pc[r] = "ask"
    /\ \E agents \in Answers(r) :
          /\ task' = [d \in Delegation |->
                IF d[1] = r /\ d[2] \in DOMAIN agents
                THEN [NoTask EXCEPT !.agent = agents[d[2]], !.pc = "ask",
                                    !.shared = Shares(d, agents, r)]
                ELSE IF d[1] = r THEN NoTask
                ELSE IF AtWork(d) /\ Shares(d, agents, r) THEN [task[d] EXCEPT !.shared = TRUE]
                ELSE task[d]]
          /\ history' = [a \in AgentName |-> IF a \in Range(agents) THEN Nobody
                                         ELSE history[a]]
          /\ Emit(r, Cardinality(DOMAIN agents))
    /\ pc' = [pc EXCEPT ![r] = "wait"]
    /\ UNCHANGED <<iteration, owner, trail, crossed, faults>>

\* All results are in.  After the last iteration the run is over, without an error.
Collect(r) ==
    /\ pc[r] = "wait"
    /\ \A s \in Slot : ~AtWork(<<r, s>>)
    /\ IF iteration[r] < MaxIterations
       THEN /\ iteration' = [iteration EXCEPT ![r] = @ + 1]
            /\ pc' = [pc EXCEPT ![r] = "ask"]
            /\ UNCHANGED <<eventLog, emitted, trail, task>>
       ELSE EndRun(r) /\ UNCHANGED iteration
    /\ UNCHANGED <<owner, history, crossed, faults>>

-------------------------------------------------------------------------------
Complete(d, rec) ==
    /\ task' = [task EXCEPT ![d] = [rec EXCEPT !.pc = "over", !.seen = history'[rec.agent]]]
    /\ Emit(d[1], 1)

\* The agent's model answers without a tool, with one of these reports, or fails.
AgentFinishes(d, reports) ==
    /\ task[d].pc = "ask"
    /\ UNCHANGED history
    /\ \/ /\ \E rep \in reports : Complete(d, [task[d] EXCEPT !.report = rep])
          /\ UNCHANGED faults
       \/ Fault /\ Complete(d, [task[d] EXCEPT !.error = TRUE])
    /\ UNCHANGED <<pc, iteration, owner, trail, crossed>>

AgentAsksForTool(d) ==
    /\ task[d].pc = "ask"
    /\ task' = [task EXCEPT ![d].pc = "tool"]
    /\ UNCHANGED <<pc, iteration, owner, eventLog, emitted, trail, history, crossed, faults>>

\* An error of a tool is an answer like any other; after MaxSteps the loop is over.
ToolReturns(d, findings, reports) ==
    /\ task[d].pc = "tool"
    /\ history' = [history EXCEPT ![task[d].agent][d] = @ + 1]
    /\ \E found \in findings, rep \in reports :
          LET rec == [task[d] EXCEPT !.calls = @ + 1, !.found = @ \/ found, !.report = rep]
          IN  IF task[d].step < MaxSteps
              THEN /\ task' = [task EXCEPT ![d] = [rec EXCEPT !.pc = "ask", !.step = @ + 1]]
                   /\ UNCHANGED <<eventLog, emitted>>
              ELSE Complete(d, rec)
    /\ UNCHANGED <<pc, iteration, owner, trail, crossed, faults>>

Loop(d, finals, findings, reports) ==
    AgentFinishes(d, finals) \/ AgentAsksForTool(d) \/ ToolReturns(d, findings, reports)

MigrationAgent(d)     == task[d].agent = "migration" /\ Loop(d, {"none"}, {FALSE}, {"none"})
DocumentationAgent(d) == task[d].agent = "documentation" /\ Loop(d, {"none"}, {FALSE}, {"none"})

\* Its report is read from the text of the last answer, if it has one.
DataValidationAgent(d) ==
    /\ task[d].agent = "validation"
    /\ Loop(d, {"none", "good", "bad"}, {FALSE}, {"none"})

\* What its tools find is kept; its report says what the model passes on to one of
\* them, generate_security_report.
SecurityAuditAgent(d) ==
    /\ task[d].agent = "security"
    /\ Loop(d, {task[d].report}, BOOLEAN, {task[d].report, "good", "bad"})

AgentStep(d) ==
    MigrationAgent(d) \/ DocumentationAgent(d) \/ DataValidationAgent(d) \/ SecurityAuditAgent(d)
RunStep(r) == StartRun(r) \/ Finish(r) \/ Delegate(r) \/ Collect(r)
Step == (\E r \in Run : RunStep(r)) \/ (\E d \in Delegation : AgentStep(d))

Idle == (\A r \in Run : pc[r] = "done") /\ UNCHANGED vars

Next == Step \/ Idle

Spec == Init /\ [][Next]_vars

\* Requests to models and tools return.
FairSpec == Spec /\ WF_vars(Step)

-------------------------------------------------------------------------------
\* What _do_synthesise makes of results: a grade of D or F, a risk of HIGH or above
\* or an error is an issue.  A validation without a report has the grade A, and an
\* audit without one the risk UNKNOWN.
Issue(t) == t.error \/ t.report = "bad"
Synthesise(results) == IF \E t \in results : Issue(t) THEN "BLOCKED" ELSE "APPROVED"

\* The types of the variables.
TypeOK ==
    /\ pc \in [Run -> {"idle", "ask", "wait", "done"}]
    /\ iteration \in [Run -> 1..MaxIterations]
    /\ owner \in Run
    /\ eventLog \in [Run -> Nat] /\ emitted \in [Run -> Nat]
    /\ \A d \in Delegation :
          /\ task[d].pc \in {"none", "ask", "tool", "over"}
          /\ task[d].step \in 1..MaxSteps /\ task[d].calls \in 0..MaxSteps
    /\ crossed \subseteq Run /\ faults \in 0..MaxFaults

\* The trail of a run is its own and complete unless it overlapped with another
\* run of the same orchestrator, and no run's id is given to the trail of another.
TrailsNeedOverlap ==
    \A r \in Run \ crossed : pc[r] = "done" =>
        /\ trail[r].id = r
        /\ trail[r].events = [q \in Run |-> IF q = r THEN emitted[r] ELSE 0]

\* The tool calls a specialist reports are its own, all of them, unless it shared
\* its agent with another delegation.
RecordsNeedOverlap ==
    \A d \in Delegation :
        task[d].pc = "over" /\ ~task[d].shared /\ task[d].agent \in Remembers
            => task[d].seen = [Nobody EXCEPT ![d] = task[d].calls]

\* Every run ends.
RunsEnd == []<>(\A r \in Run : pc[r] \in {"idle", "done"})

-------------------------------------------------------------------------------
\* run_security_preflight: "Blocks deployment if CRITICAL or HIGH findings are
\* present."  Findings no report names leave the risk UNKNOWN, which is no issue.
CriticalFindingsBlock ==
    \A r \in Run : pc[r] = "ask" =>
        LET results == {task[<<r, s>>] : s \in Slot}
        IN  (\E t \in results : t.found) => Synthesise(results) = "BLOCKED"

\* "OrchestrationResult with the final answer and full audit trail": so it is only
\* without a second run.
TrailsAreFull == \A r \in Run : pc[r] = "done" => trail[r].events[r] = emitted[r]
===============================================================================
