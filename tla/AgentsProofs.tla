----------------------------- MODULE AgentsProofs -----------------------------
(***************************************************************************)
(* Proofs about the loops around a language model, part by part: the       *)
(* orchestrator, the execution agent (E), the agents that share a breaker  *)
(* (B), the validation agent (V) and the supervisor of the specialists     *)
(* (M); and from them the invariants of MCAgents, for any number of runs,  *)
(* invocations, executions, entities and specialists and for every bound.  *)
(***************************************************************************)
EXTENDS MCAgents, FiniteSetTheorems, TLAPS

-------------------------------------------------------------------------------
(* The orchestrator.                                                       *)

\* A run that goes on has no outcome, and the outcome of one that is done is what its
\* state still says; a run of high risk never gets beyond its first batch.
OutcomeInv ==
    /\ pc # "done" => final.status = "none" /\ final.decision = "none"
    /\ pc = "done" => final.status = Verdict.status /\ final.decision = Verdict.decision
    /\ risk \in HighRisk => iteration = 1

\* The results are indexed by what they are results of.
Shapes ==
    /\ out = [k \in DOMAIN Verdicts |-> out[k]]
    /\ batch \in Seq(Tools) /\ Len(batch) <= MaxBlocks

OrchInv == TypeOK /\ Shapes /\ OutcomeInv

\* The batches are the sequences of tools of at most MaxBlocks.
LEMMA BatchIsSequence ==
    ASSUME NEW b
    PROVE  b \in Batches \union {<<>>} <=> b \in Seq(Tools) /\ Len(b) <= MaxBlocks
<1>1. MaxBlocks \in Nat
  BY RunAssumption
<1>2. ASSUME b \in Seq(Tools), Len(b) <= MaxBlocks
      PROVE  b \in Batches \union {<<>>}
  <2>1. b \in [1..Len(b) -> Tools] /\ Len(b) \in 0..MaxBlocks
    BY <1>1, <1>2
  <2> QED
    BY <2>1 DEF Batches, BoundedSeq, SeqOf
<1>3. ASSUME b \in Batches
      PROVE  b \in Seq(Tools) /\ Len(b) <= MaxBlocks
  <2>1. PICK n \in 0..MaxBlocks : b \in [1..n -> Tools]
    BY <1>3 DEF Batches, BoundedSeq, SeqOf
  <2> QED
    BY <1>1, <2>1
<1>4. <<>> \in Seq(Tools) /\ Len(<<>>) <= MaxBlocks
  BY <1>1
<1> QED
  BY <1>2, <1>3, <1>4

\* What a verdict replaces is a result, and so is the lack of one.
LEMMA VerdictsAreOutputs ==
    /\ DOMAIN Verdicts = {"plan", "validation", "security", "execution", "debugging"}
    /\ \A k \in DOMAIN Verdicts : Verdicts[k] \subseteq Outputs[k] /\ "none" \in Outputs[k]
  BY DEF Verdicts, Outputs

\* A run begins with nothing done, nothing blocked and no outcome.
LEMMA OrchInit == Init => OrchInv
<1> SUFFICES ASSUME Init PROVE OrchInv
  OBVIOUS
<1>1. batch \in Seq(Tools) /\ Len(batch) <= MaxBlocks /\ iteration \in 1..MaxIterations
  BY RunAssumption DEF Init
<1>2. out = [k \in DOMAIN Verdicts |-> out[k]]
      /\ \A k \in DOMAIN Verdicts : {out[k], told[k]} \subseteq Outputs[k]
  BY VerdictsAreOutputs DEF Init
<1>3. TypeOK
  BY <1>1, <1>2, BatchIsSequence DEF Init, TypeOK
<1> QED
  BY <1>1, <1>2, <1>3 DEF Init, OrchInv, Shapes, OutcomeInv

\* No answer of the model, no result of a tool and no judgement of the gates breaks the
\* invariant; only the end of a run gives it an outcome, and from what it has at that time.
LEMMA OrchStep == OrchInv /\ [Next]_vars => OrchInv'
<1> SUFFICES ASSUME OrchInv, [Next]_vars PROVE OrchInv'
  OBVIOUS
<1> USE DEF OrchInv, TypeOK, Shapes, OutcomeInv
<1>1. ASSUME NEW tools \in Batches, Respond(tools) PROVE OrchInv'
  <2>1. tools \in Seq(Tools) /\ Len(tools) <= MaxBlocks
    BY BatchIsSequence
  <2>2. phase' \in {PhaseOf[t] : t \in DOMAIN PhaseOf} \union {"INITIALISED", "BLOCKED", "FAILED"}
    BY <1>1 DEF Respond
  <2>3. pc = "ask" /\ pc' = "tools" /\ batch' = tools /\ told' = out
        /\ UNCHANGED <<risk, iteration, out, failed, approved, loaded, final>>
    BY <1>1 DEF Respond
  <2> QED
    BY <2>1, <2>2, <2>3
<1>2. CASE EndTurn
  BY <1>2 DEF EndTurn
<1>3. CASE ApiError
  BY <1>3 DEF ApiError
<1>4. CASE Absorb
  <2>1. batch' \in Seq(Tools) /\ Len(batch') <= MaxBlocks
    BY <1>4, RunAssumption DEF Absorb
  <2>2. UNCHANGED <<risk, pc, iteration, phase, told, final>> /\ pc = "tools"
    BY <1>4 DEF Absorb
  <2>3. /\ out' = [k \in DOMAIN Verdicts |-> out'[k]]
        /\ \A k \in DOMAIN Verdicts : out'[k] \in Outputs[k]
        /\ {failed', approved', loaded'} \subseteq BOOLEAN
    <3> USE VerdictsAreOutputs
    <3>1. CASE Plan
      BY <3>1 DEF Plan
    <3>2. CASE Validate
      BY <3>2 DEF Validate
    <3>3. CASE Secure
      BY <3>3 DEF Secure
    <3>4. CASE ValidateAndSecure
      BY <3>4 DEF ValidateAndSecure
    <3>5. CASE Execute
      BY <3>5 DEF Execute
    <3>6. CASE Debug
      BY <3>6 DEF Debug
    <3>7. CASE Approve \/ CheckGates \/ Tell
      <4>1. UNCHANGED <<out, loaded>>
        BY <3>7 DEF Approve, CheckGates, Tell
      <4>2. failed' \in BOOLEAN
        BY <3>7 DEF Approve, CheckGates, Tell
      <4>3. approved' \in BOOLEAN
        BY <3>7, RunAssumption DEF Approve, CheckGates, Tell
      <4> QED
        BY <4>1, <4>2, <4>3
    <3> QED
      BY <1>4, <3>1, <3>2, <3>3, <3>4, <3>5, <3>6, <3>7 DEF Absorb, Outcome
  <2>4. TypeOK'
    BY <2>1, <2>2, <2>3, BatchIsSequence
  <2> QED
    BY <2>1, <2>2, <2>3, <2>4
<1>5. CASE Judge
  BY <1>5, RunAssumption DEF Judge, CanProceed
<1>6. CASE Finish
  <2>1. final'.status = Verdict.status /\ final'.decision = Verdict.decision
    BY <1>6 DEF Finish
  <2>2. UNCHANGED <<risk, iteration, batch, phase, out, told, failed, approved, loaded>>
        /\ pc' = "done"
    BY <1>6 DEF Finish
  <2>3. Verdict' = Verdict
    BY <2>2 DEF Verdict, CanProceed
  <2>4. Verdict.decision \in {"ALLOW", "WARN", "BLOCK"}
    BY DEF Verdict
  <2> QED
    BY <2>1, <2>2, <2>3, <2>4
<1>7. CASE UNCHANGED vars
  BY <1>7 DEF vars, Verdict, CanProceed
<1> QED
  BY <1>1, <1>2, <1>3, <1>4, <1>5, <1>6, <1>7 DEF Next, Step

\* What the outcome of a run says is what its gates and its execution said.
LEMMA OutcomeIsEarned ==
  OrchInv => TypeOK /\ CompletedWasUnblocked /\ HighRiskNeverCompletes /\ BlockDecidesTheRun
  BY DEF OrchInv, TypeOK, Shapes, OutcomeInv, CompletedWasUnblocked, HighRiskNeverCompletes,
         BlockDecidesTheRun, Verdict, CanProceed

-------------------------------------------------------------------------------
(* The execution agent.                                                    *)

\* The records of the invocations.
Raw == [E!Tools -> E!Answers \union {"none", "UNKNOWN", "CHECKPOINT_FAILED", "PAUSE_FAILED"}]

Invocation ==
    [pc : {"idle", "ask", "end", "done"} \union E!Tools, dry : BOOLEAN, barred : BOOLEAN,
     iteration : 1..MaxAgentIterations + 1, tries : 1..MaxRetries, raw : Raw, sent : BOOLEAN,
     status : {"none", "ALREADY_COMPLETED", "COMPLETED", "FAILED", "BLOCKED", "crashed"}]

\* An invocation in good shape: one that may still ask for a tool, or that waits for one, has
\* an iteration left.
Shaped(v) ==
    /\ v \in Invocation
    /\ v.pc \in {"idle", "ask"} \union E!Tools => v.iteration <= MaxAgentIterations
    /\ \A tool \in E!Tools : v.raw[tool] \in E!Answers \union {"none", E!GivesUp[tool]}

PlaneShaped ==
    /\ complete \in BOOLEAN /\ saved \in BOOLEAN /\ paused \in BOOLEAN
    /\ runs \in Nat /\ lost \in Nat /\ faults \in 0..MaxFaults

\* The order in which an obedient model asks for the tools: the check before all, execute
\* once and only after a check that did not find the step completed, a checkpoint after a
\* success and a pause after a failure.
InOrder(v) ==
    /\ v.pc \in {"idle", "check"} => v.raw.check = "none"
    /\ v.pc = "execute" => v.sent /\ v.raw.execute = "none"
    /\ v.sent => v.raw.check \notin {"none", "IDEMPOTENT_SKIP"}
    /\ v.sent /\ v.raw.execute = "none" => v.pc \in {"execute", "done"}
    /\ v.pc = "checkpoint" => v.raw.execute = "COMPLETED"
    /\ v.pc = "pause" => v.raw.execute = "FAILED"

\* What the results of an invocation say of a step that is completed or not.
Told(v, completed) ==
    /\ v.raw.check = "IDEMPOTENT_SKIP" => completed
    /\ v.raw.execute = "COMPLETED" /\ ~v.dry => completed
    /\ v.status = "COMPLETED" => v.raw.execute = "COMPLETED"
    /\ v.status = "ALREADY_COMPLETED" => v.raw.check = "IDEMPOTENT_SKIP"

\* The invocations that have requested the step, and those of them that are past it.
Senders   == {i \in Invocations : inv[i].sent}
Requested == {i \in Senders : inv[i].pc # "execute"}

\* The step is completed, saved or paused on account of an invocation, and it ran once for
\* each that is past its request, and once for each answer that got lost.
PlaneInv ==
    /\ complete => \E i \in Invocations : inv[i].sent
    /\ saved => \E i \in Invocations : inv[i].raw.execute = "COMPLETED"
    /\ paused => \E i \in Invocations : inv[i].raw.execute = "FAILED"
    /\ IsFiniteSet(Senders)
    /\ runs <= Cardinality(Requested) + lost

ExecInv ==
    /\ PlaneShaped
    /\ inv \in [Invocations -> Invocation]
    /\ \A i \in Invocations : Shaped(inv[i])
    /\ Obedient => PlaneInv /\ \A i \in Invocations : InOrder(inv[i]) /\ Told(inv[i], complete)

\* An invocation that becomes v, in order, without forgetting what it requested or was told.
Forward(i, v) ==
    /\ InOrder(v) /\ Told(v, complete')
    /\ inv[i].sent => v.sent
    /\ inv[i].raw.execute # "none" => v.raw.execute = inv[i].raw.execute
    /\ v.pc = "execute" /\ inv[i].pc # "execute" => ~inv[i].sent

\* What it may do to the control plane meanwhile.
Justified(i, v) ==
    /\ complete => complete'
    /\ complete' => complete \/ v.sent
    /\ saved' => saved \/ v.raw.execute = "COMPLETED"
    /\ paused' => paused \/ v.raw.execute = "FAILED"

\* A run more goes with an answer that got lost, or with an invocation that got it.
Counted(i, v) ==
    \/ runs' = runs /\ lost' \in {lost, lost + 1}
    \/ runs' = runs + 1 /\ lost' = lost + 1
    \/ runs' = runs + 1 /\ lost' = lost /\ inv[i].pc = "execute" /\ v.pc # "execute"

\* The runs stay explained when one more goes with one more invocation past its request, or
\* with one more answer that got lost.
LEMMA StillExplained ==
    ASSUME NEW S, NEW T, Cardinality(S) \in Nat, Cardinality(T) \in Nat,
           runs \in Nat, lost \in Nat, runs <= Cardinality(S) + lost,
           \/ runs' = runs /\ lost' \in {lost, lost + 1} /\ Cardinality(S) <= Cardinality(T)
           \/ runs' = runs + 1 /\ lost' = lost + 1 /\ Cardinality(S) <= Cardinality(T)
           \/ runs' = runs + 1 /\ lost' = lost /\ Cardinality(T) = Cardinality(S) + 1
    PROVE  runs' <= Cardinality(T) + lost'
<1>1. PICK n \in Nat, nn \in Nat : n = Cardinality(S) /\ nn = Cardinality(T)
  OBVIOUS
<1>2. PICK r \in Nat, l \in Nat : r = runs /\ l = lost
  OBVIOUS
<1>3. r <= n + l
  BY <1>1, <1>2
<1>4. /\ n <= nn => r <= nn + l /\ r <= nn + (l + 1) /\ r + 1 <= nn + (l + 1)
      /\ nn = n + 1 => r + 1 <= nn + l
  BY <1>3
<1> QED
  BY <1>1, <1>2, <1>4

\* The invariant is kept by whatever moves one invocation forward, is justified towards the
\* control plane and accounts for the runs.
LEMMA MoveKeeps ==
    ASSUME ExecInv, NEW i \in Invocations, NEW v, Shaped(v), inv' = [inv EXCEPT ![i] = v],
           PlaneShaped', Obedient => Forward(i, v) /\ Justified(i, v) /\ Counted(i, v)
    PROVE  ExecInv'
<1>1. inv' \in [Invocations -> Invocation] /\ \A j \in Invocations : Shaped(inv'[j])
  BY DEF ExecInv, Shaped
<1>2. ASSUME Obedient
      PROVE  \A j \in Invocations : InOrder(inv'[j]) /\ Told(inv'[j], complete')
  BY <1>2 DEF ExecInv, Forward, Justified, Told
<1>3. ASSUME Obedient PROVE PlaneInv'
  <2> USE <1>3 DEF ExecInv
  <2>1. inv'[i] = v /\ \A j \in Invocations \ {i} : inv'[j] = inv[j]
    OBVIOUS
  <2>2. Senders' = Senders \/ Senders' = Senders \union {i}
    BY <2>1 DEF Senders, Forward
  <2>3. IsFiniteSet(Senders) /\ IsFiniteSet(Senders')
    BY <2>2, FS_AddElement DEF PlaneInv
  <2>4. IsFiniteSet(Requested) /\ IsFiniteSet(Requested')
    <3>1. Requested \subseteq Senders /\ Requested' \subseteq Senders'
      BY DEF Requested
    <3> QED
      BY <2>3, <3>1, FS_Subset
  <2>5. Cardinality(Requested) \in Nat /\ Cardinality(Requested') \in Nat
    BY <2>4, FS_CardinalityType
  <2>6. Requested \subseteq Requested'
    BY <2>1 DEF Requested, Senders, Forward
  <2>7. Cardinality(Requested) <= Cardinality(Requested')
    BY <2>4, <2>6, FS_Subset
  <2>8. ASSUME inv[i].pc = "execute", v.pc # "execute"
        PROVE  Cardinality(Requested') = Cardinality(Requested) + 1
    <3>1. Requested' = Requested \union {i} /\ i \notin Requested
      BY <2>1, <2>8 DEF Requested, Senders, Forward, InOrder
    <3> QED
      BY <2>4, <3>1, FS_AddElement
  <2>9. runs' <= Cardinality(Requested') + lost'
    <3>1. runs <= Cardinality(Requested) + lost
      BY DEF PlaneInv
    <3>2. runs \in Nat /\ lost \in Nat
      BY DEF PlaneShaped
    <3>3. \/ runs' = runs /\ lost' \in {lost, lost + 1}
          \/ runs' = runs + 1 /\ lost' = lost + 1
          \/ /\ runs' = runs + 1 /\ lost' = lost
             /\ Cardinality(Requested') = Cardinality(Requested) + 1
      BY <2>8 DEF Counted
    <3> QED
      BY <2>5, <2>7, <3>1, <3>2, <3>3, StillExplained
  <2> QED
    BY <2>1, <2>3, <2>9 DEF PlaneInv, Forward, Justified, InOrder
<1> QED
  BY <1>1, <1>2, <1>3 DEF ExecInv

\* Before the first request nothing has run, and nobody has been told anything.
LEMMA ExecInit == E!AgentAssumption /\ E!Init => ExecInv
<1> SUFFICES ASSUME E!AgentAssumption, E!Init PROVE ExecInv
  OBVIOUS
<1>1. PlaneShaped
  <2>1. complete \in BOOLEAN /\ saved \in BOOLEAN /\ paused \in BOOLEAN
    BY Zenon DEF E!Init
  <2>2. runs \in Nat /\ lost \in Nat /\ faults \in 0..MaxFaults
    BY DEF E!AgentAssumption, E!Init
  <2> QED
    BY <2>1, <2>2 DEF PlaneShaped
<1>2. ASSUME NEW i \in Invocations
      PROVE  Shaped(inv[i]) /\ InOrder(inv[i]) /\ Told(inv[i], complete) /\ ~inv[i].sent
  <2>1. PICK d, b \in BOOLEAN :
           inv[i] = [pc |-> "idle", dry |-> d, barred |-> b, iteration |-> 1, tries |-> 1,
                     raw |-> E!NoResults, sent |-> FALSE, status |-> "none"]
    BY DEF E!Init
  <2>2. E!NoResults \in Raw /\ \A tool \in E!Tools : E!NoResults[tool] = "none"
    BY DEF E!NoResults, Raw
  <2>3. E!NoResults.check = "none" /\ E!NoResults.execute = "none"
    BY <2>2 DEF E!Tools
  <2>4. 1 \in 1..MaxAgentIterations + 1 /\ 1 \in 1..MaxRetries /\ 1 <= MaxAgentIterations
    BY DEF E!AgentAssumption
  <2>5. inv[i] \in Invocation
    BY <2>1, <2>2, <2>4 DEF Invocation
  <2> QED
    BY <2>1, <2>2, <2>3, <2>4, <2>5 DEF Shaped, InOrder, Told
<1>3. inv \in [Invocations -> Invocation]
  <2>1. inv = [i \in Invocations |-> inv[i]]
    BY DEF E!Init
  <2> QED
    BY <1>2, <2>1 DEF Shaped
<1>4. PlaneInv
  <2>1. Senders = {} /\ Requested = {}
    BY <1>2 DEF Senders, Requested
  <2> QED
    BY <2>1, FS_EmptySet DEF PlaneInv, E!Init
<1> QED
  BY <1>1, <1>2, <1>3, <1>4 DEF ExecInv

\* A tool answers, with a request or without one.
Answered(v, tool, answer) ==
    [v EXCEPT !.raw = [v.raw EXCEPT ![tool] = answer], !.iteration = v.iteration + 1,
              !.pc = IF v.iteration < MaxAgentIterations THEN "ask" ELSE "end"]

\* What a tool may return.
Possible(tool) == E!Answers \union {E!GivesUp[tool]}

\* An answer is recorded under its tool, and the invocation goes on.
LEMMA AnswersAreShaped ==
    ASSUME E!AgentAssumption, NEW v, Shaped(v), NEW tool \in E!Tools,
           v.pc \in {"ask"} \union E!Tools, NEW answer \in Possible(tool)
    PROVE  /\ Shaped(Answered(v, tool, answer))
           /\ Answered(v, tool, answer).raw = [v.raw EXCEPT ![tool] = answer]
           /\ \A t \in E!Tools : Answered(v, tool, answer).raw[t] =
                                      IF t = tool THEN answer ELSE v.raw[t]
           /\ Answered(v, tool, answer).pc \in {"ask", "end"}
           /\ Answered(v, tool, answer).sent = v.sent
           /\ Answered(v, tool, answer).dry = v.dry
           /\ Answered(v, tool, answer).status = v.status
<1> DEFINE w == Answered(v, tool, answer)
<1>1. v \in Invocation /\ v.raw \in Raw
  BY DEF Shaped, Invocation
<1>2. E!GivesUp[tool] \in {"UNKNOWN", "FAILED", "CHECKPOINT_FAILED", "PAUSE_FAILED"}
  BY DEF E!GivesUp, E!Tools
<1>3. [v.raw EXCEPT ![tool] = answer] \in Raw
  BY <1>1, <1>2 DEF Raw, E!Answers, Possible
<1>4. v.iteration <= MaxAgentIterations /\ v.iteration \in Nat /\ 1 <= v.iteration
      /\ MaxAgentIterations \in Nat
  BY <1>1 DEF Shaped, Invocation, E!AgentAssumption
<1>5. /\ w.raw = [v.raw EXCEPT ![tool] = answer]
      /\ w.iteration = v.iteration + 1
      /\ w.pc = IF v.iteration < MaxAgentIterations THEN "ask" ELSE "end"
      /\ w.sent = v.sent /\ w.dry = v.dry /\ w.status = v.status
  BY <1>1 DEF Answered, Invocation
<1>6. w \in Invocation
  <2>1. v.iteration + 1 \in 1..MaxAgentIterations + 1
    BY <1>4
  <2> QED
    BY <1>1, <1>3, <2>1 DEF Answered, Invocation
<1>7. \A t \in E!Tools : w.raw[t] = IF t = tool THEN answer ELSE v.raw[t]
  BY <1>1, <1>5 DEF Raw
<1>8. w.pc \in E!Tools \union {"ask", "idle"} => w.iteration <= MaxAgentIterations
  BY <1>4, <1>5 DEF E!Tools
<1>9. Shaped(w)
  BY <1>6, <1>7, <1>8 DEF Shaped, Possible
<1> QED
  BY <1>5, <1>7, <1>9

\* Local and Result answer for the tool of their invocation.
LEMMA AnswersReplace ==
    ASSUME ExecInv, NEW i \in Invocations, NEW tool, NEW answer
    PROVE  /\ E!Local(i, tool, answer) = [inv EXCEPT ![i] = Answered(inv[i], tool, answer)]
           /\ E!Result(i, answer) = [inv EXCEPT ![i] = Answered(inv[i], inv[i].pc, answer)]
  BY DEF ExecInv, E!Local, E!Result, Answered, Invocation, Raw

\* What the control plane does about a request, and what its answer says of it.
LEMMA ServiceSays ==
    ASSUME PlaneShaped, NEW tool \in E!Tools, NEW answer, E!Serve(tool, answer)
    PROVE  /\ complete' \in BOOLEAN /\ saved' \in BOOLEAN /\ paused' \in BOOLEAN /\ runs' \in Nat
           /\ complete => complete'
           /\ tool # "execute" => runs' = runs /\ complete' = complete
           /\ tool = "execute" => answer \in {"COMPLETED", "FAILED"}
           /\ tool = "execute" /\ answer = "COMPLETED" => complete' /\ runs' = runs + 1
           /\ tool = "execute" /\ answer = "FAILED" => complete' = complete /\ runs' = runs
           /\ tool = "check" => answer \in {"IDEMPOTENT_SKIP", "PROCEED"}
           /\ tool = "check" /\ answer = "IDEMPOTENT_SKIP" => complete
           /\ saved' => saved \/ tool = "checkpoint"
           /\ paused' => paused \/ tool = "pause"
<1>1. complete' \in BOOLEAN /\ saved' \in BOOLEAN /\ paused' \in BOOLEAN
  BY Zenon DEF PlaneShaped, E!Serve, E!plane, E!CheckStep, E!PhaseStatus, E!ExecuteStep,
               E!CreateCheckpoint, E!Pause
<1>2. runs' \in Nat
  BY DEF PlaneShaped, E!Serve, E!plane, E!CheckStep, E!PhaseStatus, E!ExecuteStep,
         E!CreateCheckpoint, E!Pause
<1>3. CASE tool = "check"
  BY <1>1, <1>2, <1>3 DEF E!Serve, E!plane, E!CheckStep
<1>4. CASE tool = "phase"
  BY <1>1, <1>2, <1>4 DEF E!Serve, E!plane, E!PhaseStatus
<1>5. CASE tool = "execute"
  BY <1>1, <1>2, <1>5 DEF E!Serve, E!plane, E!ExecuteStep
<1>6. CASE tool = "checkpoint"
  BY <1>1, <1>2, <1>6 DEF E!Serve, E!plane, E!CreateCheckpoint
<1>7. CASE tool = "pause"
  BY <1>1, <1>2, <1>7 DEF E!Serve, E!plane, E!Pause
<1> QED
  BY <1>3, <1>4, <1>5, <1>6, <1>7 DEF E!Tools

\* A step that leaves the plane alone, by a fault perhaps.
LEMMA QuietKeeps ==
    ASSUME ExecInv, NEW i \in Invocations, NEW v, Shaped(v), inv' = [inv EXCEPT ![i] = v],
           UNCHANGED <<complete, runs, saved, paused, lost>>, faults' \in 0..MaxFaults,
           Obedient => Forward(i, v)
    PROVE  ExecInv'
<1>1. PlaneShaped'
  BY DEF ExecInv, PlaneShaped
<1>2. Justified(i, v) /\ Counted(i, v)
  BY DEF Justified, Counted
<1> QED
  BY <1>1, <1>2, MoveKeeps

\* An invocation begins with the check, or is refused.
LEMMA BeginKeeps ==
    ASSUME ExecInv, NEW i \in Invocations, E!Begin(i)
    PROVE  ExecInv'
<1> DEFINE v == IF inv[i].barred THEN [inv[i] EXCEPT !.pc = "done", !.status = "BLOCKED"]
                ELSE [inv[i] EXCEPT !.pc = "ask"]
<1>1. inv' = [inv EXCEPT ![i] = v] /\ UNCHANGED <<complete, runs, saved, paused, lost, faults>>
  BY DEF E!Begin, E!plane, ExecInv, Invocation
<1>2. Shaped(v)
  BY ZenonT(60) DEF ExecInv, Shaped, Invocation, E!Begin, E!Is
<1>3. Obedient => Forward(i, v)
  BY <1>1 DEF ExecInv, Invocation, E!Begin, E!Is, Forward, InOrder, Told
<1> QED
  BY <1>1, <1>2, <1>3, QuietKeeps DEF ExecInv, PlaneShaped

\* An invocation ends with the status its results give it, or without any.
LEMMA EndsKeep ==
    ASSUME E!AgentAssumption, ExecInv, NEW i \in Invocations,
           E!EndTurn(i) \/ E!End(i) \/ E!ApiError(i) \/ E!Crash(i)
    PROVE  ExecInv'
<1>1. PICK label \in {"end", "done"},
           status \in {inv[i].status, "ALREADY_COMPLETED", "COMPLETED", "FAILED", "crashed"} :
        /\ inv' = [inv EXCEPT ![i] = [inv[i] EXCEPT !.pc = label, !.status = status]]
        /\ status = "COMPLETED" => inv[i].status = "COMPLETED" \/ inv[i].raw.execute = "COMPLETED"
        /\ status = "ALREADY_COMPLETED" =>
               inv[i].status = "ALREADY_COMPLETED" \/ inv[i].raw.check = "IDEMPOTENT_SKIP"
        /\ label = "end" => inv[i].pc = "ask"
  <2>1. inv[i] \in Invocation
    BY DEF ExecInv
  <2>2. CASE E!EndTurn(i)
    BY <2>1, <2>2 DEF ExecInv, E!EndTurn, E!Is, Invocation
  <2>3. CASE E!End(i)
    BY <2>1, <2>3 DEF ExecInv, E!End, E!Is, E!StepStatus, Invocation
  <2>4. CASE E!ApiError(i)
    BY <2>1, <2>4 DEF ExecInv, E!ApiError, Invocation
  <2>5. CASE E!Crash(i)
    BY <2>1, <2>5 DEF ExecInv, E!Crash, Invocation
  <2> QED
    BY <2>2, <2>3, <2>4, <2>5
<1> DEFINE v == [inv[i] EXCEPT !.pc = label, !.status = status]
<1>2. UNCHANGED <<complete, runs, saved, paused, lost>>
  BY DEF E!EndTurn, E!End, E!ApiError, E!Crash, E!plane
<1>3. faults' \in 0..MaxFaults
  BY DEF E!EndTurn, E!End, E!ApiError, E!Crash, E!Fault, ExecInv, PlaneShaped, E!AgentAssumption
<1>4. Shaped(v)
  BY ZenonT(60) DEF ExecInv, Shaped, Invocation, E!Tools
<1>5. Obedient => Forward(i, v)
  BY <1>1, <1>2 DEF ExecInv, Invocation, Forward, InOrder, Told
<1> QED
  BY <1>1, <1>2, <1>3, <1>4, <1>5, QuietKeeps

\* The model asks for the next tool of its workflow; a dry run is answered at once.
LEMMA AskKeeps ==
    ASSUME E!AgentAssumption, ExecInv, NEW i \in Invocations, NEW tool \in E!Tools,
           NEW dry \in BOOLEAN, E!Ask(i, tool, dry)
    PROVE  ExecInv'
<1> DEFINE v == [inv[i] EXCEPT !.pc = tool, !.tries = 1, !.sent = inv[i].sent \/ tool = "execute"]
<1>1. UNCHANGED <<complete, runs, saved, paused, lost, faults>> /\ inv[i].pc = "ask"
  BY DEF E!Ask, E!Is, E!plane
<1>2. inv[i] \in Invocation /\ Shaped(inv[i])
  BY DEF ExecInv
<1>3. CASE tool = "execute" /\ dry
  <2> DEFINE w == Answered(inv[i], tool, "COMPLETED")
  <2>1. inv' = [inv EXCEPT ![i] = w]
    BY <1>3, AnswersReplace DEF E!Ask
  <2>2. Shaped(w) /\ w.raw = [inv[i].raw EXCEPT ![tool] = "COMPLETED"]
        /\ w.pc \in {"ask", "end"} /\ w.sent = inv[i].sent /\ w.dry = inv[i].dry
        /\ w.status = inv[i].status
        /\ \A t \in E!Tools : w.raw[t] = IF t = tool THEN "COMPLETED" ELSE inv[i].raw[t]
    <3>1. "COMPLETED" \in Possible(tool)
      BY DEF E!Answers, Possible
    <3> QED
      BY <1>1, <1>2, <3>1, AnswersAreShaped
  <2>3. ASSUME Obedient PROVE Forward(i, w)
    <3>1. inv[i].dry /\ inv[i].raw.execute = "none"
          /\ inv[i].raw.check \notin {"none", "IDEMPOTENT_SKIP"}
      BY <1>3, <2>3 DEF E!Ask, E!Workflow
    <3>2. w.raw.execute = "COMPLETED" /\ w.raw.check = inv[i].raw.check
      BY <1>3, <2>2 DEF E!Tools
    <3>3. InOrder(inv[i]) /\ Told(inv[i], complete)
      BY <2>3 DEF ExecInv
    <3> QED
      BY <1>1, <2>2, <3>1, <3>2, <3>3 DEF Forward, InOrder, Told
  <2> QED
    BY <1>1, <2>1, <2>2, <2>3, QuietKeeps DEF ExecInv, PlaneShaped
<1>4. CASE ~(tool = "execute" /\ dry)
  <2>1. inv' = [inv EXCEPT ![i] = v]
    <3>1. inv' = E!Send(i, tool)
      BY <1>4 DEF E!Ask
    <3>2. E!Send(i, tool) = [inv EXCEPT ![i] = v]
      BY <1>2 DEF E!Send, ExecInv, Invocation
    <3> QED
      BY <3>1, <3>2
  <2>2. Shaped(v)
    <3>1. (inv[i].sent \/ tool = "execute") \in BOOLEAN /\ 1 \in 1..MaxRetries
      BY DEF E!AgentAssumption
    <3>2. v \in Invocation
      BY <1>2, <3>1 DEF Invocation
    <3>3. v.raw = inv[i].raw /\ v.iteration = inv[i].iteration
      BY <1>2 DEF Invocation
    <3> QED
      BY <1>1, <1>2, <3>2, <3>3 DEF Shaped
  <2>3. ASSUME Obedient PROVE Forward(i, v)
    <3>1. tool \in E!Workflow(inv[i].raw)
      BY <2>3 DEF E!Ask
    <3>2. InOrder(inv[i]) /\ Told(inv[i], complete)
      BY <2>3 DEF ExecInv
    <3>3. v.pc = tool /\ v.raw = inv[i].raw /\ v.dry = inv[i].dry /\ v.status = inv[i].status
          /\ v.sent = (inv[i].sent \/ tool = "execute")
      BY <1>2 DEF Invocation
    <3> QED
      BY <1>1, <3>1, <3>2, <3>3 DEF Forward, InOrder, Told, E!Workflow
  <2> QED
    BY <1>1, <2>1, <2>2, <2>3, QuietKeeps DEF ExecInv, PlaneShaped
<1> QED
  BY <1>3, <1>4

\* The same of the answer to a request.
LEMMA ResultIsShaped ==
    ASSUME E!AgentAssumption, NEW v, Shaped(v), v.pc \in E!Tools,
           NEW answer \in Possible(v.pc)
    PROVE  /\ Shaped(Answered(v, v.pc, answer))
           /\ \A t \in E!Tools : Answered(v, v.pc, answer).raw[t] =
                                      IF t = v.pc THEN answer ELSE v.raw[t]
           /\ Answered(v, v.pc, answer).pc \in {"ask", "end"}
           /\ Answered(v, v.pc, answer).sent = v.sent
           /\ Answered(v, v.pc, answer).dry = v.dry
           /\ Answered(v, v.pc, answer).status = v.status
<1> DEFINE w == Answered(v, v.pc, answer)
<1>1. v \in Invocation /\ v.raw \in Raw
  BY DEF Shaped, Invocation
<1>2. /\ w.raw = [v.raw EXCEPT ![v.pc] = answer]
      /\ w.pc = IF v.iteration < MaxAgentIterations THEN "ask" ELSE "end"
      /\ w.sent = v.sent /\ w.dry = v.dry /\ w.status = v.status
  BY <1>1 DEF Answered, Invocation
<1>3. \A t \in E!Tools : w.raw[t] = IF t = v.pc THEN answer ELSE v.raw[t]
  BY <1>1, <1>2 DEF Raw
<1>4. Shaped(w)
  <2> HIDE DEF w
  <2>1. PICK tool \in E!Tools : tool = v.pc
    OBVIOUS
  <2>2. Shaped(Answered(v, tool, answer))
    BY <2>1, AnswersAreShaped
  <2> QED
    BY <2>1, <2>2 DEF w
<1> QED
  BY <1>2, <1>3, <1>4

\* An obedient invocation that gets an answer, true of the plane as it is then, stays in order.
LEMMA AnswerIsForward ==
    ASSUME E!AgentAssumption, ExecInv, Obedient, NEW i \in Invocations, inv[i].pc \in E!Tools,
           NEW answer \in Possible(inv[i].pc),
           complete => complete',
           inv[i].pc = "check" /\ answer = "IDEMPOTENT_SKIP" => complete',
           inv[i].pc = "execute" /\ answer = "COMPLETED" => complete'
    PROVE  Forward(i, Answered(inv[i], inv[i].pc, answer))
<1> DEFINE w == Answered(inv[i], inv[i].pc, answer)
<1>1. Shaped(inv[i]) /\ InOrder(inv[i]) /\ Told(inv[i], complete)
  BY DEF ExecInv
<1>2. w.pc \in {"ask", "end"} /\ w.sent = inv[i].sent /\ w.dry = inv[i].dry
      /\ w.status = inv[i].status
      /\ \A t \in E!Tools : w.raw[t] = IF t = inv[i].pc THEN answer ELSE inv[i].raw[t]
  BY <1>1, ResultIsShaped, Zenon
<1>3. /\ w.raw.check = IF inv[i].pc = "check" THEN answer ELSE inv[i].raw.check
      /\ w.raw.execute = IF inv[i].pc = "execute" THEN answer ELSE inv[i].raw.execute
  BY <1>2 DEF E!Tools
<1>4. answer # "none" /\ inv[i].pc # "done"
  BY DEF E!Answers, E!GivesUp, E!Tools, Possible
<1>5. /\ inv[i].pc = "check" => answer \in E!Answers \union {"UNKNOWN"}
      /\ inv[i].pc = "execute" => answer # "none"
  BY <1>4 DEF E!GivesUp, Possible
<1>6. Told(w, complete')
  <2> HIDE DEF w
  <2> QED
    BY <1>1, <1>2, <1>3, <1>4 DEF Told, InOrder
<1>7. InOrder(w)
  <2> HIDE DEF w
  <2> QED
    BY <1>1, <1>2, <1>3, <1>4 DEF InOrder
<1> HIDE DEF w
<1>8. inv[i].raw.execute # "none" => w.raw.execute = inv[i].raw.execute
  BY <1>1, <1>3 DEF InOrder
<1>9. w.pc # "execute"
  BY <1>2
<1> QED
  BY <1>2, <1>6, <1>7, <1>8, <1>9, Zenon DEF Forward, w

\* A request that is answered, loses its answer or is not carried out: the step runs once
\* more only for an invocation that gets past its request, or for an answer that is lost.
LEMMA RequestKeeps ==
    ASSUME E!AgentAssumption, ExecInv, NEW i \in Invocations, E!Request(i)
    PROVE  ExecInv'
<1> DEFINE tool == inv[i].pc
           retry == [inv[i] EXCEPT !.tries = inv[i].tries + 1]
           w(answer) == Answered(inv[i], inv[i].pc, answer)
<1>1. tool \in E!Tools /\ Shaped(inv[i]) /\ inv[i] \in Invocation /\ PlaneShaped
  BY DEF E!Request, ExecInv
<1>2. ASSUME NEW answer \in Possible(tool)
      PROVE  /\ Shaped(w(answer)) /\ w(answer).pc \in {"ask", "end"}
             /\ w(answer).sent = inv[i].sent
             /\ E!Result(i, answer) = [inv EXCEPT ![i] = w(answer)]
  BY <1>1, <1>2, ResultIsShaped, AnswersReplace, Zenon
<1>3. E!GivesUp[tool] \in Possible(tool)
  BY DEF Possible
<1>4. E!Failed(i) = IF inv[i].tries < MaxRetries THEN [inv EXCEPT ![i] = retry]
                    ELSE [inv EXCEPT ![i] = w(E!GivesUp[tool])]
  <2>1. [inv EXCEPT ![i].tries = inv[i].tries + 1] = [inv EXCEPT ![i] = retry]
    BY DEF ExecInv, Invocation
  <2>2. E!Result(i, E!GivesUp[tool]) = [inv EXCEPT ![i] = w(E!GivesUp[tool])]
    BY <1>2, <1>3
  <2> QED
    BY <2>1, <2>2 DEF E!Failed
<1>5. PICK v : /\ inv' = [inv EXCEPT ![i] = v]
               /\ \/ /\ \E answer \in E!Answers : v = w(answer) /\ E!Serve(tool, answer)
                     /\ UNCHANGED <<lost, faults>>
                  \/ /\ v = w(E!GivesUp[tool]) \/ (v = retry /\ inv[i].tries < MaxRetries)
                     /\ E!Fault
                     /\ \/ lost' = lost + 1 /\ \E answer \in E!Answers : E!Serve(tool, answer)
                        \/ UNCHANGED <<E!plane, lost>>
  <2>1. CASE \E answer \in E!Answers : /\ E!Serve(tool, answer) /\ inv' = E!Result(i, answer)
                                       /\ UNCHANGED <<lost, faults>>
    BY <1>2, <2>1 DEF Possible
  <2>2. ASSUME inv' \in {E!Failed(i), E!Result(i, E!GivesUp[tool])}
        PROVE  \E v : /\ inv' = [inv EXCEPT ![i] = v]
                      /\ v = w(E!GivesUp[tool]) \/ (v = retry /\ inv[i].tries < MaxRetries)
    <3>1. \/ inv' = [inv EXCEPT ![i] = retry] /\ inv[i].tries < MaxRetries
          \/ inv' = [inv EXCEPT ![i] = w(E!GivesUp[tool])]
      BY <1>2, <1>3, <1>4, <2>2
    <3>2. CASE inv' = [inv EXCEPT ![i] = retry] /\ inv[i].tries < MaxRetries
      <4> WITNESS retry
      <4> QED
        BY <3>2
    <3>3. CASE inv' = [inv EXCEPT ![i] = w(E!GivesUp[tool])]
      <4> WITNESS w(E!GivesUp[tool])
      <4> QED
        BY <3>3
    <3> QED
      BY <3>1, <3>2, <3>3
  <2> QED
    BY <2>1, <2>2 DEF E!Request
<1>6. Shaped(v) /\ v.sent = inv[i].sent /\ v.pc \in {tool, "ask", "end"}
  <2>1. CASE v = retry /\ inv[i].tries < MaxRetries
    <3>1. inv[i].tries + 1 \in 1..MaxRetries
      BY <1>1, <2>1 DEF Invocation, E!AgentAssumption
    <3>2. v \in Invocation /\ v.pc = inv[i].pc /\ v.iteration = inv[i].iteration
          /\ v.raw = inv[i].raw /\ v.sent = inv[i].sent
      BY <1>1, <2>1, <3>1 DEF Invocation
    <3> QED
      BY <1>1, <3>2 DEF Shaped
  <2> QED
    BY <1>2, <1>3, <1>5, <2>1 DEF Possible
<1>7. PlaneShaped'
  <2>1. faults' \in 0..MaxFaults /\ lost' \in Nat
    BY <1>1, <1>5 DEF E!Fault, PlaneShaped, E!AgentAssumption
  <2>2. complete' \in BOOLEAN /\ saved' \in BOOLEAN /\ paused' \in BOOLEAN /\ runs' \in Nat
    <3>1. CASE UNCHANGED E!plane
      BY <1>1, <3>1 DEF PlaneShaped, E!plane
    <3> QED
      BY <1>1, <1>5, <3>1, ServiceSays
  <2> QED
    BY <2>1, <2>2 DEF PlaneShaped
<1>8. ASSUME Obedient PROVE Forward(i, v) /\ Justified(i, v) /\ Counted(i, v)
  <2>1. InOrder(inv[i]) /\ Told(inv[i], complete)
    BY <1>8 DEF ExecInv
  <2>2. complete => complete'
    BY <1>1, <1>5, ServiceSays DEF E!plane
  <2>3. Forward(i, v)
    <3>1. CASE v = retry
      <4>1. v.pc = inv[i].pc /\ v.raw = inv[i].raw /\ v.sent = inv[i].sent
            /\ v.dry = inv[i].dry /\ v.status = inv[i].status
        BY <1>1, <3>1 DEF Invocation
      <4> QED
        BY <2>1, <2>2, <4>1 DEF Forward, InOrder, Told
    <3>2. CASE v = w(E!GivesUp[tool])
      <4>1. /\ inv[i].pc = "check" => E!GivesUp[tool] # "IDEMPOTENT_SKIP"
            /\ inv[i].pc = "execute" => E!GivesUp[tool] # "COMPLETED"
        BY DEF E!GivesUp
      <4> QED
        BY <1>1, <1>3, <1>8, <2>2, <3>2, <4>1, AnswerIsForward
    <3>3. ASSUME NEW answer \in E!Answers, v = w(answer), E!Serve(tool, answer)
          PROVE  Forward(i, v)
      <4>1. /\ inv[i].pc = "check" /\ answer = "IDEMPOTENT_SKIP" => complete'
            /\ inv[i].pc = "execute" /\ answer = "COMPLETED" => complete'
        BY <1>1, <3>3, ServiceSays
      <4>2. answer \in Possible(inv[i].pc)
        BY DEF Possible
      <4> QED
        BY <1>1, <1>8, <2>2, <3>3, <4>1, <4>2, AnswerIsForward
    <3> QED
      BY <1>5, <3>1, <3>2, <3>3
  <2>4. ASSUME UNCHANGED <<E!plane, lost>> PROVE Justified(i, v) /\ Counted(i, v)
    BY <2>4 DEF Justified, Counted, E!plane
  <2>5. ASSUME NEW answer \in E!Answers, E!Serve(tool, answer),
               lost' = lost + 1 \/ (lost' = lost /\ v.pc \in {"ask", "end"})
        PROVE  Justified(i, v) /\ Counted(i, v)
    <3>1. complete' => complete \/ v.sent
      BY <1>1, <1>6, <2>1, <2>5, ServiceSays DEF InOrder
    <3>2. /\ saved' => saved \/ v.raw.execute = "COMPLETED"
          /\ paused' => paused \/ v.raw.execute = "FAILED"
      <4>1. /\ saved' => saved \/ tool = "checkpoint"
            /\ paused' => paused \/ tool = "pause"
        BY <1>1, <2>5, ServiceSays
      <4>2. /\ tool = "checkpoint" => v.raw.execute = "COMPLETED"
            /\ tool = "pause" => v.raw.execute = "FAILED"
        BY <2>1, <2>3 DEF InOrder, Forward
      <4> QED
        BY <4>1, <4>2
    <3>3. runs' = runs \/ (runs' = runs + 1 /\ tool = "execute")
      BY <1>1, <2>5, ServiceSays
    <3>4. Counted(i, v)
      BY <2>5, <3>3 DEF Counted
    <3>5. Justified(i, v)
      BY <2>2, <3>1, <3>2, Zenon DEF Justified
    <3> QED
      BY <3>4, <3>5
  <2>6. CASE UNCHANGED <<E!plane, lost>>
    BY <2>3, <2>4, <2>6
  <2>7. ASSUME NEW answer \in E!Answers, v = w(answer), E!Serve(tool, answer),
               UNCHANGED <<lost, faults>>
        PROVE  Justified(i, v) /\ Counted(i, v)
    <3>1. v.pc \in {"ask", "end"}
      <4>1. answer \in Possible(tool)
        BY DEF Possible
      <4> QED
        BY <1>2, <2>7, <4>1
    <3> QED
      BY <2>5, <2>7, <3>1
  <2>8. ASSUME NEW answer \in E!Answers, E!Serve(tool, answer), lost' = lost + 1
        PROVE  Justified(i, v) /\ Counted(i, v)
    BY <2>5, <2>8
  <2> QED
    BY <1>5, <2>3, <2>6, <2>7, <2>8
<1> QED
  BY <1>5, <1>6, <1>7, <1>8, MoveKeeps

\* A pause that names no operator is refused by the tool itself.
LEMMA PauseUnauthorisedKeeps ==
    ASSUME E!AgentAssumption, ExecInv, NEW i \in Invocations, E!PauseUnauthorised(i)
    PROVE  ExecInv'
<1> DEFINE w == Answered(inv[i], "pause", "REJECTED")
<1>1. UNCHANGED <<complete, runs, saved, paused, lost, faults>> /\ inv[i].pc = "ask"
  BY DEF E!PauseUnauthorised, E!Is, E!plane
<1>2. inv[i] \in Invocation /\ Shaped(inv[i])
  BY DEF ExecInv
<1>3. inv' = [inv EXCEPT ![i] = w]
  BY AnswersReplace DEF E!PauseUnauthorised
<1>4. /\ Shaped(w) /\ w.pc \in {"ask", "end"} /\ w.sent = inv[i].sent
      /\ w.dry = inv[i].dry /\ w.status = inv[i].status
      /\ \A t \in E!Tools : w.raw[t] = IF t = "pause" THEN "REJECTED" ELSE inv[i].raw[t]
  <2>1. "REJECTED" \in Possible("pause") /\ "pause" \in E!Tools
    BY DEF E!Answers, Possible, E!Tools
  <2>2. PICK tool \in E!Tools : tool = "pause"
    BY <2>1
  <2>3. "REJECTED" \in Possible(tool)
    BY <2>1, <2>2
  <2>4. inv[i].pc \in {"ask"} \union E!Tools
    BY <1>1
  <2>5. w = Answered(inv[i], tool, "REJECTED")
    BY <2>2
  <2>6. Shaped(w)
    <3>1. Shaped(Answered(inv[i], tool, "REJECTED"))
      BY <1>1, <1>2, <2>3, AnswersAreShaped
    <3> QED
      BY <2>5, <3>1
  <2>7. /\ w.pc \in {"ask", "end"}
        /\ w.raw = [inv[i].raw EXCEPT !["pause"] = "REJECTED"]
        /\ w.sent = inv[i].sent /\ w.dry = inv[i].dry /\ w.status = inv[i].status
    BY <1>2 DEF Answered, Invocation
  <2>8. \A t \in E!Tools : w.raw[t] = IF t = "pause" THEN "REJECTED" ELSE inv[i].raw[t]
    BY <1>2, <2>7 DEF Invocation, Raw
  <2> QED
    BY <2>6, <2>7, <2>8
<1>5. w.raw.check = inv[i].raw.check /\ w.raw.execute = inv[i].raw.execute
  BY <1>4 DEF E!Tools
<1>6. ASSUME Obedient PROVE Forward(i, w)
  <2>1. InOrder(inv[i]) /\ Told(inv[i], complete)
    BY <1>6 DEF ExecInv
  <2> HIDE DEF w
  <2> QED
    BY <1>1, <1>4, <1>5, <2>1 DEF Forward, InOrder, Told
<1> QED
  BY <1>1, <1>3, <1>4, <1>6, QuietKeeps DEF ExecInv, PlaneShaped

\* Every step of the invocations keeps the invariant.
LEMMA ExecStep ==
    ASSUME E!AgentAssumption, ExecInv, [E!Next]_(E!vars)
    PROVE  ExecInv'
<1>1. CASE UNCHANGED E!vars
  BY <1>1 DEF E!vars, E!plane, ExecInv, PlaneShaped, PlaneInv, Senders, Requested, Shaped,
              InOrder, Told
<1>2. ASSUME NEW i \in Invocations, E!Step(i) \/ E!Crash(i)
      PROVE  ExecInv'
  <2>1. CASE \E tool \in E!Tools, dry \in BOOLEAN : E!Ask(i, tool, dry)
    BY <2>1, AskKeeps
  <2> QED
    BY <1>2, <2>1, BeginKeeps, PauseUnauthorisedKeeps, EndsKeep, RequestKeeps DEF E!Step
<1> QED
  BY <1>1, <1>2 DEF E!Next

\* The invariant gives the type of the variables.
LEMMA ExecTyped == E!AgentAssumption /\ ExecInv => E!TypeOK
<1> SUFFICES ASSUME E!AgentAssumption, ExecInv PROVE E!TypeOK
  OBVIOUS
<1>1. ASSUME NEW i \in Invocations
      PROVE  /\ inv[i].pc \in {"idle", "ask", "end", "done"} \union E!Tools
             /\ inv[i].iteration \in 1..MaxAgentIterations + 1
             /\ inv[i].tries \in 1..MaxRetries
             /\ {inv[i].dry, inv[i].barred, inv[i].sent} \subseteq BOOLEAN
             /\ \A tool \in E!Tools :
                   inv[i].raw[tool] \in E!Answers \union {"none", E!GivesUp[tool]}
             /\ inv[i].status \in {"none", "ALREADY_COMPLETED", "COMPLETED", "FAILED", "BLOCKED",
                                   "crashed"}
  BY DEF ExecInv, Shaped, Invocation
<1> QED
  BY <1>1 DEF E!TypeOK, ExecInv, PlaneShaped

\* Both names of the cardinality are one.
LEMMA SameCount == ASSUME NEW S PROVE E!Cardinality(S) = Cardinality(S)
BY DEF E!Cardinality, Cardinality

\* What an obedient invocation reports is what became of the step.
LEMMA ReportsAreHonest ==
    ASSUME ExecInv, Obedient
    PROVE  /\ E!CompletedWasRun /\ E!SkippedWasCompleted /\ E!SavedAfterRun
           /\ E!RunsExplained /\ E!PausedAfterFailure
<1>1. PlaneInv /\ \A i \in Invocations : InOrder(inv[i]) /\ Told(inv[i], complete)
  BY DEF ExecInv
<1>2. E!CompletedWasRun
  BY <1>1 DEF E!CompletedWasRun, Told
<1>3. E!SkippedWasCompleted
  BY <1>1 DEF E!SkippedWasCompleted, Told, InOrder, PlaneInv
<1>4. E!SavedAfterRun
  BY <1>1 DEF E!SavedAfterRun, PlaneInv, Told
<1>5. E!RunsExplained
  <2>1. IsFiniteSet(Senders) /\ Requested \subseteq Senders
    BY <1>1 DEF PlaneInv, Requested
  <2>2. /\ Cardinality(Requested) \in Nat /\ Cardinality(Senders) \in Nat
        /\ Cardinality(Requested) <= Cardinality(Senders)
    BY <2>1, FS_Subset, FS_CardinalityType
  <2>3. PICK n, nn, r, l \in Nat :
           n = Cardinality(Requested) /\ nn = Cardinality(Senders) /\ r = runs /\ l = lost
    BY <2>2 DEF ExecInv, PlaneShaped
  <2>4. r <= n + l
    BY <1>1, <2>3 DEF PlaneInv
  <2>5. r <= nn + l
    BY <2>2, <2>3, <2>4
  <2>6. runs <= Cardinality(Senders) + lost
    BY <2>3, <2>5
  <2>7. Senders = {i \in Invocations : inv[i].sent}
    BY DEF Senders
  <2> QED
    BY <2>6, <2>7, SameCount DEF E!RunsExplained
<1>6. E!PausedAfterFailure
  BY <1>1 DEF E!PausedAfterFailure, PlaneInv
<1> QED
  BY <1>2, <1>3, <1>4, <1>5, <1>6

-------------------------------------------------------------------------------
(* The breaker of an agent.                                                *)

BreakerInv == B!TypeOK /\ B!ClosedBelowThreshold

\* The bounds are positive numbers.
LEMMA BreakerBounds ==
    ASSUME B!BreakerAssumption
    PROVE  Threshold \in Nat /\ MaxLoopIterations \in Nat /\ MaxLoops \in Nat
           /\ 1 <= Threshold /\ 1 <= MaxLoopIterations
  BY DEF B!BreakerAssumption

\* A new agent has counted nothing.
LEMMA BreakerInit ==
    ASSUME B!BreakerAssumption, B!Init
    PROVE  BreakerInv
<1>1. B!ClosedBelowThreshold
  BY BreakerBounds DEF B!Init, B!ClosedBelowThreshold
<1>2. elapsed \in BOOLEAN
  BY Zenon DEF B!Init
<1> QED
  BY <1>1, <1>2, BreakerBounds DEF B!Init, B!TypeOK, BreakerInv

\* What a failure makes of the breaker: it is open if it was, for the count of one that is
\* not closed is at the threshold already.
LEMMA FailureCounts ==
    ASSUME B!BreakerAssumption, BreakerInv, B!RecordFailure
    PROVE  /\ state' \in {"closed", "open", "half_open"}
           /\ failures' \in Nat /\ elapsed' \in BOOLEAN
           /\ B!ClosedBelowThreshold'
<1>1. elapsed' \in BOOLEAN
  BY Zenon DEF B!RecordFailure
<1>2. failures' = failures + 1 /\ failures \in Nat
  BY DEF B!RecordFailure, B!TypeOK, BreakerInv
<1>3. state' = IF failures + 1 >= Threshold THEN "open" ELSE state
  BY DEF B!RecordFailure
<1>4. state \in {"closed", "open", "half_open"}
  BY DEF B!TypeOK, BreakerInv
<1> QED
  BY <1>1, <1>2, <1>3, <1>4, BreakerBounds DEF B!ClosedBelowThreshold, BreakerInv

\* One step of an execution, or of the clock, keeps both; the breaker is half open or
\* open only after as many failures as the threshold.
LEMMA BreakerStep ==
    ASSUME B!BreakerAssumption, BreakerInv, [B!Next]_(B!vars)
    PROVE  BreakerInv'
<1> USE BreakerBounds DEF B!TypeOK, B!ClosedBelowThreshold, BreakerInv
<1>1. ASSUME NEW e \in Execution, B!Start(e)
      PROVE  BreakerInv'
  BY <1>1 DEF B!Start
<1>2. ASSUME NEW e \in Execution, B!Finish(e)
      PROVE  BreakerInv'
  BY <1>2 DEF B!Finish, B!RecordSuccess, B!Leave
<1>3. ASSUME NEW e \in Execution, B!ApiFails(e)
      PROVE  BreakerInv'
  BY <1>3, FailureCounts DEF B!ApiFails, B!Leave
<1>4. ASSUME NEW e \in Execution, B!UseTools(e)
      PROVE  BreakerInv'
  <2>1. CASE /\ turn[e] < MaxLoopIterations /\ turn' = [turn EXCEPT ![e] = @ + 1]
             /\ UNCHANGED <<state, failures, elapsed, at, rounds, outcome>>
    <3>1. turn[e] + 1 \in 1 .. MaxLoopIterations
      BY <2>1
    <3> QED
      BY <2>1, <3>1
  <2>2. CASE B!RecordFailure /\ B!Leave(e, "raised")
    BY <2>2, FailureCounts DEF B!Leave
  <2> QED
    BY <1>4, <2>1, <2>2 DEF B!UseTools
<1>5. CASE B!TimePasses
  BY <1>5 DEF B!TimePasses
<1>6. CASE UNCHANGED B!vars
  BY <1>6 DEF B!vars
<1> QED
  BY <1>1, <1>2, <1>3, <1>4, <1>5, <1>6 DEF B!Next, B!Step, B!Idle

-------------------------------------------------------------------------------
(* The gates of a validation.                                              *)

CheckStatus == {"PASSED", "WARNING", "FAILED", "SKIPPED"}

KeptShape ==
    [V!Tool -> [entity : Entity \union {"all", "none"}, status : CheckStatus]]

\* A result that was kept is the answer to the check it names, and what the data says,
\* unless it says FAILED.
KeptIsTrue ==
    \A t \in V!Tool : kept[t].status # "FAILED" =>
        /\ <<t, kept[t].entity>> \in V!Check
        /\ <<t, kept[t].entity>> \in answered
        /\ truth[<<t, kept[t].entity>>] = kept[t].status

GateInv ==
    /\ V!TypeOK
    /\ truth \in [V!Check -> CheckStatus]
    /\ kept \in KeptShape
    /\ KeptIsTrue
    /\ stage # "returned" => overall = "FAILED"
    /\ V!PassIsProven

\* Every tool asks of an entity, or of all of them.
LEMMA ChecksAreOfTools ==
    /\ V!Check \subseteq V!Tool \X (Entity \union {"all"})
    /\ V!PerEntity \intersect V!Single = {}
    /\ \A c \in V!Check : c = <<c[1], c[2]>> /\ (c[1] \in V!Single => c[2] = "all")
  BY DEF V!Check, V!Tool, V!PerEntity, V!Single

\* There are finitely many checks.
LEMMA ChecksAreFinite ==
    ASSUME V!GateAssumption
    PROVE  IsFiniteSet(V!Check)
<1>1. IsFiniteSet(Entity)
  <2>1. V!IsFiniteSet(Entity)
    BY DEF V!GateAssumption
  <2> QED
    BY <2>1 DEF V!IsFiniteSet, IsFiniteSet
<1>2. IsFiniteSet(V!PerEntity)
  <2>1. V!PerEntity = {} \union {"check_source_record_count"}
                         \union {"check_required_fields_populated"}
    BY DEF V!PerEntity
  <2> QED
    BY <2>1, FS_EmptySet, FS_AddElement
<1>3. IsFiniteSet(V!Single)
  <2>1. V!Single = {} \union {"check_referential_integrity"} \union {"check_phone_format_validity"}
              \union {"check_transformation_rejection_rate"}
              \union {"sample_loaded_salesforce_records"}
    BY DEF V!Single
  <2> QED
    BY <2>1, FS_EmptySet, FS_AddElement
<1>4. IsFiniteSet({"all"})
  BY FS_EmptySet, FS_AddElement
<1>5. IsFiniteSet(V!PerEntity \X Entity) /\ IsFiniteSet(V!Single \X {"all"})
  BY <1>1, <1>2, <1>3, <1>4, FS_Product
<1> QED
  BY <1>5, FS_Union DEF V!Check

\* What PassIsProven says of a result.
Proven(result) ==
    result # "FAILED" =>
        /\ V!Required \subseteq answered /\ \A c \in V!Required : truth[c] # "FAILED"
        /\ result = "PASSED" => \A c \in V!Required : truth[c] \in {"PASSED", "SKIPPED"}

\* The gates that are built from true results prove what they say.
LEMMA GatesProve ==
    ASSUME truth \in [V!Check -> CheckStatus], kept \in KeptShape, KeptIsTrue,
           entities \subseteq Entity, skip \in BOOLEAN
    PROVE  Proven(V!Overall) /\ V!Overall \in {"FAILED", "PASSED", "PASSED_WITH_WARNINGS"}
<1> DEFINE worst == V!Worst({V!Gate1, V!Gate2, V!Gate3})
           Sample == "sample_loaded_salesforce_records"
<1>1. /\ V!Overall = IF worst = "WARNING" THEN "PASSED_WITH_WARNINGS" ELSE worst
      /\ worst \in {"FAILED", "WARNING", "PASSED"}
      /\ worst # "FAILED" => "FAILED" \notin {V!Gate1, V!Gate2, V!Gate3}
      /\ worst = "PASSED" => "WARNING" \notin {V!Gate1, V!Gate2, V!Gate3}
  BY DEF V!Overall, V!Worst
<1>2. SUFFICES ASSUME worst # "FAILED", NEW c \in V!Required
               PROVE  /\ c \in answered /\ truth[c] # "FAILED"
                      /\ worst = "PASSED" => truth[c] \in {"PASSED", "SKIPPED"}
  BY <1>1 DEF Proven
<1> HIDE DEF worst
<1>3. c \in V!Check /\ c = <<c[1], c[2]>> /\ c[1] \in V!Tool /\ truth[c] \in CheckStatus
  BY ChecksAreOfTools DEF V!Required
<1>4. CASE c[1] \in V!PerEntity
  <2>1. c[2] \in entities
    BY <1>4 DEF V!Required
  <2>2. V!ResultFor(c[1], c[2]) = "PASSED"
    BY <1>1, <1>2, <1>4, <2>1 DEF V!Gate1
  <2>3. kept[c[1]].entity = c[2] /\ kept[c[1]].status = "PASSED"
    BY <2>2 DEF V!ResultFor
  <2>4. <<c[1], kept[c[1]].entity>> = c
    BY <1>3, <2>3
  <2> QED
    BY <1>3, <2>3, <2>4 DEF KeptIsTrue
<1>5. ASSUME c[1] \in V!Single, kept[c[1]].status # "FAILED"
      PROVE  c \in answered /\ truth[c] = kept[c[1]].status
  <2>1. /\ <<c[1], kept[c[1]].entity>> \in V!Check
        /\ <<c[1], kept[c[1]].entity>> \in answered
        /\ truth[<<c[1], kept[c[1]].entity>>] = kept[c[1]].status
    BY <1>3, <1>5 DEF KeptIsTrue
  <2>2. kept[c[1]].entity = "all"
    BY <1>5, <2>1, ChecksAreOfTools
  <2>3. <<c[1], kept[c[1]].entity>> = c
    BY <1>3, <1>5, <2>2, ChecksAreOfTools
  <2> QED
    BY <2>1, <2>3
<1>6. CASE c[1] \in V!Single \ {Sample}
  <2>1. kept[c[1]].status \in {kept[t].status : t \in V!Single \ {Sample}}
    BY <1>6
  <2>2. kept[c[1]].status # "FAILED"
    BY <1>1, <1>2, <2>1 DEF V!Gate2, V!Worst
  <2>3. worst = "PASSED" => kept[c[1]].status # "WARNING"
    BY <1>1, <1>2, <2>1 DEF V!Gate2, V!Worst
  <2> QED
    BY <1>3, <1>5, <1>6, <2>2, <2>3 DEF CheckStatus
<1>7. CASE c[1] = Sample
  <2>1. ~skip
    BY <1>7 DEF V!Required
  <2>2. V!Gate3 = kept[c[1]].status
    BY <1>7, <2>1 DEF V!Gate3
  <2>3. c[1] \in V!Single
    BY <1>7 DEF V!Single
  <2> QED
    BY <1>1, <1>2, <1>3, <1>5, <2>2, <2>3 DEF CheckStatus
<1> QED
  BY <1>3, <1>4, <1>6, <1>7 DEF V!Tool

\* A tool's result is kept, true or FAILED, and the invariant with it.
LEMMA ResultsStayTrue ==
    ASSUME GateInv, NEW t \in V!Tool, NEW rec \in [entity : Entity \union {"all", "none"},
                                                   status : CheckStatus],
           kept' = [kept EXCEPT ![t] = rec],
           UNCHANGED <<entities, skip, truth, stage, attempt, overall>>,
           answered' \subseteq V!Check, trouble' \in 0..MaxTrouble,
           stage = "tools",
           \A c \in answered : c[1] # t => c \in answered',
           rec.status # "FAILED" =>
               <<t, rec.entity>> \in V!Check \intersect answered'
               /\ truth[<<t, rec.entity>>] = rec.status
    PROVE  GateInv'
<1>1. kept' \in KeptShape
  BY DEF GateInv, KeptShape
<1>2. KeptIsTrue'
  BY DEF GateInv, KeptShape, KeptIsTrue
<1>3. V!TypeOK'
  BY <1>1 DEF GateInv, V!TypeOK, KeptShape
<1>4. V!PassIsProven'
  BY DEF GateInv, V!PassIsProven
<1> QED
  BY <1>1, <1>2, <1>3, <1>4 DEF GateInv

\* Before the first call nothing is kept that says more than FAILED.
LEMMA GateInit ==
    ASSUME V!GateAssumption, V!Init
    PROVE  GateInv
<1>1. truth \in [V!Check -> CheckStatus]
  BY DEF V!Init, CheckStatus
<1>2. kept \in KeptShape /\ \A t \in V!Tool : kept[t].status = "FAILED"
  BY DEF V!Init, KeptShape, V!Absent, CheckStatus
<1>3. trouble \in 0..MaxTrouble
  <2>1. PICK bad \in SUBSET V!Check :
           V!Cardinality(bad) <= MaxTrouble /\ trouble = V!Cardinality(bad)
    BY DEF V!Init
  <2>2. V!Cardinality(bad) = Cardinality(bad)
    BY DEF V!Cardinality, Cardinality
  <2>3. IsFiniteSet(bad)
    BY ChecksAreFinite, FS_Subset
  <2>4. Cardinality(bad) \in Nat
    BY <2>3, FS_CardinalityType
  <2>5. PICK n \in Nat : n = Cardinality(bad)
    BY <2>4
  <2>6. trouble = n /\ n <= MaxTrouble
    BY <2>1, <2>2, <2>5
  <2> QED
    BY <2>6 DEF V!GateAssumption
<1>4. V!TypeOK
  <2>1. skip \in BOOLEAN
    BY Zenon DEF V!Init
  <2> QED
    BY <1>2, <1>3, <2>1 DEF V!Init, V!TypeOK, V!GateAssumption, KeptShape
<1> QED
  BY <1>1, <1>2, <1>4 DEF GateInv, KeptIsTrue, V!Init, V!PassIsProven

\* Calls, calls in vain and calls with wrong arguments leave only true results, and the
\* gates are built from those.
LEMMA GateStep ==
    ASSUME V!GateAssumption, GateInv, [V!Next]_(V!vars)
    PROVE  GateInv'
<1>0. V!TypeOK /\ truth \in [V!Check -> CheckStatus] /\ kept \in KeptShape /\ KeptIsTrue
  BY DEF GateInv
<1>1. ASSUME stage \in {"ask", "tools"}, V!Return,
             UNCHANGED <<entities, skip, truth, attempt, kept, answered, trouble>>
      PROVE  GateInv'
  <2>1. Proven(V!Overall) /\ V!Overall \in {"FAILED", "PASSED", "PASSED_WITH_WARNINGS"}
    BY <1>0, GatesProve DEF V!TypeOK
  <2>2. overall' = V!Overall /\ stage' = "returned"
    BY <1>1 DEF V!Return
  <2>3. V!PassIsProven'
    BY <1>1, <2>1, <2>2 DEF V!PassIsProven, Proven, V!Required
  <2>4. V!TypeOK'
    BY <1>0, <1>1, <2>1, <2>2 DEF V!TypeOK
  <2> QED
    BY <1>0, <1>1, <2>2, <2>3, <2>4 DEF GateInv, KeptIsTrue
<1>2. ASSUME UNCHANGED <<entities, skip, truth, kept, answered, trouble, overall>>,
             stage' \in {"ask", "tools", "failed"}, stage # "returned",
             attempt' \in 1..MaxGateIterations
      PROVE  GateInv'
  <2>1. V!PassIsProven'
    BY <1>2 DEF GateInv, V!PassIsProven, V!Required
  <2>2. V!TypeOK'
    BY <1>0, <1>2 DEF V!TypeOK
  <2> QED
    BY <1>0, <1>2, <2>1, <2>2 DEF GateInv, KeptIsTrue
<1>3. CASE V!ModelFails
  BY <1>0, <1>2, <1>3 DEF V!ModelFails, V!TypeOK
<1>4. CASE V!ModelEnds
  BY <1>1, <1>4 DEF V!ModelEnds
<1>5. CASE V!ModelUsesTools
  BY <1>0, <1>2, <1>5 DEF V!ModelUsesTools, V!TypeOK
<1>6. CASE V!EndAnswer
  <2>1. CASE attempt < MaxGateIterations
    <3>1. attempt + 1 \in 1..MaxGateIterations
      BY <1>0, <2>1 DEF V!TypeOK, V!GateAssumption
    <3> QED
      BY <1>2, <1>6, <2>1, <3>1 DEF V!EndAnswer
  <2>2. CASE ~(attempt < MaxGateIterations)
    BY <1>1, <1>6, <2>2 DEF V!EndAnswer
  <2> QED
    BY <2>1, <2>2
<1>7. ASSUME NEW c \in V!Check, V!CallTool(c)
      PROVE  GateInv'
  <2>1. c[1] \in V!Tool /\ c[2] \in Entity \union {"all"} /\ c = <<c[1], c[2]>>
        /\ truth[c] \in CheckStatus
    BY <1>0, ChecksAreOfTools
  <2> DEFINE rec == [entity |-> c[2], status |-> truth[c]]
  <2>2. rec \in [entity : Entity \union {"all", "none"}, status : CheckStatus]
        /\ rec.entity = c[2] /\ rec.status = truth[c]
    BY <2>1
  <2>3. kept' = [kept EXCEPT ![c[1]] = rec] /\ stage = "tools" /\ answered' = answered \union {c}
        /\ UNCHANGED <<entities, skip, truth, stage, attempt, overall, trouble>>
    BY <1>7 DEF V!CallTool
  <2> HIDE DEF rec
  <2> QED
    BY <1>0, <2>1, <2>2, <2>3, ResultsStayTrue DEF V!TypeOK
<1>8. ASSUME NEW c \in V!Check, V!CallToolInVain(c)
      PROVE  GateInv'
  <2>1. c[1] \in V!Tool /\ c[2] \in Entity \union {"all"} /\ c = <<c[1], c[2]>>
    BY ChecksAreOfTools
  <2> DEFINE rec == [entity |-> c[2], status |-> "FAILED"]
  <2>2. rec \in [entity : Entity \union {"all", "none"}, status : CheckStatus]
        /\ rec.status = "FAILED"
    BY <2>1 DEF CheckStatus
  <2>3. kept' = [kept EXCEPT ![c[1]] = rec] /\ stage = "tools" /\ answered' = answered \ {c}
        /\ UNCHANGED <<entities, skip, truth, stage, attempt, overall>>
    BY <1>8 DEF V!CallToolInVain
  <2>4. trouble' \in 0..MaxTrouble
    BY <1>0, <1>8 DEF V!CallToolInVain, V!Trouble, V!TypeOK, V!GateAssumption
  <2> HIDE DEF rec
  <2> QED
    BY <1>0, <2>1, <2>2, <2>3, <2>4, ResultsStayTrue DEF V!TypeOK
<1>9. ASSUME NEW t \in V!PerEntity, V!CallToolWrongly(t)
      PROVE  GateInv'
  <2>1. V!Absent \in [entity : Entity \union {"all", "none"}, status : CheckStatus]
        /\ V!Absent.status = "FAILED"
    BY DEF V!Absent, CheckStatus
  <2>2. trouble' \in 0..MaxTrouble
    BY <1>0, <1>9 DEF V!CallToolWrongly, V!Trouble, V!TypeOK, V!GateAssumption
  <2>3. t \in V!Tool
    BY DEF V!Tool
  <2> QED
    BY <1>0, <1>9, <2>1, <2>2, <2>3, ResultsStayTrue DEF V!CallToolWrongly, V!TypeOK
<1>10. CASE UNCHANGED V!vars
  BY <1>10 DEF V!vars, GateInv, V!TypeOK, KeptIsTrue, V!PassIsProven, V!Required
<1> QED
  BY <1>3, <1>4, <1>5, <1>6, <1>7, <1>8, <1>9, <1>10 DEF V!Next, V!Step, V!Ask, V!Idle

-------------------------------------------------------------------------------
(* The supervisor and its specialists.                                     *)

Supervised == DOMAIN Specialists
Counts == [M!Delegation -> Nat]
TaskShape ==
    [agent : M!AgentName \union {"none"}, pc : {"none", "ask", "tool", "over"},
     step : 1..MaxSteps, calls : 0..MaxSteps, seen : Counts, error : BOOLEAN,
     report : {"none", "good", "bad"}, found : BOOLEAN, shared : BOOLEAN]

MultiShape ==
    /\ step \in [Supervised -> {"idle", "ask", "wait", "done"}]
    /\ round \in [Supervised -> 1..MaxRounds]
    /\ owner \in Supervised
    /\ eventLog \in [Supervised -> Nat] /\ emitted \in [Supervised -> Nat]
    /\ trail \in [Supervised -> [id : Supervised, events : [Supervised -> Nat]]]
    /\ task \in [M!Delegation -> TaskShape]
    /\ history \in [M!AgentName -> Counts]
    /\ crossed \subseteq Supervised /\ modelFaults \in 0..MaxModelFaults

\* A run without a second one has the log for itself.
OwnLog(r) ==
    owner = r /\ eventLog = [q \in Supervised |-> IF q = r THEN emitted[r] ELSE 0]

LogInv ==
    /\ \A r, q \in Supervised : M!Active(r) /\ M!Active(q) /\ r # q => r \in crossed
    /\ \A r \in Supervised \ crossed : M!Active(r) => OwnLog(r)

\* A delegation that is carried out belongs to a run that waits for it, and counts a call
\* for each step it has behind it.
WorkInv ==
    \A d \in M!Delegation : M!AtWork(d) =>
        step[d[1]] = "wait" /\ task[d].calls < task[d].step /\ task[d].agent \in M!AgentName

\* Unless it is marked as sharing its agent, no other delegation is at work there, and the
\* agent remembers its calls and nothing else.
RecordInv ==
    \A d \in M!Delegation :
        M!AtWork(d) /\ ~task[d].shared /\ task[d].agent \in M!Remembers =>
            /\ history[task[d].agent] = [M!Nobody EXCEPT ![d] = task[d].calls]
            /\ \A e \in M!Delegation \ {d} : M!AtWork(e) => task[e].agent # task[d].agent

MultiInv ==
    MultiShape /\ LogInv /\ WorkInv /\ RecordInv /\ M!TrailsNeedOverlap /\ M!RecordsNeedOverlap

\* The invariant gives the types of the variables.
LEMMA MultiTyped == MultiInv => M!TypeOK
  BY DEF MultiInv, MultiShape, M!TypeOK, TaskShape, Supervised

\* What is assumed of the constants, in the words of this module.
LEMMA SupervisorBounds ==
    ASSUME M!SupervisorAssumption
    PROVE  /\ Specialists \in [Supervised -> SUBSET M!AgentName]
           /\ MaxRounds \in Nat /\ 1 <= MaxRounds /\ MaxSteps \in Nat /\ 1 <= MaxSteps
           /\ MaxModelFaults \in Nat /\ IsFiniteSet(Slot)
<1>1. M!IsFiniteSet(Slot) => IsFiniteSet(Slot)
  BY DEF M!IsFiniteSet, IsFiniteSet
<1> QED
  BY <1>1 DEF M!SupervisorAssumption, Supervised

\* A delegation is a run and a slot.
LEMMA DelegationsArePairs ==
    \A d \in M!Delegation : d = <<d[1], d[2]>> /\ d[1] \in Supervised /\ d[2] \in Slot
  BY DEF M!Delegation, Supervised

\* A task that has not begun is in shape, and nobody remembers anything of it.
LEMMA NewTasksAreShaped ==
    ASSUME M!SupervisorAssumption
    PROVE  M!NoTask \in TaskShape /\ M!Nobody \in Counts
<1>1. 0 \in 0..MaxSteps /\ 1 \in 1..MaxSteps
  BY SupervisorBounds
<1>2. M!Nobody \in Counts
  BY DEF M!Nobody, Counts
<1> QED
  BY <1>1, <1>2 DEF M!NoTask, TaskShape

\* At first there is no run, no delegation and no trail.
LEMMA MultiInit ==
    ASSUME M!SupervisorAssumption, M!Init
    PROVE  MultiInv
<1> USE DEF M!Init
<1>1. MultiShape
  BY SupervisorBounds, NewTasksAreShaped DEF MultiShape, Supervised, Counts
<1>2. \A d \in M!Delegation : ~M!AtWork(d) /\ task[d].pc # "over"
  BY DEF M!AtWork, M!NoTask
<1>3. LogInv /\ M!TrailsNeedOverlap
  BY DEF LogInv, M!Active, Supervised, M!TrailsNeedOverlap
<1> QED
  BY <1>1, <1>2, <1>3 DEF MultiInv, WorkInv, RecordInv, M!RecordsNeedOverlap

\* An event of a run that is under way goes to its own log, if no other run is.
LEMMA EmitKeepsLog ==
    ASSUME MultiShape, LogInv, NEW r \in Supervised, M!Active(r), NEW n \in Nat, M!Emit(r, n),
           owner' = owner, crossed' = crossed,
           \A q \in Supervised : M!Active(q)' => M!Active(q)
    PROVE  /\ LogInv' /\ (r \notin crossed => OwnLog(r)')
           /\ eventLog' \in [Supervised -> Nat] /\ emitted' \in [Supervised -> Nat]
           /\ \A q \in Supervised : q # r => emitted'[q] = emitted[q]
<1>1. /\ eventLog' = [eventLog EXCEPT ![r] = eventLog[r] + n]
      /\ emitted' = [emitted EXCEPT ![r] = emitted[r] + n]
      /\ eventLog \in [Supervised -> Nat] /\ emitted \in [Supervised -> Nat]
  BY DEF M!Emit, MultiShape
<1>2. ASSUME r \notin crossed PROVE OwnLog(r)'
  BY <1>1, <1>2 DEF LogInv, OwnLog
<1>3. LogInv'
  <2>1. ASSUME NEW q \in Supervised, q \notin crossed, M!Active(q)' PROVE OwnLog(q)'
    <3>1. q = r
      BY <2>1 DEF LogInv
    <3> QED
      BY <1>2, <2>1, <3>1
  <2> QED
    BY <2>1 DEF LogInv
<1> QED
  BY <1>1, <1>2, <1>3

\* What a delegation at work becomes, when it counts its own calls and no others.
LEMMA TaskMoves ==
    ASSUME M!SupervisorAssumption, MultiInv, NEW d \in M!Delegation, M!AtWork(d),
           NEW v \in TaskShape, task' = [task EXCEPT ![d] = v],
           v.agent = task[d].agent, v.shared = task[d].shared,
           v.pc \in {"ask", "tool", "over"},
           \/ history' = history /\ v.calls = task[d].calls
           \/ /\ history' = [history EXCEPT ![v.agent] =
                                [history[v.agent] EXCEPT ![d] = history[v.agent][d] + 1]]
              /\ v.calls = task[d].calls + 1,
           v.pc # "over" => v.calls < v.step,
           v.pc = "over" => v.seen = history'[v.agent],
           UNCHANGED <<eventLog, emitted>> \/ M!Emit(d[1], 1),
           UNCHANGED <<step, round, owner, trail, crossed>>, modelFaults' \in 0..MaxModelFaults
    PROVE  MultiInv'
<1>1. /\ MultiShape /\ LogInv /\ WorkInv /\ RecordInv
      /\ M!TrailsNeedOverlap /\ M!RecordsNeedOverlap
  BY DEF MultiInv
<1>2. d[1] \in Supervised /\ step[d[1]] = "wait" /\ M!Active(d[1]) /\ v.agent \in M!AgentName
  BY <1>1, DelegationsArePairs DEF WorkInv, M!Active
<1>3. \A q \in Supervised : M!Active(q)' <=> M!Active(q)
  BY DEF M!Active
<1>4. /\ LogInv' /\ eventLog' \in [Supervised -> Nat] /\ emitted' \in [Supervised -> Nat]
      /\ \A q \in Supervised : q # d[1] => emitted'[q] = emitted[q]
  <2>1. CASE UNCHANGED <<eventLog, emitted>>
    BY <1>1, <1>3, <2>1 DEF LogInv, OwnLog, MultiShape
  <2>2. CASE M!Emit(d[1], 1)
    BY <1>1, <1>2, <1>3, <2>2, EmitKeepsLog
  <2> QED
    BY <2>1, <2>2
<1>5. task \in [M!Delegation -> TaskShape] /\ history \in [M!AgentName -> Counts]
  BY <1>1 DEF MultiShape
<1>6. history' \in [M!AgentName -> Counts]
  <2>1. history[v.agent] \in Counts
    BY <1>2, <1>5
  <2>2. [history[v.agent] EXCEPT ![d] = history[v.agent][d] + 1] \in Counts
    BY <2>1 DEF Counts
  <2> QED
    BY <1>5, <2>2
<1>7. MultiShape'
  BY <1>1, <1>4, <1>5, <1>6 DEF MultiShape
<1>8. task'[d] = v /\ \A e \in M!Delegation : e # d => task'[e] = task[e]
  BY <1>5
<1>9. WorkInv'
  BY <1>1, <1>2, <1>8 DEF WorkInv, M!AtWork
<1>10. ASSUME ~v.shared, v.agent \in M!Remembers
       PROVE  history'[v.agent] = [M!Nobody EXCEPT ![d] = v.calls]
  <2>1. history[v.agent] = [M!Nobody EXCEPT ![d] = task[d].calls]
    BY <1>1, <1>10 DEF RecordInv
  <2>2. d \in DOMAIN M!Nobody /\ task[d].calls \in Nat
    BY <1>5 DEF M!Nobody, TaskShape
  <2>3. CASE history' = history /\ v.calls = task[d].calls
    BY <2>1, <2>3
  <2>4. CASE /\ history' = [history EXCEPT ![v.agent] =
                              [history[v.agent] EXCEPT ![d] = history[v.agent][d] + 1]]
             /\ v.calls = task[d].calls + 1
    <3>1. history'[v.agent] = [history[v.agent] EXCEPT ![d] = history[v.agent][d] + 1]
      BY <1>2, <1>5, <2>4
    <3>2. history[v.agent][d] = task[d].calls
      BY <2>1, <2>2
    <3> QED
      BY <2>1, <2>2, <2>4, <3>1, <3>2 DEF M!Nobody
  <2> QED
    BY <2>3, <2>4
<1>11. RecordInv'
  <2> SUFFICES ASSUME NEW e \in M!Delegation, M!AtWork(e)', ~task'[e].shared,
                      task'[e].agent \in M!Remembers
               PROVE  /\ history'[task'[e].agent] = [M!Nobody EXCEPT ![e] = task'[e].calls]
                      /\ \A f \in M!Delegation \ {e} :
                            M!AtWork(f)' => task'[f].agent # task'[e].agent
    BY DEF RecordInv
  <2>1. \A f \in M!Delegation : M!AtWork(f)' => M!AtWork(f) /\ task'[f].agent = task[f].agent
    BY <1>8 DEF M!AtWork
  <2>2. \A f \in M!Delegation \ {e} : M!AtWork(f)' => task'[f].agent # task'[e].agent
    <3>1. M!AtWork(e) /\ task'[e].agent = task[e].agent /\ ~task[e].shared
      BY <1>8, <2>1
    <3>2. \A f \in M!Delegation \ {e} : M!AtWork(f) => task[f].agent # task[e].agent
      BY <1>1, <3>1 DEF RecordInv
    <3> QED
      BY <2>1, <3>1, <3>2
  <2>3. CASE e = d
    BY <1>8, <1>10, <2>2, <2>3
  <2>4. CASE e # d
    <3>1. M!AtWork(e) /\ task'[e] = task[e]
      BY <1>8, <2>1, <2>4
    <3>2. history[task[e].agent] = [M!Nobody EXCEPT ![e] = task[e].calls]
          /\ task[e].agent # v.agent
      BY <1>1, <2>4, <3>1 DEF RecordInv
    <3>3. history'[task[e].agent] = history[task[e].agent]
      BY <1>1, <1>5, <3>1, <3>2 DEF WorkInv
    <3> QED
      BY <2>2, <3>1, <3>2, <3>3
  <2> QED
    BY <2>3, <2>4
<1>12. M!RecordsNeedOverlap'
  <2> SUFFICES ASSUME NEW e \in M!Delegation, task'[e].pc = "over", ~task'[e].shared,
                      task'[e].agent \in M!Remembers
               PROVE  task'[e].seen = [M!Nobody EXCEPT ![e] = task'[e].calls]
    BY DEF M!RecordsNeedOverlap
  <2>1. CASE e = d
    BY <1>8, <1>10, <2>1
  <2>2. CASE e # d
    BY <1>1, <1>8, <2>2 DEF M!RecordsNeedOverlap
  <2> QED
    BY <2>1, <2>2
<1>13. M!TrailsNeedOverlap'
  BY <1>1, <1>2, <1>4 DEF M!TrailsNeedOverlap, Supervised
<1> QED
  BY <1>4, <1>7, <1>9, <1>11, <1>12, <1>13 DEF MultiInv

\* A specialist's loop counts its own calls.
LEMMA LoopKeeps ==
    ASSUME M!SupervisorAssumption, MultiInv, NEW d \in M!Delegation,
           NEW finals \in SUBSET {"none", "good", "bad"}, NEW findings \in SUBSET BOOLEAN,
           NEW reports \in SUBSET {"none", "good", "bad"}, M!Loop(d, finals, findings, reports)
    PROVE  MultiInv'
<1>1. task[d] \in TaskShape /\ task \in [M!Delegation -> TaskShape] /\ WorkInv
  BY DEF MultiInv, MultiShape
<1>2. M!AtWork(d)
  BY DEF M!Loop, M!AgentFinishes, M!AgentAsksForTool, M!ToolReturns, M!AtWork
<1>3. /\ task[d].calls < task[d].step /\ task[d].agent \in M!AgentName
      /\ task[d].calls \in 0..MaxSteps /\ task[d].step \in 1..MaxSteps
  BY <1>1, <1>2 DEF WorkInv, TaskShape
<1>4. modelFaults \in 0..MaxModelFaults /\ history \in [M!AgentName -> Counts]
  BY DEF MultiInv, MultiShape
<1>5. history[task[d].agent] \in Counts
  BY <1>3, <1>4
<1>6. CASE M!AgentFinishes(d, finals)
  <2>1. PICK rec \in TaskShape :
           /\ rec.agent = task[d].agent /\ rec.calls = task[d].calls /\ rec.shared = task[d].shared
           /\ M!Complete(d, rec)
    <3>1. CASE \E rep \in finals : M!Complete(d, [task[d] EXCEPT !.report = rep])
      <4>1. PICK rep \in finals : M!Complete(d, [task[d] EXCEPT !.report = rep])
        BY <3>1
      <4> DEFINE rec == [task[d] EXCEPT !.report = rep]
      <4>2. rec \in TaskShape /\ rec.agent = task[d].agent /\ rec.calls = task[d].calls
            /\ rec.shared = task[d].shared
        BY <1>1 DEF TaskShape
      <4> HIDE DEF rec
      <4>3. M!Complete(d, rec)
        BY <4>1 DEF rec
      <4> QED
        BY <4>2, <4>3
    <3>2. CASE M!Complete(d, [task[d] EXCEPT !.error = TRUE])
      <4> DEFINE rec == [task[d] EXCEPT !.error = TRUE]
      <4>2. rec \in TaskShape /\ rec.agent = task[d].agent /\ rec.calls = task[d].calls
            /\ rec.shared = task[d].shared
        BY <1>1 DEF TaskShape
      <4> HIDE DEF rec
      <4>3. M!Complete(d, rec)
        BY <3>2 DEF rec
      <4> QED
        BY <4>2, <4>3
    <3> QED
      BY <1>6, <3>1, <3>2 DEF M!AgentFinishes
  <2> DEFINE v == [rec EXCEPT !.pc = "over", !.seen = history'[rec.agent]]
  <2>2. task' = [task EXCEPT ![d] = v] /\ M!Emit(d[1], 1)
    BY <2>1 DEF M!Complete
  <2>3. history' = history /\ UNCHANGED <<step, round, owner, trail, crossed>>
    BY <1>6 DEF M!AgentFinishes
  <2>4. modelFaults' \in 0..MaxModelFaults
    BY <1>4, <1>6, SupervisorBounds DEF M!AgentFinishes, M!Fault
  <2>5. v \in TaskShape /\ v.agent = task[d].agent /\ v.calls = task[d].calls
        /\ v.shared = task[d].shared /\ v.pc = "over" /\ v.seen = history'[v.agent]
    BY <1>5, <2>1, <2>3 DEF TaskShape
  <2> HIDE DEF v
  <2> QED
    BY <1>2, <2>2, <2>3, <2>4, <2>5, TaskMoves
<1>7. CASE M!AgentAsksForTool(d)
  <2> DEFINE v == [task[d] EXCEPT !.pc = "tool"]
  <2>1. task' = [task EXCEPT ![d] = v] /\ UNCHANGED <<eventLog, emitted>> /\ history' = history
        /\ UNCHANGED <<step, round, owner, trail, crossed>> /\ modelFaults' = modelFaults
    BY <1>1, <1>7 DEF M!AgentAsksForTool, TaskShape
  <2>2. v \in TaskShape /\ v.agent = task[d].agent /\ v.calls = task[d].calls
        /\ v.shared = task[d].shared /\ v.pc = "tool" /\ v.step = task[d].step
    BY <1>1 DEF TaskShape
  <2> HIDE DEF v
  <2> QED
    BY <1>2, <1>3, <1>4, <2>1, <2>2, TaskMoves
<1>8. CASE M!ToolReturns(d, findings, reports)
  <2>1. PICK found \in findings, rep \in reports :
           LET rec == [task[d] EXCEPT !.calls = @ + 1, !.found = @ \/ found, !.report = rep]
           IN  IF task[d].step < MaxSteps
               THEN /\ task' = [task EXCEPT ![d] = [rec EXCEPT !.pc = "ask", !.step = @ + 1]]
                    /\ UNCHANGED <<eventLog, emitted>>
               ELSE M!Complete(d, rec)
    BY <1>8 DEF M!ToolReturns
  <2> DEFINE rec == [task[d] EXCEPT !.calls = task[d].calls + 1,
                                    !.found = task[d].found \/ found, !.report = rep]
             more == [rec EXCEPT !.pc = "ask", !.step = rec.step + 1]
             over == [rec EXCEPT !.pc = "over", !.seen = history'[rec.agent]]
  <2>2. [task[d] EXCEPT !.calls = @ + 1, !.found = @ \/ found, !.report = rep] = rec
    BY <1>1 DEF TaskShape
  <2>3. rec \in TaskShape /\ rec.agent = task[d].agent /\ rec.calls = task[d].calls + 1
        /\ rec.shared = task[d].shared /\ rec.step = task[d].step
    <3>1. task[d].calls + 1 \in 0..MaxSteps /\ (task[d].found \/ found) \in BOOLEAN
      BY <1>3, SupervisorBounds
    <3> QED
      BY <1>1, <3>1 DEF TaskShape
  <2>4. /\ history' = [history EXCEPT ![rec.agent] =
                          [history[rec.agent] EXCEPT ![d] = history[rec.agent][d] + 1]]
        /\ UNCHANGED <<step, round, owner, trail, crossed>> /\ modelFaults' = modelFaults
    BY <1>8, <2>3 DEF M!ToolReturns
  <2>5. history'[rec.agent] \in Counts
    <3>1. [history[rec.agent] EXCEPT ![d] = history[rec.agent][d] + 1] \in Counts
      BY <1>5, <2>3 DEF Counts
    <3> QED
      BY <1>3, <1>4, <2>3, <2>4, <3>1
  <2>6. IF task[d].step < MaxSteps
        THEN task' = [task EXCEPT ![d] = [rec EXCEPT !.pc = "ask", !.step = @ + 1]]
             /\ UNCHANGED <<eventLog, emitted>>
        ELSE M!Complete(d, rec)
    BY <2>1, <2>2
  <2> HIDE DEF rec
  <2>7. CASE task[d].step < MaxSteps
    <3>1. task' = [task EXCEPT ![d] = more] /\ UNCHANGED <<eventLog, emitted>>
      BY <2>3, <2>6, <2>7 DEF TaskShape
    <3>2. rec.step + 1 \in 1..MaxSteps
      BY <1>3, <2>3, <2>7, SupervisorBounds
    <3>3. more \in TaskShape /\ more.agent = rec.agent /\ more.calls = rec.calls
          /\ more.shared = rec.shared /\ more.pc = "ask" /\ more.step = rec.step + 1
      BY <2>3, <3>2 DEF TaskShape
    <3>4. more.calls < more.step
      BY <1>3, <2>3, <3>3
    <3> HIDE DEF more
    <3> QED
      BY <1>2, <1>4, <2>3, <2>4, <3>1, <3>3, <3>4, TaskMoves
  <2>8. CASE ~(task[d].step < MaxSteps)
    <3>1. task' = [task EXCEPT ![d] = over] /\ M!Emit(d[1], 1)
      BY <2>6, <2>8 DEF M!Complete
    <3>2. over \in TaskShape /\ over.agent = rec.agent /\ over.calls = rec.calls
          /\ over.shared = rec.shared /\ over.pc = "over" /\ over.seen = history'[over.agent]
      BY <2>3, <2>5 DEF TaskShape
    <3> HIDE DEF over
    <3> QED
      BY <1>2, <1>4, <2>3, <2>4, <3>1, <3>2, TaskMoves
  <2> QED
    BY <2>7, <2>8
<1> QED
  BY <1>6, <1>7, <1>8 DEF M!Loop

\* Each of the four specialists is such a loop.
LEMMA AgentStepKeeps ==
    ASSUME M!SupervisorAssumption, MultiInv, NEW d \in M!Delegation, M!AgentStep(d)
    PROVE  MultiInv'
<1>1. task[d].report \in {"none", "good", "bad"}
  BY DEF MultiInv, MultiShape, TaskShape
<1>2. CASE M!MigrationAgent(d)
  BY <1>2, LoopKeeps DEF M!MigrationAgent
<1>3. CASE M!DocumentationAgent(d)
  BY <1>3, LoopKeeps DEF M!DocumentationAgent
<1>4. CASE M!DataValidationAgent(d)
  BY <1>4, LoopKeeps DEF M!DataValidationAgent
<1>5. CASE M!SecurityAuditAgent(d)
  <2>1. M!Loop(d, {task[d].report}, BOOLEAN, {task[d].report, "good", "bad"})
    BY <1>5 DEF M!SecurityAuditAgent
  <2>2. /\ {task[d].report} \in SUBSET {"none", "good", "bad"}
        /\ {task[d].report, "good", "bad"} \in SUBSET {"none", "good", "bad"}
        /\ BOOLEAN \in SUBSET BOOLEAN
    BY <1>1
  <2> QED
    BY <2>1, <2>2, LoopKeeps
<1> QED
  BY <1>2, <1>3, <1>4, <1>5 DEF M!AgentStep

\* A run that starts while another is under way marks both, and has the log for itself if
\* there is none.
LEMMA StartRunKeeps ==
    ASSUME M!SupervisorAssumption, MultiInv, NEW r \in Supervised, M!StartRun(r)
    PROVE  MultiInv'
<1> DEFINE others == {q \in Supervised : M!Active(q)}
<1>1. /\ MultiShape /\ LogInv /\ WorkInv /\ RecordInv
      /\ M!TrailsNeedOverlap /\ M!RecordsNeedOverlap
  BY DEF MultiInv
<1>2. /\ step[r] = "idle" /\ step' = [step EXCEPT ![r] = "ask"] /\ owner' = r
      /\ eventLog' = [q \in Supervised |-> IF q = r THEN 1 ELSE 0]
      /\ emitted' = [emitted EXCEPT ![r] = 1]
      /\ crossed' = IF others = {} THEN crossed ELSE crossed \union others \union {r}
      /\ UNCHANGED <<round, trail, task, history, modelFaults>>
  BY DEF M!StartRun, Supervised
<1>3. /\ step \in [Supervised -> {"idle", "ask", "wait", "done"}]
      /\ emitted \in [Supervised -> Nat] /\ crossed \subseteq Supervised
  BY <1>1 DEF MultiShape
<1>4. MultiShape'
  BY <1>1, <1>2, <1>3 DEF MultiShape
<1>5. \A q \in Supervised : M!Active(q)' <=> q \in others \/ q = r
  BY <1>2, <1>3 DEF M!Active
<1>6. r \notin others
  BY <1>2 DEF M!Active
<1>7. LogInv'
  <2>1. ASSUME NEW q \in Supervised, NEW p \in Supervised, M!Active(q)', M!Active(p)', q # p
        PROVE  q \in crossed'
    <3>1. q \in others \/ p \in others
      BY <1>5, <2>1
    <3> QED
      BY <1>2, <1>5, <2>1, <3>1
  <2>2. ASSUME NEW q \in Supervised \ crossed', M!Active(q)'
        PROVE  OwnLog(q)'
    <3>1. q = r
      BY <1>2, <1>5, <2>2
    <3> QED
      BY <1>2, <1>3, <3>1 DEF OwnLog
  <2> QED
    BY <2>1, <2>2 DEF LogInv
<1>8. WorkInv'
  BY <1>1, <1>2, <1>3, DelegationsArePairs DEF WorkInv, M!AtWork
<1>9. RecordInv' /\ M!RecordsNeedOverlap'
  BY <1>1, <1>2 DEF RecordInv, M!AtWork, M!RecordsNeedOverlap
<1>10. M!TrailsNeedOverlap'
  <2>1. ASSUME NEW q \in Supervised \ crossed', step'[q] = "done"
        PROVE  /\ trail'[q].id = q
               /\ trail'[q].events = [p \in Supervised |-> IF p = q THEN emitted'[q] ELSE 0]
    <3>1. q # r /\ step[q] = "done" /\ emitted'[q] = emitted[q] /\ q \notin crossed
      BY <1>2, <1>3, <2>1
    <3> QED
      BY <1>1, <1>2, <2>1, <3>1 DEF M!TrailsNeedOverlap, Supervised
  <2> QED
    BY <2>1 DEF M!TrailsNeedOverlap, Supervised
<1> QED
  BY <1>4, <1>7, <1>8, <1>9, <1>10 DEF MultiInv

\* A run that ends leaves with its own trail, unless it overlapped with another.
LEMMA EndRunKeeps ==
    ASSUME M!SupervisorAssumption, MultiInv, NEW r \in Supervised, M!Active(r), M!EndRun(r),
           \A d \in M!Delegation : d[1] = r => ~M!AtWork(d),
           UNCHANGED <<round, owner, history, crossed>>, modelFaults' \in 0..MaxModelFaults
    PROVE  MultiInv'
<1>1. /\ MultiShape /\ LogInv /\ WorkInv /\ RecordInv
      /\ M!TrailsNeedOverlap /\ M!RecordsNeedOverlap
  BY DEF MultiInv
<1>2. /\ task' = [d \in M!Delegation |-> IF d[1] = r THEN M!NoTask ELSE task[d]]
      /\ step' = [step EXCEPT ![r] = "done"] /\ M!Emit(r, 1)
      /\ trail' = [trail EXCEPT ![r] = [id |-> owner, events |-> eventLog']]
  BY DEF M!EndRun
<1>3. /\ step \in [Supervised -> {"idle", "ask", "wait", "done"}] /\ owner \in Supervised
      /\ task \in [M!Delegation -> TaskShape]
      /\ trail \in [Supervised -> [id : Supervised, events : [Supervised -> Nat]]]
  BY <1>1 DEF MultiShape
<1>4. \A q \in Supervised : M!Active(q)' => M!Active(q)
  BY <1>2, <1>3 DEF M!Active
<1>5. /\ LogInv' /\ (r \notin crossed => OwnLog(r)')
      /\ eventLog' \in [Supervised -> Nat] /\ emitted' \in [Supervised -> Nat]
      /\ \A q \in Supervised : q # r => emitted'[q] = emitted[q]
  BY <1>1, <1>2, <1>4, EmitKeepsLog
<1>6. task' \in [M!Delegation -> TaskShape]
  BY <1>2, <1>3, NewTasksAreShaped
<1>7. trail' \in [Supervised -> [id : Supervised, events : [Supervised -> Nat]]]
  BY <1>2, <1>3, <1>5
<1>8. MultiShape'
  BY <1>1, <1>2, <1>3, <1>5, <1>6, <1>7 DEF MultiShape
<1>9. \A d \in M!Delegation : M!AtWork(d)' =>
         M!AtWork(d) /\ task'[d] = task[d] /\ d[1] # r
  BY <1>2 DEF M!AtWork, M!NoTask
<1>10. WorkInv'
  BY <1>1, <1>2, <1>3, <1>9, DelegationsArePairs DEF WorkInv
<1>11. RecordInv'
  <2> SUFFICES ASSUME NEW d \in M!Delegation, M!AtWork(d)', ~task'[d].shared,
                      task'[d].agent \in M!Remembers
               PROVE  /\ history'[task'[d].agent] = [M!Nobody EXCEPT ![d] = task'[d].calls]
                      /\ \A e \in M!Delegation \ {d} :
                            M!AtWork(e)' => task'[e].agent # task'[d].agent
    BY DEF RecordInv
  <2>1. M!AtWork(d) /\ task'[d] = task[d]
    BY <1>9
  <2>2. /\ history[task[d].agent] = [M!Nobody EXCEPT ![d] = task[d].calls]
        /\ \A e \in M!Delegation \ {d} : M!AtWork(e) => task[e].agent # task[d].agent
    BY <1>1, <2>1 DEF RecordInv
  <2> QED
    BY <1>9, <2>1, <2>2
<1>12. M!RecordsNeedOverlap'
  <2>1. ASSUME NEW d \in M!Delegation, task'[d].pc = "over" PROVE task'[d] = task[d]
    BY <1>2, <2>1 DEF M!NoTask
  <2> QED
    BY <1>1, <2>1 DEF M!RecordsNeedOverlap
<1>13. M!TrailsNeedOverlap'
  <2>1. ASSUME NEW q \in Supervised \ crossed, step'[q] = "done"
        PROVE  /\ trail'[q].id = q
               /\ trail'[q].events = [p \in Supervised |-> IF p = q THEN emitted'[q] ELSE 0]
    <3>1. CASE q = r
      BY <1>2, <1>3, <1>5, <2>1, <3>1 DEF OwnLog
    <3>2. CASE q # r
      <4>1. step[q] = "done" /\ emitted'[q] = emitted[q] /\ trail'[q] = trail[q]
        BY <1>2, <1>3, <1>5, <2>1, <3>2
      <4> QED
        BY <1>1, <4>1 DEF M!TrailsNeedOverlap, Supervised
    <3> QED
      BY <3>1, <3>2
  <2> QED
    BY <2>1 DEF M!TrailsNeedOverlap, Supervised
<1> QED
  BY <1>5, <1>8, <1>10, <1>11, <1>12, <1>13 DEF MultiInv

\* The agent a delegation has once a run has delegated.
AgentOf(d, agents, r) ==
    IF d[1] = r /\ d[2] \in DOMAIN agents THEN agents[d[2]]
    ELSE IF M!AtWork(d) THEN task[d].agent ELSE "none"

\* A delegation that does not share an agent that remembers has it for itself.
LEMMA UnsharedIsAlone ==
    ASSUME NEW agents, NEW r, NEW d \in M!Delegation
    PROVE  /\ M!Shares(d, agents, r) \in BOOLEAN
           /\ ~M!Shares(d, agents, r) /\ AgentOf(d, agents, r) \in M!Remembers =>
                  \A e \in M!Delegation \ {d} : AgentOf(e, agents, r) # AgentOf(d, agents, r)
  BY DEF M!Shares, AgentOf

\* Delegations to an agent that remembers reset it: they are marked, with those under way
\* there, unless they are alone.
LEMMA DelegateKeeps ==
    ASSUME M!SupervisorAssumption, MultiInv, NEW r \in Supervised, M!Delegate(r)
    PROVE  MultiInv'
<1>1. /\ MultiShape /\ LogInv /\ WorkInv /\ RecordInv
      /\ M!TrailsNeedOverlap /\ M!RecordsNeedOverlap
  BY DEF MultiInv
<1>2. PICK agents \in M!Answers(r) :
        /\ task' = [d \in M!Delegation |->
              IF d[1] = r /\ d[2] \in DOMAIN agents
              THEN [M!NoTask EXCEPT !.agent = agents[d[2]], !.pc = "ask",
                                    !.shared = M!Shares(d, agents, r)]
              ELSE IF d[1] = r THEN M!NoTask
              ELSE IF M!AtWork(d) /\ M!Shares(d, agents, r) THEN [task[d] EXCEPT !.shared = TRUE]
              ELSE task[d]]
        /\ history' = [a \in M!AgentName |-> IF a \in M!Range(agents) THEN M!Nobody
                                            ELSE history[a]]
        /\ M!Emit(r, M!Cardinality(DOMAIN agents))
  BY DEF M!Delegate
<1>3. /\ step[r] = "ask" /\ step' = [step EXCEPT ![r] = "wait"]
      /\ UNCHANGED <<round, owner, trail, crossed, modelFaults>>
  BY DEF M!Delegate
<1>4. /\ step \in [Supervised -> {"idle", "ask", "wait", "done"}]
      /\ task \in [M!Delegation -> TaskShape] /\ history \in [M!AgentName -> Counts]
  BY <1>1 DEF MultiShape
<1>5. DOMAIN agents \subseteq Slot /\ \A s \in DOMAIN agents : agents[s] \in M!AgentName
  BY SupervisorBounds DEF M!Answers
<1>6. M!Cardinality(DOMAIN agents) \in Nat
  <2>1. IsFiniteSet(DOMAIN agents)
    BY <1>5, SupervisorBounds, FS_Subset
  <2>2. Cardinality(DOMAIN agents) \in Nat
    BY <2>1, FS_CardinalityType
  <2>3. M!Cardinality(DOMAIN agents) = Cardinality(DOMAIN agents)
    BY DEF M!Cardinality, Cardinality
  <2> QED
    BY <2>2, <2>3
<1>7. M!Active(r) /\ \A q \in Supervised : M!Active(q)' => M!Active(q)
  BY <1>3, <1>4 DEF M!Active
<1>8. /\ LogInv' /\ eventLog' \in [Supervised -> Nat] /\ emitted' \in [Supervised -> Nat]
      /\ \A q \in Supervised : q # r => emitted'[q] = emitted[q]
  BY <1>1, <1>2, <1>3, <1>6, <1>7, EmitKeepsLog
<1>9. ASSUME NEW d \in M!Delegation, d[1] = r
      PROVE  /\ task'[d] \in TaskShape /\ task'[d].pc # "over"
             /\ M!AtWork(d)' => /\ d[2] \in DOMAIN agents /\ task'[d].agent = agents[d[2]]
                                /\ task'[d].calls = 0 /\ task'[d].step = 1
                                /\ task'[d].shared = M!Shares(d, agents, r)
  <2>1. M!NoTask \in TaskShape /\ M!NoTask.pc = "none"
    BY NewTasksAreShaped DEF M!NoTask
  <2>2. CASE d[2] \in DOMAIN agents
    <3> DEFINE new == [M!NoTask EXCEPT !.agent = agents[d[2]], !.pc = "ask",
                                       !.shared = M!Shares(d, agents, r)]
    <3>1. task'[d] = new
      BY <1>2, <1>9, <2>2
    <3>2. new \in TaskShape
      BY <1>5, <2>1, <2>2, UnsharedIsAlone DEF TaskShape
    <3>3. new.agent = agents[d[2]] /\ new.pc = "ask" /\ new.calls = 0 /\ new.step = 1
          /\ new.shared = M!Shares(d, agents, r)
      BY DEF M!NoTask
    <3> QED
      BY <2>2, <3>1, <3>2, <3>3
  <2>3. CASE d[2] \notin DOMAIN agents
    <3>1. task'[d] = M!NoTask
      BY <1>2, <1>9, <2>3
    <3> QED
      BY <2>1, <3>1 DEF M!AtWork
  <2> QED
    BY <2>2, <2>3
<1>10. ASSUME NEW d \in M!Delegation, d[1] # r
       PROVE  /\ task'[d] \in TaskShape /\ task'[d].pc = task[d].pc
              /\ task'[d].agent = task[d].agent /\ task'[d].calls = task[d].calls
              /\ task'[d].step = task[d].step /\ task'[d].seen = task[d].seen
              /\ ~task'[d].shared => ~task[d].shared
              /\ M!AtWork(d) /\ ~task'[d].shared => ~M!Shares(d, agents, r)
  <2>1. task[d] \in TaskShape
    BY <1>4
  <2>2. CASE M!AtWork(d) /\ M!Shares(d, agents, r)
    <3>1. task'[d] = [task[d] EXCEPT !.shared = TRUE]
      BY <1>2, <1>10, <2>2
    <3> QED
      BY <2>1, <3>1 DEF TaskShape
  <2>3. CASE ~(M!AtWork(d) /\ M!Shares(d, agents, r))
    <3>1. task'[d] = task[d]
      BY <1>2, <1>10, <2>3
    <3> QED
      BY <2>1, <2>3, <3>1
  <2> QED
    BY <2>2, <2>3
<1>11. task' \in [M!Delegation -> TaskShape]
  <2>1. task' = [d \in M!Delegation |-> task'[d]]
    BY <1>2
  <2> QED
    BY <1>9, <1>10, <2>1
<1>12. history' \in [M!AgentName -> Counts]
  BY <1>2, <1>4, NewTasksAreShaped
<1>13. MultiShape'
  BY <1>1, <1>3, <1>4, <1>8, <1>11, <1>12 DEF MultiShape
<1>14. ASSUME NEW d \in M!Delegation, M!AtWork(d)'
       PROVE  /\ task'[d].agent = AgentOf(d, agents, r) /\ task'[d].agent \in M!AgentName
              /\ ~task'[d].shared => ~M!Shares(d, agents, r)
              /\ d[1] # r => M!AtWork(d)
  <2>1. CASE d[1] = r
    BY <1>5, <1>9, <1>14, <2>1 DEF AgentOf
  <2>2. CASE d[1] # r
    <3>1. M!AtWork(d)
      BY <1>10, <1>14, <2>2 DEF M!AtWork
    <3> QED
      BY <1>1, <1>10, <2>2, <3>1 DEF AgentOf, WorkInv
  <2> QED
    BY <2>1, <2>2
<1>15. WorkInv'
  <2> SUFFICES ASSUME NEW d \in M!Delegation, M!AtWork(d)'
               PROVE  /\ step'[d[1]] = "wait" /\ task'[d].calls < task'[d].step
                      /\ task'[d].agent \in M!AgentName
    BY DEF WorkInv
  <2>1. CASE d[1] = r
    BY <1>3, <1>4, <1>9, <1>14, <2>1
  <2>2. CASE d[1] # r
    <3>1. M!AtWork(d) /\ step[d[1]] = "wait" /\ task[d].calls < task[d].step
      BY <1>1, <1>14, <2>2 DEF WorkInv
    <3> QED
      BY <1>3, <1>4, <1>10, <1>14, <2>2, <3>1, DelegationsArePairs
  <2> QED
    BY <2>1, <2>2
<1>16. RecordInv'
  <2> SUFFICES ASSUME NEW d \in M!Delegation, M!AtWork(d)', ~task'[d].shared,
                      task'[d].agent \in M!Remembers
               PROVE  /\ history'[task'[d].agent] = [M!Nobody EXCEPT ![d] = task'[d].calls]
                      /\ \A e \in M!Delegation \ {d} :
                            M!AtWork(e)' => task'[e].agent # task'[d].agent
    BY DEF RecordInv
  <2>1. /\ \A e \in M!Delegation \ {d} : AgentOf(e, agents, r) # task'[d].agent
        /\ task'[d].agent \in M!AgentName
    BY <1>14, UnsharedIsAlone
  <2>2. \A e \in M!Delegation \ {d} : M!AtWork(e)' => task'[e].agent # task'[d].agent
    BY <1>14, <2>1
  <2>3. CASE d[1] = r
    <3>1. d[2] \in DOMAIN agents /\ task'[d].agent = agents[d[2]] /\ task'[d].calls = 0
      BY <1>9, <2>3
    <3>2. task'[d].agent \in M!Range(agents)
      BY <3>1 DEF M!Range
    <3>3. history'[task'[d].agent] = M!Nobody
      BY <1>2, <2>1, <3>2
    <3>4. M!Nobody = [M!Nobody EXCEPT ![d] = 0]
      BY DEF M!Nobody
    <3> QED
      BY <2>2, <3>1, <3>3, <3>4
  <2>4. CASE d[1] # r
    <3>1. task'[d].agent \notin M!Range(agents)
      <4>1. SUFFICES ASSUME NEW s \in DOMAIN agents, agents[s] = task'[d].agent PROVE FALSE
        BY DEF M!Range
      <4>2. <<r, s>> \in M!Delegation \ {d}
        BY <1>5, <2>4 DEF M!Delegation, Supervised
      <4>3. AgentOf(<<r, s>>, agents, r) = agents[s]
        BY DEF AgentOf
      <4> QED
        BY <2>1, <4>1, <4>2, <4>3
    <3>2. history'[task'[d].agent] = history[task'[d].agent]
      BY <1>2, <2>1, <3>1
    <3>3. M!AtWork(d) /\ task'[d].agent = task[d].agent /\ task'[d].calls = task[d].calls
          /\ ~task[d].shared
      BY <1>10, <1>14, <2>4
    <3>4. history[task[d].agent] = [M!Nobody EXCEPT ![d] = task[d].calls]
      BY <1>1, <3>3 DEF RecordInv
    <3> QED
      BY <2>2, <3>2, <3>3, <3>4
  <2> QED
    BY <2>3, <2>4
<1>17. M!RecordsNeedOverlap'
  <2> SUFFICES ASSUME NEW d \in M!Delegation, task'[d].pc = "over", ~task'[d].shared,
                      task'[d].agent \in M!Remembers
               PROVE  task'[d].seen = [M!Nobody EXCEPT ![d] = task'[d].calls]
    BY DEF M!RecordsNeedOverlap
  <2>1. d[1] # r
    BY <1>9
  <2>2. task[d].pc = "over" /\ ~task[d].shared /\ task'[d].agent = task[d].agent
        /\ task'[d].calls = task[d].calls /\ task'[d].seen = task[d].seen
    BY <1>10, <2>1
  <2> QED
    BY <1>1, <2>2 DEF M!RecordsNeedOverlap
<1>18. M!TrailsNeedOverlap'
  <2>1. ASSUME NEW q \in Supervised \ crossed, step'[q] = "done"
        PROVE  /\ trail'[q].id = q
               /\ trail'[q].events = [p \in Supervised |-> IF p = q THEN emitted'[q] ELSE 0]
    <3>1. step[q] = "done" /\ emitted'[q] = emitted[q] /\ trail'[q] = trail[q]
      BY <1>3, <1>4, <1>8, <2>1
    <3> QED
      BY <1>1, <3>1 DEF M!TrailsNeedOverlap, Supervised
  <2> QED
    BY <1>3, <2>1 DEF M!TrailsNeedOverlap, Supervised
<1> QED
  BY <1>8, <1>13, <1>15, <1>16, <1>17, <1>18 DEF MultiInv

\* Whatever a run does keeps the invariant.
LEMMA RunStepKeeps ==
    ASSUME M!SupervisorAssumption, MultiInv, NEW r \in Supervised, M!RunStep(r)
    PROVE  MultiInv'
<1>1. /\ MultiShape /\ LogInv /\ WorkInv /\ RecordInv
      /\ M!TrailsNeedOverlap /\ M!RecordsNeedOverlap
  BY DEF MultiInv
<1>2. CASE M!Finish(r)
  <2>1. \A d \in M!Delegation : d[1] = r => ~M!AtWork(d)
    BY <1>1, <1>2 DEF M!Finish, WorkInv
  <2>2. modelFaults' \in 0..MaxModelFaults
    BY <1>1, <1>2, SupervisorBounds DEF M!Finish, M!Fault, MultiShape
  <2> QED
    BY <1>2, <2>1, <2>2, EndRunKeeps DEF M!Finish, M!Active
<1>3. CASE M!Collect(r)
  <2>1. \A d \in M!Delegation : d[1] = r => ~M!AtWork(d)
    BY <1>3, DelegationsArePairs DEF M!Collect
  <2>2. CASE round[r] < MaxRounds
    <3>1. /\ round' = [round EXCEPT ![r] = round[r] + 1]
          /\ step' = [step EXCEPT ![r] = "ask"] /\ step[r] = "wait"
          /\ UNCHANGED <<eventLog, emitted, trail, task, owner, history, crossed, modelFaults>>
      BY <1>1, <1>3, <2>2 DEF M!Collect, MultiShape
    <3>2. /\ step \in [Supervised -> {"idle", "ask", "wait", "done"}]
          /\ round \in [Supervised -> 1..MaxRounds]
      BY <1>1 DEF MultiShape
    <3>3. round' \in [Supervised -> 1..MaxRounds]
      <4>1. round[r] + 1 \in 1..MaxRounds
        BY <2>2, <3>2, SupervisorBounds
      <4> QED
        BY <3>1, <3>2, <4>1
    <3>4. MultiShape'
      BY <1>1, <3>1, <3>2, <3>3 DEF MultiShape
    <3>5. \A q \in Supervised : M!Active(q)' <=> M!Active(q)
      BY <3>1, <3>2 DEF M!Active
    <3>6. LogInv'
      BY <1>1, <3>1, <3>5 DEF LogInv, OwnLog
    <3>7. WorkInv'
      BY <1>1, <2>1, <3>1, <3>2, DelegationsArePairs DEF WorkInv, M!AtWork
    <3>8. RecordInv' /\ M!RecordsNeedOverlap'
      BY <1>1, <3>1 DEF RecordInv, M!AtWork, M!RecordsNeedOverlap
    <3>9. M!TrailsNeedOverlap'
      BY <1>1, <3>1, <3>2 DEF M!TrailsNeedOverlap, Supervised
    <3> QED
      BY <3>4, <3>6, <3>7, <3>8, <3>9 DEF MultiInv
  <2>3. CASE ~(round[r] < MaxRounds)
    BY <1>1, <1>3, <2>1, <2>3, EndRunKeeps DEF M!Collect, M!Active, MultiShape
  <2> QED
    BY <2>2, <2>3
<1> QED
  BY <1>2, <1>3, StartRunKeeps, DelegateKeeps DEF M!RunStep

\* No step of a run or of a specialist breaks the invariant.
LEMMA MultiStep ==
    ASSUME M!SupervisorAssumption, MultiInv, [M!Next]_(M!vars)
    PROVE  MultiInv'
<1>1. CASE UNCHANGED M!vars
  <2>1. UNCHANGED <<step, round, owner, eventLog, emitted, trail, task, history, crossed,
                    modelFaults>>
    BY <1>1 DEF M!vars
  <2>2. MultiShape' /\ LogInv'
    BY <2>1 DEF MultiInv, MultiShape, LogInv, OwnLog, M!Active
  <2>3. WorkInv' /\ RecordInv'
    BY <2>1 DEF MultiInv, WorkInv, RecordInv, M!AtWork
  <2>4. M!TrailsNeedOverlap' /\ M!RecordsNeedOverlap'
    BY <2>1 DEF MultiInv, M!TrailsNeedOverlap, M!RecordsNeedOverlap
  <2> QED
    BY <2>2, <2>3, <2>4 DEF MultiInv
<1> QED
  BY <1>1, RunStepKeeps, AgentStepKeeps DEF M!Next, M!Step, M!Idle, Supervised

-------------------------------------------------------------------------------
(* The theorems.                                                           *)

\* Every part runs, or rests in an initial state of its own.
LEMMA PartsRun == MCSpec => Spec /\ E!Spec /\ M!Spec /\ B!Spec /\ V!Spec
<1>1. MCInit => Init /\ E!Init /\ M!Init /\ B!Init /\ V!Init
  BY DEF MCInit
<1> DEFINE all == <<part, vars, agentVars, multiVars, baseVars, gateVars>>
<1>2. [MCNext]_all => /\ [Next]_vars /\ [E!Next]_(E!vars) /\ [M!Next]_(M!vars)
                      /\ [B!Next]_(B!vars) /\ [V!Next]_(V!vars)
  <2>1. /\ UNCHANGED agentVars => UNCHANGED E!vars
        /\ UNCHANGED multiVars => UNCHANGED M!vars
        /\ UNCHANGED baseVars => UNCHANGED B!vars
        /\ UNCHANGED gateVars => UNCHANGED V!vars
    BY DEF agentVars, E!vars, E!plane, multiVars, M!vars, baseVars, B!vars, gateVars, V!vars
  <2> QED
    BY <2>1 DEF MCNext
<1> QED
  BY <1>1, <1>2, PTL DEF MCSpec, Spec, E!Spec, M!Spec, B!Spec, V!Spec

\* The orchestrator completes a run only with an execution that no gate had blocked, and one
\* of high risk never, whatever its model asks for and whatever its tools return.
THEOREM RunsAreEarned ==
    Spec => [](TypeOK /\ CompletedWasUnblocked /\ HighRiskNeverCompletes /\ BlockDecidesTheRun)
<1>1. Spec => []OrchInv
  BY OrchInit, OrchStep, PTL DEF Spec
<1> QED
  BY <1>1, OutcomeIsEarned, PTL

\* However many invocations of an agent that keeps to its prompt overlap, die or are called
\* again, what they report is what became of the step.
THEOREM InvocationsAreHonest ==
    ASSUME Obedient
    PROVE  E!Spec => [](/\ E!TypeOK /\ E!CompletedWasRun /\ E!SkippedWasCompleted
                        /\ E!SavedAfterRun /\ E!RunsExplained /\ E!PausedAfterFailure)
<1>1. E!Init => ExecInv
  BY Assumptions, ExecInit
<1>2. ExecInv /\ [E!Next]_(E!vars) => ExecInv'
  BY Assumptions, ExecStep
<1>3. ExecInv => /\ E!TypeOK /\ E!CompletedWasRun /\ E!SkippedWasCompleted
                 /\ E!SavedAfterRun /\ E!RunsExplained /\ E!PausedAfterFailure
  BY Assumptions, ExecTyped, ReportsAreHonest
<1> QED
  BY <1>1, <1>2, <1>3, PTL DEF E!Spec

\* Whatever executions end while it is open or half open, the breaker they share is closed
\* exactly as long as fewer than threshold failures have followed each other.
THEOREM BreakerCounts == B!Spec => []BreakerInv
<1>1. B!Init => BreakerInv
  BY Assumptions, BreakerInit
<1>2. BreakerInv /\ [B!Next]_(B!vars) => BreakerInv'
  BY Assumptions, BreakerStep
<1> QED
  BY <1>1, <1>2, PTL DEF B!Spec

\* In whatever order, and how often, the model calls the tools, a validation that is not
\* FAILED has made every check it needs.
THEOREM PassesAreProven == V!Spec => [](V!TypeOK /\ V!PassIsProven)
<1>1. V!Init => GateInv
  BY Assumptions, GateInit
<1>2. GateInv /\ [V!Next]_(V!vars) => GateInv'
  BY Assumptions, GateStep
<1>3. GateInv => V!TypeOK /\ V!PassIsProven
  BY DEF GateInv
<1> QED
  BY <1>1, <1>2, <1>3, PTL DEF V!Spec

\* A trail, or a record of calls, is wrong only of runs that overlapped, or of delegations
\* that shared an agent.
THEOREM MixingNeedsOverlap ==
    M!Spec => [](M!TypeOK /\ M!TrailsNeedOverlap /\ M!RecordsNeedOverlap)
<1>1. M!Init => MultiInv
  BY Assumptions, MultiInit
<1>2. MultiInv /\ [M!Next]_(M!vars) => MultiInv'
  BY Assumptions, MultiStep
<1>3. MultiInv => M!TypeOK /\ M!TrailsNeedOverlap /\ M!RecordsNeedOverlap
  BY MultiTyped DEF MultiInv
<1> QED
  BY <1>1, <1>2, <1>3, PTL DEF M!Spec

\* The invariant of the orchestrator holds of the loops together.
THEOREM CompletionHolds == MCSpec => []CompletionIsEarned
<1>1. TypeOK /\ CompletedWasUnblocked /\ HighRiskNeverCompletes /\ BlockDecidesTheRun
         => CompletionIsEarned
  BY DEF CompletionIsEarned
<1> QED
  BY <1>1, PartsRun, RunsAreEarned, PTL

\* So does the one of the execution agent, if its model is obedient.
THEOREM HonestyHolds ==
    ASSUME Obedient
    PROVE  MCSpec => []StatusesAreHonest
<1>1. E!Spec => [](/\ E!TypeOK /\ E!CompletedWasRun /\ E!SkippedWasCompleted
                   /\ E!SavedAfterRun /\ E!RunsExplained /\ E!PausedAfterFailure)
  BY InvocationsAreHonest
<1>2. E!TypeOK /\ E!CompletedWasRun /\ E!SkippedWasCompleted /\ E!SavedAfterRun
         /\ E!RunsExplained /\ E!PausedAfterFailure => StatusesAreHonest
  BY DEF StatusesAreHonest
<1> QED
  BY <1>1, <1>2, PartsRun, PTL

\* And the one of the specialists and the gates,
THEOREM ClaimsHold == MCSpec => []ClaimsAreBacked
<1>1. M!TypeOK /\ M!TrailsNeedOverlap /\ M!RecordsNeedOverlap
         /\ V!TypeOK /\ V!PassIsProven => ClaimsAreBacked
  BY DEF ClaimsAreBacked
<1> QED
  BY <1>1, PartsRun, MixingNeedsOverlap, PassesAreProven, PTL

\* and the one of the breaker.
THEOREM ThresholdHolds == MCSpec => []ClosedBelowThreshold
<1>1. BreakerInv => ClosedBelowThreshold
  BY DEF ClosedBelowThreshold, BreakerInv
<1> QED
  BY <1>1, PartsRun, BreakerCounts, PTL
===============================================================================
