---------------------------- MODULE ValidationAgent ----------------------------
(***************************************************************************)
(* ValidationAgent (src/agents/validation-agent/agent.py): a language      *)
(* model calls the checks of three gates in any order, any number of       *)
(* times, and the gates are then built from the results that were kept:    *)
(* one for each tool.  The model and the migration API are external.       *)
(***************************************************************************)
EXTENDS Integers, FiniteSets

CONSTANTS
    Entity,         \* Account, Contact
    MaxTrouble,     \* bound on the checks the data does not pass, and calls in vain
    MaxIterations

GateAssumption ==
    /\ IsFiniteSet(Entity)
    /\ MaxIterations \in Nat \ {0}
    /\ MaxTrouble \in Nat

VARIABLES
    entities,   \* entity_names, which are the object_names too
    skip,       \* skip_gate3
    truth,      \* what each check says of the data
    pc,         \* "ask", "tools", "returned" or "failed"
    iteration,
    kept,       \* tool_results_raw
    overall,    \* overall_status of the result
    answered,   \* observed: the checks whose last answer was what the data says
    trouble

vars == <<entities, skip, truth, pc, iteration, kept, overall, answered, trouble>>

-------------------------------------------------------------------------------
PerEntity == {"check_source_record_count", "check_required_fields_populated"}
Single == {"check_referential_integrity", "check_phone_format_validity",
           "check_transformation_rejection_rate", "sample_loaded_salesforce_records"}
Tool == PerEntity \union Single

Check == (PerEntity \X Entity) \union (Single \X {"all"})

\* The defaults of ValidationThresholds: of a thousand records, how many may be bad.
\* The tools have the same numbers as literals; what is configured is only reported.
Thresholds == [counts |-> 10, nulls |-> 10, relations |-> 10, phones |-> 50,
               rejections |-> 20, sample |-> 5]

AtMost(bad, total, limit) == bad * 1000 <= limit * total

\* What each tool makes of the counts the API reports, of which some are bad.
check_source_record_count(total, bad) ==
    CASE total = 0 -> "WARNING"
      [] AtMost(bad, total, Thresholds.counts) /\ total # 0 -> "PASSED"
      [] OTHER -> "FAILED"

check_required_fields_populated(total, bad) ==
    IF total # 0 /\ AtMost(bad, total, Thresholds.nulls) THEN "PASSED" ELSE "FAILED"

check_referential_integrity(total, bad) ==
    CASE total = 0 -> "WARNING"
      [] AtMost(bad, total, Thresholds.relations) /\ total # 0 -> "PASSED"
      [] OTHER -> "FAILED"

\* A status between the threshold and a second, wider one.
Graded(total, bad, limit, wider) ==
    CASE AtMost(bad, total, limit) -> "PASSED"
      [] ~AtMost(bad, total, limit) /\ AtMost(bad, total, wider) -> "WARNING"
      [] OTHER -> "FAILED"

check_phone_format_validity(total, bad) ==
    IF total = 0 THEN "SKIPPED" ELSE Graded(total, bad, Thresholds.phones, 200)

sample_loaded_salesforce_records(total, bad) ==
    IF total = 0 THEN "FAILED" ELSE Graded(total, bad, Thresholds.sample, 50)

check_transformation_rejection_rate(total, bad) ==
    IF total = 0 THEN "FAILED" ELSE Graded(total, bad, Thresholds.rejections, 50)

Status(tool, total, bad) ==
    CASE tool = "check_source_record_count" -> check_source_record_count(total, bad)
      [] tool = "check_required_fields_populated" -> check_required_fields_populated(total, bad)
      [] tool = "check_referential_integrity" -> check_referential_integrity(total, bad)
      [] tool = "check_phone_format_validity" -> check_phone_format_validity(total, bad)
      [] tool = "sample_loaded_salesforce_records" -> sample_loaded_salesforce_records(total, bad)
      [] OTHER -> check_transformation_rejection_rate(total, bad)

\* Nothing to check, or two hundred records of which some are bad.
Verdicts(c) == {Status(c[1], 0, 0)} \union {Status(c[1], 200, bad) : bad \in {0, 3, 7, 41}}

Absent == [entity |-> "none", status |-> "FAILED"]

Init ==
    /\ entities \in SUBSET Entity \ {{}}
    /\ skip \in BOOLEAN
    /\ \E bad \in SUBSET Check :
          /\ Cardinality(bad) <= MaxTrouble
          /\ trouble = Cardinality(bad)
          /\ \E t \in [bad -> {"WARNING", "FAILED", "SKIPPED"}] :
                /\ \A c \in bad : t[c] \in Verdicts(c)
                /\ truth = [c \in Check |-> IF c \in bad THEN t[c] ELSE "PASSED"]
    /\ pc = "ask" /\ iteration = 1
    /\ kept = [t \in Tool |-> Absent]
    /\ overall = "FAILED"
    /\ answered = {}

Trouble == trouble < MaxTrouble /\ trouble' = trouble + 1

-------------------------------------------------------------------------------
\* The result for an entity, if it is the one that was kept.
ResultFor(tool, e) == IF kept[tool].entity = e THEN kept[tool].status ELSE "FAILED"

Gate1_AnyEntity == IF \A t \in PerEntity : kept[t].status = "PASSED" THEN "PASSED" ELSE "FAILED"

\* Record counts and required fields; a warning of theirs is a failure.
Gate1 == IF \A t \in PerEntity, e \in entities : ResultFor(t, e) = "PASSED"
         THEN "PASSED" ELSE "FAILED"

Worst(statuses) == IF "FAILED" \in statuses THEN "FAILED"
                   ELSE IF "WARNING" \in statuses THEN "WARNING" ELSE "PASSED"

\* Relations, phones and rejections.
Gate2 == Worst({kept[t].status : t \in Single \ {"sample_loaded_salesforce_records"}})

Gate3 == IF skip THEN "SKIPPED" ELSE kept["sample_loaded_salesforce_records"].status

\* compute_overall_status, which a skipped gate does not disturb.
Overall ==
    LET worst == Worst({Gate1, Gate2, Gate3})
    IN  IF worst = "WARNING" THEN "PASSED_WITH_WARNINGS" ELSE worst

Return == pc' = "returned" /\ overall' = Overall

\* The request to the model fails: the result keeps its default.
ModelFails ==
    /\ pc = "ask"
    /\ pc' = "failed"
    /\ UNCHANGED <<entities, skip, truth, iteration, kept, overall, answered, trouble>>

ModelEnds ==
    /\ pc = "ask"
    /\ Return
    /\ UNCHANGED <<entities, skip, truth, iteration, kept, answered, trouble>>

ModelUsesTools ==
    /\ pc = "ask"
    /\ pc' = "tools"
    /\ UNCHANGED <<entities, skip, truth, iteration, kept, overall, answered, trouble>>

\* A tool of the answer is called.
CallTool(c) ==
    /\ pc = "tools"
    /\ kept' = [kept EXCEPT ![c[1]] = [entity |-> c[2], status |-> truth[c]]]
    /\ answered' = answered \union {c}
    /\ UNCHANGED <<trouble, entities, skip, truth, pc, iteration, overall>>

\* Its requests fail, three times, and it says FAILED for what it could not read.
CallToolInVain(c) ==
    /\ pc = "tools"
    /\ Trouble
    /\ kept' = [kept EXCEPT ![c[1]] = [entity |-> c[2], status |-> "FAILED"]]
    /\ answered' = answered \ {c}
    /\ UNCHANGED <<entities, skip, truth, pc, iteration, overall>>

\* Arguments of a wrong form make the tool raise: a failure without an entity.  For
\* the tools of all entities it is no different from a call in vain.
CallToolWrongly(t) ==
    /\ pc = "tools"
    /\ Trouble
    /\ kept' = [kept EXCEPT ![t] = Absent]
    /\ UNCHANGED <<entities, skip, truth, pc, iteration, overall, answered>>

\* The results go to the model; after the last iteration the gates are built.
EndAnswer ==
    /\ pc = "tools"
    /\ IF iteration < MaxIterations
       THEN pc' = "ask" /\ iteration' = iteration + 1 /\ UNCHANGED overall
       ELSE Return /\ UNCHANGED iteration
    /\ UNCHANGED <<entities, skip, truth, kept, answered, trouble>>

Ask == ModelFails \/ ModelEnds \/ ModelUsesTools

Step ==
    \/ Ask \/ EndAnswer
    \/ \E c \in Check : CallTool(c) \/ CallToolInVain(c)
    \/ \E t \in PerEntity : CallToolWrongly(t)

Idle == pc \in {"returned", "failed"} /\ UNCHANGED vars

Next == Step \/ Idle

Spec == Init /\ [][Next]_vars

\* The model answers with a finite list of tools, and the tools answer.
FairSpec == Spec /\ WF_vars(Ask) /\ WF_vars(EndAnswer)

-------------------------------------------------------------------------------
\* The types of the variables.
TypeOK ==
    /\ entities \subseteq Entity /\ skip \in BOOLEAN
    /\ pc \in {"ask", "tools", "returned", "failed"}
    /\ iteration \in 1..MaxIterations
    /\ \A t \in Tool : kept[t].entity \in Entity \union {"all", "none"}
    /\ answered \subseteq Check /\ trouble \in 0..MaxTrouble
    /\ overall \in {"FAILED", "PASSED", "PASSED_WITH_WARNINGS"}

\* The checks a run with these arguments asks for.
Required == {c \in Check : /\ c[1] \in PerEntity => c[2] \in entities
                           /\ skip => c[1] # "sample_loaded_salesforce_records"}

\* "Must prove data is good through tool calls": whatever tools the model calls and
\* in whatever order, a result that is not FAILED means that each required check was
\* made, that its last answer was what the data says, and that it was not FAILED;
\* and without a warning, that all of them passed.
PassIsProven ==
    overall # "FAILED" =>
        /\ Required \subseteq answered /\ \A c \in Required : truth[c] # "FAILED"
        /\ overall = "PASSED" => \A c \in Required : truth[c] \in {"PASSED", "SKIPPED"}

\* A run ends.
RunEnds == []<>(pc \in {"returned", "failed"})

-------------------------------------------------------------------------------
\* "May have been called multiple times; look for last result for this entity": what
\* is looked for was overwritten by the result for the last entity, so that a run
\* with two entities, the default, never passes.
ProvenPasses ==
    (/\ pc = "returned" /\ Required \subseteq answered
     /\ \A c \in Required : truth[c] = "PASSED") => overall = "PASSED"
===============================================================================
