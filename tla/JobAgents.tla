------------------------------- MODULE JobAgents -------------------------------
(***************************************************************************)
(* The agents that are asked for one text about a job.  Each has its own   *)
(* state and its language model, which is external.                        *)
(*                                                                         *)
(* DebuggingAgent (src/agents/debugging-agent/agent.py) looks for the      *)
(* cause of a failure with tools that only read, and may say that the      *)
(* failure can be recovered from without a person; the API of diagnostics  *)
(* is external.  PlanningAgent (src/agents/planning-agent/agent.py) has a  *)
(* plan proposed, and what it knows better is put in its place before the  *)
(* plan is validated.  SecurityAgent (src/agents/security-agent/agent.py)  *)
(* runs four checks of what a job is given, scores what they find and      *)
(* decides.  What is checked is told apart by what the checks find in it,  *)
(* and counts only if they find something; how often each kind occurs is   *)
(* an input.                                                               *)
(***************************************************************************)
EXTENDS Integers, Sequences, FiniteSetsExt, Functions

CONSTANTS
    MaxIterations,
    Offered,        \* the analyses a text of the model may hold
    Records,        \* totals of record_counts
    Minutes,        \* durations a plan may state
    MaxOnce,        \* bound on the paths and queries of a kind
    MaxItems        \* bound on all of them and the strings

RootCauseCategory == {"OOM", "DB_DEADLOCK", "SF_BULK_STALL", "KAFKA_LAG", "NETWORK_TIMEOUT",
                      "DATA_QUALITY", "UNKNOWN"}

\* What a JSON object says, in ten-thousandths of confidence.
Claims == [category : RootCauseCategory \union {"other"}, confidence : Int,
           evidence : Nat, auto : BOOLEAN, action : BOOLEAN]

AgentsAssumption ==
    /\ MaxIterations \in Nat \ {0} /\ Offered \subseteq Claims
    /\ Records \subseteq Nat /\ Minutes \subseteq Nat
    /\ {MaxOnce, MaxItems} \subseteq Nat

VARIABLES
    debugging,  \* "ask", "tools" or "done"
    iteration,
    called,     \* tools that were asked for
    reached,    \* tools that sent a request to the API
    analysis,
    diagnosis,
    sessions,   \* lines of the file of sessions: the utility each states
    input,      \* [records, sox, window]
    planning,   \* "ask" or "done"
    planned,    \* [success, plan]
    paths, queries, strings,    \* how often each kind occurs
    llm,                        \* request_llm_analysis
    scanning,                   \* "checks" or "done"
    scanned                     \* [critical, high, risk, passed, gate, analysis]

debuggingVars == <<debugging, iteration, called, reached, analysis, diagnosis, sessions>>
planningVars  == <<input, planning, planned>>
scanVars      == <<paths, queries, strings, llm, scanning, scanned>>
vars          == <<debuggingVars, planningVars, scanVars>>

-------------------------------------------------------------------------------
(* Debugging.                                                              *)

_WRITE_TOOLS == {"pause_migration", "resume_migration", "cancel_migration",
                 "retry_failed_records", "scale_batch_size", "write_records",
                 "upsert_records", "delete_records", "execute_migration", "restart_service"}

\* Those of the handler that dispatch knows.
ReadTools == {"read_logs", "get_pod_status", "get_db_blocking_queries",
              "get_kafka_consumer_lag", "get_salesforce_bulk_job_status"}

None == [category |-> "none", confidence |-> 0, evidence |-> 0, auto |-> FALSE, action |-> FALSE]

\* UNKNOWN, with a confidence of a tenth.
Fallback == [category |-> "UNKNOWN", confidence |-> 100, evidence |-> 3,
             auto |-> FALSE, action |-> FALSE]

NoDiagnosis == [success |-> FALSE, analysis |-> None, signalled |-> FALSE]

DebuggingInit ==
    /\ debugging = "ask" /\ iteration = 1
    /\ called = {} /\ reached = {}
    /\ analysis = None /\ diagnosis = NoDiagnosis
    /\ sessions = <<>>

\* RootCauseAnalysis.model_validate.
AnalysisAccepted(c) ==
    /\ c.category \in RootCauseCategory
    /\ c.confidence \in 0..10000
    /\ c.evidence >= 1
    /\ c.auto => c.action

Rounded_Up(c) == [c EXCEPT !.confidence = (@ + 9) \div 10]

\* confidence_precision: thousandths.
Rounded(c) == [c EXCEPT !.confidence = (@ + 5) \div 10]

\* _parse_analysis of each text of the final answer, until one of them is accepted.
Parse(texts) ==
    LET good == {i \in DOMAIN texts : texts[i] \in Offered /\ AnalysisAccepted(texts[i])}
    IN  IF good = {} THEN None
        ELSE Rounded(texts[CHOOSE i \in good : \A j \in good : i <= j])

\* _emit_halcon_metrics: the file may not be writable.
EmitMetrics(utility) == sessions' \in {sessions, Append(sessions, utility)}

\* What follows the loop.
Conclude(found) ==
    LET final == IF found = None THEN Fallback ELSE found
    IN  /\ analysis' = final
        /\ diagnosis' = [success |-> TRUE, analysis |-> final,
                         signalled |-> final.auto /\ final.confidence > 850]
        /\ EmitMetrics(final.confidence)
        /\ debugging' = "done"

ApiError ==
    /\ debugging = "ask"
    /\ debugging' = "done"
    /\ diagnosis' = NoDiagnosis
    /\ EmitMetrics(0)
    /\ UNCHANGED <<iteration, called, reached, analysis>>

\* stop_reason is end_turn; any text may come before the one that counts.
EndTurn ==
    /\ debugging = "ask"
    /\ \E texts \in {<<a, b>> : a, b \in Offered \union {None}} : Conclude(Parse(texts))
    /\ UNCHANGED <<iteration, called, reached>>

\* Any other reason than tool_use, max_tokens for one.
UnexpectedStop ==
    /\ debugging = "ask"
    /\ Conclude(None)
    /\ UNCHANGED <<iteration, called, reached>>

AskForTools ==
    /\ debugging = "ask"
    /\ debugging' = "tools"
    /\ UNCHANGED <<iteration, called, reached, analysis, diagnosis, sessions>>

Dispatch_Unchecked(t) == t \in ReadTools \union _WRITE_TOOLS

\* dispatch: a tool that writes, and one nobody knows, is refused.
Dispatch(t) == t \in ReadTools \ _WRITE_TOOLS

\* Whatever comes of a call, an unavailable API and missing arguments included, is
\* an answer to the model.
CallTool(t) ==
    /\ debugging = "tools" /\ t \notin called
    /\ called' = called \union {t}
    /\ reached' \in {reached, IF Dispatch(t) THEN reached \union {t} ELSE reached}
    /\ UNCHANGED <<debugging, iteration, analysis, diagnosis, sessions>>

\* Mutant: only an answer without calls counts as an iteration.
EndAnswer_Uncounted ==
    /\ debugging = "tools" /\ debugging' = "ask"
    /\ UNCHANGED <<iteration, called, reached, analysis, diagnosis, sessions>>

EndAnswer ==
    /\ debugging = "tools"
    /\ IF iteration < MaxIterations
       THEN /\ debugging' = "ask" /\ iteration' = iteration + 1
            /\ UNCHANGED <<analysis, diagnosis, sessions>>
       ELSE Conclude(None) /\ UNCHANGED iteration
    /\ UNCHANGED <<called, reached>>

AskModel == ApiError \/ EndTurn \/ UnexpectedStop \/ AskForTools
DebuggingStep ==
    \/ AskModel
    \/ EndAnswer
    \/ \E t \in {"read_logs", "restart_service", "unknown"} : CallTool(t)

-------------------------------------------------------------------------------
(* Planning.                                                               *)

\* The steps in the order the prompt requires.
StepType == <<"PRE_MIGRATION_COMPLIANCE_CHECK", "EXTRACT", "VALIDATE_SOURCE", "TRANSFORM",
              "VALIDATE_TARGET", "LOAD", "VALIDATE_POST_LOAD", "POST_MIGRATION_RECONCILIATION">>

RiskLevel == <<"LOW", "MEDIUM", "HIGH", "CRITICAL">>

NoPlan == [steps |-> <<>>, total |-> 0, risk |-> "none", sox |-> FALSE,
           requires |-> FALSE, window |-> FALSE]

PlanningInit ==
    /\ input \in [records : Records, sox : BOOLEAN, window : BOOLEAN]
    /\ planning = "ask"
    /\ planned = [success |-> FALSE, plan |-> NoPlan]

\* How many of the thresholds the total reaches.
Tier(records) == IF records < 50000 THEN 1
                 ELSE IF records < 500000 THEN 2
                 ELSE IF records < 2000000 THEN 3 ELSE 4

CalculateRisk_NoScope(records, sox) == RiskLevel[Tier(records)]

\* _calculate_risk_level: HIGH at least within the scope of SOX.
CalculateRisk(records, sox) ==
    RiskLevel[IF sox /\ Tier(records) < 3 THEN 3 ELSE Tier(records)]

\* The steps of a plan of the model: one or two, in any order, or none.
Drafts ==
    LET step == {[type |-> StepType[i], minutes |-> m] : i \in {1, 2, 6}, m \in Minutes}
    IN  {<<>>} \union {<<s>> : s \in step} \union {<<s, t>> : s, t \in step}

\* What it may say.
Proposals == [steps : Drafts, total : Minutes, risk : {"LOW", "CRITICAL"}, sox : {FALSE},
              requires : BOOLEAN, window : BOOLEAN]

Enforce_Proposed(p) == [p EXCEPT !.sox = input.sox]

\* What is injected.  A window nobody asked for stays if there is none to inject.
Enforce(p) ==
    [p EXCEPT !.sox = input.sox,
              !.risk = CalculateRisk(input.records, input.sox),
              !.requires = @ \/ input.window,
              !.window = @ \/ input.window]

\* MigrationPlan.model_validate.
PlanAccepted(p) ==
    /\ p.steps # <<>>
    /\ \A i \in DOMAIN p.steps : p.steps[i].minutes <= p.total

\* The answer is read and validated.
Propose ==
    /\ planning = "ask"
    /\ \E p \in Proposals :
          planned' = IF PlanAccepted(Enforce(p)) THEN [success |-> TRUE, plan |-> Enforce(p)]
                     ELSE [success |-> FALSE, plan |-> NoPlan]
    /\ planning' = "done"
    /\ UNCHANGED input

\* The request fails, or the answer is no JSON object.
Fail ==
    /\ planning = "ask"
    /\ planning' = "done"
    /\ UNCHANGED <<input, planned>>

PlanningStep == Propose \/ Fail

-------------------------------------------------------------------------------
(* Scanning.                                                               *)

PathKind == {"outside", "traversal"}

\* Queries that are no SELECT, or have a semicolon, a UNION, a keyword, or the last two.
QueryKind == {"noSelect", "semicolon", "union", "keyword", "unionKeyword"}

\* Strings of high entropy under a plain or a telling key, or with personal data of one
\* or of two kinds, the latter of high entropy too.
StringKind == {"random", "randomSecret", "email", "emailAndCard"}

NotScanned == [critical |-> 0, high |-> 0, risk |-> 0, passed |-> FALSE, gate |-> "none",
               analysis |-> "none"]

ScanInit ==
    /\ paths \in [PathKind -> 0..MaxOnce]
    /\ queries \in [QueryKind -> 0..MaxOnce]
    /\ strings \in [StringKind -> 0..MaxItems]
    /\ SumFunction(paths) + SumFunction(queries) + SumFunction(strings) <= MaxItems
    /\ llm \in BOOLEAN
    /\ scanning = "checks" /\ scanned = NotScanned

Found(critical, high) == [CRITICAL |-> critical, HIGH |-> high]

\* A traversal is not looked at any further.
CheckPathWhitelist == Found(paths["outside"] + paths["traversal"], 0)

\* Nor is a query that is no SELECT.
CheckSoqlInjection ==
    Found(queries["noSelect"] + queries["semicolon"] + queries["keyword"] + queries["unionKeyword"],
          queries["union"] + queries["unionKeyword"])

CheckEntropySecrets == Found(strings["randomSecret"], strings["random"] + strings["emailAndCard"])

\* One finding for each kind of personal data in a string.
CheckPii == Found(strings["email"] + 2 * strings["emailAndCard"], 0)

Findings(severity) ==
    CheckPathWhitelist[severity] + CheckSoqlInjection[severity]
        + CheckEntropySecrets[severity] + CheckPii[severity]

RiskScore_Sum(critical, high) == Min({1000, 400 * critical + 200 * high})

\* _calculate_risk_score, in thousandths.  No check finds anything of less weight.
RiskScore(critical, high) ==
    LET sum == 400 * critical + 200 * high
    IN  Min({1000, IF critical > 0 THEN Max({sum, 710}) ELSE sum})

Gate_ScoreFirst(critical, high) ==
    IF RiskScore(critical, high) > 800 THEN "BLOCK"
    ELSE IF critical + high > 0 THEN "WARN" ELSE "ALLOW"

\* More than 0.7, or a critical finding, blocks.
Gate(critical, high) ==
    IF critical > 0 \/ RiskScore(critical, high) > 700 THEN "BLOCK"
    ELSE IF critical + high > 0 THEN "WARN" ELSE "ALLOW"

\* run: the model, if it is asked, comments on the findings, or is not available.
Scan ==
    LET critical == Findings("CRITICAL")
        high == Findings("HIGH")
    IN  /\ scanning = "checks"
        /\ scanning' = "done"
        /\ \E comment \in IF llm /\ critical + high > 0 THEN {"text", "unavailable"} ELSE {"none"} :
              scanned' = [critical |-> critical, high |-> high,
                          risk |-> RiskScore(critical, high),
                          passed |-> critical = 0 /\ RiskScore(critical, high) <= 700,
                          gate |-> Gate(critical, high), analysis |-> comment]
        /\ UNCHANGED <<paths, queries, strings, llm>>

-------------------------------------------------------------------------------
Init == DebuggingInit /\ PlanningInit /\ ScanInit

Step ==
    \/ DebuggingStep /\ UNCHANGED <<planningVars, scanVars>>
    \/ PlanningStep /\ UNCHANGED <<debuggingVars, scanVars>>
    \/ Scan /\ UNCHANGED <<debuggingVars, planningVars>>

Idle == {debugging, planning, scanning} = {"done"} /\ UNCHANGED vars

Next == Step \/ Idle

Spec == Init /\ [][Next]_vars

\* The models answer, with finitely many tools, and checks return.
FairSpec == Spec /\ WF_vars(Step)

-------------------------------------------------------------------------------
\* The types of the variables.
TypeOK ==
    /\ debugging \in {"ask", "tools", "done"} /\ iteration \in 1..MaxIterations
    /\ reached \subseteq called
    /\ diagnosis.success \in BOOLEAN /\ diagnosis.signalled \in BOOLEAN
    /\ planning \in {"ask", "done"}
    /\ planned.success \in BOOLEAN
    /\ planned.success => planned.plan.risk \in {RiskLevel[i] : i \in DOMAIN RiskLevel}
    /\ paths \in [PathKind -> 0..MaxOnce] /\ queries \in [QueryKind -> 0..MaxOnce]
    /\ strings \in [StringKind -> 0..MaxItems] /\ llm \in BOOLEAN
    /\ scanning \in {"checks", "done"}
    /\ scanned.risk \in 0..1000

\* "If auto_recoverable AND confidence > 0.85: signals orchestrator with recovery
\* action": an analysis that is signalled was offered by the model, with an action,
\* evidence and more than 0.85 also after rounding, and never by an answer that was
\* cut short; nothing but tools that read has reached the API; and a session says
\* of a run how confident its analysis is.
SignalIsEarned ==
    /\ diagnosis.signalled =>
          /\ diagnosis.analysis # Fallback /\ diagnosis.analysis.action
          /\ \E c \in Offered : /\ c.auto /\ c.confidence > 8500
                                /\ AnalysisAccepted(c) /\ Rounded(c) = diagnosis.analysis
    /\ reached \subseteq ReadTools
    /\ sessions # <<>> => sessions = <<diagnosis.analysis.confidence>>

\* "The LLM cannot override it": whatever it proposes, a plan that is returned is of
\* the risk its records and its scope make, HIGH or more within the scope of SOX,
\* takes no less time than any of its steps, and has the window it was given.
PlanIsOurs ==
    planned.success =>
        LET p == planned.plan
        IN  /\ p.risk = CalculateRisk(input.records, input.sox)
            /\ input.sox => p.sox /\ p.risk \in {"HIGH", "CRITICAL"}
            /\ \A i \in DOMAIN p.steps : p.steps[i].minutes <= p.total
            /\ input.window => p.requires /\ p.window

\* What may pass: no path outside, no query that is wrong but for a UNION, no secret
\* under a telling key, no personal data, and at most three findings of less weight;
\* the decision, the score and passed say the same of it, and a clean job is allowed.
GateIsExact ==
    scanning = "done" =>
        LET clean == /\ \A k \in PathKind : paths[k] = 0
                     /\ \A k \in QueryKind \ {"union"} : queries[k] = 0
                     /\ \A k \in StringKind \ {"random"} : strings[k] = 0
            doubts == queries["union"] + strings["random"]
        IN  /\ scanned.passed <=> clean /\ doubts <= 3
            /\ scanned.passed <=> scanned.risk <= 700
            /\ scanned.passed <=> scanned.gate # "BLOCK"
            /\ scanned.gate = "ALLOW" <=> clean /\ doubts = 0

\* The runs end.
RunsEnd == <>({debugging, planning, scanning} = {"done"})

-------------------------------------------------------------------------------
\* "Evidence-based: every conclusion must cite specific log lines or data": evidence
\* is a list that is not empty; nothing relates it to what the tools returned.
EvidenceIsCited == diagnosis.analysis.confidence > 850 => reached # {}

\* "Follow the step ordering constraints exactly", says the prompt; no validator does.
StepsAreOrdered ==
    LET s == planned.plan.steps
        place(t) == CHOOSE i \in DOMAIN StepType : StepType[i] = t
    IN  \A i, j \in DOMAIN s : i < j => place(s[i].type) < place(s[j].type)

\* "requires_maintenance_window" of a job without one is up to the model.
WindowIsOurs == planned.success => (planned.plan.requires => input.window)

\* "> 2,000,000 -> CRITICAL": two million records are CRITICAL too.
TiersAsDocumented ==
    planned.success /\ ~input.sox => (planned.plan.risk = "CRITICAL" <=> input.records > 2000000)
===============================================================================
