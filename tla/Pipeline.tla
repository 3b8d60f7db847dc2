------------------------------- MODULE Pipeline --------------------------------
(***************************************************************************)
(* The graph of migration tasks and its two schedulers: the Airflow DAG,   *)
(* which runs a task when its predecessors have succeeded and retries it,  *)
(* and StandalonePipelineRunner, which takes the tasks from a list and may *)
(* start and stop anywhere (src/migration/orchestrator.py).  Tasks hand    *)
(* their results over in directories that no run empties.                  *)
(***************************************************************************)
EXTENDS Integers, Sequences, FiniteSets

CONSTANTS
    Retries,    \* of a task, in Airflow
    MaxRuns,    \* bound on runs of the pipeline
    MaxFaults   \* bound on tasks that fail, or end well with a part undone

PipelineAssumption == {Retries, MaxRuns, MaxFaults} \subseteq Nat

VARIABLES
    mode,       \* "airflow" or "standalone"
    run,        \* the number of the run, 0 before the first one
    scope,      \* the tasks the run is to execute, as a range of TASKS
    status,     \* of each task in the run
    tries,      \* of each task in the run
    files,      \* the outputs each task has left on disk, in all runs
    mapping,    \* the run that wrote the newest account mapping, 0 if none did
    linked,     \* the mapping the contacts were last transformed with
    inOrg,      \* accounts in Salesforce: "none", "some" or "all"
    faults

vars == <<mode, run, scope, status, tries, files, mapping, linked, inOrg, faults>>

-------------------------------------------------------------------------------
\* The list of the standalone runner with the contacts before the mapping.
TASKS_ContactsFirst ==
    <<"extract_accounts", "extract_contacts", "transform_accounts",
      "transform_contacts", "load_accounts", "load_contacts",
      "validate_accounts", "validate_contacts", "reconciliation_report">>

TASKS ==
    <<"extract_accounts", "extract_contacts", "transform_accounts",
      "load_accounts", "transform_contacts", "load_contacts",
      "validate_accounts", "validate_contacts", "reconciliation_report">>

Task == {TASKS[i] : i \in 1..Len(TASKS)}
Position == [t \in Task |-> CHOOSE i \in 1..Len(TASKS) : TASKS[i] = t]

\* The edges of the DAG.
Edges ==
    { <<"extract_accounts", "transform_accounts">>,
      <<"transform_accounts", "load_accounts">>,
      <<"load_accounts", "transform_contacts">>,
      <<"extract_contacts", "transform_contacts">>,
      <<"transform_contacts", "load_contacts">>,
      <<"load_accounts", "validate_accounts">>,
      <<"load_contacts", "validate_contacts">>,
      <<"validate_accounts", "reconciliation_report">>,
      <<"validate_contacts", "reconciliation_report">> }

Before == [t \in Task |-> {e[1] : e \in {e \in Edges : e[2] = t}}]

Ended == {"success", "failed"}

Init ==
    /\ mode \in {"airflow", "standalone"}
    /\ run = 0
    /\ scope = {}
    /\ status = [t \in Task |-> "none"]
    /\ tries = [t \in Task |-> 0]
    /\ files = [t \in Task |-> 0]
    /\ mapping = 0 /\ linked = 0
    /\ inOrg = "none"
    /\ faults = 0

Fault == faults < MaxFaults /\ faults' = faults + 1

\* The tasks that may start: of the DAG, those with all predecessors done; of
\* the list, the first one that is not, unless one has failed.
Ready(t) ==
    /\ t \in scope
    /\ status[t] = "none"
    /\ IF mode = "airflow"
       THEN \A s \in Before[t] : status[s] = "success"
       ELSE \A s \in scope : /\ status[s] \notin {"running", "failed"}
                             /\ Position[s] < Position[t] => status[s] = "success"

Over == \A t \in Task : status[t] # "running" /\ ~Ready(t)

\* The next run; one at a time.  start_from names nothing: nothing is done.
NewRun(first, last) ==
    /\ Over
    /\ run < MaxRuns
    /\ mode = "airflow" => first = 1 /\ last = Len(TASKS)
    /\ run' = run + 1
    /\ scope' = {TASKS[i] : i \in first..last}
    /\ status' = [t \in Task |-> "none"]
    /\ tries' = [t \in Task |-> 0]
    /\ UNCHANGED <<mode, files, mapping, linked, inOrg, faults>>

Start(t) ==
    /\ Ready(t)
    /\ status' = [status EXCEPT ![t] = "running"]
    /\ tries' = [tries EXCEPT ![t] = @ + 1]
    /\ UNCHANGED <<mode, run, scope, files, mapping, linked, inOrg, faults>>

\* A task raises: Airflow tries again, the list ends here.
Raise(t) ==
    status' = [status EXCEPT ![t] =
                 IF mode = "airflow" /\ tries[t] <= Retries THEN "none" ELSE "failed"]

Return(t) == status' = [status EXCEPT ![t] = "success"]

\* What a task reads is there, from whatever run.
InputOf == [t \in Task |->
    CASE t = "transform_accounts" -> {"extract_accounts"}
      [] t = "transform_contacts" -> {"extract_contacts"}
      [] t \in {"load_accounts", "validate_accounts"} -> {"transform_accounts"}
      [] t \in {"load_contacts", "validate_contacts"} -> {"transform_contacts"}
      [] t = "reconciliation_report" -> {"transform_accounts", "transform_contacts"}
      [] OTHER -> {}]
HasInput(t) == \A s \in InputOf[t] : files[s] > 0

\* Nothing to read: the task raises.  So it may with its work done in part or
\* in full, as when its metrics cannot be written.
Fail(t) ==
    /\ status[t] = "running"
    /\ Raise(t)
    /\ \/ ~HasInput(t) /\ UNCHANGED <<files, inOrg, faults>>
       \/ /\ HasInput(t)
          /\ Fault
          /\ files' \in {files} \union
                {[files EXCEPT ![s] = @ + 1] : s \in {t} \intersect UNION {InputOf[u] : u \in Task}}
          /\ inOrg' \in IF t = "load_accounts" /\ inOrg # "all" THEN {inOrg, "some", "all"}
                       ELSE {inOrg}
    /\ UNCHANGED <<mode, run, scope, tries, mapping, linked>>

\* An extractor that cannot fetch its first page returns all the same, without
\* a file.
Extract(t) ==
    /\ t \in {"extract_accounts", "extract_contacts"}
    /\ status[t] = "running"
    /\ Return(t)
    /\ \/ files' = [files EXCEPT ![t] = @ + 1] /\ UNCHANGED faults
       \/ Fault /\ UNCHANGED files
    /\ UNCHANGED <<mode, run, scope, tries, mapping, linked, inOrg>>

\* Each transformation writes one more output of all its input.
TransformAccounts ==
    LET t == "transform_accounts"
    IN  /\ status[t] = "running" /\ HasInput(t)
        /\ files' = [files EXCEPT ![t] = @ + 1]
        /\ Return(t)
        /\ UNCHANGED <<mode, run, scope, tries, mapping, linked, inOrg, faults>>

\* The contacts are linked with the newest mapping there is, or not at all.
TransformContacts ==
    LET t == "transform_contacts"
    IN  /\ status[t] = "running" /\ HasInput(t)
        /\ files' = [files EXCEPT ![t] = @ + 1]
        /\ linked' = mapping
        /\ Return(t)
        /\ UNCHANGED <<mode, run, scope, tries, mapping, inOrg, faults>>

\* load returns also when it has stopped at too many failures, and the mapping is
\* written only if something succeeded and nothing went wrong with it.
LoadAccounts ==
    LET t == "load_accounts"
    IN  /\ status[t] = "running" /\ HasInput(t)
        /\ Return(t)
        /\ \/ inOrg' = "all" /\ mapping' = run /\ UNCHANGED faults
           \/ Fault /\ inOrg' = "all" /\ UNCHANGED mapping
           \/ /\ Fault
              /\ inOrg' = IF inOrg = "all" THEN "all" ELSE "some"
              /\ mapping' \in {run, mapping}
        /\ UNCHANGED <<mode, run, scope, tries, files, linked>>

LoadContacts ==
    LET t == "load_contacts"
    IN  /\ status[t] = "running" /\ HasInput(t)
        /\ Return(t)
        /\ UNCHANGED <<mode, run, scope, tries, files, mapping, linked, inOrg, faults>>

\* The report of the contacts that decides like that of the accounts, on the log.
ValidateAccounts_LogOnly ==
    LET t == "validate_accounts"
    IN  /\ status[t] = "running" /\ HasInput(t)
        /\ Return(t)
        /\ UNCHANGED <<mode, run, scope, tries, files, mapping, linked, inOrg, faults>>

\* A critical failure raises: records are missing, or the files have an id twice,
\* as two outputs of the transformation do.
ValidateAccounts ==
    LET t == "validate_accounts"
    IN  /\ status[t] = "running" /\ HasInput(t)
        /\ IF inOrg = "all" /\ files["transform_accounts"] = 1 THEN Return(t) ELSE Raise(t)
        /\ UNCHANGED <<mode, run, scope, tries, files, mapping, linked, inOrg, faults>>

\* Whatever the report of the contacts says, it is logged; so is the last one.
ValidateContacts ==
    \E t \in {"validate_contacts", "reconciliation_report"} :
        /\ status[t] = "running" /\ HasInput(t)
        /\ Return(t)
        /\ UNCHANGED <<mode, run, scope, tries, files, mapping, linked, inOrg, faults>>

Work ==
    \/ \E t \in Task : Start(t) \/ Fail(t) \/ Extract(t)
    \/ TransformAccounts \/ TransformContacts
    \/ LoadAccounts \/ LoadContacts
    \/ ValidateAccounts \/ ValidateContacts

Finished == Over /\ run = MaxRuns

Next ==
    \/ \E first \in 1..Len(TASKS) : \E last \in first..Len(TASKS) : NewRun(first, last)
    \/ Work
    \/ Finished /\ UNCHANGED vars

Spec == Init /\ [][Next]_vars

\* Tasks return or raise, and the schedulers start what is ready.
FairSpec == Spec /\ WF_vars(Work)

-------------------------------------------------------------------------------
\* The types of the variables.
TypeOK ==
    /\ mode \in {"airflow", "standalone"}
    /\ run \in 0..MaxRuns
    /\ scope \subseteq Task
    /\ status \in [Task -> Ended \union {"none", "running"}]
    /\ tries \in [Task -> 0..Retries + 1]
    /\ files \in [Task -> Nat]
    /\ {mapping, linked} \subseteq 0..run
    /\ inOrg \in {"none", "some", "all"}
    /\ faults \in 0..MaxFaults

\* Both schedulers keep the order of the graph: in a run of all tasks, none is at
\* work before all its predecessors have succeeded in that run.
GraphIsKept ==
    scope = Task =>
        \A e \in Edges : status[e[2]] # "none" \/ tries[e[2]] > 0 => status[e[1]] = "success"

\* A run of all tasks ends with a report only if all accounts are in Salesforce,
\* although a load that stops half way counts as a success.
ReportMeansAccountsLoaded ==
    scope = Task /\ status["reconciliation_report"] = "success" => inOrg = "all"

\* Contacts are linked with a mapping of this run if it wrote one.
FreshMappingIsUsed ==
    scope = Task /\ status["transform_contacts"] = "success" /\ mapping = run => linked = run

\* Every run ends.
PipelineEnds == []<>Over

-------------------------------------------------------------------------------
\* "Transform contacts requires account mapping": the task does without one, or
\* with one of an earlier run.
MappingBeforeContacts ==
    scope = Task /\ status["transform_contacts"] = "success" => linked = run

\* "Re-running any batch produces identical results": run again, the pipeline
\* ends with the report it ended with.
RerunPasses ==
    scope = Task /\ status["validate_accounts"] = "failed" => inOrg # "all" \/ faults > 0
===============================================================================
