------------------------------ MODULE MCServices ------------------------------
(***************************************************************************)
(* The services around a migration, and the agents that are asked for one  *)
(* text: the context server of the project, its cache and its index (K),   *)
(* those of documentation, runtime and security (C), what watches agents   *)
(* (W), the validation and reconciliation of a finished migration (R), the *)
(* scripts that deploy and roll back (Y), and the agents that debug, plan  *)
(* and scan (J).  One of them runs in a behaviour and the others rest in   *)
(* an initial state: in the code they share no state, and nor do cache and *)
(* index but for the clock, or one of the agents and another.              *)
(*                                                                         *)
(* Project context: two tenants, an administrator and a reader, and a      *)
(* cache of one entry.  Context servers: two files that are edited, texts  *)
(* of one chunk and of several, one too long to be indexed, and a request  *)
(* while the state changes or a call fails.  Watching: two threads, one    *)
(* agent, windows on both sides of their thresholds, and every shape of a  *)
(* run.  Reconciliation: accounts and contacts of which all, nearly all,   *)
(* or too few have arrived, and duplicates and strangers that make up for  *)
(* missing ones.  Deployment: three scripts over two new images.           *)
(* Agents: analyses on both sides of each threshold and of what the schema *)
(* accepts, record counts on both sides of each tier of risk, and every    *)
(* set of up to four findings.                                             *)
(***************************************************************************)
EXTENDS Integers, Sequences

CONSTANTS
    Tenant, Roles, Ttl, MaxEntries, IndexTtl, Migrations, Booted, MaxTime, MaxVersion,
    ChunkSize, Overlap, MaxBytes, MaxRequests, MaxChanges, MaxFaults, Absent,
    Threads, Agents, MaxEvents, MaxCalls, MaxRuns,
    Tag, MaxScripts,
    MaxIterations, Records, Minutes, MaxOnce, MaxItems

VARIABLES
    part,   \* the component that runs
    now, version, until, store, reply, completed, migrations,
    server, clock, changes, faults, requests, files, lastTrue, index, builtAt, startedAt,
    metric, during, old, used, disk, audit, job, answer,
    watcher, time, slips, locks, held, raced, window, events, thread, alerts,
    accesses, denials, calls, lines, torn, kept,
    source, org, encodes, object, checks, began, still, output, edits, failures,
    revisions, scaled, selector, bad, pc, tag, dry, captured, previous, outcome, fresh,
    audits, scripts, mishaps,
    debugging, iteration, called, reached, analysis, diagnosis, sessions, input, planning,
    planned, paths, queries, strings, llm, scanning, scanned

projectVars == <<now, version, until, store, reply, completed, migrations>>
contextVars == <<server, clock, changes, faults, requests, files, lastTrue, index, builtAt,
                 startedAt, metric, during, old, used, disk, audit, job, answer>>
watchVars == <<watcher, time, slips, locks, held, raced, window, events, thread, alerts,
               accesses, denials, calls, lines, torn, kept>>
reconVars == <<source, org, encodes, object, checks, began, still, output, edits, failures>>
clusterVars == <<revisions, scaled, selector, bad, pc, tag, dry, captured, previous, outcome,
                 fresh, audits, scripts, mishaps>>
debugVars == <<debugging, iteration, called, reached, analysis, diagnosis, sessions>>
planVars == <<input, planning, planned>>
scanVars == <<paths, queries, strings, llm, scanning, scanned>>

-------------------------------------------------------------------------------
\* A migration and the settings of one tenant, which the other one asks for as well.
Asked == {<<"migration", "t1">>, <<"tenant", "t1">>}

\* A text that breaks after its third character, and one that is too long for the index.
Pages == {[length |-> 9, breaks |-> {3}], [length |-> 12, breaks |-> {}]}

\* Operations and roles with and without permission, and files and queries that are
\* turned down each for one reason.
Questions ==
    [tool : {"check_permission"}, operation : {"ROLLBACK", "READ_LOGS", "unknown"},
     roles : {{}, {"operator"}, {"admin"}, {"readonly", "admin"}}]
    \union [tool : {"validate_file_access"}, denied : {FALSE}, inside : BOOLEAN,
            extension : {TRUE}, exists : BOOLEAN, oversized : BOOLEAN]
    \union [tool : {"validate_soql_query"}, dml : BOOLEAN, concatenates : {FALSE}, long : BOOLEAN]
    \union [tool : {"get_vault_secret_names", "list_allowed_paths"}]

\* A window that one event fills, and one that two do.
Spans == [tool_call |-> [seconds |-> 1, threshold |-> 1],
          block     |-> [seconds |-> 1, threshold |-> 2]]

\* Runs that return, raise or are cancelled.
AgentRuns ==
    [end : {"result"}, error : {"none", "timeout"}, score : {-1, 150}, wasted : {0, 3},
     total : {0, 2}]
    \union [end : {"raises"}, error : {"empty", "rate"}, wasted : {0}]
    \union [end : {"cancelled"}, wasted : {0}]

\* 200 ids with their names, or without the column, or a row without an id.
File(ids, noId, hasName) ==
    [ids |-> ids, again |-> 0, noId |-> noId, noName |-> 0, hasName |-> hasName]
Extracts == [Account |-> {File(200, 0, TRUE), File(200, 0, FALSE), File(0, 1, TRUE)},
             Contact |-> {File(200, 0, TRUE)}]

Org(arrived, failed, twice, strangers) ==
    [arrived |-> arrived, failed |-> failed, twice |-> twice, strangers |-> strangers,
     orphans |-> 0]
Outcomes == [Account |-> {Org(200, 0, 0, 0), Org(195, 5, 0, 0), Org(190, 10, 10, 0),
                          Org(198, 2, 0, 2), Org(199, 51, 0, 0)},
             Contact |-> {Org(200, 0, 0, 0), Org(199, 11, 0, 0)}]

\* Analyses the debugging agent may be offered, with their confidence in ten-thousandths.
Claim(category, confidence, evidence, auto, action) ==
    [category |-> category, confidence |-> confidence, evidence |-> evidence,
     auto |-> auto, action |-> action]
Analyses == {Claim("OOM", 8504, 1, TRUE, TRUE), Claim("OOM", 8506, 1, TRUE, TRUE),
             Claim("OOM", 8506, 0, TRUE, TRUE), Claim("other", 8506, 1, TRUE, TRUE),
             Claim("OOM", 8506, 1, TRUE, FALSE), Claim("OOM", 10001, 1, TRUE, TRUE),
             Claim("KAFKA_LAG", 9500, 1, FALSE, TRUE)}

K == INSTANCE ProjectContext WITH Resources <- Asked, answer <- reply, index <- migrations
C == INSTANCE ContextServers WITH Paths <- <<"a", "b">>, Texts <- Pages, Queries <- Questions
W == INSTANCE Monitoring WITH Windows <- Spans, Runs <- AgentRuns, clock <- time, faults <- slips
R == INSTANCE Reconciliation
        WITH Sources <- Extracts, Orgs <- Outcomes, changes <- edits, faults <- failures
Y == INSTANCE Deployment WITH faults <- mishaps
J == INSTANCE JobAgents WITH Offered <- Analyses

ASSUME ServicesAssumption ==
    /\ K!ContextAssumption /\ C!ContextAssumption /\ W!MonitoringAssumption
    /\ R!ReconciliationAssumption /\ Y!ClusterAssumption /\ J!AgentsAssumption

-------------------------------------------------------------------------------
\* How the others rest.
Resting ==
    /\ part # "context" => server = "security"
    /\ part # "watch" => watcher = "detector"
    /\ part # "recon" => /\ source = [o \in {"Account", "Contact"} |-> File(200, 0, TRUE)]
                         /\ org = [o \in {"Account", "Contact"} |-> Org(200, 0, 0, 0)]
                         /\ encodes = FALSE
    /\ part # "cluster" => selector = [s \in Y!Service |-> "plain"]
    /\ part # "plan" => input = [records |-> 0, sox |-> FALSE, window |-> FALSE]
    /\ part # "scan" => /\ paths = [k \in J!PathKind |-> 0] /\ queries = [k \in J!QueryKind |-> 0]
                        /\ strings = [k \in J!StringKind |-> 0] /\ llm = FALSE

MCInit ==
    /\ part \in {"project", "index", "context", "watch", "recon", "cluster", "debug",
                "plan", "scan"}
    /\ Resting
    /\ K!Init /\ C!Init /\ W!Init /\ R!Init /\ Y!Init /\ J!Init

\* What stays while a part takes its step.
Others(own) ==
    /\ UNCHANGED part
    /\ "project" \notin own => UNCHANGED projectVars
    /\ "context" \notin own => UNCHANGED contextVars
    /\ "watch" \notin own => UNCHANGED watchVars
    /\ "recon" \notin own => UNCHANGED reconVars
    /\ "cluster" \notin own => UNCHANGED clusterVars
    /\ "debug" \notin own => UNCHANGED debugVars
    /\ "plan" \notin own => UNCHANGED planVars
    /\ "scan" \notin own => UNCHANGED scanVars

MCNext ==
    \/ part = "project" /\ (K!CacheNext \/ K!Tick) /\ Others({"project"})
    \/ part = "index" /\ (K!IndexNext \/ K!Tick) /\ Others({"project"})
    \/ part = "context" /\ C!Next /\ Others({"context"})
    \/ part = "watch" /\ W!Next /\ Others({"watch"})
    \/ part = "recon" /\ R!Next /\ Others({"recon"})
    \/ part = "cluster" /\ Y!Next /\ Others({"cluster"})
    \/ part = "debug" /\ J!DebuggingStep /\ Others({"debug"})
    \/ part = "plan" /\ J!PlanningStep /\ Others({"plan"})
    \/ part = "scan" /\ J!Scan /\ Others({"scan"})

\* The steps that are taken as long as there is one to take.
Progress ==
    \/ part = "context" /\ C!Serve /\ Others({"context"})
    \/ part = "watch" /\ W!Work /\ Others({"watch"})
    \/ part = "recon" /\ R!Step /\ Others({"recon"})
    \/ part = "cluster" /\ Y!ScriptStep /\ Others({"cluster"})
    \/ part = "debug" /\ J!DebuggingStep /\ Others({"debug"})
    \/ part = "plan" /\ J!PlanningStep /\ Others({"plan"})
    \/ part = "scan" /\ J!Scan /\ Others({"scan"})

mcVars == <<part, projectVars, contextVars, watchVars, reconVars, clusterVars, debugVars,
            planVars, scanVars>>

MCSpec == MCInit /\ [][MCNext]_mcVars /\ WF_mcVars(Progress)

-------------------------------------------------------------------------------
\* What a server of the project or of its documents answers was allowed, and was so not
\* longer ago than its caches live: ProjectContext and ContextServers state it.
ServersAreSound ==
    CASE part \in {"project", "index"} ->
             /\ K!TypeOK /\ K!AnswersAreRecent /\ K!AnswersWereAllowed /\ K!IndexIsRecent
      [] part = "context" -> C!TypeOK /\ C!ContextIsSound
      [] OTHER -> TRUE

\* What watches the agents counts the events of its windows, of every thread; logs the
\* calls through its proxy; and reads back what was written whole: see Monitoring.
WatchersAreExact == part = "watch" => W!TypeOK /\ W!MonitoringIsSound

\* A passing report of the reconciliation means that the records arrived, as nearly as
\* its tolerances say.
PassingMeansArrival == part = "recon" => R!TypeOK /\ R!ReconciliationIsSound

\* Whatever scripts deploy, fail and roll back, the worker's traffic has somewhere to go;
\* a script that says it has succeeded has, and a rollback brings back what was before.
DeploymentsHold ==
    part = "cluster" => Y!TypeOK /\ Y!TrafficHasWorkers /\ Y!SuccessIsServed /\ Y!RollbackRestores

\* What an agent that is asked says is founded: a recovery that is signalled was offered
\* with the confidence it takes, a plan is of the risk of its job, and a scan that is
\* clean has found nothing that blocks.
AnswersAreFounded ==
    part \in {"debug", "plan", "scan"} =>
        J!TypeOK /\ J!SignalIsEarned /\ J!PlanIsOurs /\ J!GateIsExact

\* Requests are answered, detections give their locks back, the reconciliation ends with
\* a report or an exception, scripts end, and so do the runs of the agents.
ServicesEnd ==
    <>[](CASE part = "context" -> job = C!Idle
           [] part = "watch" -> \A t \in Threads : thread[t] = W!Rest
           [] part = "recon" -> object \in {"done", "raised"}
           [] part = "cluster" -> pc = "idle"
           [] part = "debug" -> debugging = "done"
           [] part = "plan" -> planning = "done"
           [] part = "scan" -> scanning = "done"
           [] OTHER -> TRUE)
===============================================================================
