------------------------------ MODULE MCTransfer ------------------------------
(***************************************************************************)
(* What moves records, out of the legacy database and into Salesforce: the *)
(* two loops over pages (Extractor) and batches (LoadPhase, L), the bulk   *)
(* loader of the scripts (BulkLoader, B) and the pipeline that orders      *)
(* those (Pipeline, P).  One of them runs in a behaviour and the others    *)
(* rest in an initial state: what is between them, files and a staging     *)
(* table, is at rest while one runs, and Pipeline says which task may read *)
(* what another one has left there.                                        *)
(*                                                                         *)
(* Extractor: three pages, the last one partial; three runs, so that a     *)
(* failure, a crash and a clean run can follow each other.  LoadPhase:     *)
(* three accounts in batches of one, of which the second is suspended; one *)
(* port failure or crash may happen anywhere.  Two executions overlap with *)
(* each other and a third handler, in both Pauser and Completer, which may *)
(* be either: it pauses the job or completes it.  BulkLoader: three rows   *)
(* in batches of two, one refused; each batch tried twice, two faults.     *)
(* Pipeline: all nine tasks, tried twice, in two runs, with two faults.    *)
(***************************************************************************)
EXTENDS Extractor

CONSTANTS
    NumAccounts, Suspended, BatchSize, Threshold, Worker, Pauser, Completer,
    DryRuns, MaxLoadFaults,
    NumRows, RowsPerBatch, Rejected, MaxRetries, MaxPct, Operations, MaxBulkFaults,
    Retries, MaxPipelineRuns, MaxTaskFaults

VARIABLES
    part,   \* the component that runs
    job, copy, handlerPc, run, inSF, migrated, published, dryRun, loadFaults,
    operation, bulkPc, batch, bulkAttempt, jobs, copies, ok, bad, unread, spoiled, bulkFaults,
    mode, pipelineRun, scope, status, tries, outputs, mapping, linked, inOrg, taskFaults

L == INSTANCE LoadPhase
        WITH pc <- handlerPc, faults <- loadFaults, MaxFaults <- MaxLoadFaults
B == INSTANCE BulkLoader
        WITH pc <- bulkPc, attempt <- bulkAttempt, faults <- bulkFaults,
             BatchSize <- RowsPerBatch, MaxFaults <- MaxBulkFaults
P == INSTANCE Pipeline
        WITH run <- pipelineRun, files <- outputs, faults <- taskFaults,
             MaxRuns <- MaxPipelineRuns, MaxFaults <- MaxTaskFaults

loadVars == <<job, copy, handlerPc, run, inSF, migrated, published, dryRun, loadFaults>>
bulkVars == <<operation, bulkPc, batch, bulkAttempt, jobs, copies, ok, bad, unread, spoiled,
              bulkFaults>>
taskVars == <<mode, pipelineRun, scope, status, tries, outputs, mapping, linked, inOrg,
              taskFaults>>

ASSUME LoadAssumption == L!SizeAssumption /\ L!FaultAssumption /\ L!InputAssumption
ASSUME TaskAssumption == B!LoaderAssumption /\ P!PipelineAssumption

MCInit ==
    /\ Init /\ L!Init /\ B!Init /\ P!Init
    /\ part \in {"extractor", "load", "bulk", "pipeline"}
    /\ part # "load" => dryRun = CHOOSE d \in DryRuns : TRUE
    /\ part # "bulk" => operation = CHOOSE o \in Operations : TRUE
    /\ part # "pipeline" => mode = "airflow"

ExtractorStep == part = "extractor" /\ Next
LoadStep      == part = "load" /\ L!Next
BulkStep      == part = "bulk" /\ B!Next
PipelineStep  == part = "pipeline" /\ P!Next

MCNext ==
    \/ ExtractorStep /\ UNCHANGED <<part, loadVars, bulkVars, taskVars>>
    \/ LoadStep /\ UNCHANGED <<part, vars, bulkVars, taskVars>>
    \/ BulkStep /\ UNCHANGED <<part, vars, loadVars, taskVars>>
    \/ PipelineStep /\ UNCHANGED <<part, vars, loadVars, bulkVars>>

\* Each component goes on as long as there is a step to take.
MCSpec ==
    /\ MCInit /\ [][MCNext]_<<part, vars, loadVars, bulkVars, taskVars>>
    /\ WF_vars(part = "extractor" /\ Extract)
    /\ WF_loadVars(part = "load" /\ \E w \in Worker : L!RunLoadPhase(w))
    /\ WF_bulkVars(part = "bulk" /\ B!Work)
    /\ WF_taskVars(part = "pipeline" /\ P!Work)

-------------------------------------------------------------------------------
\* Checkpoints and returning runs leave out no page but those that failed, and a load
\* phase that closed has counted, or in a dry run seen, what its worker has seen.
\* Nothing is counted twice, or twice in Salesforce, without a cause that the
\* components name: a page of the extractor, a row of the bulk loader.
EverythingCountedOnce ==
    CASE part = "extractor" -> /\ TypeOK /\ CheckpointCovered /\ NoPageForgotten
                               /\ RowsCountPagesOnce /\ RewritesExplained
      [] part = "load"      -> L!TypeOK /\ L!ClosedPhasesCountAll /\ L!DryRunVisitsAll
      [] part = "bulk"      -> /\ B!TypeOK /\ B!CountsAreSound /\ B!DuplicatesNeedSpoiledAttempt
                               /\ B!StopsWhenTooManyFail
      [] OTHER              -> TRUE

\* Every event and every counted success of the load phase is backed by a row, and
\* every row by a record in Salesforce.  A run of the whole pipeline keeps the order of
\* its graph, links contacts by the mapping it wrote, and reports success only with all
\* accounts loaded.
ReportsAreBacked ==
    CASE part = "load"     -> L!NoPhantomMigration /\ L!SuccessesBackedByRows
      [] part = "pipeline" -> /\ P!TypeOK /\ P!GraphIsKept
                              /\ P!FreshMappingIsUsed /\ P!ReportMeansAccountsLoaded
      [] OTHER             -> TRUE

\* A job that was paused, failed or completed is not brought back by a handler
\* that read it before.
StaleHandlerNeverOverwrites == L!StaleHandlerNeverOverwrites

\* Every run of the extractor, execution of the load phase, bulk load and run of the
\* pipeline ends, so that again and again nothing is left to do.
TransfersEnd ==
    []<>(CASE part = "extractor" -> pc = "down"
           [] part = "load" -> \A w \in Worker : handlerPc[w] \in L!Ended
           [] part = "bulk" -> bulkPc \in {"returned", "raised"}
           [] OTHER -> P!Over)
===============================================================================
