------------------------------ MODULE LoadPhase ------------------------------
(***************************************************************************)
(* The DATA_LOAD phase: MigrationService.run_load_phase and complete_job   *)
(* (src/application/services/migration_service.py) with PauseMigration     *)
(* (src/application/use_cases/pause_migration.py) running beside them on   *)
(* one job.  Every handler works on its own copy of the job; an await ends *)
(* a step.  The job and account repositories, Salesforce and the publisher *)
(* are ports: they do what their contracts say, or raise.                  *)
(***************************************************************************)
EXTENDS Integers, FiniteSets, FiniteSetsExt

CONSTANTS
    NumAccounts,  \* the accounts are 1..NumAccounts, in the order of the query
    Suspended,    \* accounts mark_migrated refuses
    BatchSize,    \* config.batch_size
    Threshold,    \* config.error_threshold_percent
    Worker,       \* executions of run_load_phase
    Pauser,       \* executions of PauseMigration
    Completer,    \* executions of complete_job
    DryRuns,      \* the values config.dry_run may have
    MaxFaults     \* bound on port failures and process crashes

Account == 1..NumAccounts
Handler == Worker \union Pauser \union Completer

SizeAssumption  == NumAccounts \in Nat /\ BatchSize \in Nat \ {0}
FaultAssumption == MaxFaults \in Nat
InputAssumption == /\ Suspended \subseteq Account
                   /\ DryRuns \subseteq BOOLEAN
                   /\ Threshold \in 0..100
                   /\ Worker \intersect (Pauser \union Completer) = {}

VARIABLES
    job,        \* the stored job
    copy,       \* each handler's copy of it
    pc,         \* where each handler stands
    run,        \* the local variables of each run_load_phase
    inSF,       \* accounts Salesforce holds
    migrated,   \* accounts whose stored row has a Salesforce id
    published,  \* accounts whose RecordMigrated event was published
    dryRun,     \* config.dry_run
    faults      \* failures injected so far

vars == <<job, copy, pc, run, inSF, migrated, published, dryRun, faults>>

-------------------------------------------------------------------------------
\* open counts the DATA_LOAD records begun and not completed, closed those
\* completed; ok and bad are the counters the records were added to.
Job == [status: {"RUNNING", "PAUSED", "FAILED", "COMPLETED"}, version: Nat,
        open: Nat, closed: Nat, ok: Nat, bad: Nat]

WorkerPC == {"load", "begin", "fetch", "upsert", "save", "publish",
             "complete", "fail"}
Ended == {"done", "failed", "error", "crashed"}

Unmigrated == Account \ migrated

\* Row number of an account in the ordered result of the query.
RowNumber(a) == Cardinality({b \in Unmigrated : b < a})

\* find_by_criteria(is_migrated=False, limit=BatchSize, offset=offset).
Page(offset) == {a \in Unmigrated : RowNumber(a) \in offset .. offset + BatchSize - 1}

HasMore(offset) == offset + BatchSize < Cardinality(Unmigrated)

ExceedsThreshold(j) == NumAccounts # 0 /\ j.bad * 100 > Threshold * NumAccounts

FreshRun == [offset |-> 0, batch |-> {}, more |-> FALSE, marked |-> {}, unsaved |-> {},
             ok |-> 0, bad |-> 0, seen |-> {}]

\* The job was started with an exact estimate; no account is migrated yet.
Init ==
    /\ job = [status |-> "RUNNING", version |-> 1, open |-> 0, closed |-> 0,
              ok |-> 0, bad |-> 0]
    /\ copy = [h \in Handler |-> job]
    /\ pc = [h \in Handler |-> "load"]
    /\ run = [w \in Worker |-> FreshRun]
    /\ inSF = {}
    /\ migrated = {}
    /\ published = {}
    /\ dryRun \in DryRuns
    /\ faults = 0

Goto(h, label) == pc' = [pc EXCEPT ![h] = label]

\* A repository that keeps no version: the last writer wins.
SaveJob_Blind(h, new, saved, refused) ==
    /\ job' = [new EXCEPT !.version = @ + 1]
    /\ copy' = [copy EXCEPT ![h] = job']
    /\ Goto(h, saved)

\* migration_repo.save: the copy is written if the stored version is still the
\* one it was read with, otherwise ConcurrencyConflict leaves the store alone.
SaveJob(h, new, saved, refused) ==
    \/ /\ copy[h].version = job.version
       /\ job' = [new EXCEPT !.version = @ + 1]
       /\ copy' = [copy EXCEPT ![h] = job']
       /\ Goto(h, saved)
    \/ /\ copy[h].version # job.version
       /\ Goto(h, refused)
       /\ UNCHANGED <<job, copy>>

\* migration_repo.find_by_id.
LoadJob(h, next) ==
    /\ pc[h] = "load"
    /\ copy' = [copy EXCEPT ![h] = job]
    /\ Goto(h, next)
    /\ UNCHANGED <<job, run, inSF, migrated, published, dryRun, faults>>

-------------------------------------------------------------------------------
\* run_load_phase, from begin_phase to its save.
Begin(w) ==
    /\ pc[w] = "begin"
    /\ \/ /\ copy[w].status = "RUNNING"
          /\ SaveJob(w, [copy[w] EXCEPT !.open = @ + 1], "fetch", "error")
       \/ /\ copy[w].status # "RUNNING"
          /\ Goto(w, "error")
          /\ UNCHANGED <<job, copy>>
    /\ UNCHANGED <<run, inSF, migrated, published, dryRun, faults>>

\* The next page, and what the generator decides after it.  The test of
\* job.status in the loop reads the worker's own copy, which nothing changes.
Fetch(w) ==
    /\ pc[w] = "fetch"
    /\ LET page == Page(run[w].offset)
       IN  \/ /\ page = {}
              /\ Goto(w, "complete")
              /\ UNCHANGED run
           \/ /\ page # {}
              /\ copy[w].status = "RUNNING"
              /\ run' = [run EXCEPT ![w].batch = page,
                                    ![w].seen = @ \union page,
                                    ![w].more = HasMore(run[w].offset)]
              /\ Goto(w, "upsert")
    /\ UNCHANGED <<job, copy, inSF, migrated, published, dryRun, faults>>

\* A service that counts what Salesforce reports, not what could be marked.
Upsert_CountReported(w) ==
    /\ pc[w] = "upsert"
    /\ ~dryRun
    /\ \E succeeded \in SUBSET run[w].batch :
          LET marked == succeeded \ Suspended
          IN  /\ inSF' = inSF \union succeeded
              /\ run' = [run EXCEPT ![w].marked = marked, ![w].unsaved = marked,
                                    ![w].ok = @ + Cardinality(succeeded),
                                    ![w].bad = @ + Cardinality(run[w].batch \ succeeded)]
    /\ Goto(w, "save")
    /\ UNCHANGED <<job, copy, migrated, published, dryRun, faults>>

\* upsert_accounts_bulk answered: the accounts it reports as written are marked
\* on the worker's copies; mark_migrated refuses the suspended ones, which are
\* counted as failed although Salesforce now holds them.
Upsert(w) ==
    /\ pc[w] = "upsert"
    /\ ~dryRun
    /\ \E succeeded \in SUBSET run[w].batch :
          LET marked == succeeded \ Suspended
          IN  /\ inSF' = inSF \union succeeded
              /\ run' = [run EXCEPT ![w].marked = marked, ![w].unsaved = marked,
                                    ![w].ok = @ + Cardinality(marked),
                                    ![w].bad = @ + Cardinality(run[w].batch \ marked)]
    /\ Goto(w, "save")
    /\ UNCHANGED <<job, copy, migrated, published, dryRun, faults>>

\* An API error that drops the batch from the totals.
UpsertApiError_Uncounted(w) ==
    /\ pc[w] = "upsert"
    /\ ~dryRun
    /\ \E applied \in SUBSET run[w].batch : inSF' = inSF \union applied
    /\ run' = [run EXCEPT ![w].marked = {}, ![w].unsaved = {}]
    /\ Goto(w, "save")
    /\ UNCHANGED <<job, copy, migrated, published, dryRun, faults>>

\* SalesforceApiError is caught: the batch counts as failed, whatever part of it
\* Salesforce has applied.
UpsertApiError(w) ==
    /\ pc[w] = "upsert"
    /\ ~dryRun
    /\ \E applied \in SUBSET run[w].batch : inSF' = inSF \union applied
    /\ run' = [run EXCEPT ![w].marked = {}, ![w].unsaved = {},
                          ![w].bad = @ + Cardinality(run[w].batch)]
    /\ Goto(w, "save")
    /\ UNCHANGED <<job, copy, migrated, published, dryRun, faults>>

\* A dry run reports "dry_run" for every account and counts it nowhere.
UpsertDryRun(w) ==
    /\ pc[w] = "upsert"
    /\ dryRun
    /\ run' = [run EXCEPT ![w].marked = {}, ![w].unsaved = {}]
    /\ Goto(w, "save")
    /\ UNCHANGED <<job, copy, inSF, migrated, published, dryRun, faults>>

\* account_repo.save of one account.  Copies are read while unmigrated and only
\* this phase writes rows, so a row's version has moved if it is migrated now.
SaveRow(w, a) ==
    \/ /\ a \notin migrated
       /\ migrated' = migrated \union {a}
       /\ run' = [run EXCEPT ![w].unsaved = @ \ {a}]
       /\ UNCHANGED pc
    \/ /\ a \in migrated
       /\ Goto(w, "fail")
       /\ UNCHANGED <<run, migrated>>

\* save_batch writes the marked accounts one after the other.
SaveNext(w) ==
    /\ pc[w] = "save"
    /\ run[w].unsaved # {}
    /\ SaveRow(w, Min(run[w].unsaved))
    /\ UNCHANGED <<job, copy, inSF, published, dryRun, faults>>

\* An iteration that starts again at the first page.
NextOffset_Same(offset) == offset

NextOffset(offset) == offset + BatchSize

\* The batch is stored: its RecordMigrated events go out and the loop goes on.
Publish(w) ==
    /\ pc[w] = "save"
    /\ run[w].unsaved = {}
    /\ published' = published \union run[w].marked
    /\ run' = [run EXCEPT ![w].offset = NextOffset(@), ![w].batch = {}, ![w].marked = {}]
    /\ Goto(w, IF run[w].more THEN "fetch" ELSE "complete")
    /\ UNCHANGED <<job, copy, inSF, migrated, dryRun, faults>>

\* complete_phase with the totals of the run; the error rate may fail the job
\* in the same save.
CompletePhase(w) ==
    /\ pc[w] = "complete"
    /\ LET closed == [copy[w] EXCEPT !.open = @ - 1, !.closed = @ + 1,
                                     !.ok = @ + run[w].ok, !.bad = @ + run[w].bad]
       IN  SaveJob(w, IF ExceedsThreshold(closed)
                      THEN [closed EXCEPT !.status = "FAILED"] ELSE closed,
                   "done", "error")
    /\ UNCHANGED <<run, inSF, migrated, published, dryRun, faults>>

\* A port raises inside the loop: the handler ends up in its except clause.
\* Salesforce may have applied part of the batch, the publisher sent part of it.
PortRaises(w) ==
    /\ faults < MaxFaults
    /\ faults' = faults + 1
    /\ \/ /\ pc[w] = "upsert" /\ ~dryRun
          /\ \E applied \in SUBSET run[w].batch : inSF' = inSF \union applied
          /\ UNCHANGED published
       \/ /\ pc[w] = "save" /\ run[w].unsaved = {}
          /\ \E sent \in SUBSET run[w].marked : published' = published \union sent
          /\ UNCHANGED inSF
       \/ /\ pc[w] = "fetch" \/ (pc[w] = "save" /\ run[w].unsaved # {})
          /\ UNCHANGED <<inSF, published>>
    /\ Goto(w, "fail")
    /\ UNCHANGED <<job, copy, run, migrated, dryRun>>

\* The except clause: job.fail on the copy and its save.  The open record stays
\* open and the totals of the run are dropped.
FailJob(w) ==
    /\ pc[w] = "fail"
    /\ SaveJob(w, [copy[w] EXCEPT !.status = "FAILED"], "failed", "error")
    /\ UNCHANGED <<run, inSF, migrated, published, dryRun, faults>>

\* The process running the worker dies between two steps.
Crash(w) ==
    /\ pc[w] \in WorkerPC
    /\ faults < MaxFaults
    /\ faults' = faults + 1
    /\ Goto(w, "crashed")
    /\ UNCHANGED <<job, copy, run, inSF, migrated, published, dryRun>>

RunLoadPhase(w) ==
    \/ LoadJob(w, "begin")
    \/ Begin(w)
    \/ Fetch(w)
    \/ Upsert(w) \/ UpsertApiError(w) \/ UpsertDryRun(w)
    \/ SaveNext(w)
    \/ Publish(w)
    \/ CompletePhase(w)
    \/ FailJob(w)

\* PauseMigration and complete_job: the transition is tested on the copy, then
\* the copy is saved.
Transition(h, target) ==
    /\ pc[h] = "begin"
    /\ \/ /\ copy[h].status = "RUNNING"
          /\ SaveJob(h, [copy[h] EXCEPT !.status = target], "done", "error")
       \/ /\ copy[h].status # "RUNNING"
          /\ Goto(h, "error")
          /\ UNCHANGED <<job, copy>>
    /\ UNCHANGED <<run, inSF, migrated, published, dryRun, faults>>

PauseMigration(h) == LoadJob(h, "begin") \/ Transition(h, "PAUSED")
CompleteJob(h)    == LoadJob(h, "begin") \/ Transition(h, "COMPLETED")

\* Every handler has returned, raised or died.
Quiescent == \A h \in Handler : pc[h] \in Ended

Next ==
    \/ \E w \in Worker : RunLoadPhase(w) \/ PortRaises(w) \/ Crash(w)
    \/ \E h \in Pauser : PauseMigration(h)
    \/ \E h \in Completer : CompleteJob(h)
    \/ Quiescent /\ UNCHANGED vars

Spec == Init /\ [][Next]_vars

\* The event loop resumes a coroutine whose await has finished, and every port
\* call finishes: it returns or raises.
FairSpec == Spec /\ \A w \in Worker : WF_vars(RunLoadPhase(w))

-------------------------------------------------------------------------------
\* The types of the variables.
TypeOK ==
    /\ job \in Job
    /\ copy \in [Handler -> Job]
    /\ pc \in [Handler -> WorkerPC \union Ended]
    /\ run \in [Worker -> [offset: Nat, batch: SUBSET Account, more: BOOLEAN,
                           marked: SUBSET Account, unsaved: SUBSET Account,
                           ok: Nat, bad: Nat, seen: SUBSET Account]]
    /\ inSF \subseteq Account
    /\ migrated \subseteq Account
    /\ published \subseteq Account
    /\ dryRun \in BOOLEAN
    /\ faults \in 0..MaxFaults

\* A row that carries a Salesforce id has its record in Salesforce, and no
\* RecordMigrated event is published for a row that does not carry one: through
\* partial batches, refused saves, failing ports and crashes of every worker.
NoPhantomMigration == published \subseteq migrated /\ migrated \subseteq inSF \ Suspended

\* Every success counted on the stored job is a stored row of its own: two
\* overlapping executions never count one account twice, and an account that
\* Salesforce took but mark_migrated refused is no success.
SuccessesBackedByRows == job.ok <= Cardinality(migrated)

\* A job that was paused, failed or completed is not brought back, or moved to
\* another status, by a handler that read it before: its save is refused.
StaleHandlerNeverOverwrites == [][job.status # "RUNNING" => job' = job]_vars

\* A phase that is closed was closed by a worker that finished its iteration,
\* with all its batches counted: nothing a worker has seen is missing from the
\* job's counters unless that worker raised or died.
ClosedPhasesCountAll ==
    LET counted == {v \in Worker \X Account : pc[v[1]] = "done" /\ v[2] \in run[v[1]].seen}
    IN  ~dryRun => job.ok + job.bad = Cardinality(counted)

\* A dry run changes no row, so the pages do not move: every account is visited
\* before the phase is closed.
DryRunVisitsAll ==
    dryRun => \A w \in Worker : pc[w] = "done" => run[w].seen = Account

\* Every execution of the load phase comes to an end, whatever fails in it and
\* however often the same accounts fail again.
LoadPhaseEnds == \A w \in Worker : <>(pc[w] \in Ended)

-------------------------------------------------------------------------------
\* Statements of the code's documentation that do not hold.

\* "Iterates through all unmigrated accounts in batches": before the phase is
\* closed every account was in some batch.
LoadVisitsAll == \A w \in Worker : pc[w] = "done" => run[w].seen \union migrated = Account

\* "Job %s is no longer RUNNING; halting load phase": no further batch is taken
\* up once the job was paused or completed.
PauseHaltsLoad ==
    [][\A w \in Worker : pc[w] = "fetch" /\ pc'[w] = "upsert" => job.status = "RUNNING"]_vars

===============================================================================
