------------------------------- MODULE JobStore -------------------------------
(***************************************************************************)
(* The stored jobs and the handlers that write them: StartMigration        *)
(* (src/application/use_cases/start_migration.py) called concurrently,     *)
(* PauseMigration, and MigrationService.complete_job and run_load_phase,   *)
(* the latter only as far as it begins and ends a phase of a stored job    *)
(* (LoadPhase has the rest).  The job a starter creates carries its name.  *)
(***************************************************************************)
EXTENDS Integers, FiniteSets

CONSTANTS
    Starter,    \* executions of StartMigration
    Pauser,     \* executions of PauseMigration
    Completer,  \* executions of complete_job
    Loader,     \* executions of run_load_phase
    MaxFaults   \* bound on port failures and process crashes

Operator == Pauser \union Completer \union Loader
Handler  == Starter \union Operator

FaultAssumption == MaxFaults \in Nat

VARIABLES
    job,        \* the stored jobs by their starter; PENDING means never stored
    pc,         \* where each handler stands
    target,     \* the job an operator was called for
    copy,       \* the operator's copy of that job
    announced,  \* the MigrationStarted events published
    raced,      \* some start checked while another one was past its check
    faults      \* failures injected so far

vars == <<job, pc, target, copy, announced, raced, faults>>

-------------------------------------------------------------------------------
Status == {"PENDING", "RUNNING", "PAUSED", "FAILED", "COMPLETED"}
Job    == [status: Status, version: Nat]
Ended  == {"done", "rejected", "error", "crashed"}

Active(j) == job[j].status \in {"RUNNING", "PAUSED"}

\* find_active that only looks for running jobs.
FindActive_RunningOnly == {j \in Starter : job[j].status = "RUNNING"}

\* find_active: the running or paused jobs.
FindActive == {j \in Starter : Active(j)}

\* A job that was saved, in whatever status.
Stored(j) == job[j].status # "PENDING"

\* Between its look for an active job and the save of its own.
Admitted(s) == pc[s] \in {"prerequisites", "save"}

Init ==
    /\ job = [s \in Starter |-> [status |-> "PENDING", version |-> 0]]
    /\ pc = [h \in Handler |-> IF h \in Starter THEN "check" ELSE "load"]
    /\ target \in [Operator -> Starter]
    /\ copy = [o \in Operator |-> job[target[o]]]
    /\ announced = {}
    /\ raced = FALSE
    /\ faults = 0

Goto(h, label) == pc' = [pc EXCEPT ![h] = label]

-------------------------------------------------------------------------------
\* Step 2 of execute: MigrationAlreadyInProgress if a job is running or paused.
CheckActive(s) ==
    /\ pc[s] = "check"
    /\ Goto(s, IF FindActive # {} THEN "rejected" ELSE "prerequisites")
    /\ raced' = (raced \/ \E t \in Starter \ {s} : Admitted(t))
    /\ UNCHANGED <<job, target, copy, announced, faults>>

\* Steps 3 to 5: the connectivity and permission checks and the estimate, all
\* awaited.  A check that fails raises; an estimate that fails is swallowed.
Prerequisites(s) ==
    /\ pc[s] = "prerequisites"
    /\ Goto(s, "save") \/ Goto(s, "error")
    /\ UNCHANGED <<job, target, copy, announced, raced, faults>>

\* Steps 6 and 7: create, start() and the first save.
SaveStarted(s) ==
    /\ pc[s] = "save"
    /\ job' = [job EXCEPT ![s] = [status |-> "RUNNING", version |-> 1]]
    /\ Goto(s, "publish")
    /\ UNCHANGED <<target, copy, announced, raced, faults>>

\* Step 8, which leaves step 9 out: a failing notification is only logged.
PublishStarted(s) ==
    /\ pc[s] = "publish"
    /\ announced' = announced \union {s}
    /\ Goto(s, "done")
    /\ UNCHANGED <<job, target, copy, raced, faults>>

StartMigration(s) ==
    CheckActive(s) \/ Prerequisites(s) \/ SaveStarted(s) \/ PublishStarted(s)

-------------------------------------------------------------------------------
\* find_by_id of a job that exists; MigrationJobNotFound otherwise.
Load(o) ==
    /\ pc[o] = "load"
    /\ Stored(target[o])
    /\ copy' = [copy EXCEPT ![o] = job[target[o]]]
    /\ Goto(o, "write")
    /\ UNCHANGED <<job, target, announced, raced, faults>>

\* A save that takes the stored version from the store itself.
Save_NoVersion(o, status, next) ==
    /\ job' = [job EXCEPT ![target[o]] = [status |-> status, version |-> @.version + 1]]
    /\ copy' = [copy EXCEPT ![o] = job'[target[o]]]
    /\ Goto(o, next)

\* migration_repo.save of the operator's copy, moved to status: refused with
\* ConcurrencyConflict if the job was stored by someone else since it was read.
Save(o, status, next) ==
    \/ /\ job[target[o]].version = copy[o].version
       /\ job' = [job EXCEPT ![target[o]] = [status |-> status, version |-> @.version + 1]]
       /\ copy' = [copy EXCEPT ![o] = job'[target[o]]]
       /\ Goto(o, next)
    \/ /\ job[target[o]].version # copy[o].version
       /\ Goto(o, "error")
       /\ UNCHANGED <<job, copy>>

\* A command the copy allows is saved; one it refuses raises.
Write(o, label, from, status, next) ==
    /\ pc[o] = label
    /\ \/ copy[o].status \in from /\ Save(o, status, next)
       \/ copy[o].status \notin from /\ Goto(o, "error") /\ UNCHANGED <<job, copy>>
    /\ UNCHANGED <<target, announced, raced, faults>>

PauseMigration(o) == Load(o) \/ Write(o, "write", {"RUNNING"}, "PAUSED", "done")
CompleteJob(o)    == Load(o) \/ Write(o, "write", {"RUNNING"}, "COMPLETED", "done")

\* A failed load phase that leaves the job rolled back.
RunLoadPhase_Undo(o) ==
    \/ Load(o)
    \/ Write(o, "write", {"RUNNING"}, "RUNNING", "loading")
    \/ Write(o, "loading", {"RUNNING"}, "RUNNING", "done")
    \/ Write(o, "loading", {"RUNNING"}, "ROLLED_BACK", "done")

\* run_load_phase saves the job when it begins the phase and when it ends it;
\* then the phase is closed, or the job is failed by its except clause or by
\* the error threshold.
RunLoadPhase(o) ==
    \/ Load(o)
    \/ Write(o, "write", {"RUNNING"}, "RUNNING", "loading")
    \/ Write(o, "loading", {"RUNNING"}, "RUNNING", "done")
    \/ Write(o, "loading", {"RUNNING"}, "FAILED", "done")

-------------------------------------------------------------------------------
\* A port raises while a handler waits for it, or its process dies: the handler
\* is gone, what it stored stays.  A save may have been applied before.
Fault(h) ==
    /\ pc[h] \notin Ended
    /\ faults < MaxFaults
    /\ faults' = faults + 1
    /\ Goto(h, "error") \/ Goto(h, "crashed")
    /\ \/ UNCHANGED job
       \/ /\ pc[h] = "save"
          /\ job' = [job EXCEPT ![h] = [status |-> "RUNNING", version |-> 1]]
    /\ UNCHANGED <<target, copy, announced, raced>>

\* Nobody has anything left to do; an operator whose job never comes waits.
Quiescent ==
    /\ \A s \in Starter : pc[s] \in Ended
    /\ \A o \in Operator : pc[o] \in Ended \/ (pc[o] = "load" /\ ~Stored(target[o]))

Next ==
    \/ \E s \in Starter : StartMigration(s)
    \/ \E o \in Pauser : PauseMigration(o)
    \/ \E o \in Completer : CompleteJob(o)
    \/ \E o \in Loader : RunLoadPhase(o)
    \/ \E h \in Handler : Fault(h)
    \/ Quiescent /\ UNCHANGED vars

Spec == Init /\ [][Next]_vars

-------------------------------------------------------------------------------
\* The types of the variables.
TypeOK ==
    /\ job \in [Starter -> Job]
    /\ pc \in [Handler -> {"check", "prerequisites", "save", "publish",
                           "load", "write", "loading"} \union Ended]
    /\ target \in [Operator -> Starter]
    /\ copy \in [Operator -> Job]
    /\ announced \subseteq Starter
    /\ raced \in BOOLEAN
    /\ faults \in 0..MaxFaults

AtMostOneActive == \A j, k \in Starter : Active(j) /\ Active(k) => j = k

\* The check of StartMigration keeps jobs apart unless two starts overlap:
\* two active jobs are always the work of a start that looked for an active
\* job while another start stood between its own look and its save.
OnlyRacesBreakAdmission == AtMostOneActive \/ raced

\* Nobody is told of a migration that does not exist: MigrationStarted goes out
\* after the job it speaks of was stored, whichever handler fails or dies.
AnnouncedJobsExist == \A s \in announced : Stored(s)

\* Each stored job implements the documented state machine, although several
\* handlers write it from copies they read at different times.
Lifecycle(j) == INSTANCE JobLifecycle WITH status <- job[j].status
EveryJobImplementsLifecycle ==
    /\ \A j \in Starter : Lifecycle(j)!Init
    /\ [][\A j \in Starter : Lifecycle(j)!Next \/ UNCHANGED job[j].status]_vars

\* No lost update: the handler that changes a stored job has read the very
\* state it replaces, for a pause, a completion and a load phase of the same job
\* each hold a copy across awaits.
NoLostUpdate ==
    [][\A o \in Operator : copy'[o] # copy[o] /\ job' # job => copy[o] = job[target[o]]]_vars

===============================================================================
