------------------------------- MODULE MCStores -------------------------------
(***************************************************************************)
(* The job aggregate, and the two repositories that lock optimistically    *)
(* (AccountStore, A, and JobStore, J), each with the handlers that share   *)
(* it.  One of the three runs in a behaviour and the others rest in an     *)
(* initial state: they have no state in common, so letting them take turns *)
(* would add interleavings and nothing to see.                             *)
(*                                                                         *)
(* Aggregate: two phases, three phase records at most, and commands while  *)
(* fewer than four events were appended.  The results are chosen around    *)
(* the threshold of 50 %: of four estimated records one phase alone does   *)
(* not cross it, two phases together may.                                  *)
(*                                                                         *)
(* Accounts: two sessions with three edits and two saves each, so that a   *)
(* copy can be as many writes of the other one behind as it has edits, or  *)
(* more, or less.  Jobs: two concurrent starts, and one execution each of  *)
(* a pause, a completion and a load phase, which may be called for either  *)
(* job.  A third start would only repeat what two do to each other.        *)
(***************************************************************************)
EXTENDS MigrationJob, TLC

CONSTANTS extract, load, Sessions, MaxEdits, MaxSaves, Starter, Pauser, Completer, Loader, MaxFaults

VARIABLES
    part,   \* the component that runs
    row, copy,
    job, pc, target, jobCopy, announced, raced, faults

A == INSTANCE AccountStore
J == INSTANCE JobStore WITH copy <- jobCopy

accountVars == <<row, copy>>
jobVars == <<job, pc, target, jobCopy, announced, raced, faults>>

ASSUME Bounds == A!BoundAssumption /\ J!FaultAssumption

MCPhase == {extract, load}

MCResult == {[ok |-> 2, bad |-> 0, skip |-> 0],
             [ok |-> 0, bad |-> 2, skip |-> 0],
             [ok |-> 1, bad |-> 1, skip |-> 1]}

MCTotals == {0, 4}

\* The phases are interchangeable: nothing in the aggregate depends on which
\* phase it is.
Symmetry == Permutations(MCPhase)

MCInit ==
    /\ part \in {"aggregate", "accounts", "jobs"}
    /\ Init /\ A!Init /\ J!Init
    /\ part # "aggregate" => total = CHOOSE n \in Totals : TRUE
    /\ part # "accounts" => row.version = 0
    /\ part # "jobs" => target = CHOOSE t \in [J!Operator -> Starter] : TRUE

\* The accounts stop when every session has used up its bounds.
AggregateStep == part = "aggregate" /\ Next
AccountsStep  == part = "accounts" /\ (A!Next \/ UNCHANGED accountVars)
JobsStep      == part = "jobs" /\ J!Next

MCNext ==
    \/ AggregateStep /\ UNCHANGED <<part, accountVars, jobVars>>
    \/ AccountsStep /\ UNCHANGED <<part, vars, jobVars>>
    \/ JobsStep /\ UNCHANGED <<part, vars, accountVars>>

MCSpec == MCInit /\ [][MCNext]_<<part, vars, accountVars, jobVars>>

-------------------------------------------------------------------------------
\* The types of the variables of all components.
Types == TypeOK /\ A!TypeOK /\ J!TypeOK

\* The counters are the sums of the closed records, and every phase that was
\* completed was reported once: MigrationJob states both.
HistoryIsCounted == CountersMatchHistory /\ PhaseReportedOnce

\* What the check of the version compares, and that an unedited copy is saved without
\* harm: AccountStore states them.
CheckCountsEdits == A!CheckCountsEdits
UneditedSaveIsHarmless == A!UneditedSaveIsHarmless

\* StartMigration keeps jobs apart but for starts that overlap, and no event
\* tells of a job that was not stored: JobStore states both.
Admission == J!OnlyRacesBreakAdmission /\ J!AnnouncedJobsExist

\* Each stored job implements the documented state machine, although several handlers
\* write it from copies they read at different times, and the handler that changes a
\* stored job has read the state it replaces.
JobsMoveLawfully == J!EveryJobImplementsLifecycle /\ J!NoLostUpdate
===============================================================================
