----------------------------- MODULE MigrationJob -----------------------------
(***************************************************************************)
(* The MigrationJob aggregate of src/domain/entities/migration_job.py: its *)
(* status, version, phase history, counters and domain events, and every   *)
(* command an application service can send it.  The variables are the      *)
(* attributes of one instance; a command that raises still is a step,      *)
(* because some commands have changed the aggregate before they raise.     *)
(***************************************************************************)
EXTENDS Integers, Sequences, FiniteSetsExt

CONSTANTS
    Phase,      \* the phases of MigrationPhase
    NoPhase,    \* Python's None
    Result,     \* the [ok, bad, skip] counts a caller of complete_phase reports
    Totals,     \* the values total_records may be created with
    Threshold,  \* config.error_threshold_percent
    MaxPhases,  \* bound: begin_phase is called at most this often
    MaxEvents   \* bound: no command runs once this many events were appended

ASSUME PhaseAssumption     == NoPhase \notin Phase
ASSUME ResultAssumption    == Result \subseteq [ok: Nat, bad: Nat, skip: Nat]
ASSUME TotalsAssumption    == Totals \subseteq Nat
ASSUME ThresholdAssumption == Threshold \in 0..100

VARIABLES
    status,     \* _status
    version,    \* _version, the token of optimistic concurrency control
    phases,     \* _phase_history; _current_phase is the phase of its last record
    counters,   \* _counters, without total_records
    total,      \* _counters.total_records
    log,        \* every domain event appended so far, in order
    collected,  \* how many of them collect_events has handed out
    raised      \* the exception the last command ended with, or "none"

vars == <<status, version, phases, counters, total, log, collected, raised>>

-------------------------------------------------------------------------------
Status == {"PENDING", "RUNNING", "PAUSED", "FAILED", "COMPLETED", "ROLLED_BACK"}

Exception == {"InvalidStateTransition", "BusinessRuleViolation"}

Counts == [ok: Nat, bad: Nat, skip: Nat]

PhaseRecord == [phase: Phase, complete: BOOLEAN, result: Counts]

LifecycleEvent == {"MigrationStarted", "MigrationPaused", "MigrationResumed",
                   "MigrationFailed", "MigrationCompleted", "MigrationRolledBack"}

Event == [type: LifecycleEvent \union {"PhaseCompleted", "ValidationCompleted"},
          phase: Phase \union {NoPhase}, rollback: BOOLEAN]

NewEvent(type, phase) == [type |-> type, phase |-> phase, rollback |-> FALSE]

NoCounts == [ok |-> 0, bad |-> 0, skip |-> 0]

\* A transition table with which a failed job can be taken up again.
Transitions_Restart ==
    [PENDING |-> {"RUNNING"}, RUNNING |-> {"PAUSED", "FAILED", "COMPLETED"},
     PAUSED |-> {"RUNNING", "FAILED"}, FAILED |-> {"ROLLED_BACK", "RUNNING"},
     COMPLETED |-> {}, ROLLED_BACK |-> {}]

Transitions ==
    [PENDING |-> {"RUNNING"}, RUNNING |-> {"PAUSED", "FAILED", "COMPLETED"},
     PAUSED |-> {"RUNNING", "FAILED"}, FAILED |-> {"ROLLED_BACK"},
     COMPLETED |-> {}, ROLLED_BACK |-> {}]

\* The skipped records are taken off instead of added.
AddCounts_SkipReversed(c, r) ==
    [ok |-> c.ok + r.ok, bad |-> c.bad + r.bad, skip |-> c.skip - r.skip]

AddCounts(c, r) == [ok |-> c.ok + r.ok, bad |-> c.bad + r.bad, skip |-> c.skip + r.skip]

\* counters.error_rate_percent > config.error_threshold_percent; the rate is 0
\* when the job was created without an estimate.
Exceeds(c) == total # 0 /\ c.bad * 100 > Threshold * total

\* The youngest record of phase p that is still open.
OpenRecords(p) == {i \in DOMAIN phases : phases[i].phase = p /\ ~phases[i].complete}

LastOpen(p) == Max(OpenRecords(p))

Closed(p, r) == [phase |-> p, complete |-> TRUE, result |-> r]

LastPhase == IF phases = <<>> THEN NoPhase ELSE phases[Len(phases)].phase

-------------------------------------------------------------------------------
\* create: a new aggregate is PENDING, with the caller's estimate.
Init ==
    /\ status = "PENDING"
    /\ version = 0
    /\ phases = <<>>
    /\ counters = NoCounts
    /\ total \in Totals
    /\ log = <<>>
    /\ collected = 0
    /\ raised = "none"

\* Bound: commands are only sent while the event log is short.
InBounds == Len(log) < MaxEvents

Raise(exception) ==
    /\ raised' = exception
    /\ UNCHANGED <<status, version, phases, counters, total, log, collected>>

\* A command that appends its event before it knows the move is allowed.
Lifecycle_EventFirst(target, event) ==
    /\ log' = Append(log, event)
    /\ IF target \in Transitions[status]
       THEN status' = target /\ version' = version + 1 /\ raised' = "none"
       ELSE raised' = "InvalidStateTransition" /\ UNCHANGED <<status, version>>
    /\ UNCHANGED <<phases, counters, total, collected>>

\* _transition_to followed by the append of one event: start, pause, resume,
\* fail, complete and rollback differ in nothing else.
Lifecycle(target, event) ==
    \/ /\ target \in Transitions[status]
       /\ status' = target
       /\ version' = version + 1
       /\ log' = Append(log, event)
       /\ raised' = "none"
       /\ UNCHANGED <<phases, counters, total, collected>>
    \/ /\ target \notin Transitions[status]
       /\ Raise("InvalidStateTransition")

Start    == Lifecycle("RUNNING", NewEvent("MigrationStarted", NoPhase))
Pause    == Lifecycle("PAUSED", NewEvent("MigrationPaused", LastPhase))
Resume   == Lifecycle("RUNNING", NewEvent("MigrationResumed", LastPhase))
Complete == Lifecycle("COMPLETED", NewEvent("MigrationCompleted", NoPhase))
Rollback == Lifecycle("ROLLED_BACK", NewEvent("MigrationRolledBack", NoPhase))

FailedEvent(phase, c) ==
    [type |-> "MigrationFailed", phase |-> phase, rollback |-> c.ok > 0]

Fail(p) == Lifecycle("FAILED", FailedEvent(p, counters))

\* begin_phase: refused unless the job is RUNNING.
BeginPhase(p) ==
    \/ /\ status = "RUNNING"
       /\ Len(phases) < MaxPhases
       /\ phases' = Append(phases, [phase |-> p, complete |-> FALSE, result |-> NoCounts])
       /\ version' = version + 1
       /\ raised' = "none"
       /\ UNCHANGED <<status, counters, total, log, collected>>
    \/ /\ status # "RUNNING"
       /\ Raise("BusinessRuleViolation")

\* The tail of complete_phase and of record_validation_result: fail() appended
\* behind the events already written, or nothing but the version bump.  When
\* fail() refuses, what was written before it stays.
Conclude_NoBump(events, mustFail, failure, bumps) ==
    \/ /\ ~mustFail
       /\ log' = events
       /\ raised' = "none"
       /\ UNCHANGED <<status, version>>
    \/ /\ mustFail /\ "FAILED" \in Transitions[status]
       /\ status' = "FAILED"
       /\ version' = version + bumps
       /\ log' = Append(events, failure)
       /\ raised' = "none"
    \/ /\ mustFail /\ "FAILED" \notin Transitions[status]
       /\ log' = events
       /\ raised' = "InvalidStateTransition"
       /\ UNCHANGED <<status, version>>

Conclude(events, mustFail, failure, bumps) ==
    \/ /\ ~mustFail
       /\ version' = version + 1
       /\ log' = events
       /\ raised' = "none"
       /\ UNCHANGED status
    \/ /\ mustFail /\ "FAILED" \in Transitions[status]
       /\ status' = "FAILED"
       /\ version' = version + bumps
       /\ log' = Append(events, failure)
       /\ raised' = "none"
    \/ /\ mustFail /\ "FAILED" \notin Transitions[status]
       /\ log' = events
       /\ raised' = "InvalidStateTransition"
       /\ UNCHANGED <<status, version>>

\* complete_phase that examines the error rate before it adds the new result.
CompletePhase_RateFirst(p, r) ==
    \/ /\ OpenRecords(p) = {}
       /\ Raise("BusinessRuleViolation")
    \/ /\ OpenRecords(p) # {}
       /\ phases' = [phases EXCEPT ![LastOpen(p)] = Closed(p, r)]
       /\ counters' = AddCounts(counters, r)
       /\ Conclude(Append(log, NewEvent("PhaseCompleted", p)),
                   Exceeds(counters), FailedEvent(p, counters), 1)
       /\ UNCHANGED <<total, collected>>

\* complete_phase that takes any record of the phase, an already complete one too.
CompletePhase_AnyRecord(p, r) ==
    LET records == {i \in DOMAIN phases : phases[i].phase = p}
        sum     == AddCounts(counters, r)
    IN  \/ /\ records = {}
           /\ Raise("BusinessRuleViolation")
        \/ /\ records # {}
           /\ phases' = [phases EXCEPT ![Max(records)] = Closed(p, r)]
           /\ counters' = sum
           /\ Conclude(Append(log, NewEvent("PhaseCompleted", p)),
                       Exceeds(sum), FailedEvent(p, sum), 1)
           /\ UNCHANGED <<total, collected>>

\* complete_phase: no look at the status; the counters and the history are
\* updated and PhaseCompleted is appended before the error rate is examined.
CompletePhase(p, r) ==
    \/ /\ OpenRecords(p) = {}
       /\ Raise("BusinessRuleViolation")
    \/ /\ OpenRecords(p) # {}
       /\ phases' = [phases EXCEPT ![LastOpen(p)] = Closed(p, r)]
       /\ counters' = AddCounts(counters, r)
       /\ Conclude(Append(log, NewEvent("PhaseCompleted", p)),
                   Exceeds(counters'), FailedEvent(p, counters'), 1)
       /\ UNCHANGED <<total, collected>>

\* record_validation_result: ValidationCompleted first, then fail() when
\* blocking errors were found, then one more version.
RecordValidationResult(p, blocking) ==
    /\ Conclude(Append(log, NewEvent("ValidationCompleted", NoPhase)),
                blocking, FailedEvent(p, counters), 2)
    /\ UNCHANGED <<phases, counters, total, collected>>

\* collect_events hands out the pending events once.
CollectEvents ==
    /\ collected' = Len(log)
    /\ raised' = "none"
    /\ UNCHANGED <<status, version, phases, counters, total, log>>

Command ==
    \/ Start
    \/ Pause
    \/ Resume
    \/ Complete
    \/ Rollback
    \/ \E p \in Phase :
          \/ Fail(p)
          \/ BeginPhase(p)
          \/ \E r \in Result : CompletePhase(p, r)
          \/ \E blocking \in BOOLEAN : RecordValidationResult(p, blocking)

Next == (InBounds /\ Command) \/ CollectEvents

Spec == Init /\ [][Next]_vars

-------------------------------------------------------------------------------
\* The types of the attributes.
TypeOK ==
    /\ status \in Status
    /\ version \in Nat
    /\ phases \in Seq(PhaseRecord)
    /\ counters \in Counts
    /\ total \in Nat
    /\ log \in Seq(Event)
    /\ collected \in 0..Len(log)
    /\ raised \in Exception \union {"none"}

\* A job that is still RUNNING or PAUSED has never accumulated failures beyond
\* its error threshold: complete_phase fails it in the call that crosses it,
\* whichever phases the failures come from and in whatever order they close.
LiveJobWithinThreshold ==
    status \in {"RUNNING", "PAUSED"} => ~Exceeds(counters)

\* The roll-up kept on the aggregate is the sum of its completed phase records,
\* although a record may be reopened under the same phase, closed after the job
\* has ended, or closed by a complete_phase that raises.
CountersMatchHistory ==
    LET done == {i \in DOMAIN phases : phases[i].complete}
    IN  /\ counters.ok   = MapThenSumSet(LAMBDA i : phases[i].result.ok, done)
        /\ counters.bad  = MapThenSumSet(LAMBDA i : phases[i].result.bad, done)
        /\ counters.skip = MapThenSumSet(LAMBDA i : phases[i].result.skip, done)

\* Consumers hear of a completed phase exactly once: the log holds as many
\* PhaseCompleted events of a phase as the history has completed records of it.
PhaseReportedOnce ==
    \A p \in Phase :
        Quantify(DOMAIN log, LAMBDA i : log[i].type = "PhaseCompleted" /\ log[i].phase = p)
            = Quantify(DOMAIN phases, LAMBDA i : phases[i].phase = p /\ phases[i].complete)

\* The status a lifecycle event announces.
StatusAfter ==
    [MigrationStarted |-> "RUNNING", MigrationPaused |-> "PAUSED",
     MigrationResumed |-> "RUNNING", MigrationFailed |-> "FAILED",
     MigrationCompleted |-> "COMPLETED", MigrationRolledBack |-> "ROLLED_BACK"]

Announcements(events) == {i \in DOMAIN events : events[i].type \in LifecycleEvent}

\* The last lifecycle event of a log announces status s; PENDING is announced
\* by none.
Tells(events, s) ==
    \/ Announcements(events) = {} /\ s = "PENDING"
    \/ \E i \in Announcements(events) :
          /\ \A j \in Announcements(events) : j <= i
          /\ s = StatusAfter[events[i].type]

\* A consumer that only reads the event log knows the status of the job: it is
\* the one the last lifecycle event announces.  No refused command leaves an
\* event behind and no change of status goes unannounced.
LogTellsStatus == Tells(log, status)

\* A command that returns normally and changed what is stored has also moved
\* the version, so a repository comparing versions sees the change.
VersionMovesWithState ==
    [][/\ raised' = "none"
       /\ <<status, phases, counters>>' # <<status, phases, counters>>
       => version' > version]_vars

\* The aggregate implements the documented state machine.
L == INSTANCE JobLifecycle
ImplementsLifecycle == L!Spec

-------------------------------------------------------------------------------
\* Statements of the documentation the aggregate does not keep.

Appended(type) == Len(log') > Len(log) /\ log'[Len(log')].type = type

\* "Raised when a new migration job transitions from PENDING -> RUNNING."
StartedOnlyFromPending ==
    [][Appended("MigrationStarted") => status = "PENDING"]_vars

\* "Raised when all phases complete successfully and reconciliation passes."
CompletedMeansPhasesComplete ==
    status = "COMPLETED" => \A i \in DOMAIN phases : phases[i].complete

\* "The migration can be resumed from the last completed checkpoint": the phase
\* a MigrationPaused event names as last_completed_phase is a completed one.
PausedNamesCompletedPhase ==
    [][Appended("MigrationPaused") =>
          LET p == log'[Len(log')].phase
          IN  p # NoPhase =>
                \E i \in DOMAIN phases : phases[i].phase = p /\ phases[i].complete]_vars

\* "Abort migration if the per-phase failure rate exceeds this percentage."
PhaseFailureRateAborts ==
    [][\A i \in DOMAIN phases :
          LET r == phases'[i].result
          IN  /\ status = "RUNNING"
              /\ ~phases[i].complete /\ phases'[i].complete
              /\ r.bad * 100 > Threshold * (r.ok + r.bad + r.skip)
              => status' = "FAILED"]_vars

===============================================================================
