----------------------------- MODULE StoresProofs -----------------------------
(***************************************************************************)
(* Proofs about the job aggregate and the two repositories that lock       *)
(* optimistically, for any phases, results, sessions, handlers and bounds: *)
(* MigrationJob, AccountStore (which MCStores instantiates as A), JobStore *)
(* (as J), and the run that holds all three.                               *)
(***************************************************************************)
EXTENDS MCStores, FiniteSetTheorems, SequenceTheorems, WellFoundedInduction, TLAPS

-------------------------------------------------------------------------------
(* The aggregate, for every set of phases, every threshold, every result a *)
(* caller may report and every bound on the history.                       *)

\* The largest element of a nonempty set of positions exists, so LastOpen is
\* one of the records it is chosen from.
LEMMA MaxOfPositions ==
    ASSUME NEW n \in Nat, NEW S \in SUBSET (1..n), S # {}
    PROVE  Max(S) \in S
<1> DEFINE T == {n - i : i \in S}
<1>1. T \subseteq Nat /\ T # {}
  <2>1. \A i \in S : n - i \in Nat
    OBVIOUS
  <2>2. PICK i \in S : TRUE
    OBVIOUS
  <2>3. n - i \in T
    OBVIOUS
  <2> QED
    BY <2>1, <2>3
<1>2. PICK x \in T : \A y \in T : ~ (<<y, x>> \in OpToRel(<, Nat))
  <2> HIDE DEF T
  <2> QED
    BY <1>1, NatLessThanWellFounded, WFMin
<1>3. PICK m \in S : x = n - m
  OBVIOUS
<1>4. ASSUME NEW i \in S PROVE m >= i
  <2>1. n - i \in T /\ n - i \in Nat /\ x \in Nat
    OBVIOUS
  <2>2. ~ (n - i < x)
    <3> HIDE DEF T
    <3> QED
      BY <1>2, <2>1 DEF OpToRel
  <2> QED
    BY <2>2, <1>3
<1> QED
  BY <1>4 DEF Max

\* An open record of a phase is an open record of it.
LEMMA LastOpenIsOpen ==
    ASSUME TypeOK, NEW p \in Phase, OpenRecords(p) # {}
    PROVE  LastOpen(p) \in DOMAIN phases /\ phases[LastOpen(p)].phase = p
<1>1. OpenRecords(p) \in SUBSET (1..Len(phases)) /\ Len(phases) \in Nat
  BY LenProperties DEF TypeOK, OpenRecords
<1>2. LastOpen(p) \in OpenRecords(p)
  <2> HIDE DEF OpenRecords
  <2> QED
    BY <1>1, MaxOfPositions DEF LastOpen
<1> QED
  BY <1>2 DEF OpenRecords

\* The table of allowed moves, one line per status.
LEMMA TransitionTable ==
    /\ Transitions["PENDING"] = {"RUNNING"}
    /\ Transitions["RUNNING"] = {"PAUSED", "FAILED", "COMPLETED"}
    /\ Transitions["PAUSED"] = {"RUNNING", "FAILED"}
    /\ Transitions["FAILED"] = {"ROLLED_BACK"}
    /\ Transitions["COMPLETED"] = {}
    /\ Transitions["ROLLED_BACK"] = {}
  BY DEF Transitions, Status

\* The events of the lifecycle and of the phases are of the type Event.
LEMMA LastPhaseType == ASSUME TypeOK PROVE LastPhase \in Phase \union {NoPhase}
<1>1. CASE phases = <<>>
  BY <1>1 DEF LastPhase
<1>2. CASE phases # <<>>
  <2>1. Len(phases) \in 1..Len(phases)
    BY <1>2, EmptySeq DEF TypeOK
  <2>2. phases[Len(phases)] \in PhaseRecord
    BY <2>1, ElementOfSeq DEF TypeOK
  <2> QED
    BY <1>2, <2>2 DEF LastPhase, PhaseRecord
<1> QED
  BY <1>1, <1>2

\* Events about the job are well-formed.
LEMMA JobEventTypes ==
    ASSUME TypeOK
    PROVE  /\ NewEvent("MigrationStarted", NoPhase) \in Event
           /\ NewEvent("MigrationPaused", LastPhase) \in Event
           /\ NewEvent("MigrationResumed", LastPhase) \in Event
           /\ NewEvent("MigrationCompleted", NoPhase) \in Event
           /\ NewEvent("MigrationRolledBack", NoPhase) \in Event
           /\ NewEvent("ValidationCompleted", NoPhase) \in Event
  BY LastPhaseType DEF NewEvent, Event, LifecycleEvent

\* So are those about a phase.
LEMMA PhaseEventTypes ==
    ASSUME NEW p \in Phase, NEW c
    PROVE  /\ NewEvent("PhaseCompleted", p) \in Event
           /\ FailedEvent(p, c) \in Event
<1>1. (c.ok > 0) \in BOOLEAN
  OBVIOUS
<1> QED
  BY <1>1 DEF NewEvent, FailedEvent, Event, LifecycleEvent

\* The sum of two counts is a count.
LEMMA AddedCounts ==
    ASSUME NEW c \in Counts, NEW r \in Counts
    PROVE  AddCounts(c, r) \in Counts
  BY DEF Counts, AddCounts

-------------------------------------------------------------------------------
\* A command that only moves the status keeps the types.
LEMMA LifecycleKeepsTypes ==
    ASSUME TypeOK, NEW to \in Status, NEW event \in Event, Lifecycle(to, event)
    PROVE  TypeOK'
<1>1. CASE to \in Transitions[status]
  <2>1. log' \in Seq(Event) /\ Len(log') = Len(log) + 1 /\ Len(log) \in Nat
    BY <1>1, AppendProperties, LenProperties DEF Lifecycle, Raise, TypeOK
  <2> QED
    BY <1>1, <2>1 DEF Lifecycle, Raise, TypeOK
<1>2. CASE to \notin Transitions[status]
  BY <1>2 DEF Lifecycle, Raise, TypeOK, Exception
<1> QED
  BY <1>1, <1>2

\* So does the tail that complete_phase and record_validation_result share.
LEMMA ConcludeKeepsTypes ==
    ASSUME TypeOK, NEW first \in Event, NEW failure \in Event,
           NEW mustFail \in BOOLEAN, NEW bumps \in Nat,
           Conclude(Append(log, first), mustFail, failure, bumps)
    PROVE  /\ status' \in Status
           /\ version' \in Nat
           /\ log' \in Seq(Event)
           /\ Len(log') >= Len(log)
           /\ raised' \in Exception \union {"none"}
<1>1. /\ Append(log, first) \in Seq(Event)
      /\ Len(Append(log, first)) = Len(log) + 1
      /\ Len(log) \in Nat
  BY AppendProperties, LenProperties DEF TypeOK
<1>2. /\ Append(Append(log, first), failure) \in Seq(Event)
      /\ Len(Append(Append(log, first), failure)) = Len(log) + 2
  BY <1>1, AppendProperties
<1> DEFINE events == Append(log, first)
<1>3. CASE ~mustFail
  BY <1>1, <1>3, SMTT(30) DEF Conclude, TypeOK
<1>4. CASE mustFail /\ "FAILED" \in Transitions[status]
  <2>1. /\ status' = "FAILED"
        /\ version' = version + bumps
        /\ log' = Append(events, failure)
        /\ raised' = "none"
    BY <1>4 DEF Conclude
  <2> QED
    BY <1>1, <1>2, <2>1 DEF TypeOK, Status
<1>5. CASE mustFail /\ "FAILED" \notin Transitions[status]
  <2>1. /\ UNCHANGED <<status, version>>
        /\ log' = events
        /\ raised' = "InvalidStateTransition"
    BY <1>5 DEF Conclude
  <2> QED
    BY <1>1, <2>1 DEF TypeOK, Exception
<1> QED
  BY <1>3, <1>4, <1>5

\* A phase that begins appends an open record and an event.
LEMMA BeginPhaseKeepsTypes ==
    ASSUME TypeOK, NEW p \in Phase, BeginPhase(p)
    PROVE  TypeOK'
<1>1. NoCounts \in Counts
  BY DEF NoCounts, Counts
<1>2. [phase |-> p, complete |-> FALSE, result |-> NoCounts] \in PhaseRecord
  BY <1>1 DEF PhaseRecord
<1>3. CASE status = "RUNNING"
  <2> DEFINE record == [phase |-> p, complete |-> FALSE, result |-> NoCounts]
  <2>1. phases' = Append(phases, record)
    BY <1>3 DEF BeginPhase
  <2>2. phases \in Seq(PhaseRecord) /\ record \in PhaseRecord
    BY <1>2 DEF TypeOK
  <2>3. phases' \in Seq(PhaseRecord)
    <3> HIDE DEF record
    <3> QED
      BY <2>1, <2>2, AppendProperties
  <2> QED
    BY <1>3, <2>3 DEF BeginPhase, Raise, TypeOK
<1>4. CASE status # "RUNNING"
  BY <1>4 DEF BeginPhase, Raise, TypeOK, Exception
<1> QED
  BY <1>3, <1>4

\* A phase that completes closes its record and adds to the counters.
LEMMA CompletePhaseKeepsTypes ==
    ASSUME TypeOK, NEW p \in Phase, NEW r \in Result, CompletePhase(p, r)
    PROVE  TypeOK'
<1>1. CASE OpenRecords(p) = {}
  BY <1>1 DEF CompletePhase, Raise, TypeOK, Exception
<1>2. CASE OpenRecords(p) # {}
  <2>1. r \in Counts
    BY ResultAssumption DEF Counts
  <2>2. LastOpen(p) \in 1..Len(phases)
    BY <1>2, LastOpenIsOpen, LenProperties DEF TypeOK
  <2>3. Closed(p, r) \in PhaseRecord
    BY <2>1 DEF PhaseRecord, Closed
  <2>4. phases' = [phases EXCEPT ![LastOpen(p)] = Closed(p, r)]
    BY <1>2 DEF CompletePhase
  <2>5. phases' \in Seq(PhaseRecord)
    BY <2>2, <2>3, <2>4, ExceptSeq DEF TypeOK
  <2>6. counters' \in Counts
    BY <1>2, <2>1, AddedCounts DEF CompletePhase, Raise, TypeOK
  <2>7. /\ NewEvent("PhaseCompleted", p) \in Event
        /\ FailedEvent(p, counters') \in Event
    BY PhaseEventTypes
  <2>8. /\ status' \in Status
        /\ version' \in Nat
        /\ log' \in Seq(Event)
        /\ Len(log') >= Len(log)
        /\ raised' \in Exception \union {"none"}
    <3>1. Exceeds(counters') \in BOOLEAN
      BY DEF Exceeds
    <3>2. Conclude(Append(log, NewEvent("PhaseCompleted", p)),
                   Exceeds(counters'), FailedEvent(p, counters'), 1)
      BY <1>2 DEF CompletePhase, Raise
    <3> QED
      BY <3>1, <3>2, <2>7, ConcludeKeepsTypes
  <2>9. UNCHANGED <<total, collected>>
    BY <1>2 DEF CompletePhase, Raise
  <2>10. collected' \in 0..Len(log')
    BY <2>8, <2>9, LenProperties DEF TypeOK
  <2> QED
    BY <2>5, <2>6, <2>8, <2>9, <2>10 DEF TypeOK
<1> QED
  BY <1>1, <1>2

\* A validation result may fail the job.
LEMMA RecordValidationKeepsTypes ==
    ASSUME TypeOK, NEW p \in Phase, NEW blocking \in BOOLEAN,
           RecordValidationResult(p, blocking)
    PROVE  TypeOK'
<1>1. /\ NewEvent("ValidationCompleted", NoPhase) \in Event
      /\ FailedEvent(p, counters) \in Event
  BY JobEventTypes, PhaseEventTypes
<1>2. /\ status' \in Status
      /\ version' \in Nat
      /\ log' \in Seq(Event)
      /\ Len(log') >= Len(log)
      /\ raised' \in Exception \union {"none"}
  BY <1>1, ConcludeKeepsTypes DEF RecordValidationResult
<1>3. UNCHANGED <<phases, counters, total, collected>>
  BY DEF RecordValidationResult
<1>4. collected' \in 0..Len(log')
  BY <1>2, <1>3, LenProperties DEF TypeOK
<1> QED
  BY <1>2, <1>3, <1>4 DEF TypeOK

\* Each step keeps the types, one command after the other.
LEMMA StepKeepsTypes == TypeOK /\ [Next]_vars => TypeOK'
<1> SUFFICES ASSUME TypeOK, [Next]_vars PROVE TypeOK'
  OBVIOUS
<1>1. CASE Start
  BY <1>1, JobEventTypes, LifecycleKeepsTypes DEF Start, Status
<1>2. CASE Pause
  BY <1>2, JobEventTypes, LifecycleKeepsTypes DEF Pause, Status
<1>3. CASE Resume
  BY <1>3, JobEventTypes, LifecycleKeepsTypes DEF Resume, Status
<1>4. CASE Complete
  BY <1>4, JobEventTypes, LifecycleKeepsTypes DEF Complete, Status
<1>5. CASE Rollback
  BY <1>5, JobEventTypes, LifecycleKeepsTypes DEF Rollback, Status
<1>6. ASSUME NEW p \in Phase, Fail(p) PROVE TypeOK'
  BY <1>6, PhaseEventTypes, LifecycleKeepsTypes DEF Fail, Status
<1>7. ASSUME NEW p \in Phase, BeginPhase(p) PROVE TypeOK'
  BY <1>7, BeginPhaseKeepsTypes
<1>8. ASSUME NEW p \in Phase, NEW r \in Result, CompletePhase(p, r) PROVE TypeOK'
  BY <1>8, CompletePhaseKeepsTypes
<1>9. ASSUME NEW p \in Phase, NEW blocking \in BOOLEAN, RecordValidationResult(p, blocking)
      PROVE  TypeOK'
  BY <1>9, RecordValidationKeepsTypes
<1>10. CASE CollectEvents
  BY <1>10, LenProperties DEF CollectEvents, TypeOK
<1>11. CASE UNCHANGED vars
  BY <1>11 DEF vars, TypeOK
<1> QED
  BY <1>1, <1>2, <1>3, <1>4, <1>5, <1>6, <1>7, <1>8, <1>9, <1>10, <1>11
     DEF Next, Command

\* The attributes keep their types in every state a sequence of commands can
\* reach, for every set of phases and results a caller may report.
THEOREM TypeCorrect == Spec => []TypeOK
<1>1. Init => TypeOK
  BY TotalsAssumption, EmptySeq
     DEF Init, TypeOK, Status, NoCounts, Counts
<1> QED
  BY <1>1, StepKeepsTypes, PTL DEF Spec

-------------------------------------------------------------------------------
\* The invariant behind LiveJobWithinThreshold.  Nothing stops complete_phase
\* from adding failures to a job that is PENDING but for the empty history such
\* a job has, and start() would then put a job past its threshold to work.
ThresholdInv ==
    /\ TypeOK
    /\ LiveJobWithinThreshold
    /\ status = "PENDING" => phases = <<>> /\ counters = NoCounts

\* A job that has counted nothing is within every threshold.
LEMMA NoCountsWithinThreshold == ASSUME TypeOK PROVE ~Exceeds(NoCounts)
  BY ThresholdAssumption DEF Exceeds, NoCounts, TypeOK

\* A move of the status alone never starts a job past its threshold.
LEMMA LifecycleKeepsThreshold ==
    ASSUME ThresholdInv, TypeOK', NEW to \in Status \ {"PENDING"}, NEW event,
           Lifecycle(to, event)
    PROVE  ThresholdInv'
<1>1. UNCHANGED <<phases, counters, total>>
  BY DEF Lifecycle, Raise
<1>2. Exceeds(counters)' <=> Exceeds(counters)
  BY <1>1 DEF Exceeds
<1>3. CASE to \in Transitions[status]
  <2>1. status' = to
    BY <1>3 DEF Lifecycle, Raise
  <2>2. to \in {"RUNNING", "PAUSED"} => status \in {"PENDING", "RUNNING", "PAUSED"}
    BY <1>3, TransitionTable DEF ThresholdInv, TypeOK, Status
  <2>3. ~Exceeds(counters) \/ to \notin {"RUNNING", "PAUSED"}
    BY <2>2, NoCountsWithinThreshold DEF ThresholdInv, LiveJobWithinThreshold
  <2> QED
    BY <1>2, <2>1, <2>3 DEF ThresholdInv, LiveJobWithinThreshold
<1>4. CASE to \notin Transitions[status]
  BY <1>1, <1>2, <1>4 DEF Lifecycle, Raise, ThresholdInv, LiveJobWithinThreshold
<1> QED
  BY <1>3, <1>4

\* complete_phase fails the job in the call whose counts cross the threshold.
LEMMA CompletePhaseKeepsThreshold ==
    ASSUME ThresholdInv, TypeOK', NEW p \in Phase, NEW r \in Result, CompletePhase(p, r)
    PROVE  ThresholdInv'
<1>1. CASE OpenRecords(p) = {}
  BY <1>1 DEF CompletePhase, Raise, ThresholdInv, LiveJobWithinThreshold, Exceeds
<1>2. CASE OpenRecords(p) # {}
  <2>1. status # "PENDING"
    <3>1. DOMAIN phases # {}
      BY <1>2 DEF OpenRecords
    <3> QED
      BY <3>1 DEF ThresholdInv
  <2>2. /\ UNCHANGED total
        /\ Conclude(Append(log, NewEvent("PhaseCompleted", p)),
                    Exceeds(counters'), FailedEvent(p, counters'), 1)
    BY <1>2 DEF CompletePhase, Raise
  <2>3. Exceeds(counters)' <=> Exceeds(counters')
    BY <2>2 DEF Exceeds
  <2>4. CASE ~Exceeds(counters')
    BY <2>1, <2>2, <2>3, <2>4 DEF Conclude, ThresholdInv, LiveJobWithinThreshold
  <2>5. CASE Exceeds(counters') /\ "FAILED" \in Transitions[status]
    BY <2>2, <2>5 DEF Conclude, ThresholdInv, LiveJobWithinThreshold
  <2>6. CASE Exceeds(counters') /\ "FAILED" \notin Transitions[status]
    <3>1. status' = status /\ status \notin {"PENDING", "RUNNING", "PAUSED"}
      BY <2>1, <2>2, <2>6, TransitionTable DEF Conclude
    <3> QED
      BY <3>1 DEF ThresholdInv, LiveJobWithinThreshold
  <2> QED
    BY <2>4, <2>5, <2>6
<1> QED
  BY <1>1, <1>2

\* Every command keeps a live job within its threshold.
LEMMA StepKeepsThreshold == ThresholdInv /\ [Next]_vars => ThresholdInv'
<1> SUFFICES ASSUME ThresholdInv, [Next]_vars PROVE ThresholdInv'
  OBVIOUS
<1>0. TypeOK'
  BY StepKeepsTypes DEF ThresholdInv
<1>1. CASE Start
  BY <1>0, <1>1, LifecycleKeepsThreshold DEF Start, Status
<1>2. CASE Pause
  BY <1>0, <1>2, LifecycleKeepsThreshold DEF Pause, Status
<1>3. CASE Resume
  BY <1>0, <1>3, LifecycleKeepsThreshold DEF Resume, Status
<1>4. CASE Complete
  BY <1>0, <1>4, LifecycleKeepsThreshold DEF Complete, Status
<1>5. CASE Rollback
  BY <1>0, <1>5, LifecycleKeepsThreshold DEF Rollback, Status
<1>6. ASSUME NEW p \in Phase, Fail(p) PROVE ThresholdInv'
  BY <1>0, <1>6, LifecycleKeepsThreshold DEF Fail, Status
<1>7. ASSUME NEW p \in Phase, BeginPhase(p) PROVE ThresholdInv'
  BY <1>0, <1>7
     DEF BeginPhase, Raise, ThresholdInv, LiveJobWithinThreshold, Exceeds
<1>8. ASSUME NEW p \in Phase, NEW r \in Result, CompletePhase(p, r) PROVE ThresholdInv'
  BY <1>0, <1>8, CompletePhaseKeepsThreshold
<1>9. ASSUME NEW p \in Phase, NEW blocking \in BOOLEAN, RecordValidationResult(p, blocking)
      PROVE  ThresholdInv'
  <2>1. /\ UNCHANGED <<phases, counters, total>>
        /\ status' \in {status, "FAILED"}
    BY <1>9 DEF RecordValidationResult, Conclude
  <2> QED
    BY <1>0, <2>1 DEF ThresholdInv, LiveJobWithinThreshold, Exceeds
<1>10. CASE CollectEvents \/ UNCHANGED vars
  BY <1>0, <1>10 DEF CollectEvents, vars, ThresholdInv, LiveJobWithinThreshold, Exceeds
<1> QED
  BY <1>1, <1>2, <1>3, <1>4, <1>5, <1>6, <1>7, <1>8, <1>9, <1>10 DEF Next, Command

\* A job that is RUNNING or PAUSED is within its error threshold, whatever the
\* order its phases begin, fail and complete in.
THEOREM ThresholdHolds == Spec => []LiveJobWithinThreshold
<1>1. Init => ThresholdInv
  <2>1. Init => TypeOK
    BY TotalsAssumption, EmptySeq
       DEF Init, TypeOK, Status, NoCounts, Counts
  <2> QED
    BY <2>1 DEF Init, ThresholdInv, LiveJobWithinThreshold
<1>2. ThresholdInv => LiveJobWithinThreshold
  BY DEF ThresholdInv
<1> QED
  BY <1>1, <1>2, StepKeepsThreshold, PTL DEF Spec

-------------------------------------------------------------------------------
\* A lifecycle event at the end of a log is the one the log tells of.
LEMMA TellsLifecycleEvent ==
    ASSUME NEW events \in Seq(Event), NEW e \in Event, e.type \in LifecycleEvent
    PROVE  Tells(Append(events, e), StatusAfter[e.type])
<1> DEFINE longer == Append(events, e)
           n      == Len(events) + 1
<1>1. /\ DOMAIN longer = 1..n
      /\ n \in 1..n
      /\ longer[n] = e
  BY AppendProperties, LenProperties
<1>2. n \in Announcements(longer)
  BY <1>1 DEF Announcements
<1>3. \A j \in Announcements(longer) : j <= n
  BY <1>1 DEF Announcements
<1> QED
  BY <1>1, <1>2, <1>3 DEF Tells

\* Any other event changes nothing of what a log tells.
LEMMA TellsOtherEvent ==
    ASSUME NEW events \in Seq(Event), NEW e \in Event, e.type \notin LifecycleEvent,
           NEW s, Tells(events, s)
    PROVE  Tells(Append(events, e), s)
<1> DEFINE longer == Append(events, e)
           n      == Len(events) + 1
<1>1. /\ DOMAIN events = 1..Len(events)
      /\ DOMAIN longer = 1..n
      /\ longer[n] = e
      /\ \A i \in DOMAIN events : longer[i] = events[i]
      /\ Len(events) \in Nat
  BY AppendProperties, LenProperties
<1>2. Announcements(longer) = Announcements(events)
  <2>1. ASSUME NEW i \in 1..n PROVE i \in Announcements(longer) <=> i \in Announcements(events)
    <3>1. CASE i = n
      BY <1>1, <3>1 DEF Announcements
    <3>2. CASE i # n
      BY <1>1, <3>2 DEF Announcements
    <3> QED
      BY <3>1, <3>2
  <2> QED
    BY <1>1, <2>1 DEF Announcements
<1>3. \A i \in Announcements(events) : longer[i] = events[i]
  BY <1>1 DEF Announcements
<1> QED
  BY <1>2, <1>3 DEF Tells

\* A lifecycle command that is carried out announces the status it moves to;
\* one that is refused leaves the log alone.
LEMMA LifecycleIsTold ==
    ASSUME TypeOK, LogTellsStatus, NEW to, NEW event \in Event,
           event.type \in LifecycleEvent, StatusAfter[event.type] = to,
           Lifecycle(to, event)
    PROVE  LogTellsStatus'
<1>1. CASE to \in Transitions[status]
  <2>1. log' = Append(log, event) /\ status' = to
    BY <1>1 DEF Lifecycle, Raise
  <2> QED
    BY <2>1, TellsLifecycleEvent DEF LogTellsStatus, TypeOK
<1>2. CASE to \notin Transitions[status]
  BY <1>2 DEF Lifecycle, Raise, LogTellsStatus
<1> QED
  BY <1>1, <1>2

\* The tail of complete_phase and record_validation_result announces the failure
\* of the job, behind an event that is none of its lifecycle.
LEMMA ConcludeIsTold ==
    ASSUME TypeOK, LogTellsStatus, NEW first \in Event, NEW failure \in Event,
           first.type \notin LifecycleEvent, failure.type = "MigrationFailed",
           NEW mustFail, NEW bumps,
           Conclude(Append(log, first), mustFail, failure, bumps)
    PROVE  LogTellsStatus'
<1> DEFINE events == Append(log, first)
<1>1. events \in Seq(Event)
  BY AppendProperties DEF TypeOK
<1>2. Tells(events, status)
  BY TellsOtherEvent DEF LogTellsStatus, TypeOK
<1>3. CASE log' = events /\ status' = status
  BY <1>2, <1>3 DEF LogTellsStatus
<1>4. CASE log' = Append(events, failure) /\ status' = "FAILED"
  <2>1. failure.type \in LifecycleEvent /\ StatusAfter[failure.type] = "FAILED"
    BY DEF LifecycleEvent, StatusAfter
  <2>2. Tells(Append(events, failure), "FAILED")
    <3> HIDE DEF events
    <3> QED
      BY <1>1, <2>1, TellsLifecycleEvent
  <2> QED
    BY <1>4, <2>2 DEF LogTellsStatus
<1> QED
  BY <1>3, <1>4 DEF Conclude

\* Every command records the event that tells of its change of the status.
LEMMA StepIsTold == TypeOK /\ LogTellsStatus /\ [Next]_vars => LogTellsStatus'
<1> SUFFICES ASSUME TypeOK, LogTellsStatus, [Next]_vars PROVE LogTellsStatus'
  OBVIOUS
<1> USE DEF NewEvent, LifecycleEvent, StatusAfter
<1>1. CASE Start
  BY <1>1, JobEventTypes, LifecycleIsTold DEF Start
<1>2. CASE Pause
  BY <1>2, JobEventTypes, LifecycleIsTold DEF Pause
<1>3. CASE Resume
  BY <1>3, JobEventTypes, LifecycleIsTold DEF Resume
<1>4. CASE Complete
  BY <1>4, JobEventTypes, LifecycleIsTold DEF Complete
<1>5. CASE Rollback
  BY <1>5, JobEventTypes, LifecycleIsTold DEF Rollback
<1>6. ASSUME NEW p \in Phase, Fail(p) PROVE LogTellsStatus'
  BY <1>6, PhaseEventTypes, LifecycleIsTold DEF Fail, FailedEvent
<1>7. ASSUME NEW p \in Phase, BeginPhase(p) PROVE LogTellsStatus'
  BY <1>7 DEF BeginPhase, Raise, LogTellsStatus
<1>8. ASSUME NEW p \in Phase, NEW r \in Result, CompletePhase(p, r) PROVE LogTellsStatus'
  <2>1. CASE OpenRecords(p) = {}
    BY <1>8, <2>1 DEF CompletePhase, Raise, LogTellsStatus
  <2>2. CASE OpenRecords(p) # {}
    <3>1. Conclude(Append(log, NewEvent("PhaseCompleted", p)),
                   Exceeds(counters'), FailedEvent(p, counters'), 1)
      BY <1>8, <2>2 DEF CompletePhase, Raise
    <3>2. /\ NewEvent("PhaseCompleted", p).type = "PhaseCompleted"
          /\ FailedEvent(p, counters').type = "MigrationFailed"
      BY DEF FailedEvent
    <3> HIDE DEF NewEvent
    <3> QED
      BY <3>1, <3>2, PhaseEventTypes, ConcludeIsTold
  <2> QED
    BY <2>1, <2>2
<1>9. ASSUME NEW p \in Phase, NEW blocking \in BOOLEAN, RecordValidationResult(p, blocking)
      PROVE  LogTellsStatus'
  <2>1. /\ NewEvent("ValidationCompleted", NoPhase).type = "ValidationCompleted"
        /\ FailedEvent(p, counters).type = "MigrationFailed"
    BY DEF FailedEvent
  <2> HIDE DEF NewEvent
  <2> QED
    BY <1>9, <2>1, JobEventTypes, PhaseEventTypes, ConcludeIsTold DEF RecordValidationResult
<1>10. CASE CollectEvents \/ UNCHANGED vars
  BY <1>10 DEF CollectEvents, vars, LogTellsStatus
<1> QED
  BY <1>1, <1>2, <1>3, <1>4, <1>5, <1>6, <1>7, <1>8, <1>9, <1>10 DEF Next, Command

\* A consumer of the event log always knows the status of the job.
THEOREM LogIsFaithful == Spec => []LogTellsStatus
<1>1. Init => LogTellsStatus
  BY DEF Init, LogTellsStatus, Tells, Announcements
<1> QED
  BY <1>1, TypeCorrect, StepIsTold, PTL DEF Spec

-------------------------------------------------------------------------------
\* A command that returns normally and changed what is stored moved the version.
THEOREM VersionMoves == Spec => VersionMovesWithState
<1>1. ASSUME TypeOK, [Next]_vars, raised' = "none",
             <<status, phases, counters>>' # <<status, phases, counters>>
      PROVE  version' > version
  <2> USE DEF Raise
  <2>1. ASSUME NEW to, NEW event, Lifecycle(to, event) PROVE version' > version
    BY <1>1, <2>1 DEF Lifecycle, TypeOK
  <2>2. ASSUME NEW p \in Phase, BeginPhase(p) PROVE version' > version
    BY <1>1, <2>2 DEF BeginPhase, TypeOK
  <2>3. ASSUME NEW events, NEW mustFail, NEW failure, NEW bumps \in {1, 2},
               Conclude(events, mustFail, failure, bumps)
        PROVE  version' > version
    BY <1>1, <2>3 DEF Conclude, TypeOK
  <2>4. ASSUME NEW p \in Phase, NEW r \in Result, CompletePhase(p, r)
        PROVE  version' > version
    BY <1>1, <2>3, <2>4 DEF CompletePhase
  <2>5. ASSUME NEW p \in Phase, NEW blocking \in BOOLEAN, RecordValidationResult(p, blocking)
        PROVE  version' > version
    BY <2>3, <2>5 DEF RecordValidationResult
  <2>6. CASE CollectEvents \/ UNCHANGED vars
    BY <1>1, <2>6 DEF CollectEvents, vars
  <2> QED
    BY <1>1, <2>1, <2>2, <2>4, <2>5, <2>6
       DEF Next, Command, Start, Pause, Resume, Complete, Rollback, Fail
<1> QED
  BY <1>1, TypeCorrect, PTL DEF Spec, VersionMovesWithState

-------------------------------------------------------------------------------
\* Every step of the aggregate is a step of the documented state machine, seen
\* from its status, or leaves the status alone.
LEMMA LifecycleMoves ==
    ASSUME TypeOK, NEW to \in Status, NEW event, Lifecycle(to, event)
    PROVE  [L!Next]_status
<1>1. CASE to \in Transitions[status]
  <2>1. status' = to
    BY <1>1 DEF Lifecycle, Raise
  <2> QED
    BY <1>1, <2>1, TransitionTable
       DEF TypeOK, Status, L!Next, L!Begin, L!Pause, L!Continue, L!Abort, L!Finish, L!Undo
<1>2. CASE to \notin Transitions[status]
  BY <1>2 DEF Lifecycle, Raise
<1> QED
  BY <1>1, <1>2

\* A phase that closes leaves the status or fails a live job.
LEMMA ConcludeMoves ==
    ASSUME TypeOK, NEW events, NEW mustFail, NEW failure, NEW bumps,
           Conclude(events, mustFail, failure, bumps)
    PROVE  [L!Next]_status
<1>1. CASE status' = status
  BY <1>1
<1>2. CASE status' = "FAILED" /\ "FAILED" \in Transitions[status]
  BY <1>2, TransitionTable DEF TypeOK, Status, L!Next, L!Abort
<1> QED
  BY <1>1, <1>2 DEF Conclude

\* The aggregate implements the state machine its module documents.
THEOREM ImplementsTheLifecycle == Spec => ImplementsLifecycle
<1>1. Init => L!Init
  BY DEF Init, L!Init
<1>2. ASSUME TypeOK, [Next]_vars PROVE [L!Next]_status
  <2>1. CASE Start \/ Pause \/ Resume \/ Complete \/ Rollback
    BY <1>2, <2>1, LifecycleMoves DEF Start, Pause, Resume, Complete, Rollback, Status
  <2>2. ASSUME NEW p \in Phase, Fail(p) PROVE [L!Next]_status
    BY <1>2, <2>2, LifecycleMoves DEF Fail, Status
  <2>3. ASSUME NEW p \in Phase, BeginPhase(p) PROVE [L!Next]_status
    BY <2>3 DEF BeginPhase, Raise
  <2>4. ASSUME NEW p \in Phase, NEW r \in Result, CompletePhase(p, r) PROVE [L!Next]_status
    BY <1>2, <2>4, ConcludeMoves DEF CompletePhase, Raise
  <2>5. ASSUME NEW p \in Phase, NEW blocking \in BOOLEAN, RecordValidationResult(p, blocking)
        PROVE  [L!Next]_status
    BY <1>2, <2>5, ConcludeMoves DEF RecordValidationResult
  <2>6. CASE CollectEvents \/ UNCHANGED vars
    BY <2>6 DEF CollectEvents, vars
  <2> QED
    BY <1>2, <2>1, <2>2, <2>3, <2>4, <2>5, <2>6 DEF Next, Command
<1> QED
  BY <1>1, <1>2, TypeCorrect, PTL DEF Spec, L!Spec, ImplementsLifecycle

-------------------------------------------------------------------------------
(* The history and the counters.  The property sums with a recursive       *)
(* function of the library; the proof counts the units one by one instead, *)
(* which needs no induction over data but one argument on a least set.     *)

\* What is counted, one by one: as many units of each x of s as g gives it.  Their number
\* is the sum of g over s, without recursion.
Units(s, g) == {u \in s \X Nat : u[2] \in 1..g[u[1]]}

\* A set of numbers has a least one.
LEMMA LeastOf ==
    ASSUME NEW N \in SUBSET Nat, N # {}
    PROVE  \E m \in N : \A j \in N : m <= j
<1>1. PICK m \in N : \A j \in N : ~(<<j, m>> \in OpToRel(<, Nat))
  BY NatLessThanWellFounded, WFMin
<1>2. \A j \in N : m <= j
  <2> TAKE j \in N
  <2>1. ~(j < m)
    BY <1>1 DEF OpToRel
  <2> QED
    BY <2>1
<1> QED
  BY <1>2

\* The units of one more.
LEMMA MoreUnits ==
    ASSUME NEW s, NEW g, NEW x \in s, g[x] \in Nat, IsFiniteSet(Units(s \ {x}, g))
    PROVE  /\ IsFiniteSet(Units(s, g))
           /\ Cardinality(Units(s, g)) = g[x] + Cardinality(Units(s \ {x}, g))
<1> DEFINE rest == Units(s \ {x}, g)
           own == {x} \X (1..g[x])
<1>1. Units(s, g) = rest \cup own
  BY DEF Units
<1>2. rest \cap own = {}
  BY DEF Units
<1>3. IsFiniteSet(own) /\ Cardinality(own) = g[x]
  <2>1. IsFiniteSet({x}) /\ Cardinality({x}) = 1
    BY FS_Singleton
  <2>2. IsFiniteSet(1..g[x]) /\ Cardinality(1..g[x]) = g[x]
    <3> PICK m \in Nat : m = g[x]
      OBVIOUS
    <3>1. 1 \in Int /\ m \in Int
      OBVIOUS
    <3>2. IsFiniteSet(1..m)
      BY <3>1, FS_Interval
    <3>3. Cardinality(1..m) = m
      BY <3>1, FS_Interval
    <3> QED
      BY <3>2, <3>3
  <2>3. IsFiniteSet(own) /\ Cardinality(own) = 1 * g[x]
    BY <2>1, <2>2, FS_Product
  <2> QED
    BY <2>3
<1>4. IsFiniteSet(rest) /\ Cardinality(rest) \in Nat
  BY FS_CardinalityType
<1>5. Cardinality({}) = 0
  BY FS_EmptySet
<1>7. rest = Units(s \ {x}, g)
  OBVIOUS
<1> HIDE DEF rest, own
<1>6. /\ IsFiniteSet(rest \cup own)
      /\ Cardinality(rest \cup own) = Cardinality(rest) + Cardinality(own) - Cardinality({})
  BY <1>2, <1>3, <1>4, FS_Union
<1> QED
  BY <1>1, <1>3, <1>4, <1>5, <1>6, <1>7

\* What has no x has no units.
LEMMA NoUnits == ASSUME NEW g PROVE Units({}, g) = {} /\ Cardinality(Units({}, g)) = 0
<1>1. Units({}, g) = {}
  BY DEF Units
<1> QED
  BY <1>1, FS_EmptySet

\* The units of a finite set are finitely many.
LEMMA UnitsAreFinite ==
    ASSUME NEW s, IsFiniteSet(s), NEW g, \A x \in s : g[x] \in Nat
    PROVE  \A t \in SUBSET s : IsFiniteSet(Units(t, g))
<1> DEFINE N == {n \in Nat : \E t \in SUBSET s : Cardinality(t) = n /\ ~IsFiniteSet(Units(t, g))}
<1> SUFFICES ASSUME N # {} PROVE FALSE
  <2>1. \A t \in SUBSET s : Cardinality(t) \in Nat
    BY FS_Subset, FS_CardinalityType
  <2> QED
    BY <2>1
<1>1. PICK n \in N : \A j \in N : n <= j
  <2>1. N \in SUBSET Nat
    OBVIOUS
  <2> HIDE DEF N
  <2> QED
    BY <2>1, LeastOf
<1>2. PICK t \in SUBSET s : Cardinality(t) = n /\ ~IsFiniteSet(Units(t, g))
  OBVIOUS
<1>3. t # {}
  <2>1. IsFiniteSet({})
    BY FS_EmptySet
  <2> QED
    BY <1>2, <2>1, NoUnits
<1>4. PICK x \in t : TRUE
  BY <1>3
<1>5. IsFiniteSet(t)
  BY FS_Subset
<1>6. Cardinality(t \ {x}) = n - 1 /\ n \in Nat /\ n - 1 \in Nat
  <2>1. Cardinality(t \ {x}) = Cardinality(t) - 1 /\ IsFiniteSet(t \ {x})
    BY <1>4, <1>5, FS_RemoveElement
  <2>2. Cardinality(t \ {x}) \in Nat
    BY <2>1, FS_CardinalityType
  <2> QED
    BY <1>2, <2>1, <2>2
<1>7. t \ {x} \in SUBSET s
  OBVIOUS
<1>8. IsFiniteSet(Units(t \ {x}, g))
  <2>1. n - 1 \notin N
    <3> HIDE DEF N
    <3> QED
      BY <1>1, <1>6
  <2> QED
    BY <1>6, <1>7, <2>1
<1>9. g[x] \in Nat
  BY <1>4
<1> QED
  BY <1>2, <1>4, <1>8, <1>9, MoreUnits

\* So each element of a part of it adds its own.
LEMMA EachAdds ==
    ASSUME NEW s, IsFiniteSet(s), NEW g, \A x \in s : g[x] \in Nat
    PROVE  \A t \in SUBSET s : \A x \in t :
               Cardinality(Units(t, g)) = g[x] + Cardinality(Units(t \ {x}, g))
<1> TAKE t \in SUBSET s
<1> TAKE x \in t
<1>1. t \ {x} \in SUBSET s /\ g[x] \in Nat
  OBVIOUS
<1>2. IsFiniteSet(Units(t \ {x}, g))
  BY <1>1, UnitsAreFinite
<1> QED
  BY <1>1, <1>2, MoreUnits

\* The function h sums g over the subsets of s, as the folds of the library do.
Summing(s, g, h) ==
    h = [t \in SUBSET s |-> IF t = {} THEN 0
                            ELSE g[CHOOSE x \in t : TRUE] + h[t \ {CHOOSE x \in t : TRUE}]]

\* There is such a function.
LEMMA SumExists ==
    ASSUME NEW s, IsFiniteSet(s), NEW g, \A x \in s : g[x] \in Nat
    PROVE  \E h : Summing(s, g, h)
<1>0. \A u \in SUBSET s : \A y \in u :
          Cardinality(Units(u, g)) = g[y] + Cardinality(Units(u \ {y}, g))
  BY EachAdds
<1> DEFINE h == [t \in SUBSET s |-> Cardinality(Units(t, g))]
<1>1. ASSUME NEW t \in SUBSET s
      PROVE  h[t] = IF t = {} THEN 0
                    ELSE g[CHOOSE x \in t : TRUE] + h[t \ {CHOOSE x \in t : TRUE}]
  <2>1. CASE t = {}
    BY <2>1, NoUnits
  <2>2. CASE t # {}
    <3> PICK x : x = CHOOSE y \in t : TRUE
      OBVIOUS
    <3>1. x \in t /\ g[x] \in Nat
      BY <2>2
    <3>2. t \ {x} \in SUBSET s
      OBVIOUS
    <3>3. Cardinality(Units(t, g)) = g[x] + Cardinality(Units(t \ {x}, g))
      BY <1>0, <3>1
    <3> QED
      BY <2>2, <3>2, <3>3
  <2> QED
    BY <2>1, <2>2
<1>2. h = [t \in SUBSET s |-> IF t = {} THEN 0
                              ELSE g[CHOOSE x \in t : TRUE] + h[t \ {CHOOSE x \in t : TRUE}]]
  <2>1. h = [t \in SUBSET s |-> h[t]]
    OBVIOUS
  <2> HIDE DEF h
  <2> QED
    BY <1>1, <2>1
<1> QED
  BY <1>2 DEF Summing

\* And it gives the number of units, whichever elements it chooses.
LEMMA SumIsUnits ==
    ASSUME NEW s, IsFiniteSet(s), NEW g, \A x \in s : g[x] \in Nat, NEW h, Summing(s, g, h)
    PROVE  \A t \in SUBSET s : h[t] = Cardinality(Units(t, g))
<1>0. \A u \in SUBSET s : \A y \in u :
          Cardinality(Units(u, g)) = g[y] + Cardinality(Units(u \ {y}, g))
  BY EachAdds
<1> DEFINE N == {n \in Nat : \E t \in SUBSET s : /\ Cardinality(t) = n
                                                 /\ h[t] # Cardinality(Units(t, g))}
<1> SUFFICES ASSUME N # {} PROVE FALSE
  <2>1. \A t \in SUBSET s : Cardinality(t) \in Nat
    BY FS_Subset, FS_CardinalityType
  <2> QED
    BY <2>1
<1>1. PICK n \in N : \A j \in N : n <= j
  <2>1. N \in SUBSET Nat
    OBVIOUS
  <2> HIDE DEF N
  <2> QED
    BY <2>1, LeastOf
<1>2. PICK t \in SUBSET s : Cardinality(t) = n /\ h[t] # Cardinality(Units(t, g))
  OBVIOUS
<1>3. h[t] = IF t = {} THEN 0
             ELSE g[CHOOSE x \in t : TRUE] + h[t \ {CHOOSE x \in t : TRUE}]
  BY DEF Summing
<1>4. t # {}
  BY <1>2, <1>3, NoUnits
<1> PICK x : x = CHOOSE y \in t : TRUE
  OBVIOUS
<1>5. x \in t /\ g[x] \in Nat
  BY <1>4
<1>6. IsFiniteSet(t)
  BY FS_Subset
<1>7. Cardinality(t \ {x}) = n - 1 /\ n \in Nat /\ n - 1 \in Nat
  <2>1. Cardinality(t \ {x}) = Cardinality(t) - 1 /\ IsFiniteSet(t \ {x})
    BY <1>5, <1>6, FS_RemoveElement
  <2>2. Cardinality(t \ {x}) \in Nat
    BY <2>1, FS_CardinalityType
  <2> QED
    BY <1>2, <2>1, <2>2
<1>8. t \ {x} \in SUBSET s
  OBVIOUS
<1>9. h[t \ {x}] = Cardinality(Units(t \ {x}, g))
  <2>1. n - 1 \notin N
    <3> HIDE DEF N
    <3> QED
      BY <1>1, <1>7
  <2> QED
    BY <1>7, <1>8, <2>1
<1>10. Cardinality(Units(t, g)) = g[x] + Cardinality(Units(t \ {x}, g))
  BY <1>0, <1>5
<1>11. h[t] = g[x] + h[t \ {x}]
  BY <1>3, <1>4
<1> QED
  BY <1>2, <1>9, <1>10, <1>11


\* The records of a history that are complete, and the numbers of a field of its results.
Done(h) == {i \in DOMAIN h : h[i].complete}

Figures(h, f) == [i \in DOMAIN h |-> h[i].result[f]]

Tally(h, f) == Cardinality(Units(Done(h), Figures(h, f)))

\* The positions of the events that report phase p, and of the completed records of it.
Reported(l, p) == {i \in DOMAIN l : l[i].type = "PhaseCompleted" /\ l[i].phase = p}

Completed(h, p) == {i \in DOMAIN h : h[i].phase = p /\ h[i].complete}

\* The history h, the counters c and the log l agree.
Counted(h, c, l) ==
    /\ \A f \in {"ok", "bad", "skip"} : c[f] = Tally(h, f)
    /\ \A p \in Phase : Cardinality(Reported(l, p)) = Cardinality(Completed(h, p))

\* The figures of the completed records are numbers, and the records finitely many.
LEMMA FiguresAreNumbers ==
    ASSUME NEW h \in Seq(PhaseRecord), NEW f \in {"ok", "bad", "skip"}
    PROVE  /\ IsFiniteSet(Done(h))
           /\ \A i \in Done(h) : Figures(h, f)[i] \in Nat /\ Figures(h, f)[i] = h[i].result[f]
<1>1. IsFiniteSet(DOMAIN h)
  <2>1. DOMAIN h = 1..Len(h) /\ Len(h) \in Nat
    BY LenProperties
  <2> PICK m \in Nat : m = Len(h)
    BY <2>1
  <2>2. 1 \in Int /\ m \in Int
    OBVIOUS
  <2>3. IsFiniteSet(1..m)
    BY <2>2, FS_Interval
  <2> QED
    BY <2>1, <2>3
<1>2. IsFiniteSet(Done(h))
  BY <1>1, FS_Subset DEF Done
<1>3. ASSUME NEW i \in Done(h) PROVE Figures(h, f)[i] \in Nat /\ Figures(h, f)[i] = h[i].result[f]
  <2>1. i \in DOMAIN h /\ h[i] \in PhaseRecord
    BY ElementOfSeq DEF Done
  <2>2. h[i].result \in Counts
    BY <2>1 DEF PhaseRecord
  <2>3. h[i].result[f] \in Nat
    BY <2>2 DEF Counts
  <2> QED
    BY <2>1, <2>3 DEF Figures
<1> QED
  BY <1>2, <1>3

\* The sum the library folds over the completed records is the number of units.
LEMMA SumsAreTallies ==
    ASSUME NEW h \in Seq(PhaseRecord)
    PROVE  /\ MapThenSumSet(LAMBDA i : h[i].result.ok, Done(h)) = Tally(h, "ok")
           /\ MapThenSumSet(LAMBDA i : h[i].result.bad, Done(h)) = Tally(h, "bad")
           /\ MapThenSumSet(LAMBDA i : h[i].result.skip, Done(h)) = Tally(h, "skip")
<1> DEFINE s == Done(h)
           Folds(f, g) == g = [t \in SUBSET s |-> IF t = {} THEN 0
                                  ELSE h[CHOOSE x \in t : TRUE].result[f]
                                       + g[t \ {CHOOSE x \in t : TRUE}]]
           Fold(f) == CHOOSE g : Folds(f, g)
<1>1. ASSUME NEW f \in {"ok", "bad", "skip"} PROVE Fold(f)[s] = Tally(h, f)
  <2>1. IsFiniteSet(s) /\ \A i \in s : Figures(h, f)[i] \in Nat
    BY FiguresAreNumbers
  <2>2. ASSUME NEW g PROVE Summing(s, Figures(h, f), g) <=> Folds(f, g)
    <3>1. \A t \in SUBSET s : t # {} =>
              Figures(h, f)[CHOOSE x \in t : TRUE] = h[CHOOSE x \in t : TRUE].result[f]
      <4>1. \A i \in s : Figures(h, f)[i] = h[i].result[f]
        BY FiguresAreNumbers
      <4> HIDE DEF s
      <4> QED
        BY <4>1
    <3>2. [t \in SUBSET s |-> IF t = {} THEN 0
              ELSE Figures(h, f)[CHOOSE x \in t : TRUE] + g[t \ {CHOOSE x \in t : TRUE}]]
          = [t \in SUBSET s |-> IF t = {} THEN 0
              ELSE h[CHOOSE x \in t : TRUE].result[f] + g[t \ {CHOOSE x \in t : TRUE}]]
      <4> HIDE DEF s
      <4> QED
        BY <3>1
    <3> HIDE DEF s
    <3> QED
      BY <3>2 DEF Summing
  <2>3. \E g : Folds(f, g)
    <3>1. \E g : Summing(s, Figures(h, f), g)
      <4> HIDE DEF s
      <4> QED
        BY <2>1, SumExists
    <3> HIDE DEF s, Folds
    <3> QED
      BY <2>2, <3>1
  <2>4. Summing(s, Figures(h, f), Fold(f))
    <3> HIDE DEF s, Folds
    <3> QED
      BY <2>2, <2>3
  <2>5. s = Done(h)
    OBVIOUS
  <2> HIDE DEF s, Folds, Fold
  <2>6. \A t \in SUBSET s : Fold(f)[t] = Cardinality(Units(t, Figures(h, f)))
    BY <2>1, <2>4, SumIsUnits
  <2> QED
    BY <2>5, <2>6 DEF Tally
<1>2. MapThenSumSet(LAMBDA i : h[i].result.ok, Done(h)) = Fold("ok")[s]
  BY DEF MapThenSumSet, MapThenFoldSet
<1>3. MapThenSumSet(LAMBDA i : h[i].result.bad, Done(h)) = Fold("bad")[s]
  BY DEF MapThenSumSet, MapThenFoldSet
<1>4. MapThenSumSet(LAMBDA i : h[i].result.skip, Done(h)) = Fold("skip")[s]
  BY DEF MapThenSumSet, MapThenFoldSet
<1> HIDE DEF Fold, s
<1> QED
  BY <1>1, <1>2, <1>3, <1>4

\* The units of a part depend on the numbers of its elements alone.
LEMMA UnitsAgree ==
    ASSUME NEW s, NEW g, NEW k, \A x \in s : g[x] = k[x]
    PROVE  Units(s, g) = Units(s, k)
<1>1. \A u \in s \X Nat : g[u[1]] = k[u[1]]
  OBVIOUS
<1> QED
  BY <1>1 DEF Units

\* A complete record more adds its figures.
LEMMA OneMoreTallied ==
    ASSUME NEW h \in Seq(PhaseRecord), NEW j \in Seq(PhaseRecord), NEW x \in Done(j),
           Done(h) = Done(j) \ {x}, \A i \in Done(h) : j[i] = h[i],
           NEW f \in {"ok", "bad", "skip"}
    PROVE  Tally(j, f) = Tally(h, f) + j[x].result[f]
<1>1. IsFiniteSet(Done(j)) /\ \A i \in Done(j) : Figures(j, f)[i] \in Nat
  BY FiguresAreNumbers
<1>2. \A u \in SUBSET Done(j) : \A y \in u :
          Cardinality(Units(u, Figures(j, f)))
            = Figures(j, f)[y] + Cardinality(Units(u \ {y}, Figures(j, f)))
  BY <1>1, EachAdds
<1>3. Cardinality(Units(Done(j), Figures(j, f)))
        = Figures(j, f)[x] + Cardinality(Units(Done(h), Figures(j, f)))
  BY <1>2
<1>4. Figures(j, f)[x] = j[x].result[f] /\ Figures(j, f)[x] \in Nat
  BY FiguresAreNumbers
<1>5. Units(Done(h), Figures(j, f)) = Units(Done(h), Figures(h, f))
  <2>1. \A i \in Done(h) : Figures(j, f)[i] = Figures(h, f)[i]
    <3>1. \A i \in Done(j) : Figures(j, f)[i] = j[i].result[f]
      BY FiguresAreNumbers
    <3>2. \A i \in Done(h) : Figures(h, f)[i] = h[i].result[f]
      BY FiguresAreNumbers
    <3> QED
      BY <3>1, <3>2
  <2> QED
    BY <2>1, UnitsAgree
<1>6. Cardinality(Units(Done(h), Figures(h, f))) \in Nat
  <2>1. IsFiniteSet(Done(h)) /\ \A i \in Done(h) : Figures(h, f)[i] \in Nat
    BY FiguresAreNumbers
  <2>2. IsFiniteSet(Units(Done(h), Figures(h, f)))
    BY <2>1, UnitsAreFinite
  <2> QED
    BY <2>2, FS_CardinalityType
<1> QED
  BY <1>3, <1>4, <1>5, <1>6 DEF Tally

\* A history with the same complete records has the same tallies.
LEMMA SameTallies ==
    ASSUME NEW h \in Seq(PhaseRecord), NEW j \in Seq(PhaseRecord),
           Done(h) = Done(j), \A i \in Done(h) : j[i] = h[i],
           NEW f \in {"ok", "bad", "skip"}
    PROVE  Tally(j, f) = Tally(h, f)
<1>1. \A i \in Done(h) : Figures(j, f)[i] = Figures(h, f)[i]
  <2>1. \A i \in Done(j) : Figures(j, f)[i] = j[i].result[f]
    BY FiguresAreNumbers
  <2>2. \A i \in Done(h) : Figures(h, f)[i] = h[i].result[f]
    BY FiguresAreNumbers
  <2> QED
    BY <2>1, <2>2
<1> QED
  BY <1>1, UnitsAgree DEF Tally

\* An event appended to a log is reported if it tells of a phase, and nothing else changes.
LEMMA AppendReports ==
    ASSUME NEW l \in Seq(Event), NEW e \in Event, NEW p \in Phase
    PROVE  IF e.type = "PhaseCompleted" /\ e.phase = p
           THEN Cardinality(Reported(Append(l, e), p)) = Cardinality(Reported(l, p)) + 1
           ELSE Reported(Append(l, e), p) = Reported(l, p)
<1>1. /\ Len(l) \in Nat /\ DOMAIN l = 1..Len(l)
      /\ DOMAIN Append(l, e) = 1..(Len(l) + 1)
      /\ \A i \in 1..Len(l) : Append(l, e)[i] = l[i]
      /\ Append(l, e)[Len(l) + 1] = e
  BY AppendProperties, LenProperties
<1>2. 1..(Len(l) + 1) = (1..Len(l)) \cup {Len(l) + 1} /\ Len(l) + 1 \notin 1..Len(l)
  BY <1>1
<1>3. CASE e.type = "PhaseCompleted" /\ e.phase = p
  <2>1. Reported(Append(l, e), p) = Reported(l, p) \cup {Len(l) + 1}
    BY <1>1, <1>2, <1>3 DEF Reported
  <2>2. Len(l) + 1 \notin Reported(l, p)
    BY <1>1, <1>2 DEF Reported
  <2>3. IsFiniteSet(Reported(l, p))
    <3> PICK m \in Nat : m = Len(l)
      BY <1>1
    <3>1. 1 \in Int /\ m \in Int
      OBVIOUS
    <3>2. IsFiniteSet(1..m)
      BY <3>1, FS_Interval
    <3>3. Reported(l, p) \subseteq 1..m
      BY <1>1 DEF Reported
    <3> QED
      BY <3>2, <3>3, FS_Subset
  <2>4. Cardinality(Reported(l, p) \cup {Len(l) + 1}) = Cardinality(Reported(l, p)) + 1
    BY <2>2, <2>3, FS_AddElement
  <2> QED
    BY <1>3, <2>1, <2>4
<1>4. CASE ~(e.type = "PhaseCompleted" /\ e.phase = p)
  <2>1. Reported(Append(l, e), p) = Reported(l, p)
    BY <1>1, <1>2, <1>4 DEF Reported
  <2> QED
    BY <1>4, <2>1
<1> QED
  BY <1>3, <1>4

\* What agrees still agrees after an event of another type.
LEMMA OtherEventsCount ==
    ASSUME NEW h, NEW c, NEW l \in Seq(Event), NEW e \in Event,
           Counted(h, c, l), e.type # "PhaseCompleted"
    PROVE  Counted(h, c, Append(l, e))
<1>1. \A p \in Phase : Reported(Append(l, e), p) = Reported(l, p)
  BY AppendReports
<1> QED
  BY <1>1 DEF Counted

\* A record that is opened is not counted yet.
LEMMA OpenedIsCounted ==
    ASSUME NEW h \in Seq(PhaseRecord), NEW c, NEW l, NEW e \in PhaseRecord,
           Counted(h, c, l), ~e.complete
    PROVE  Counted(Append(h, e), c, l)
<1>1. /\ Append(h, e) \in Seq(PhaseRecord)
      /\ Len(h) \in Nat /\ DOMAIN h = 1..Len(h)
      /\ DOMAIN Append(h, e) = 1..(Len(h) + 1)
      /\ \A i \in 1..Len(h) : Append(h, e)[i] = h[i]
      /\ Append(h, e)[Len(h) + 1] = e
  BY AppendProperties, LenProperties
<1>2. 1..(Len(h) + 1) = (1..Len(h)) \cup {Len(h) + 1} /\ Len(h) + 1 \notin 1..Len(h)
  BY <1>1
<1>3. Done(h) = Done(Append(h, e)) /\ \A i \in Done(h) : Append(h, e)[i] = h[i]
  BY <1>1, <1>2 DEF Done
<1>4. \A f \in {"ok", "bad", "skip"} : Tally(Append(h, e), f) = Tally(h, f)
  BY <1>1, <1>3, SameTallies
<1>5. \A p \in Phase : Completed(Append(h, e), p) = Completed(h, p)
  BY <1>1, <1>2 DEF Completed
<1> QED
  BY <1>4, <1>5 DEF Counted

\* A record that is closed is counted, and the event that tells of it.
LEMMA ClosedIsCounted ==
    ASSUME NEW h \in Seq(PhaseRecord), NEW c \in Counts, NEW l \in Seq(Event),
           Counted(h, c, l), NEW p \in Phase, NEW r \in Counts,
           NEW k \in DOMAIN h, h[k].phase = p, ~h[k].complete,
           NEW e \in Event, e.type = "PhaseCompleted", e.phase = p
    PROVE  Counted([h EXCEPT ![k] = Closed(p, r)], AddCounts(c, r), Append(l, e))
<1> DEFINE j == [h EXCEPT ![k] = Closed(p, r)]
<1>1. /\ j \in Seq(PhaseRecord)
      /\ DOMAIN j = DOMAIN h
      /\ \A i \in DOMAIN h : j[i] = IF i = k THEN Closed(p, r) ELSE h[i]
  <2>1. Closed(p, r) \in PhaseRecord
    BY DEF Closed, PhaseRecord
  <2>2. k \in 1..Len(h) /\ DOMAIN h = 1..Len(h)
    BY LenProperties
  <2> QED
    BY <2>1, <2>2, ExceptSeq, LenProperties
<1>2. j = [h EXCEPT ![k] = Closed(p, r)]
  OBVIOUS
<1> HIDE DEF j
<1>3. j[k] = Closed(p, r) /\ Closed(p, r).phase = p /\ Closed(p, r).complete = TRUE
      /\ Closed(p, r).result = r
  BY <1>1 DEF Closed
<1>4. /\ k \in Done(j) /\ Done(h) = Done(j) \ {k}
      /\ \A i \in Done(h) : j[i] = h[i]
  BY <1>1, <1>3 DEF Done
<1>5. \A f \in {"ok", "bad", "skip"} : Tally(j, f) = Tally(h, f) + r[f]
  BY <1>1, <1>3, <1>4, OneMoreTallied
<1>6. \A f \in {"ok", "bad", "skip"} : AddCounts(c, r)[f] = c[f] + r[f]
  BY DEF AddCounts
<1>7. \A f \in {"ok", "bad", "skip"} : AddCounts(c, r)[f] = Tally(j, f)
  BY <1>5, <1>6 DEF Counted
<1>8. ASSUME NEW q \in Phase
      PROVE  Cardinality(Reported(Append(l, e), q)) = Cardinality(Completed(j, q))
  <2>1. CASE q = p
    <3>1. Completed(j, q) = Completed(h, q) \cup {k} /\ k \notin Completed(h, q)
      BY <1>1, <1>3, <2>1 DEF Completed
    <3>2. IsFiniteSet(Completed(h, q))
      <4>1. IsFiniteSet(Done(h))
        BY FiguresAreNumbers
      <4>2. Completed(h, q) \subseteq Done(h)
        BY DEF Completed, Done
      <4> QED
        BY <4>1, <4>2, FS_Subset
    <3>3. Cardinality(Completed(j, q)) = Cardinality(Completed(h, q)) + 1
      BY <3>1, <3>2, FS_AddElement
    <3>4. Cardinality(Reported(Append(l, e), q)) = Cardinality(Reported(l, q)) + 1
      BY <2>1, AppendReports
    <3> QED
      BY <3>3, <3>4 DEF Counted
  <2>2. CASE q # p
    <3>1. Completed(j, q) = Completed(h, q)
      BY <1>1, <1>3, <2>2 DEF Completed
    <3>2. Reported(Append(l, e), q) = Reported(l, q)
      BY <2>2, AppendReports
    <3> QED
      BY <3>1, <3>2 DEF Counted
  <2> QED
    BY <2>1, <2>2
<1> QED
  BY <1>2, <1>7, <1>8 DEF Counted

\* The invariant behind HistoryIsCounted: the types, and the history counted without a fold.
HistoryInv == TypeOK /\ Counted(phases, counters, log)

\* A command that only moves the status tells of no phase.
LEMMA LifecycleKeepsHistory ==
    ASSUME HistoryInv, NEW to \in Status, NEW event \in Event, Lifecycle(to, event),
           event.type # "PhaseCompleted"
    PROVE  Counted(phases', counters', log')
<1>1. CASE to \in Transitions[status]
  <2>1. phases' = phases /\ counters' = counters /\ log' = Append(log, event)
    BY <1>1 DEF Lifecycle, Raise
  <2> QED
    BY <2>1, OtherEventsCount DEF HistoryInv, TypeOK
<1>2. CASE to \notin Transitions[status]
  BY <1>2 DEF Lifecycle, Raise, HistoryInv
<1> QED
  BY <1>1, <1>2

\* The tail of a command adds at most the event of a failure to those already written.
LEMMA ConcludeKeepsHistory ==
    ASSUME NEW events \in Seq(Event), NEW failure \in Event, failure.type # "PhaseCompleted",
           NEW mustFail \in BOOLEAN, NEW bumps, NEW h, NEW c,
           Counted(h, c, events), Conclude(events, mustFail, failure, bumps)
    PROVE  Counted(h, c, log')
<1>1. log' = events \/ log' = Append(events, failure)
  BY DEF Conclude
<1>2. Counted(h, c, Append(events, failure))
  BY OtherEventsCount
<1> QED
  BY <1>1, <1>2

\* A phase that begins leaves what is complete as it is.
LEMMA BeginPhaseKeepsHistory ==
    ASSUME HistoryInv, NEW p \in Phase, BeginPhase(p)
    PROVE  Counted(phases', counters', log')
<1>1. CASE status = "RUNNING"
  <2> DEFINE record == [phase |-> p, complete |-> FALSE, result |-> NoCounts]
  <2>1. phases' = Append(phases, record) /\ counters' = counters /\ log' = log
    BY <1>1 DEF BeginPhase
  <2>2. record \in PhaseRecord /\ ~record.complete
    BY DEF PhaseRecord, NoCounts, Counts
  <2> HIDE DEF record
  <2> QED
    BY <2>1, <2>2, OpenedIsCounted DEF HistoryInv, TypeOK
<1>2. CASE status # "RUNNING"
  BY <1>2 DEF BeginPhase, Raise, HistoryInv
<1> QED
  BY <1>1, <1>2

\* A phase that completes closes one record that was open, adds its result and tells of it.
LEMMA CompletePhaseKeepsHistory ==
    ASSUME HistoryInv, NEW p \in Phase, NEW r \in Result, CompletePhase(p, r)
    PROVE  Counted(phases', counters', log')
<1>1. CASE OpenRecords(p) = {}
  BY <1>1 DEF CompletePhase, Raise, HistoryInv
<1>2. CASE OpenRecords(p) # {}
  <2> DEFINE told   == NewEvent("PhaseCompleted", p)
             events == Append(log, told)
  <2>1. LastOpen(p) \in DOMAIN phases /\ phases[LastOpen(p)].phase = p
        /\ ~phases[LastOpen(p)].complete
    <3>1. OpenRecords(p) \in SUBSET (1..Len(phases)) /\ Len(phases) \in Nat
      BY LenProperties DEF HistoryInv, TypeOK, OpenRecords
    <3>2. LastOpen(p) \in OpenRecords(p)
      <4> HIDE DEF OpenRecords
      <4> QED
        BY <1>2, <3>1, MaxOfPositions DEF LastOpen
    <3> QED
      BY <3>2 DEF OpenRecords
  <2>2. phases' = [phases EXCEPT ![LastOpen(p)] = Closed(p, r)]
        /\ counters' = AddCounts(counters, r)
    BY <1>2 DEF CompletePhase
  <2>3. r \in Counts
    BY ResultAssumption DEF Counts
  <2>4. told \in Event /\ told.type = "PhaseCompleted" /\ told.phase = p
    BY PhaseEventTypes DEF NewEvent
  <2>5. counters' \in Counts
    BY <2>2, <2>3, AddedCounts DEF HistoryInv, TypeOK
  <2>6. FailedEvent(p, counters') \in Event /\ FailedEvent(p, counters').type # "PhaseCompleted"
    BY <2>5, PhaseEventTypes DEF FailedEvent
  <2>7. Conclude(events, Exceeds(counters'), FailedEvent(p, counters'), 1)
    BY <1>2 DEF CompletePhase
  <2>8. Exceeds(counters') \in BOOLEAN
    BY DEF Exceeds
  <2>9. events = Append(log, told)
    OBVIOUS
  <2> HIDE DEF told, events
  <2>10. events \in Seq(Event)
    BY <2>4, <2>9, AppendProperties DEF HistoryInv, TypeOK
  <2>11. Counted(phases', counters', events)
    BY <2>1, <2>2, <2>3, <2>4, <2>9, ClosedIsCounted DEF HistoryInv, TypeOK
  <2> QED
    BY <2>6, <2>7, <2>8, <2>10, <2>11, ConcludeKeepsHistory
<1> QED
  BY <1>1, <1>2

\* A validation result tells of no phase.
LEMMA RecordValidationKeepsHistory ==
    ASSUME HistoryInv, NEW p \in Phase, NEW blocking \in BOOLEAN,
           RecordValidationResult(p, blocking)
    PROVE  Counted(phases', counters', log')
<1> DEFINE told   == NewEvent("ValidationCompleted", NoPhase)
           events == Append(log, told)
<1>1. told \in Event /\ told.type # "PhaseCompleted"
  BY JobEventTypes DEF NewEvent, HistoryInv
<1>2. FailedEvent(p, counters) \in Event /\ FailedEvent(p, counters).type # "PhaseCompleted"
  BY PhaseEventTypes DEF FailedEvent
<1>3. Conclude(events, blocking, FailedEvent(p, counters), 2)
      /\ UNCHANGED <<phases, counters>>
  BY DEF RecordValidationResult
<1>4. events = Append(log, told)
  OBVIOUS
<1> HIDE DEF told, events
<1>5. events \in Seq(Event)
  BY <1>1, <1>4, AppendProperties DEF HistoryInv, TypeOK
<1>6. Counted(phases, counters, events)
  BY <1>1, <1>4, OtherEventsCount DEF HistoryInv, TypeOK
<1>7. Counted(phases, counters, log')
  BY <1>2, <1>3, <1>5, <1>6, ConcludeKeepsHistory
<1> QED
  BY <1>3, <1>7

\* Every step keeps the history counted.
LEMMA StepKeepsHistory == HistoryInv /\ [Next]_vars => HistoryInv'
<1> SUFFICES ASSUME HistoryInv, [Next]_vars PROVE HistoryInv'
  OBVIOUS
<1>0. TypeOK'
  BY StepKeepsTypes DEF HistoryInv
<1> DEFINE Kept == Counted(phases', counters', log')
<1> SUFFICES Kept
  BY <1>0 DEF HistoryInv
<1>1. CASE Start
  BY <1>1, JobEventTypes, LifecycleKeepsHistory DEF Start, Status, NewEvent, HistoryInv
<1>2. CASE Pause
  BY <1>2, JobEventTypes, LifecycleKeepsHistory DEF Pause, Status, NewEvent, HistoryInv
<1>3. CASE Resume
  BY <1>3, JobEventTypes, LifecycleKeepsHistory DEF Resume, Status, NewEvent, HistoryInv
<1>4. CASE Complete
  BY <1>4, JobEventTypes, LifecycleKeepsHistory DEF Complete, Status, NewEvent, HistoryInv
<1>5. CASE Rollback
  BY <1>5, JobEventTypes, LifecycleKeepsHistory DEF Rollback, Status, NewEvent, HistoryInv
<1>6. ASSUME NEW p \in Phase, Fail(p) PROVE Kept
  BY <1>6, PhaseEventTypes, LifecycleKeepsHistory DEF Fail, Status, FailedEvent, HistoryInv
<1>7. ASSUME NEW p \in Phase, BeginPhase(p) PROVE Kept
  BY <1>7, BeginPhaseKeepsHistory
<1>8. ASSUME NEW p \in Phase, NEW r \in Result, CompletePhase(p, r) PROVE Kept
  BY <1>8, CompletePhaseKeepsHistory
<1>9. ASSUME NEW p \in Phase, NEW blocking \in BOOLEAN, RecordValidationResult(p, blocking)
      PROVE  Kept
  BY <1>9, RecordValidationKeepsHistory
<1>10. CASE CollectEvents
  BY <1>10 DEF CollectEvents, HistoryInv
<1>11. CASE UNCHANGED vars
  BY <1>11 DEF vars, HistoryInv
<1> HIDE DEF Kept
<1> QED
  BY <1>1, <1>2, <1>3, <1>4, <1>5, <1>6, <1>7, <1>8, <1>9, <1>10, <1>11
     DEF Next, Command

\* A new job has nothing to count.
LEMMA NothingCounted == Init => Counted(phases, counters, log)
<1> SUFFICES ASSUME Init PROVE Counted(phases, counters, log)
  OBVIOUS
<1>1. DOMAIN phases = {} /\ DOMAIN log = {}
  BY DEF Init
<1>2. Done(phases) = {} /\ \A p \in Phase : Reported(log, p) = {} /\ Completed(phases, p) = {}
  BY <1>1 DEF Done, Reported, Completed
<1>3. \A f \in {"ok", "bad", "skip"} : Tally(phases, f) = 0
  BY <1>2, NoUnits DEF Tally
<1>4. \A f \in {"ok", "bad", "skip"} : counters[f] = 0
  BY DEF Init, NoCounts
<1> QED
  BY <1>2, <1>3, <1>4 DEF Counted

\* What is counted without a fold is what the folds of the property give.
LEMMA CountedMeans == HistoryInv => HistoryIsCounted
<1> SUFFICES ASSUME HistoryInv PROVE HistoryIsCounted
  OBVIOUS
<1>1. CountersMatchHistory
  <2>1. phases \in Seq(PhaseRecord)
    BY DEF HistoryInv, TypeOK
  <2>2. /\ MapThenSumSet(LAMBDA i : phases[i].result.ok, Done(phases)) = Tally(phases, "ok")
        /\ MapThenSumSet(LAMBDA i : phases[i].result.bad, Done(phases)) = Tally(phases, "bad")
        /\ MapThenSumSet(LAMBDA i : phases[i].result.skip, Done(phases)) = Tally(phases, "skip")
    BY <2>1, SumsAreTallies
  <2>3. /\ counters.ok = Tally(phases, "ok") /\ counters.bad = Tally(phases, "bad")
        /\ counters.skip = Tally(phases, "skip")
    BY DEF HistoryInv, Counted
  <2> QED
    BY <2>2, <2>3 DEF CountersMatchHistory, Done
<1>2. PhaseReportedOnce
  <2>1. \A p \in Phase : Cardinality(Reported(log, p)) = Cardinality(Completed(phases, p))
    BY DEF HistoryInv, Counted
  <2> QED
    BY <2>1 DEF PhaseReportedOnce, Quantify, Reported, Completed
<1> QED
  BY <1>1, <1>2 DEF HistoryIsCounted

\* The counters are the sums of the completed phase records and every completion was
\* announced once, whatever the phases, the results and the threshold.
THEOREM HistoryIsKept == Spec => []HistoryIsCounted
<1>1. Init => HistoryInv
  BY NothingCounted, TotalsAssumption, EmptySeq
     DEF HistoryInv, Init, TypeOK, Status, NoCounts, Counts
<1> QED
  BY <1>1, StepKeepsHistory, CountedMeans, PTL DEF Spec

-------------------------------------------------------------------------------
(* The accounts: the types, what the check of the version compares, and    *)
(* that saving an unedited copy is harmless.                               *)

\* What a copy was loaded with plus the writes since is the version of the row,
\* and what it counted itself are its edits.
VersionInv ==
    \A s \in Sessions :
        copy[s].loaded =>
            /\ row.version > 0
            /\ row.version + copy[s].edits = copy[s].version + copy[s].since

\* A copy that nobody edited is the row it was loaded from, until that is
\* written; a new copy has the version of no row, and an idle session no copy.
CopyInv ==
    \A s \in Sessions :
        /\ A!Is(s, "idle") => ~copy[s].loaded /\ copy[s].edits = 0
        /\ copy[s].edits = 0 /\ ~copy[s].loaded => copy[s].version = 0
        /\ copy[s].edits = 0 /\ copy[s].loaded /\ copy[s].since = 0 =>
               copy[s].account = row.account

AccountInv == A!TypeOK /\ VersionInv /\ CopyInv

\* A store with or without the account, and idle sessions.
LEMMA AccountInit == A!Init => AccountInv
  BY Bounds
     DEF A!BoundAssumption, A!Init, AccountInv, A!TypeOK, VersionInv, CopyInv, A!NoCopy,
         A!Copy, A!New, A!Account, A!Status, A!Is

\* The commands make accounts of accounts.
LEMMA EditsAreAccounts ==
    ASSUME NEW s \in Sessions, NEW a \in A!Account, NEW b \in A!Edits(s, a)
    PROVE  b \in A!Account
  BY DEF A!Edits, A!Account, A!Status

\* A write counts the row's version and what every copy is behind alike.
LEMMA WriteKeeps ==
    ASSUME AccountInv, NEW s \in Sessions, ~A!Is(s, "idle"), NEW a \in A!Account,
           NEW o \in {"inserted", "updated"}, A!Write(s, a, o)
    PROVE  AccountInv'
<1>1. A!TypeOK'
  <2>1. row' \in [account : A!Account, version : Nat]
    BY DEF AccountInv, A!TypeOK, A!Write
  <2>2. ASSUME NEW x \in Sessions PROVE A!Aged(x, s, o) \in A!Copy
    <3>1. copy[x] \in A!Copy
      BY DEF AccountInv, A!TypeOK
    <3>2. CASE x = s
      <4>1. A!Aged(x, s, o) = [copy[x] EXCEPT !.since = A!Aged(x, s, o).since, !.pc = "held",
                                            !.outcome = o]
        BY <3>1, <3>2 DEF A!Aged, A!Copy
      <4>2. A!Aged(x, s, o).since \in Nat
        BY <3>1 DEF A!Aged, A!Copy
      <4> QED
        BY <3>1, <4>1, <4>2 DEF A!Copy
    <3>3. CASE x # s
      <4>1. A!Aged(x, s, o) = [copy[x] EXCEPT !.since = A!Aged(x, s, o).since]
        BY <3>1, <3>3 DEF A!Aged, A!Copy
      <4>2. A!Aged(x, s, o).since \in Nat
        BY <3>1 DEF A!Aged, A!Copy
      <4> QED
        BY <3>1, <4>1, <4>2 DEF A!Copy
    <3> QED
      BY <3>2, <3>3
  <2> QED
    BY <2>1, <2>2 DEF A!Write, A!TypeOK
<1>2. \A x \in Sessions :
         /\ copy'[x].loaded = copy[x].loaded /\ copy'[x].edits = copy[x].edits
         /\ copy'[x].version = copy[x].version
         /\ copy'[x].since = IF A!Is(x, "idle") THEN copy[x].since ELSE copy[x].since + 1
         /\ copy'[x].account = copy[x].account
         /\ copy'[x].pc = "idle" => A!Is(x, "idle")
  BY ZenonT(60) DEF AccountInv, A!TypeOK, A!Write, A!Aged, A!Copy, A!Is
<1>3. row'.version = row.version + 1
  BY DEF A!Write
<1>4. VersionInv'
  BY <1>2, <1>3 DEF AccountInv, A!TypeOK, VersionInv, CopyInv, A!Copy, A!Is
<1>5. CopyInv'
  BY <1>2 DEF AccountInv, A!TypeOK, CopyInv, A!Copy, A!Is
<1> QED
  BY <1>1, <1>4, <1>5 DEF AccountInv

\* A save that raises changes nothing the invariant speaks of.
LEMMA RaiseKeeps ==
    ASSUME AccountInv, NEW s \in Sessions, NEW o \in {"duplicate", "conflict"}, A!Raise(s, o)
    PROVE  AccountInv'
<1>1. A!TypeOK'
  <2>1. [copy[s] EXCEPT !.pc = "raised", !.outcome = o] \in A!Copy
    <3>1. copy[s] \in A!Copy
      BY DEF AccountInv, A!TypeOK
    <3> QED
      BY <3>1 DEF A!Copy
  <2> QED
    BY <2>1 DEF A!Raise, AccountInv, A!TypeOK
<1>2. VersionInv'
  BY DEF AccountInv, A!TypeOK, VersionInv, A!Raise, A!Copy
<1>3. CopyInv'
  BY DEF AccountInv, A!TypeOK, CopyInv, A!Raise, A!Copy, A!Is
<1> QED
  BY <1>1, <1>2, <1>3 DEF AccountInv

\* Every step of a session keeps the invariant.
LEMMA AccountStep == AccountInv /\ [A!Next]_(A!vars) => AccountInv'
<1> SUFFICES ASSUME AccountInv, [A!Next]_(A!vars) PROVE AccountInv'
  OBVIOUS
<1>1. ASSUME NEW s \in Sessions, A!Load(s) PROVE AccountInv'
  <2>1. A!TypeOK'
    <3>1. [copy[s] EXCEPT !.pc = "held", !.loaded = TRUE, !.account = row.account,
                          !.version = row.version] \in A!Copy
      BY DEF AccountInv, A!TypeOK, A!Copy
    <3> QED
      BY <1>1, <3>1 DEF AccountInv, A!TypeOK, A!Load
  <2>2. VersionInv'
    BY <1>1 DEF AccountInv, A!TypeOK, VersionInv, CopyInv, A!Load, A!Copy, A!Is
  <2>3. CopyInv'
    BY <1>1 DEF AccountInv, A!TypeOK, CopyInv, A!Load, A!Copy, A!Is
  <2> QED
    BY <2>1, <2>2, <2>3 DEF AccountInv
<1>2. ASSUME NEW s \in Sessions, A!Create(s) PROVE AccountInv'
  <2>1. A!TypeOK'
    BY <1>2 DEF AccountInv, A!TypeOK, A!Create, A!Copy
  <2>2. VersionInv' /\ CopyInv'
    BY <1>2 DEF AccountInv, A!TypeOK, VersionInv, CopyInv, A!Create, A!Copy, A!Is
  <2> QED
    BY <2>1, <2>2 DEF AccountInv
<1>3. ASSUME NEW s \in Sessions, A!Edit(s) PROVE AccountInv'
  <2>1. PICK a \in A!Edits(s, copy[s].account) :
           copy' = [copy EXCEPT ![s].account = a, ![s].version = @ + 1, ![s].edits = @ + 1]
    BY <1>3 DEF A!Edit
  <2>2. a \in A!Account
    BY EditsAreAccounts DEF AccountInv, A!TypeOK, A!Copy
  <2>3. row' = row /\ copy[s].edits < MaxEdits
    BY <1>3 DEF A!Edit
  <2>4. A!TypeOK'
    BY <2>1, <2>2, <2>3, Bounds DEF A!BoundAssumption, AccountInv, A!TypeOK, A!Copy
  <2>5. VersionInv' /\ CopyInv'
    BY <1>3, <2>1, <2>3, Bounds DEF A!BoundAssumption, AccountInv, A!TypeOK, VersionInv, CopyInv,
           A!Copy, A!Is, A!Edit
  <2> QED
    BY <2>4, <2>5 DEF AccountInv
<1>4. ASSUME NEW s \in Sessions, A!Save(s) PROVE AccountInv'
  <2>1. A!TypeOK'
    BY <1>4, Bounds DEF A!BoundAssumption, AccountInv, A!TypeOK, A!Save, A!Copy
  <2>2. VersionInv' /\ CopyInv'
    BY <1>4 DEF AccountInv, A!TypeOK, VersionInv, CopyInv, A!Save, A!Copy, A!Is
  <2> QED
    BY <2>1, <2>2 DEF AccountInv
<1>5. ASSUME NEW s \in Sessions, A!Insert(s) PROVE AccountInv'
  <2>1. ~A!Is(s, "idle") /\ copy[s].account \in A!Account
    BY <1>5 DEF A!Insert, A!Is, AccountInv, A!TypeOK, A!Copy
  <2> QED
    BY <1>5, <2>1, WriteKeeps, RaiseKeeps DEF A!Insert
<1>6. ASSUME NEW s \in Sessions, A!Update(s) PROVE AccountInv'
  <2>1. ~A!Is(s, "idle") /\ A!Updated(s) \in A!Account
    BY <1>6 DEF A!Update, A!Updated, A!Is, AccountInv, A!TypeOK, A!Copy, A!Account
  <2> QED
    BY <1>6, <2>1, WriteKeeps, RaiseKeeps DEF A!Update
<1>7. CASE UNCHANGED A!vars
  BY <1>7 DEF A!vars, AccountInv, A!TypeOK, VersionInv, CopyInv, A!Is
<1> QED
  BY <1>1, <1>2, <1>3, <1>4, <1>5, <1>6, <1>7 DEF A!Next, A!Step

\* The invariant of the accounts, for any sessions and bounds.
LEMMA AccountsHold == A!Spec => []AccountInv
  BY AccountInit, AccountStep, PTL DEF A!Spec

\* The row and the copies keep their types.
THEOREM AccountsAreTyped == A!Spec => []A!TypeOK
<1>1. AccountInv => A!TypeOK
  BY DEF AccountInv
<1> QED
  BY <1>1, AccountsHold, PTL

\* What the condition of the UPDATE decides, for a loaded account: that the row
\* was written as often since the load as the copy was edited.
LEMMA MatchesMeans ==
    ASSUME AccountInv, NEW s \in Sessions, copy[s].loaded
    PROVE  A!Matches(s) <=> copy[s].since = copy[s].edits
  BY DEF AccountInv, A!TypeOK, VersionInv, A!Matches, A!Copy

\* The session whose statement it is, and no other, leaves the save.
LEMMA OneUpdates ==
    ASSUME AccountInv, A!Next, NEW s \in Sessions, A!Is(s, "update"), copy'[s].pc # "update"
    PROVE  A!Update(s)
<1>1. PICK x \in Sessions : A!Step(x)
  BY DEF A!Next
<1>2. CASE x = s
  BY <1>1, <1>2 DEF A!Step, A!Load, A!Create, A!Edit, A!Save, A!Insert, A!Update, A!Is
<1>3. CASE x # s
  <2>1. copy[s].pc = "update" /\ copy \in [Sessions -> A!Copy]
    BY DEF A!Is, AccountInv, A!TypeOK
  <2>2. CASE \E a, o : A!Write(x, a, o)
    <3>1. PICK o : copy'[s] = A!Aged(s, x, o)
      BY <2>2 DEF A!Write
    <3>2. copy'[s].pc = copy[s].pc
      BY <1>3, <2>1, <3>1 DEF A!Aged, A!Copy
    <3> QED
      BY <2>1, <3>2
  <2>3. CASE \E o : A!Raise(x, o)
    BY <1>3, <2>1, <2>3 DEF A!Raise
  <2>4. CASE A!Load(x) \/ A!Create(x) \/ A!Edit(x) \/ A!Save(x)
    BY <1>3, <2>1, <2>4 DEF A!Load, A!Create, A!Edit, A!Save
  <2> QED
    BY <1>1, <2>2, <2>3, <2>4 DEF A!Step, A!Insert, A!Update
<1> QED
  BY <1>2, <1>3

\* The check of the version counts edits against writes, whoever made them.
THEOREM CheckCounts == A!Spec => A!CheckCountsEdits
<1>1. ASSUME AccountInv, [A!Next]_(A!vars), NEW s \in Sessions, copy[s].loaded, A!Is(s, "update"),
             ~A!Is(s, "update")'
      PROVE  A!Updates(s) <=> copy[s].since = copy[s].edits
  <2>1. copy'[s].pc # "update" /\ A!Next
    BY <1>1 DEF A!Is, A!vars
  <2>2. A!Update(s)
    BY <1>1, <2>1, OneUpdates
  <2>3. CASE A!Matches(s)
    <3>1. A!Write(s, A!Updated(s), "updated")
      BY <2>2, <2>3 DEF A!Update
    <3>2. copy'[s].outcome = "updated" /\ copy'[s].pc = "held"
      BY <1>1, <3>1 DEF A!Write, A!Aged, AccountInv, A!TypeOK, A!Copy
    <3> QED
      BY <1>1, <2>3, <3>2, MatchesMeans DEF A!Updates
  <2>4. CASE ~A!Matches(s)
    BY <1>1, <2>2, <2>4, MatchesMeans DEF A!Update, A!Raise, A!Updates, AccountInv,
         A!TypeOK, A!Copy, A!Is
  <2> QED
    BY <2>3, <2>4
<1>2. AccountInv /\ [A!Next]_(A!vars) =>
         [\A s \in Sessions :
             copy[s].loaded /\ A!Is(s, "update") /\ ~A!Is(s, "update")' =>
                 (A!Updates(s) <=> copy[s].since = copy[s].edits)]_(A!vars)
  BY <1>1
<1> QED
  BY <1>2, AccountsHold, PTL DEF A!Spec, A!CheckCountsEdits

\* An update of a copy nobody edited stores what is stored.
THEOREM UneditedIsHarmless == A!Spec => A!UneditedSaveIsHarmless
<1>1. ASSUME AccountInv, [A!Next]_(A!vars), NEW s \in Sessions, A!Updates(s), copy[s].edits = 0
      PROVE  row'.account = row.account
  <2>1. copy'[s].pc # "update" /\ A!Next /\ A!Is(s, "update")
    BY <1>1 DEF A!Is, A!vars, A!Updates
  <2>2. A!Update(s)
    BY <1>1, <2>1, OneUpdates
  <2>3. A!Matches(s) /\ row'.account = A!Updated(s)
    <3>1. ~A!Raise(s, "conflict")
      BY <1>1 DEF A!Raise, A!Updates, AccountInv, A!TypeOK, A!Copy
    <3> QED
      BY <2>2, <3>1 DEF A!Update, A!Write
  <2>4. copy[s].loaded
    BY <1>1, <2>3 DEF AccountInv, CopyInv, A!Matches, A!TypeOK, A!Copy
  <2>5. copy[s].account = row.account
    BY <1>1, <2>3, <2>4, MatchesMeans DEF AccountInv, CopyInv
  <2> QED
    <3>1. row.account \in A!Account
      BY <1>1 DEF AccountInv, A!TypeOK
    <3>2. A!Updated(s) = row.account
      BY <2>5, <3>1 DEF A!Updated, A!Account
    <3> QED
      BY <2>3, <3>2
<1>2. AccountInv /\ [A!Next]_(A!vars) =>
         [\A s \in Sessions :
             A!Updates(s) /\ copy[s].edits = 0 => row'.account = row.account]_(A!vars)
  BY <1>1
<1> QED
  BY <1>2, AccountsHold, PTL DEF A!Spec, A!UneditedSaveIsHarmless

-------------------------------------------------------------------------------
(* The jobs.                                                               *)

\* A start that has not saved yet has stored nothing.
FreshInv ==
    \A s \in Starter :
        pc[s] \in {"check", "prerequisites", "save"} =>
            job[s] = [status |-> "PENDING", version |-> 0]

\* A start that is past its save has stored its job, whatever it went through since.
StoredInv ==
    \A s \in Starter : pc[s] = "publish" \/ s \in announced => J!Stored(s)

\* The copy of an operator is an earlier state of its job, and with the version of the
\* job it is the job.
JobCopyInv ==
    \A o \in J!Operator :
        /\ jobCopy[o].version <= job[target[o]].version
        /\ jobCopy[o].version = job[target[o]].version => jobCopy[o] = job[target[o]]

\* Unless two starts overlapped, one job is active or one start is between its look and
\* its save, and not both.
AdmissionInv ==
    ~raced =>
        /\ J!AtMostOneActive
        /\ \A s, t \in Starter : J!Admitted(s) /\ J!Admitted(t) => s = t
        /\ \A s, t \in Starter : J!Admitted(s) => ~J!Active(t)

JobInv == J!TypeOK /\ FreshInv /\ StoredInv /\ JobCopyInv /\ AdmissionInv

\* No start has begun, and every copy is the job it was taken from.
LEMMA JobInit == J!Init => JobInv
<1> SUFFICES ASSUME J!Init PROVE JobInv
  OBVIOUS
<1>1. J!TypeOK
  <2>1. job \in [Starter -> J!Job]
    BY DEF J!Init, J!Job, J!Status
  <2>2. pc \in [J!Handler -> {"check", "load"}]
    BY DEF J!Init
  <2>3. jobCopy \in [J!Operator -> J!Job]
    BY <2>1 DEF J!Init
  <2>4. pc \in [J!Handler -> {"check", "prerequisites", "save", "publish", "load", "write",
                             "loading"} \union J!Ended]
    BY <2>2
  <2>5. target \in [J!Operator -> Starter] /\ announced \subseteq Starter /\ raced \in BOOLEAN
    BY DEF J!Init
  <2>6. faults \in 0..MaxFaults
    BY Bounds DEF J!FaultAssumption, J!Init
  <2> QED
    BY <2>1, <2>3, <2>4, <2>5, <2>6 DEF J!TypeOK
<1>2. FreshInv /\ StoredInv /\ JobCopyInv /\ AdmissionInv
  BY <1>1 DEF J!Init, J!TypeOK, FreshInv, StoredInv, JobCopyInv, AdmissionInv, J!AtMostOneActive,
         J!Admitted, J!Active, J!Stored, J!Handler
<1> QED
  BY <1>1, <1>2 DEF JobInv

\* Storing the job of a start that was admitted.
LEMMA FirstSaveKeeps ==
    ASSUME JobInv, NEW s \in Starter, pc[s] = "save",
           job' = [job EXCEPT ![s] = [status |-> "RUNNING", version |-> 1]],
           NEW l \in {"publish", "error", "crashed"}, J!Goto(s, l),
           UNCHANGED <<target, jobCopy, announced, raced>>, faults' \in 0..MaxFaults
    PROVE  JobInv'
<1>1. J!TypeOK'
  BY DEF JobInv, J!TypeOK, J!Goto, J!Handler, J!Ended, J!Job, J!Status
<1>2. FreshInv'
  BY DEF JobInv, J!TypeOK, J!Goto, J!Handler, FreshInv
<1>3. StoredInv'
  BY DEF JobInv, J!TypeOK, J!Goto, J!Handler, StoredInv, J!Stored
<1>4. JobCopyInv'
  BY DEF JobInv, J!TypeOK, FreshInv, JobCopyInv, J!Job
<1>5. AdmissionInv'
  BY DEF JobInv, J!TypeOK, J!Goto, J!Handler, AdmissionInv, J!AtMostOneActive, J!Admitted, J!Active
<1> QED
  BY <1>1, <1>2, <1>3, <1>4, <1>5 DEF JobInv

\* What a save that is not refused replaces is a running job.
LEMMA SaveReplacesTheCopy ==
    ASSUME JobInv, NEW o \in J!Operator, jobCopy[o].version = job[target[o]].version
    PROVE  jobCopy[o] = job[target[o]]
  BY DEF JobInv, JobCopyInv

\* Every write of an operator is of a running job, to a status other than PENDING.
LEMMA WriteKeepsJobs ==
    ASSUME JobInv, NEW o \in J!Operator, NEW label, NEW l \in {"loading", "done"},
           NEW next \in J!Status \ {"PENDING"}, label \in {"write", "loading"},
           J!Write(o, label, {"RUNNING"}, next, l)
    PROVE  JobInv'
<1>1. UNCHANGED <<target, announced, raced, faults>> /\ pc[o] = label
  BY DEF J!Write
<1>2. CASE J!Save(o, next, l) /\ job[target[o]].version = jobCopy[o].version
           /\ jobCopy[o].status = "RUNNING"
  <2>1. jobCopy[o] = job[target[o]] /\ job[target[o]].status = "RUNNING"
    BY <1>2, SaveReplacesTheCopy
  <2>2. /\ job' = [job EXCEPT ![target[o]] =
                       [status |-> next, version |-> job[target[o]].version + 1]]
        /\ jobCopy' = [jobCopy EXCEPT ![o] = job'[target[o]]]
        /\ pc' = [pc EXCEPT ![o] = l]
    BY <1>2 DEF J!Save, J!Goto
  <2>3. target[o] \in Starter /\ job[target[o]].version \in Nat
    BY DEF JobInv, J!TypeOK, J!Job
  <2>4. J!TypeOK'
    <3>1. [status |-> next, version |-> job[target[o]].version + 1] \in J!Job
      BY <2>3 DEF J!Job
    <3>2. job' \in [Starter -> J!Job] /\ jobCopy' \in [J!Operator -> J!Job]
      BY <2>2, <2>3, <3>1 DEF JobInv, J!TypeOK
    <3>3. pc' \in [J!Handler -> {"check", "prerequisites", "save", "publish", "load", "write",
                                "loading"} \union J!Ended]
      BY <2>2 DEF JobInv, J!TypeOK, J!Ended
    <3> QED
      BY <1>1, <3>2, <3>3 DEF JobInv, J!TypeOK
  <2>5. FreshInv' /\ StoredInv'
    BY <1>1, <2>1, <2>2, <2>3 DEF JobInv, J!TypeOK, FreshInv, StoredInv, J!Stored, J!Handler
  <2>6. JobCopyInv'
    BY <1>1, <2>2, <2>3 DEF JobInv, J!TypeOK, JobCopyInv, J!Job
  <2>7. AdmissionInv'
    BY <1>1, <2>1, <2>2, <2>3
       DEF JobInv, J!TypeOK, AdmissionInv, J!AtMostOneActive, J!Admitted, J!Active, J!Handler
  <2> QED
    BY <2>4, <2>5, <2>6, <2>7 DEF JobInv
<1>3. CASE J!Goto(o, "error") /\ UNCHANGED <<job, jobCopy>>
  <2>1. J!TypeOK'
    BY <1>1, <1>3 DEF JobInv, J!TypeOK, J!Goto, J!Ended
  <2> QED
    BY <1>1, <1>3, <2>1
       DEF JobInv, J!TypeOK, J!Goto, J!Handler, FreshInv, StoredInv, JobCopyInv, AdmissionInv,
           J!AtMostOneActive, J!Admitted, J!Active, J!Stored
<1> QED
  BY <1>2, <1>3 DEF J!Write, J!Save

\* Every handler and every fault keeps the invariant.
LEMMA JobStep == JobInv /\ [J!Next]_(J!vars) => JobInv'
<1> SUFFICES ASSUME JobInv, [J!Next]_(J!vars) PROVE JobInv'
  OBVIOUS
<1> USE DEF J!Handler
<1>1. ASSUME NEW s \in Starter, J!CheckActive(s) PROVE JobInv'
  <2>1. J!TypeOK'
    BY <1>1 DEF JobInv, J!TypeOK, J!CheckActive, J!Goto, J!Ended
  <2>2. FreshInv' /\ StoredInv' /\ JobCopyInv'
    BY <1>1 DEF JobInv, J!TypeOK, J!CheckActive, J!Goto, FreshInv, StoredInv, JobCopyInv, J!Stored
  <2>3. AdmissionInv'
    BY <1>1 DEF JobInv, J!TypeOK, J!CheckActive, J!Goto, AdmissionInv, J!AtMostOneActive,
                J!Admitted, J!Active, J!FindActive
  <2> QED
    BY <2>1, <2>2, <2>3 DEF JobInv
<1>2. ASSUME NEW s \in Starter, J!Prerequisites(s) PROVE JobInv'
  <2>1. J!TypeOK'
    BY <1>2 DEF JobInv, J!TypeOK, J!Prerequisites, J!Goto, J!Ended
  <2> QED
    BY <1>2, <2>1 DEF JobInv, J!TypeOK, J!Prerequisites, J!Goto, FreshInv, StoredInv, JobCopyInv,
                      AdmissionInv, J!AtMostOneActive, J!Admitted, J!Active, J!Stored
<1>3. ASSUME NEW s \in Starter, J!SaveStarted(s) PROVE JobInv'
  BY <1>3, FirstSaveKeeps DEF J!SaveStarted, JobInv, J!TypeOK
<1>4. ASSUME NEW s \in Starter, J!PublishStarted(s) PROVE JobInv'
  <2>1. J!TypeOK'
    BY <1>4 DEF JobInv, J!TypeOK, J!PublishStarted, J!Goto, J!Ended
  <2> QED
    BY <1>4, <2>1 DEF JobInv, J!TypeOK, J!PublishStarted, J!Goto, FreshInv, StoredInv, JobCopyInv,
                      AdmissionInv, J!AtMostOneActive, J!Admitted, J!Active, J!Stored
<1>5. ASSUME NEW o \in J!Operator, J!Load(o) PROVE JobInv'
  <2>1. J!TypeOK'
    BY <1>5 DEF JobInv, J!TypeOK, J!Load, J!Goto, J!Ended
  <2>2. JobCopyInv'
    BY <1>5 DEF JobInv, J!TypeOK, J!Load, J!Job, JobCopyInv
  <2> QED
    BY <1>5, <2>1, <2>2
       DEF JobInv, J!TypeOK, J!Load, J!Goto, FreshInv, StoredInv, AdmissionInv,
           J!AtMostOneActive, J!Admitted, J!Active, J!Stored
<1>6. ASSUME NEW h \in J!Handler, J!Fault(h) PROVE JobInv'
  <2>1. faults' \in 0..MaxFaults /\ UNCHANGED <<target, jobCopy, announced, raced>>
    BY <1>6, Bounds DEF J!Fault, JobInv, J!TypeOK, J!FaultAssumption
  <2>2. PICK l \in {"error", "crashed"} : J!Goto(h, l)
    BY <1>6 DEF J!Fault
  <2>3. CASE UNCHANGED job
    <3>1. J!TypeOK'
      BY <2>1, <2>2, <2>3 DEF JobInv, J!TypeOK, J!Goto, J!Ended
    <3> QED
      BY <2>1, <2>2, <2>3, <3>1
         DEF JobInv, J!TypeOK, J!Goto, FreshInv, StoredInv, JobCopyInv, AdmissionInv,
             J!AtMostOneActive, J!Admitted, J!Active, J!Stored
  <2>4. CASE pc[h] = "save" /\ job' = [job EXCEPT ![h] = [status |-> "RUNNING", version |-> 1]]
    <3>1. CASE h \in Starter
      BY <2>1, <2>2, <2>4, <3>1, FirstSaveKeeps
    <3>2. CASE h \notin Starter
      BY <2>3, <2>4, <3>2 DEF JobInv, J!TypeOK
    <3> QED
      BY <3>1, <3>2
  <2> QED
    BY <1>6, <2>3, <2>4 DEF J!Fault
<1>7. CASE UNCHANGED J!vars
  BY <1>7 DEF J!vars, JobInv, J!TypeOK, FreshInv, StoredInv, JobCopyInv, AdmissionInv,
              J!AtMostOneActive, J!Admitted, J!Active, J!Stored
<1>8. ASSUME NEW o \in J!Operator, J!PauseMigration(o) \/ J!CompleteJob(o) \/ J!RunLoadPhase(o)
      PROVE  JobInv'
  BY <1>5, <1>8, WriteKeepsJobs
     DEF J!PauseMigration, J!CompleteJob, J!RunLoadPhase, J!Status
<1> QED
  BY <1>1, <1>2, <1>3, <1>4, <1>6, <1>7, <1>8 DEF J!Next, J!StartMigration, J!Operator

\* The invariant of the jobs, for any starts, operators and bound on the faults.
LEMMA JobsHold == J!Spec => []JobInv
  BY JobInit, JobStep, PTL DEF J!Spec

\* StartMigration admits one job at a time unless two starts overlap between the look
\* for an active job and the save, and no MigrationStarted goes out before its job is
\* stored, whatever fails and whoever dies.
THEOREM StartsAreAdmitted == J!Spec => [](J!OnlyRacesBreakAdmission /\ J!AnnouncedJobsExist)
<1>1. JobInv => J!OnlyRacesBreakAdmission /\ J!AnnouncedJobsExist
  BY DEF JobInv, J!TypeOK, AdmissionInv, StoredInv, J!OnlyRacesBreakAdmission,
         J!AnnouncedJobsExist
<1> QED
  BY <1>1, JobsHold, PTL

\* A step moves every stored job along the lifecycle or leaves its status, and an
\* operator that stores one has read the state it replaces.
LEMMA StepsAreLawful ==
    ASSUME JobInv, [J!Next]_(J!vars)
    PROVE  /\ \A j \in Starter : J!Lifecycle(j)!Next \/ UNCHANGED job[j].status
           /\ \A o \in J!Operator :
                  jobCopy'[o] # jobCopy[o] /\ job' # job => jobCopy[o] = job[target[o]]
<1> DEFINE Lawful == \A j \in Starter : J!Lifecycle(j)!Next \/ UNCHANGED job[j].status
           Kept == \A o \in J!Operator :
                       jobCopy'[o] # jobCopy[o] /\ job' # job => jobCopy[o] = job[target[o]]
<1>1. CASE UNCHANGED job
  BY <1>1
<1>2. ASSUME NEW s \in Starter, pc[s] = "save",
             job' = [job EXCEPT ![s] = [status |-> "RUNNING", version |-> 1]],
             UNCHANGED jobCopy
      PROVE  Lawful /\ Kept
  BY <1>2 DEF JobInv, J!TypeOK, FreshInv, J!Lifecycle!Next, J!Lifecycle!Begin
<1>3. ASSUME NEW o \in J!Operator, NEW label, NEW l,
             NEW next \in {"RUNNING", "PAUSED", "COMPLETED", "FAILED"},
             J!Write(o, label, {"RUNNING"}, next, l)
      PROVE  Lawful /\ Kept
  <2>1. SUFFICES ASSUME jobCopy[o].version = job[target[o]].version,
                        jobCopy[o].status = "RUNNING",
                        job' = [job EXCEPT ![target[o]] =
                                   [status |-> next, version |-> job[target[o]].version + 1]],
                        jobCopy' = [jobCopy EXCEPT ![o] = job'[target[o]]]
                 PROVE  Lawful /\ Kept
    BY <1>1, <1>3 DEF J!Write, J!Save
  <2>2. jobCopy[o] = job[target[o]]
    BY <2>1, SaveReplacesTheCopy
  <2>3. Kept
    BY <2>1, <2>2 DEF JobInv, J!TypeOK
  <2>4. Lawful
    BY <2>1, <2>2 DEF JobInv, J!TypeOK, J!Lifecycle!Next, J!Lifecycle!Pause,
                      J!Lifecycle!Finish, J!Lifecycle!Abort
  <2> QED
    BY <2>3, <2>4
<1>4. CASE J!Next
  <2>1. ASSUME NEW s \in Starter, J!StartMigration(s) PROVE Lawful /\ Kept
    BY <1>1, <1>2, <2>1
       DEF J!StartMigration, J!CheckActive, J!Prerequisites, J!SaveStarted, J!PublishStarted
  <2>2. ASSUME NEW o \in J!Operator, J!PauseMigration(o) \/ J!CompleteJob(o) \/ J!RunLoadPhase(o)
        PROVE  Lawful /\ Kept
    <3>1. CASE J!Load(o)
      BY <1>1, <3>1 DEF J!Load
    <3> QED
      BY <1>3, <2>2, <3>1 DEF J!PauseMigration, J!CompleteJob, J!RunLoadPhase
  <2>3. ASSUME NEW h \in J!Handler, J!Fault(h) PROVE Lawful /\ Kept
    <3>1. CASE UNCHANGED job
      BY <1>1, <3>1
    <3>2. CASE /\ pc[h] = "save" /\ h \in Starter
               /\ job' = [job EXCEPT ![h] = [status |-> "RUNNING", version |-> 1]]
      BY <1>2, <2>3, <3>2 DEF J!Fault
    <3> QED
      BY <2>3, <3>1, <3>2 DEF J!Fault, JobInv, J!TypeOK
  <2> QED
    BY <1>1, <1>4, <2>1, <2>2, <2>3 DEF J!Next, J!Operator, J!vars
<1> QED
  BY <1>1, <1>4 DEF J!vars

\* The stored job implements the lifecycle, and no handler overwrites what it has not
\* read: the check of the version suffices for jobs, whose copies are saved as read.
THEOREM JobsImplementLifecycle == J!Spec => J!EveryJobImplementsLifecycle /\ J!NoLostUpdate
<1>1. J!Init => \A j \in Starter : J!Lifecycle(j)!Init
  BY DEF J!Init, J!Lifecycle!Init
<1>2. JobInv /\ [J!Next]_(J!vars) =>
         [\A j \in Starter : J!Lifecycle(j)!Next \/ UNCHANGED job[j].status]_(J!vars)
  BY StepsAreLawful
<1>3. JobInv /\ [J!Next]_(J!vars) =>
         [\A o \in J!Operator :
             jobCopy'[o] # jobCopy[o] /\ job' # job => jobCopy[o] = job[target[o]]]_(J!vars)
  BY StepsAreLawful
<1> QED
  BY <1>1, <1>2, <1>3, JobsHold, PTL
     DEF J!Spec, J!EveryJobImplementsLifecycle, J!NoLostUpdate

-------------------------------------------------------------------------------
(* The run: each of its behaviours is one of each component, so what is    *)
(* proved of them holds of it.                                             *)

\* A step of the run is a step of one component and a stutter of the others.
LEMMA RunIsEach == MCSpec => Spec /\ A!Spec /\ J!Spec
<1>1. MCInit => Init /\ A!Init /\ J!Init
  BY DEF MCInit
<1>2. ASSUME [MCNext]_<<part, vars, accountVars, jobVars>>
      PROVE  [Next]_vars /\ [A!Next]_(A!vars) /\ [J!Next]_(J!vars)
  <2>1. accountVars = A!vars /\ jobVars = J!vars
    BY DEF accountVars, A!vars, jobVars, J!vars
  <2>2. accountVars' = (A!vars)' /\ jobVars' = (J!vars)'
    BY DEF accountVars, A!vars, jobVars, J!vars
  <2> HIDE DEF accountVars, jobVars, vars
  <2> QED
    BY <1>2, <2>1, <2>2 DEF MCNext, AggregateStep, AccountsStep, JobsStep
<1> QED
  BY <1>1, <1>2, PTL DEF MCSpec, Spec, A!Spec, J!Spec

\* The variables of all components keep their types.
THEOREM TypesHold == MCSpec => []Types
<1>1. TypeOK /\ A!TypeOK /\ JobInv => Types
  BY DEF Types, JobInv
<1> QED
  BY <1>1, TypeCorrect, AccountsAreTyped, JobsHold, RunIsEach, PTL

\* What is proved of the aggregate: the threshold, the history, what its events tell, its
\* version and the lifecycle.
THEOREM AggregateHolds ==
    MCSpec => [](LiveJobWithinThreshold /\ LogTellsStatus /\ HistoryIsCounted)
              /\ VersionMovesWithState /\ ImplementsLifecycle
  BY RunIsEach, ThresholdHolds, LogIsFaithful, HistoryIsKept, VersionMoves,
     ImplementsTheLifecycle, PTL

\* What the check of the version compares, and that an unedited copy does no harm.
THEOREM ChecksHold == MCSpec => CheckCountsEdits /\ UneditedSaveIsHarmless
  BY RunIsEach, CheckCounts, UneditedIsHarmless, PTL DEF CheckCountsEdits, UneditedSaveIsHarmless

\* Only overlapping starts break admission, and announced jobs exist.
THEOREM AdmissionHolds == MCSpec => []Admission
<1>1. J!OnlyRacesBreakAdmission /\ J!AnnouncedJobsExist => Admission
  BY DEF Admission
<1> QED
  BY <1>1, StartsAreAdmitted, RunIsEach, PTL

\* Every stored job implements the lifecycle, without a lost update.
THEOREM MovesAreLawful == MCSpec => JobsMoveLawfully
  BY JobsImplementLifecycle, RunIsEach, PTL DEF JobsMoveLawfully
===============================================================================
