------------------------------- MODULE BulkLoader ------------------------------
(***************************************************************************)
(* Bulk loading of a table into Salesforce: BaseLoader.load with its retry *)
(* of whole batches, and the Bulk API 2.0 job SalesforceBulkLoader runs    *)
(* for each attempt (src/migration/loaders).  Salesforce works on a closed *)
(* job on its own, whether or not the loader still waits for it.           *)
(***************************************************************************)
EXTENDS Integers, Sequences, FiniteSets

CONSTANTS
    NumRows, BatchSize,
    Rejected,       \* the rows Salesforce refuses
    MaxRetries,     \* attempts at a batch
    MaxPct,         \* max_failures_pct
    Operations,     \* "upsert" by the external id, or "insert"
    MaxFaults       \* bound on failing requests and jobs, and on polls given up

LoaderAssumption ==
    /\ {NumRows, BatchSize, MaxRetries} \subseteq Nat \ {0}
    /\ Rejected \subseteq 1..NumRows
    /\ MaxPct \in 0..100 /\ MaxFaults \in Nat
    /\ Operations \subseteq {"insert", "upsert"}

VARIABLES
    operation,
    pc,         \* where the loader stands in a batch
    batch,      \* the number of the batch at hand
    attempt,
    jobs,       \* the jobs created, as Salesforce holds them
    copies,     \* records Salesforce holds of each row
    ok,         \* the rows counted in total_success
    bad,        \* the rows counted in total_failed
    unread,     \* rows of a result that could not be fetched
    spoiled,    \* batches an attempt of which raised after its job was closed
    faults

vars == <<operation, pc, batch, attempt, jobs, copies, ok, bad, unread, spoiled, faults>>

-------------------------------------------------------------------------------
Row == 1..NumRows
NumBatches == (NumRows + BatchSize - 1) \div BatchSize
RowsOf(b) == {r \in Row : (r - 1) \div BatchSize + 1 = b}

Last == Len(jobs)
Terminal == {"JobComplete", "Failed", "Aborted"}

Init ==
    /\ operation \in Operations
    /\ pc = "authenticate"
    /\ batch = 1 /\ attempt = 1
    /\ jobs = <<>>
    /\ copies = [r \in Row |-> 0]
    /\ ok = {} /\ bad = {} /\ unread = {} /\ spoiled = {}
    /\ faults = 0

Fault == faults < MaxFaults /\ faults' = faults + 1

\* The rate counts what was reported, not what was sent.
ShouldAbort(good, failed) ==
    Cardinality(failed) * 100 > MaxPct * Cardinality(good \union failed)

\* A batch ends: load adds it up, and goes on unless too much has failed.
EndBatch(good, failed) ==
    /\ ok' = ok \union good
    /\ bad' = bad \union failed
    /\ IF ShouldAbort(ok', bad') \/ batch = NumBatches
       THEN pc' = "returned" /\ UNCHANGED <<batch, attempt>>
       ELSE pc' = "create" /\ batch' = batch + 1 /\ attempt' = 1

\* The exception of an attempt reaches _execute_batch_with_retry.
GiveUp ==
    IF attempt < MaxRetries
    THEN /\ attempt' = attempt + 1
         /\ pc' = "create"
         /\ UNCHANGED <<batch, ok, bad>>
    ELSE EndBatch({}, RowsOf(batch))

Authenticate ==
    /\ pc = "authenticate"
    /\ \/ pc' = "create" /\ UNCHANGED faults
       \/ pc' = "raised" /\ Fault
    /\ UNCHANGED <<operation, batch, attempt, jobs, copies, ok, bad, unread, spoiled>>

\* No job to abort if its creation fails.
CreateJob ==
    /\ pc = "create"
    /\ \/ /\ jobs' = Append(jobs, [state |-> "Open", todo |-> {}, good |-> {}, bad |-> {}])
          /\ pc' = "upload"
          /\ UNCHANGED <<batch, attempt, ok, bad, faults>>
       \/ Fault /\ GiveUp /\ UNCHANGED jobs
    /\ UNCHANGED <<operation, copies, unread, spoiled>>

UploadData ==
    /\ pc = "upload"
    /\ \/ jobs' = [jobs EXCEPT ![Last].todo = RowsOf(batch)] /\ pc' = "close" /\ UNCHANGED faults
       \/ Fault /\ pc' = "abort" /\ UNCHANGED jobs
    /\ UNCHANGED <<operation, batch, attempt, copies, ok, bad, unread, spoiled>>

\* The request may fail and have closed the job.
CloseJob ==
    /\ pc = "close"
    /\ \/ /\ jobs' = [jobs EXCEPT ![Last].state = "UploadComplete"]
          /\ \/ pc' = "poll" /\ UNCHANGED <<faults, spoiled>>
             \/ Fault /\ pc' = "abort" /\ spoiled' = spoiled \union {batch}
       \/ Fault /\ pc' = "abort" /\ UNCHANGED <<jobs, spoiled>>
    /\ UNCHANGED <<operation, batch, attempt, copies, ok, bad, unread>>

\* A poll that finds the job at work is followed by another one, up to
\* MAX_POLL_ATTEMPTS; a failing request, or a job that failed, raises.
PollJob ==
    /\ pc = "poll"
    /\ \/ /\ jobs[Last].state = "JobComplete"
          /\ pc' = "fetch"
          /\ UNCHANGED <<faults, spoiled>>
       \/ /\ IF jobs[Last].state = "Failed" THEN UNCHANGED faults ELSE Fault
          /\ pc' = "abort"
          /\ spoiled' = spoiled \union {batch}
    /\ UNCHANGED <<operation, batch, attempt, jobs, copies, ok, bad, unread>>

\* Results taken for granted: what is not refused counts as a success.
FetchResults_Guess ==
    /\ pc = "fetch"
    /\ LET job == jobs[Last]
       IN  \E readFailed \in BOOLEAN :
              /\ IF readFailed THEN UNCHANGED faults ELSE Fault
              /\ LET failed == IF readFailed THEN job.bad ELSE {}
                 IN  EndBatch(RowsOf(batch) \ failed, failed)
              /\ UNCHANGED unread
    /\ UNCHANGED <<operation, jobs, copies, spoiled>>

\* Each of the two result files is read, or counted as empty with a warning.
FetchResults ==
    /\ pc = "fetch"
    /\ LET job == jobs[Last]
       IN  \E readGood, readFailed \in BOOLEAN :
              /\ IF readGood /\ readFailed THEN UNCHANGED faults ELSE Fault
              /\ EndBatch(IF readGood THEN job.good ELSE {}, IF readFailed THEN job.bad ELSE {})
              /\ unread' = unread \union (IF readGood THEN {} ELSE job.good)
                                  \union (IF readFailed THEN {} ELSE job.bad)
    /\ UNCHANGED <<operation, jobs, copies, spoiled>>

\* An abort that is refused or fails is ignored.  The exception goes on.
AbortJob ==
    /\ pc = "abort"
    /\ \/ /\ jobs' = IF jobs[Last].state \in Terminal THEN jobs
                     ELSE [jobs EXCEPT ![Last].state = "Aborted"]
          /\ UNCHANGED faults
       \/ Fault /\ UNCHANGED jobs
    /\ GiveUp
    /\ UNCHANGED <<operation, copies, unread, spoiled>>

Load == Authenticate \/ CreateJob \/ UploadData \/ CloseJob \/ PollJob \/ FetchResults \/ AbortJob

\* Salesforce takes the rows of a closed job in any order.
Process(j, r) ==
    /\ jobs[j].state = "UploadComplete"
    /\ r \in jobs[j].todo
    /\ jobs' = [jobs EXCEPT
          ![j].todo = @ \ {r},
          ![j].good = IF r \in Rejected THEN @ ELSE @ \union {r},
          ![j].bad  = IF r \in Rejected THEN @ \union {r} ELSE @,
          ![j].state = IF jobs[j].todo = {r} THEN "JobComplete" ELSE @]
    /\ copies' = [copies EXCEPT ![r] = IF r \in Rejected THEN @
                                      ELSE IF operation = "upsert" THEN 1 ELSE @ + 1]
    /\ UNCHANGED <<operation, pc, batch, attempt, ok, bad, unread, spoiled, faults>>

FailJob(j) ==
    /\ jobs[j].state = "UploadComplete"
    /\ Fault
    /\ jobs' = [jobs EXCEPT ![j].state = "Failed"]
    /\ UNCHANGED <<operation, pc, batch, attempt, copies, ok, bad, unread, spoiled>>

Salesforce == \E j \in 1..Last : \E r \in jobs[j].todo : Process(j, r)

Idle == /\ pc \in {"returned", "raised"}
        /\ \A j \in 1..Last : jobs[j].state # "UploadComplete"

\* The steps that are taken as long as there is one to take.
Work == Load \/ Salesforce

Next ==
    \/ Work
    \/ \E j \in 1..Last : FailJob(j)
    \/ Idle /\ UNCHANGED vars

Spec == Init /\ [][Next]_vars

\* Requests return, and Salesforce gets on with its jobs.
FairSpec == Spec /\ WF_vars(Work)

-------------------------------------------------------------------------------
\* The types of the variables.
TypeOK ==
    /\ operation \in Operations
    /\ pc \in {"authenticate", "create", "upload", "close", "poll", "fetch", "abort",
               "returned", "raised"}
    /\ batch \in 1..NumBatches /\ attempt \in 1..MaxRetries
    /\ \A j \in 1..Last : /\ jobs[j].state \in Terminal \union {"Open", "UploadComplete"}
                          /\ jobs[j].todo \union jobs[j].good \union jobs[j].bad \subseteq Row
    /\ copies \in [Row -> Nat]
    /\ ok \union bad \union unread \subseteq Row
    /\ spoiled \subseteq 1..NumBatches
    /\ faults \in 0..MaxFaults

\* A row is counted as a success only if Salesforce holds it, never as both, and
\* a batch that is over is counted in full unless its results could not be read.
CountsAreSound ==
    /\ \A r \in ok : copies[r] > 0
    /\ ok \intersect bad = {}
    /\ \A b \in 1..NumBatches :
          b < batch \/ (pc = "returned" /\ b = batch)
             => RowsOf(b) \subseteq ok \union bad \union unread

\* A row is inserted twice, or counted as failed and held by Salesforce, only
\* after an attempt that raised with the job closed.
DuplicatesNeedSpoiledAttempt ==
    \A b \in 1..NumBatches \ spoiled : \A r \in RowsOf(b) :
        /\ copies[r] <= 1
        /\ r \in bad => copies[r] = 0

\* load stops before the last batch only if too many rows had failed, and goes on
\* only if not too many had.
StopsWhenTooManyFail ==
    /\ pc = "returned" /\ batch < NumBatches => ShouldAbort(ok, bad)
    /\ pc \in {"create", "upload", "close", "poll", "fetch"} => ~ShouldAbort(ok, bad)

\* The load ends.
LoadEnds == <>(pc \in {"returned", "raised"})

-------------------------------------------------------------------------------
\* "Re-running any batch produces identical results": with the operation
\* "insert", which the configuration offers, a batch that is run again stores
\* its rows again.
RerunIsIdempotent == \A r \in Row : copies[r] <= 1

\* "permanently failed": no row of a batch that was given up is in Salesforce.
FailedRowsAreOut == pc = "returned" => \A r \in bad : copies[r] = 0
===============================================================================
