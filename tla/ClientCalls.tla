------------------------------ MODULE ClientCalls ------------------------------
(***************************************************************************)
(* What the REST clients build from single requests: reads of a list page  *)
(* by page (paginate of base_client.py, paginate_records of                *)
(* legacy_system_client.py with its styles, query of salesforce_client.py) *)
(* while others change the list, and the jobs of the Bulk API 2.0 that     *)
(* SalesforceClient runs (bulk_insert and its like, bulk_query).  The      *)
(* retries within a request are those of RestClient: here a request is     *)
(* answered, fails for good, or its answer is lost and it is sent again.   *)
(* Records are numbers, and a list is in their order.                      *)
(***************************************************************************)
EXTENDS Integers, FiniteSets, FiniteSetsExt

CONSTANTS
    Tasks,          \* the methods that are called
    Keys,           \* records the list may hold
    Starts,         \* lists there may be at the start
    Size,           \* records asked for in a page
    Caps,           \* records the server gives in a page at most
    MaxPolls,       \* bulk_poll_max_seconds over bulk_poll_interval_seconds
    MaxAttempts,    \* retry.max_attempts
    MaxChanges, MaxFaults   \* bounds

Paged == {"paginate", "none", "page_number", "offset", "cursor", "link_header", "query"}
BulkTasks == {"ingest", "bulk_query"}

CallsAssumption ==
    /\ Tasks \subseteq Paged \union BulkTasks
    /\ Keys \subseteq Nat \ {0} /\ IsFiniteSet(Keys) /\ Starts \subseteq SUBSET Keys
    /\ {Size, MaxPolls, MaxAttempts} \union Caps \subseteq Nat \ {0}
    /\ {MaxChanges, MaxFaults} \subseteq Nat

VARIABLES
    task, call,     \* the method, and where it stands
    held,           \* the list at the server; for "ingest", the records that are sent
    cap, counts,    \* the server's largest page; it tells the total
    stayed,         \* records that were there all the time (history)
    shifted, grew,  \* a change before the place of the read; an insertion (history)
    got, twice,     \* records the caller has been given, and given again
    place,          \* page, offset, or last record seen
    fetched, total, \* of paginate; the total is -1 if it is unknown
    bulkJob,        \* state of the job, what it was given, and what it loaded or selected
    polls, tries,   \* of the status; attempts at the request at hand
    report,         \* BulkJobResult
    changes, faults

server == <<held, cap, counts, stayed, shifted, grew, changes>>
read == <<got, twice, place, fetched, total>>
bulk == <<bulkJob, polls, report>>
vars == <<task, call, server, read, bulk, tries, faults>>

-------------------------------------------------------------------------------
NoJob == [state |-> "none", given |-> {}, done |-> {}]
NoReport == [failed |-> 0, successful |-> {}, refused |-> FALSE]

Init ==
    /\ task \in Tasks /\ held \in Starts
    /\ cap \in Caps /\ counts \in BOOLEAN
    /\ call = IF task \in Paged THEN "page" ELSE "create"
    /\ stayed = held /\ shifted = FALSE /\ grew = FALSE
    /\ got = {} /\ twice = {} /\ place = 0 /\ fetched = 0 /\ total = -1
    /\ bulkJob = NoJob /\ polls = 0 /\ tries = 1 /\ report = NoReport
    /\ changes = 0 /\ faults = 0

Fault == faults < MaxFaults /\ faults' = faults + 1

\* A request fails, and the exception goes to the caller.
Raise ==
    /\ call \notin {"returned", "raised"}
    /\ Fault
    /\ call' = "raised"
    /\ UNCHANGED <<task, server, read, bulk, tries>>

-------------------------------------------------------------------------------
\* What a server answers: records from a rank on, and records after one.
Rank(list, k) == Cardinality({j \in list : j <= k})
Per == Min({Size, cap})
FromRank(list, r, n) == {k \in list : Rank(list, k) \in r + 1 .. r + n}
After(list, k, n) == FromRank(list, Rank(list, k), n)

Records ==
    CASE task = "none" -> held
      [] task \in {"paginate", "page_number"} -> FromRank(held, place * Per, Per)
      [] task = "offset" -> FromRank(held, place, Per)
      [] task \in {"cursor", "link_header", "query"} -> After(held, place, Per)

\* A path that begins like that of base_url is appended to it all the same: httpx.
Resolves == task = "query" => place = 0

\* Mutant: the offset moves on by the size that was asked for.
Follow_Size(records) ==
    CASE task \in {"paginate", "page_number"} -> place + 1
      [] task = "offset" -> place + Size
      [] OTHER -> Max(records)

\* Where the next page begins.
Follow(records) ==
    CASE task \in {"paginate", "page_number"} -> place + 1
      [] task = "offset" -> place + Cardinality(records)
      [] OTHER -> Max(records)

\* What the client takes for the last page, when it was not empty.  paginate keeps the
\* total of its first page, the others look at that of each; whether there is a cursor,
\* a link or a URL for more is for the server to say.
IsLast(records) ==
    LET known == IF task = "paginate" THEN total' ELSE IF counts THEN Cardinality(held) ELSE -1
    IN  CASE task = "none" -> TRUE
          [] task = "paginate" -> known >= 0 /\ fetched + Cardinality(records) >= known
          [] task = "page_number" -> known >= 0 /\ Follow(records) * Size >= known
          [] task = "offset" -> known >= 0 /\ Follow(records) >= known
          [] OTHER -> \A k \in held : k <= Max(records)

\* One turn of the loops of paginate, paginate_records and query.
ReadPage ==
    /\ call = "page" /\ task \in Paged
    /\ total' = IF task = "paginate" /\ place = 0 THEN IF counts THEN Cardinality(held) ELSE -1
                ELSE total
    /\ IF ~Resolves
       THEN call' = "raised" /\ UNCHANGED <<got, twice, place, fetched>>
       ELSE IF Records = {}
       THEN call' = "returned" /\ UNCHANGED <<got, twice, place, fetched>>
       ELSE /\ got' = got \union Records /\ twice' = twice \union (got \intersect Records)
            /\ place' = Follow(Records) /\ fetched' = fetched + Cardinality(Records)
            /\ call' = IF IsLast(Records) THEN "returned" ELSE "page"
    /\ UNCHANGED <<task, server, bulk, tries, faults>>

\* Others write to the list.  A change before a record that was read moves the rest.
Change(k) ==
    /\ changes < MaxChanges /\ changes' = changes + 1
    /\ task # "ingest" /\ call \notin {"returned", "raised"}
    /\ held' = IF k \in held THEN held \ {k} ELSE held \union {k}
    /\ stayed' = stayed \ {k}
    /\ shifted' = (shifted \/ \E j \in got : k <= j)
    /\ grew' = (grew \/ k \notin held)
    /\ UNCHANGED <<task, call, cap, counts, read, bulk, tries, faults>>

-------------------------------------------------------------------------------
\* The answer of a request that was carried out is lost; it is sent again, or not.
Lost == IF tries < MaxAttempts THEN tries' = tries + 1 /\ UNCHANGED call
        ELSE call' = "raised" /\ UNCHANGED tries

Proceed(to) == call' = to /\ tries' = 1

\* _create_bulk_job, and the request bulk_query begins with.  A job whose id was lost is
\* never heard of again.
CreateBulkJob ==
    /\ call = "create"
    /\ \/ /\ Proceed(IF task = "ingest" THEN "upload" ELSE "poll")
          /\ bulkJob' = [NoJob EXCEPT !.state = IF task = "ingest" THEN "Open" ELSE "InProgress"]
          /\ UNCHANGED faults
       \/ Fault /\ Lost /\ UNCHANGED bulkJob
    /\ UNCHANGED <<task, server, read, polls, report>>

\* _upload_bulk_data goes round the retries of request.
UploadBulkData ==
    /\ call = "upload"
    /\ \/ /\ bulkJob' = [bulkJob EXCEPT !.given = held]
          /\ Proceed("close") /\ UNCHANGED faults
       \/ Fault /\ Proceed("raised") /\ UNCHANGED bulkJob
    /\ UNCHANGED <<task, server, read, polls, report>>

\* A job that is closed again is refused, or not.
CloseBulkJob ==
    /\ call = "close"
    /\ bulkJob' = [bulkJob EXCEPT !.state = IF @ = "Open" THEN "InProgress" ELSE @]
    /\ \/ Proceed("poll") /\ UNCHANGED faults
       \/ Fault /\ Lost
       \/ bulkJob.state # "Open" /\ Proceed("raised") /\ UNCHANGED faults
    /\ UNCHANGED <<task, server, read, polls, report>>

\* Salesforce works on the job, whether or not anybody waits for it.
Process ==
    /\ bulkJob.state = "InProgress"
    /\ \E state \in {"JobComplete", "Failed", "Aborted"}, done \in SUBSET held :
           /\ IF task = "ingest" THEN done \subseteq bulkJob.given
              ELSE done = IF state = "JobComplete" THEN held ELSE {}
           /\ bulkJob' = [bulkJob EXCEPT !.state = state, !.done = done]
    /\ UNCHANGED <<task, call, server, read, polls, report, tries, faults>>

Failures == Cardinality(bulkJob.given \ bulkJob.done)

\* _poll_bulk_job, and the loop of bulk_query, whose job must be complete.
PollBulkJob ==
    /\ call = "poll" /\ polls < MaxPolls
    /\ IF bulkJob.state = "InProgress"
       THEN polls' = polls + 1 /\ UNCHANGED <<call, report, tries>>
       ELSE /\ Proceed(IF task = "ingest" THEN "successfulResults"
                       ELSE IF bulkJob.state = "JobComplete" THEN "results" ELSE "raised")
            /\ report' = [report EXCEPT !.failed = IF task = "ingest" THEN Failures ELSE 0]
            /\ UNCHANGED polls
    /\ UNCHANGED <<task, server, read, bulkJob, faults>>

\* TimeoutError.
GiveUp ==
    /\ call = "poll" /\ polls = MaxPolls
    /\ Proceed("raised")
    /\ UNCHANGED <<task, server, read, bulk, faults>>

\* _collect_bulk_results: any status but 200 leaves the list empty.
CollectBulkResults ==
    /\ call \in {"successfulResults", "failedResults"}
    /\ Proceed(IF call = "successfulResults" THEN "failedResults" ELSE "returned")
    /\ \/ /\ report' = IF call = "successfulResults"
                       THEN [report EXCEPT !.successful = bulkJob.done] ELSE report
          /\ UNCHANGED faults
       \/ Fault /\ report' = [report EXCEPT !.refused = TRUE]
    /\ UNCHANGED <<task, server, read, bulkJob, polls>>

\* The pages of the result, by their locators.
ReadResults ==
    /\ call = "results"
    /\ LET page == After(bulkJob.done, place, Per)
       IN  /\ got' = got \union page /\ twice' = twice \union (got \intersect page)
           /\ place' = IF page = {} THEN place ELSE Max(page)
           /\ Proceed(IF \E k \in bulkJob.done : k > place' THEN "results" ELSE "returned")
    /\ UNCHANGED <<task, server, fetched, total, bulk, faults>>

-------------------------------------------------------------------------------
Bulk == CreateBulkJob \/ UploadBulkData \/ CloseBulkJob \/ PollBulkJob \/ GiveUp
            \/ CollectBulkResults \/ ReadResults
Work == ReadPage \/ Bulk

Idle == call \in {"returned", "raised"} /\ bulkJob.state # "InProgress" /\ UNCHANGED vars

Next == Work \/ Process \/ Raise \/ Idle \/ \E k \in Keys : Change(k)

Spec == Init /\ [][Next]_vars

\* The caller asks for the next page, the clients' requests end, and time goes on.
FairSpec == Spec /\ WF_vars(Work)

-------------------------------------------------------------------------------
\* The types of the variables.
TypeOK ==
    /\ call \in {"page", "create", "upload", "close", "poll", "successfulResults",
                 "failedResults", "results", "returned", "raised"}
    /\ stayed \subseteq held /\ twice \subseteq got /\ got \subseteq Keys
    /\ place \in Nat /\ fetched \in Nat /\ total \in -1 .. Cardinality(Keys)
    /\ polls \in 0..MaxPolls /\ tries \in 1..MaxAttempts

\* A change that the counting of pages or records cannot survive; a cursor does.
Disturbed ==
    CASE task = "paginate" -> shifted \/ (counts /\ grew)
      [] task = "page_number" -> shifted \/ (counts /\ cap < Size)
      [] task = "offset" -> shifted
      [] OTHER -> FALSE

\* A read that ends has given the caller each record that was there all the time, and
\* no record twice, unless the list changed before the place it had come to, grew
\* beyond the total paginate had been told, or came in pages smaller than those
\* paginate_records counts in; and bulk_query gives what its job selected, or nothing.
ReadsAreWhole ==
    /\ task \in Paged /\ call = "returned" /\ ~Disturbed => stayed \subseteq got /\ twice = {}
    /\ task = "bulk_query" /\ call = "returned" => got = bulkJob.done /\ twice = {}
    /\ task = "bulk_query" /\ call = "returned" => stayed \subseteq got

\* The result of a bulk job counts as failed each row that is not in Salesforce, and
\* lists each row that is, unless Salesforce refused to hand out a list.
ResultsAreTrue ==
    task = "ingest" /\ call = "returned" =>
        /\ report.failed = Cardinality(held \ bulkJob.done)
        /\ report.successful = bulkJob.done \/ report.refused

\* Every read ends, and so does every wait for a job.
CallsEnd == <>(call \in {"returned", "raised"})

-------------------------------------------------------------------------------
(* What does not hold. *)

\* "Handles all PaginationStyle variants transparently": of a server that gives smaller
\* pages than it was asked for, page numbers leave out the end of the list.
EveryStyleIsWhole == call = "returned" /\ ~shifted /\ ~grew => stayed \subseteq got

\* "Execute a SOQL query and return ALL records (handles queryMore)": the second page is
\* asked for under a path that does not exist.
QueryReadsAll == task = "query" /\ call = "raised" => faults > 0

\* A call that raised has loaded nothing: the job it has given up goes on.
RaisedLoadsNothing == task = "ingest" /\ call = "raised" => bulkJob.done = {}
===============================================================================
