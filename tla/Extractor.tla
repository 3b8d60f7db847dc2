------------------------------- MODULE Extractor -------------------------------
(***************************************************************************)
(* A legacy extractor over its runs: BaseExtractor.extract inside its      *)
(* context manager and CheckpointManager, of                               *)
(* src/migration/legacy_extractors/base_extractor.py.  A page of rows is   *)
(* the unit of everything that is counted; the source does not change.     *)
(***************************************************************************)
EXTENDS Integers, FiniteSets

CONSTANTS
    NumPages,       \* pages the source has
    LastPartial,    \* the last one holds fewer rows than page_size
    MaxRuns,        \* bound on runs
    MaxFaults       \* bound on failing pages, fetches and saves, and crashes

ASSUME BoundAssumption ==
    NumPages \in Nat \ {0} /\ LastPartial \in BOOLEAN /\ {MaxRuns, MaxFaults} \subseteq Nat

VARIABLES
    disk,       \* the checkpoint file; without one, or with a broken one, Fresh
    pc,         \* where the run stands; "down" between runs
    page,       \* the page at hand
    rows,       \* metrics.extracted_rows
    reported,   \* the pages this run has in metrics.errors
    outcome,    \* how the last run ended
    files,      \* the Parquet files written of each page, in all runs
    failed,     \* the pages that failed in any run
    losses,     \* crashes, and saves of the checkpoint that failed
    scratch,    \* runs that began with page 0
    runs,       \* runs so far
    faults      \* faults injected so far

history == <<failed, losses, scratch, runs, faults>>
vars    == <<disk, pc, page, rows, reported, outcome, files, history>>

-------------------------------------------------------------------------------
Pages      == 0..NumPages - 1
Fresh      == [page |-> 0, rows |-> 0]
Checkpoint == [page: 0..NumPages, rows: Nat]

Init ==
    /\ disk = Fresh
    /\ pc = "down"
    /\ page = 0
    /\ rows = 0
    /\ reported = {}
    /\ outcome = "none"
    /\ files = [p \in Pages |-> 0]
    /\ failed = {}
    /\ losses = 0
    /\ scratch = 0
    /\ runs = 0
    /\ faults = 0

Fault == faults < MaxFaults /\ faults' = faults + 1

\* A run that counts from zero when it resumes.
Run_ZeroRows(resume) ==
    LET from == IF resume THEN disk ELSE Fresh
    IN  /\ pc = "down"
        /\ runs < MaxRuns
        /\ runs' = runs + 1
        /\ page' = from.page
        /\ rows' = 0
        /\ scratch' = IF from.page = 0 THEN scratch + 1 ELSE scratch
        /\ reported' = {}
        /\ pc' = "count"
        /\ UNCHANGED <<disk, outcome, files, failed, losses, faults>>

\* A new extractor loads the checkpoint; extract starts there, or at page 0
\* with a checkpoint that stays until the first page is saved.
Run(resume) ==
    LET from == IF resume THEN disk ELSE Fresh
    IN  /\ pc = "down"
        /\ runs < MaxRuns
        /\ runs' = runs + 1
        /\ page' = from.page
        /\ rows' = from.rows
        /\ scratch' = IF from.page = 0 THEN scratch + 1 ELSE scratch
        /\ reported' = {}
        /\ pc' = "count"
        /\ UNCHANGED <<disk, outcome, files, failed, losses, faults>>

\* Step 1, the count: after its retries it raises, and the checkpoint stays.
Count ==
    /\ pc = "count"
    /\ \/ pc' = "fetch" /\ UNCHANGED <<outcome, faults>>
       \/ Fault /\ pc' = "down" /\ outcome' = "raised"
    /\ UNCHANGED <<disk, page, rows, reported, files, failed, losses, scratch, runs>>

\* _fetch_page_with_retry: a page of rows, nothing behind the last one, or None
\* after the retries, which _paginate takes for the end as well; an exception
\* that is not SQLAlchemy's ends the run and leaves the checkpoint.
Fetch ==
    /\ pc = "fetch"
    /\ \/ /\ pc' = IF page \in Pages THEN "write" ELSE "exit"
          /\ UNCHANGED <<reported, failed, outcome, faults>>
       \/ /\ Fault
          /\ pc' = "exit"
          /\ reported' = reported \union {page}
          /\ failed' = failed \union (page..NumPages - 1)
          /\ UNCHANGED outcome
       \/ /\ Fault
          /\ pc' = "down"
          /\ outcome' = "raised"
          /\ UNCHANGED <<reported, failed>>
    /\ UNCHANGED <<disk, page, rows, files, losses, scratch, runs>>

\* _paginate that takes every page for the last one when the last is partial.
NextPage_Short ==
    IF page >= NumPages - 2 /\ LastPartial
    THEN pc' = "exit" /\ UNCHANGED page
    ELSE pc' = "fetch" /\ page' = page + 1

\* _paginate goes on after a full page and ends after a partial one.
NextPage ==
    IF page = NumPages - 1 /\ LastPartial
    THEN pc' = "exit" /\ UNCHANGED page
    ELSE pc' = "fetch" /\ page' = page + 1

\* Step 3: the page is written and counted; or it fails and is passed over.
Write ==
    /\ pc = "write"
    /\ \/ /\ files' = [files EXCEPT ![page] = @ + 1]
          /\ rows' = rows + 1
          /\ pc' = "save"
          /\ UNCHANGED <<page, reported, failed, faults>>
       \/ /\ Fault
          /\ reported' = reported \union {page}
          /\ failed' = failed \union {page}
          /\ NextPage
          /\ UNCHANGED <<rows, files>>
    /\ UNCHANGED <<disk, outcome, losses, scratch, runs>>

\* A save that names the page after the next one.
Save_Ahead ==
    /\ pc = "save"
    /\ disk' = [page |-> page + 2, rows |-> rows]
    /\ NextPage
    /\ UNCHANGED <<rows, reported, outcome, files, history>>

\* Step 4, checkpoint.save.  An OSError is swallowed, with the file as it was or
\* truncated.
Save ==
    /\ pc = "save"
    /\ \/ disk' = [page |-> page + 1, rows |-> rows] /\ UNCHANGED <<losses, faults>>
       \/ Fault /\ losses' = losses + 1 /\ disk' \in {disk, Fresh}
    /\ NextPage
    /\ UNCHANGED <<rows, reported, outcome, files, failed, scratch, runs>>

\* __exit__ without an exception clears the checkpoint.
Exit ==
    /\ pc = "exit"
    /\ pc' = "down"
    /\ outcome' = "returned"
    /\ disk' = Fresh
    /\ UNCHANGED <<page, rows, reported, files, history>>

\* The process dies, in the middle of a save perhaps.
Crash ==
    /\ pc # "down"
    /\ Fault
    /\ losses' = losses + 1
    /\ pc' = "down"
    /\ outcome' = "crashed"
    /\ \/ UNCHANGED disk
       \/ pc = "save" /\ disk' = Fresh
    /\ UNCHANGED <<page, rows, reported, files, failed, scratch, runs>>

Extract == Count \/ Fetch \/ Write \/ Save \/ Exit

AllRunsDone == pc = "down" /\ runs = MaxRuns

Next ==
    \/ \E resume \in BOOLEAN : Run(resume)
    \/ Extract
    \/ Crash
    \/ AllRunsDone /\ UNCHANGED vars

Spec == Init /\ [][Next]_vars

\* A run is a sequential program.
FairSpec == Spec /\ WF_vars(Extract)

-------------------------------------------------------------------------------
\* The types of the variables.
TypeOK ==
    /\ disk \in Checkpoint
    /\ pc \in {"down", "count", "fetch", "write", "save", "exit"}
    /\ page \in 0..NumPages
    /\ rows \in Nat
    /\ reported \subseteq 0..NumPages
    /\ outcome \in {"none", "returned", "raised", "crashed"}
    /\ files \in [Pages -> Nat]
    /\ failed \subseteq Pages
    /\ {losses, scratch, runs} \subseteq Nat
    /\ faults \in 0..MaxFaults

Written == {p \in Pages : files[p] > 0}

\* A checkpoint passes over no page but those that failed, so a resumed run
\* leaves nothing else out, wherever the run before it was cut off.
CheckpointCovered == \A p \in Pages : p < disk.page => p \in Written \union failed

\* A run that returned has extracted every page but those that failed.
NoPageForgotten == outcome = "returned" /\ pc = "down" => Pages \subseteq Written \union failed

\* extracted_rows counts a page once over all the runs that resume each other:
\* it is the checkpoint's page, less the pages that failed.
RowsCountPagesOnce ==
    /\ disk.rows <= disk.page
    /\ disk.rows >= disk.page - Cardinality(failed)

\* A page is written twice only by a run from scratch, or after a crash or a
\* lost checkpoint; a run that merely raised is resumed where it stopped.
RewritesExplained == \A p \in Pages : files[p] <= scratch + losses

\* Every run ends.
RunEnds == pc # "down" ~> pc = "down"

-------------------------------------------------------------------------------
\* "If True, skip pages already processed per checkpoint": a run that returned
\* without an error in its metrics has left every page in a file.
CleanRunIsComplete ==
    outcome = "returned" /\ pc = "down" /\ reported = {} => Pages \subseteq Written

\* "a failed run can be resumed from the last committed page": a run that gave
\* up with pages left to fetch leaves its checkpoint behind.
FailedRunResumable ==
    [][outcome' = "returned" /\ outcome # "returned"
          => page >= NumPages - 1 \/ disk' = disk]_vars

===============================================================================
