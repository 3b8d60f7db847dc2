--------------------------- MODULE TransferProofs ---------------------------
(***************************************************************************)
(* Proofs about what moves records, for any number of pages, accounts,     *)
(* rows, batches, handlers and faults: the extractor, the load phase, the  *)
(* bulk loader and the pipeline.                                           *)
(*                                                                         *)
(* What the run checks is not inductive.  That a checkpoint covers its     *)
(* pages rests on what the page at hand stands for; that each success has  *)
(* a row of its own rests on the one worker whose copy is the stored job   *)
(* and on the rows it is about to store; that no account is counted twice  *)
(* by a worker rests on the rows before the offset; that a row is stored   *)
(* once rests on the one closed job that holds it.  ExtractInv, LoadInv,   *)
(* BulkInv and PipelineInv say so, and TransferInv is all four: only one   *)
(* of the components runs, the others keep theirs.                         *)
(***************************************************************************)
EXTENDS MCTransfer, Sequences, FiniteSetTheorems, WellFoundedInduction, TLAPS

-------------------------------------------------------------------------------
(* The extractor.                                                          *)

\* The page is in a file, or failed.
Covered(p) == files[p] > 0 \/ p \in failed

\* The failed pages before a page.
FailedBefore(p) == {q \in failed : q < p}

\* What the page at hand, and the checkpoint, stand for.
Coverage ==
    /\ \A p \in Pages : p < disk.page => Covered(p)
    /\ pc # "down" => \A p \in Pages : p < page => Covered(p)
    /\ pc \in {"write", "save"} => page \in Pages
    /\ pc = "save" => files[page] > 0
    /\ pc = "exit" => \A p \in Pages : Covered(p)
    /\ pc = "down" /\ outcome = "returned" => \A p \in Pages : Covered(p)

\* Rows are counted by pages: all before the page at hand but those that failed.
RowsAt(n, p) == n <= p /\ n >= p - Cardinality(FailedBefore(p))

RowCounts ==
    /\ RowsAt(disk.rows, disk.page)
    /\ pc \in {"count", "fetch", "write"} => RowsAt(rows, page)
    /\ pc = "save" => RowsAt(rows, page + 1)

\* A page that a run may still write has been written less often than scratch starts and
\* losses allow, so that writing it again has its cause.
Room(p) == files[p] + 1 <= scratch + losses

Rewrites ==
    /\ \A p \in Pages : files[p] <= scratch + losses
    /\ pc \in {"count", "fetch", "write"} => \A p \in Pages : p >= page => Room(p)
    /\ pc = "save" => \A p \in Pages : p > page => Room(p)
    /\ disk.page > 0 =>
          \A p \in Pages : p >= disk.page /\ ~(pc = "save" /\ p = page) => Room(p)

ExtractInv == TypeOK /\ Coverage /\ RowCounts /\ Rewrites

\* The numbers among the variables.
LEMMA ExtractNumbers ==
    ASSUME ExtractInv
    PROVE  /\ NumPages \in Nat \ {0} /\ MaxRuns \in Nat /\ MaxFaults \in Nat
           /\ page \in 0..NumPages /\ rows \in Nat
           /\ disk \in Checkpoint /\ disk.page \in 0..NumPages /\ disk.rows \in Nat
           /\ losses \in Nat /\ scratch \in Nat /\ runs \in Nat
           /\ files \in [Pages -> Nat]
           /\ \A p : p \in Pages <=> p \in Nat /\ p < NumPages
           /\ \A p \in Pages : files[p] \in Nat /\ p \in Nat
  BY BoundAssumption DEF ExtractInv, TypeOK, Checkpoint, Pages

\* Failed pages are finitely many, and grow.
LEMMA FailedGrows ==
    ASSUME failed \subseteq Pages, failed' \subseteq Pages, failed \subseteq failed',
           NEW p \in Nat
    PROVE  /\ Cardinality(FailedBefore(p)) \in Nat
           /\ Cardinality(FailedBefore(p)') \in Nat
           /\ Cardinality(FailedBefore(p)) <= Cardinality(FailedBefore(p)')
           /\ Cardinality(FailedBefore(p)) <= Cardinality(failed)
<1>1. IsFiniteSet(Pages)
  BY BoundAssumption, FS_Interval DEF Pages
<1>2. IsFiniteSet(failed) /\ IsFiniteSet(failed')
  BY <1>1, FS_Subset
<1>3. /\ FailedBefore(p) \subseteq failed /\ FailedBefore(p)' \subseteq failed'
      /\ FailedBefore(p) \subseteq FailedBefore(p)'
  BY DEF FailedBefore
<1>4. IsFiniteSet(FailedBefore(p)) /\ IsFiniteSet(FailedBefore(p)')
  BY <1>2, <1>3, FS_Subset
<1> QED
  BY <1>2, <1>3, <1>4, FS_Subset, FS_CardinalityType

\* A page that fails is one more before the next page.
LEMMA OneMoreFailed ==
    ASSUME failed \subseteq Pages, NEW p \in Nat, failed' = failed \union {p}
    PROVE  Cardinality(FailedBefore(p + 1)') = Cardinality(FailedBefore(p)) + 1
<1>1. IsFiniteSet(Pages)
  BY BoundAssumption, FS_Interval DEF Pages
<1>2. IsFiniteSet(FailedBefore(p))
  BY <1>1, FS_Subset DEF FailedBefore
<1>3. FailedBefore(p + 1)' = FailedBefore(p) \union {p} /\ p \notin FailedBefore(p)
  <2>1. \A q \in failed : q \in Int
    BY BoundAssumption DEF Pages
  <2> QED
    BY <2>1 DEF FailedBefore
<1> QED
  BY <1>2, <1>3, FS_AddElement


\* No page has been read or written.
LEMMA ExtractStart == Init => ExtractInv
<1> SUFFICES ASSUME Init PROVE ExtractInv
  OBVIOUS
<1>0. NumPages \in Nat \ {0} /\ MaxFaults \in Nat
  BY BoundAssumption
<1>1. FailedBefore(0) = {} /\ Cardinality({}) = 0
  BY FS_EmptySet DEF Init, FailedBefore
<1>2. TypeOK
  BY <1>0 DEF Init, TypeOK, Fresh, Checkpoint
<1>3. Coverage
  BY <1>0 DEF Init, Coverage, Fresh, Pages
<1>4. RowCounts
  BY <1>1 DEF Init, RowCounts, RowsAt, Fresh
<1>5. Rewrites
  BY <1>0 DEF Init, Rewrites, Fresh, Pages
<1> QED
  BY <1>2, <1>3, <1>4, <1>5 DEF ExtractInv

\* Each step of a run keeps the types.
LEMMA ExtractTypes ==
    ASSUME ExtractInv, Next
    PROVE  TypeOK'
<1>0. /\ NumPages \in Nat \ {0} /\ MaxRuns \in Nat /\ MaxFaults \in Nat
      /\ page \in 0..NumPages /\ rows \in Nat
      /\ disk \in Checkpoint /\ disk.page \in 0..NumPages /\ disk.rows \in Nat
      /\ losses \in Nat /\ scratch \in Nat /\ runs \in Nat /\ faults \in 0..MaxFaults
      /\ files \in [Pages -> Nat]
      /\ pc \in {"write", "save"} => page \in Pages
      /\ reported \subseteq 0..NumPages /\ failed \subseteq Pages
  BY ExtractNumbers DEF ExtractInv, Coverage, TypeOK
<1>1. Fresh \in Checkpoint /\ Fresh.page = 0 /\ Fresh.rows = 0
  BY <1>0 DEF Fresh, Checkpoint
<1>2. \A p \in Pages : p \in 0..NumPages /\ p + 1 \in 0..NumPages
  BY <1>0 DEF Pages
<1>3. TypeOK
  BY DEF ExtractInv
<1>4. CASE \E resume \in BOOLEAN : Run(resume)
  BY <1>0, <1>1, <1>3, <1>4 DEF Run, TypeOK
<1>5. CASE Count
  BY <1>0, <1>3, <1>5 DEF Count, Fault, TypeOK
<1>6. CASE Fetch
  <2>1. page..NumPages - 1 \subseteq Pages
    BY <1>0 DEF Pages
  <2>2. /\ failed' = failed \/ failed' = failed \union (page..NumPages - 1)
        /\ reported' = reported \/ reported' = reported \union {page}
        /\ faults' \in 0..MaxFaults
        /\ pc' \in {"write", "exit", "down"} /\ outcome' \in {outcome, "raised"}
    BY <1>0, <1>6 DEF Fetch, Fault
  <2>3. failed' \subseteq Pages /\ reported' \subseteq 0..NumPages
    BY <1>0, <2>1, <2>2
  <2> QED
    BY <1>3, <1>6, <2>2, <2>3 DEF Fetch, TypeOK
<1>7. CASE Write
  <2>1. pc' \in {"save", "exit", "fetch"} /\ page' \in 0..NumPages
    BY <1>0, <1>2, <1>7 DEF Write, NextPage
  <2>2. files' \in [Pages -> Nat] /\ rows' \in Nat
    BY <1>0, <1>7 DEF Write
  <2>3. /\ failed' = failed \/ failed' = failed \union {page}
        /\ reported' = reported \/ reported' = reported \union {page}
        /\ faults' \in 0..MaxFaults
    BY <1>0, <1>7 DEF Write, Fault
  <2>4. failed' \subseteq Pages /\ reported' \subseteq 0..NumPages
    BY <1>0, <1>7, <2>3 DEF Write
  <2> QED
    BY <1>3, <1>7, <2>1, <2>2, <2>3, <2>4 DEF Write, TypeOK
<1>8. CASE Save
  <2>1. pc' \in {"exit", "fetch"} /\ page' \in 0..NumPages
    BY <1>0, <1>2, <1>8 DEF Save, NextPage
  <2>2. disk' \in Checkpoint
    BY <1>0, <1>1, <1>2, <1>8 DEF Save, Checkpoint
  <2> QED
    BY <1>0, <1>3, <1>8, <2>1, <2>2 DEF Save, Fault, TypeOK
<1>9. CASE Exit
  BY <1>1, <1>3, <1>9 DEF Exit, TypeOK, history
<1>10. CASE Crash
  BY <1>0, <1>1, <1>3, <1>10 DEF Crash, Fault, TypeOK
<1>11. CASE UNCHANGED vars
  BY <1>3, <1>11 DEF vars, history, TypeOK
<1> QED
  BY <1>4, <1>5, <1>6, <1>7, <1>8, <1>9, <1>10, <1>11 DEF Next, Extract

\* A page is passed over only when it is in a file or failed.
LEMMA ExtractCoverage ==
    ASSUME ExtractInv, Next
    PROVE  Coverage'
<1>0. /\ NumPages \in Nat \ {0} /\ page \in Nat /\ disk.page \in Nat
      /\ files \in [Pages -> Nat]
      /\ \A p : p \in Pages <=> p \in Nat /\ p < NumPages
  BY ExtractNumbers
<1>1. Fresh.page = 0
  BY DEF Fresh
<1>2. Coverage
  BY DEF ExtractInv
<1>3. ASSUME UNCHANGED files, failed \subseteq failed'
      PROVE  \A p \in Pages : Covered(p) => Covered(p)'
  BY <1>3 DEF Covered
<1>4. CASE \E resume \in BOOLEAN : Run(resume)
  BY <1>0, <1>1, <1>2, <1>4 DEF Run, Coverage, Covered
<1>5. CASE Count
  BY <1>2, <1>5 DEF Count, Coverage, Covered
<1>6. CASE Fetch
  <2>1. UNCHANGED <<files, page, disk>> /\ failed \subseteq failed' /\ pc = "fetch"
    BY <1>6 DEF Fetch
  <2>2. \A p \in Pages : Covered(p) => Covered(p)'
    BY <1>3, <2>1
  <2>3. pc' = "exit" => \A p \in Pages : Covered(p)'
    <3>1. CASE page \notin Pages
      BY <1>0, <1>2, <2>1, <2>2, <3>1 DEF Coverage
    <3>2. ASSUME page \in Pages, pc' = "exit", NEW p \in Pages, p >= page PROVE Covered(p)'
      BY <1>0, <1>6, <3>2 DEF Fetch, Covered
    <3> QED
      BY <1>0, <1>2, <2>1, <2>2, <3>1, <3>2 DEF Coverage
  <2>4. /\ pc' \in {"write", "exit", "down"} /\ (pc' = "write" => page \in Pages)
        /\ pc' = "down" => outcome' = "raised"
    BY <1>6 DEF Fetch
  <2> QED
    BY <1>2, <2>1, <2>2, <2>3, <2>4 DEF Coverage
<1>7. CASE Write
  <2>0. page \in Pages /\ pc = "write" /\ UNCHANGED <<disk, outcome>>
    BY <1>2, <1>7 DEF Write, Coverage
  <2>1. \A p \in Pages : Covered(p) => Covered(p)'
    BY <1>0, <1>7, <2>0 DEF Write, Covered
  <2>3. CASE pc' = "save"
    <3>1. page' = page /\ files'[page] > 0
      BY <1>0, <1>7, <2>0, <2>3 DEF Write, NextPage
    <3> QED
      BY <1>2, <2>0, <2>1, <2>3, <3>1 DEF Coverage
  <2>4. CASE pc' # "save"
    <3>1. page \in failed' /\ NextPage
      BY <1>7, <2>4 DEF Write
    <3>2. \A p \in Pages : p <= page => Covered(p)'
      BY <1>0, <1>2, <2>0, <2>1, <3>1 DEF Coverage, Covered
    <3>3. \/ pc' = "exit" /\ page = NumPages - 1 /\ page' = page
          \/ pc' = "fetch" /\ page' = page + 1
      BY <3>1 DEF NextPage
    <3>4. \A p \in Pages : p < disk'.page => Covered(p)'
      BY <1>2, <2>0, <2>1 DEF Coverage
    <3>5. \A p \in Pages : p < page' => Covered(p)'
      BY <1>0, <2>0, <3>2, <3>3
    <3>6. pc' = "exit" => \A p \in Pages : Covered(p)'
      BY <1>0, <2>0, <3>2, <3>3
    <3> QED
      BY <3>3, <3>4, <3>5, <3>6 DEF Coverage
  <2> QED
    BY <2>3, <2>4
<1>8. CASE Save
  <2>0. page \in Pages /\ pc = "save" /\ UNCHANGED <<files, failed, outcome>> /\ NextPage
    BY <1>2, <1>8 DEF Save, Coverage
  <2>1. \A p \in Pages : Covered(p) <=> Covered(p)'
    BY <2>0 DEF Covered
  <2>2. \A p \in Pages : p <= page => Covered(p)'
    BY <1>0, <1>2, <2>0, <2>1 DEF Coverage, Covered
  <2>3. \/ pc' = "exit" /\ page = NumPages - 1 /\ page' = page
        \/ pc' = "fetch" /\ page' = page + 1
    BY <2>0 DEF NextPage
  <2>4. disk'.page \in {disk.page, 0, page + 1}
    BY <1>1, <1>8 DEF Save
  <2>5. \A p \in Pages : p < disk'.page => Covered(p)'
    BY <1>0, <1>2, <2>0, <2>1, <2>2, <2>4 DEF Coverage
  <2>6. \A p \in Pages : p < page' => Covered(p)'
    BY <1>0, <2>0, <2>2, <2>3
  <2>7. pc' = "exit" => \A p \in Pages : Covered(p)'
    BY <1>0, <2>0, <2>2, <2>3
  <2> QED
    BY <2>3, <2>5, <2>6, <2>7 DEF Coverage
<1>9. CASE Exit
  BY <1>0, <1>1, <1>2, <1>9 DEF Exit, Coverage, Covered, history
<1>10. CASE Crash
  <2>1. UNCHANGED <<files, failed>> /\ pc' = "down" /\ outcome' = "crashed"
    BY <1>10 DEF Crash
  <2>2. disk'.page \in {disk.page, 0}
    BY <1>1, <1>10 DEF Crash
  <2> QED
    BY <1>0, <1>2, <2>1, <2>2 DEF Coverage, Covered
<1>11. CASE UNCHANGED vars
  BY <1>2, <1>11 DEF vars, history, Coverage, Covered
<1> QED
  BY <1>4, <1>5, <1>6, <1>7, <1>8, <1>9, <1>10, <1>11 DEF Next, Extract

\* The rows that are counted fit the page that is at hand.
LEMMA ExtractRowCounts ==
    ASSUME ExtractInv, Next
    PROVE  RowCounts'
<1>0. /\ NumPages \in Nat \ {0} /\ page \in Nat /\ rows \in Nat
      /\ disk.page \in Nat /\ disk.rows \in Nat /\ failed \subseteq Pages
      /\ Fresh.page = 0 /\ Fresh.rows = 0
  BY ExtractNumbers DEF ExtractInv, TypeOK, Fresh
<1>1. RowCounts
  BY DEF ExtractInv
<1>2. failed' \subseteq Pages
  BY ExtractTypes DEF TypeOK
<1>f. failed \subseteq failed'
  BY DEF Next, Extract, Run, Count, Fetch, Write, Save, Exit, Crash, vars, history
<1>3. \A p \in Nat : /\ Cardinality(FailedBefore(p)) \in Nat
                     /\ Cardinality(FailedBefore(p)') \in Nat
                     /\ Cardinality(FailedBefore(p)) <= Cardinality(FailedBefore(p)')
  BY <1>0, <1>2, <1>f, FailedGrows
<1>4. ASSUME NEW n \in Nat, NEW p \in Nat, RowsAt(n, p)
      PROVE  RowsAt(n, p)'
  BY <1>3, <1>4 DEF RowsAt
<1>5. RowsAt(0, 0)'
  BY <1>3 DEF RowsAt
<1>6. CASE \E resume \in BOOLEAN : Run(resume)
  BY <1>0, <1>1, <1>4, <1>5, <1>6 DEF Run, RowCounts
<1>7. CASE Count
  BY <1>0, <1>1, <1>4, <1>7 DEF Count, RowCounts
<1>8. CASE Fetch
  BY <1>0, <1>1, <1>4, <1>8 DEF Fetch, RowCounts
<1>9. CASE Write
  <2>1. /\ pc = "write" /\ UNCHANGED disk /\ RowsAt(rows, page)
        /\ RowsAt(disk.rows, disk.page)'
    BY <1>0, <1>1, <1>4, <1>9 DEF Write, RowCounts
  <2>2. CASE pc' = "save"
    <3>1. rows' = rows + 1 /\ page' = page /\ failed' = failed
      BY <1>9, <2>2 DEF Write, NextPage
    <3>2. FailedBefore(page) \subseteq FailedBefore(page + 1) /\ IsFiniteSet(FailedBefore(page + 1))
      <4>1. IsFiniteSet(Pages)
        BY BoundAssumption, FS_Interval DEF Pages
      <4>2. FailedBefore(page + 1) \subseteq Pages
        BY <1>0 DEF FailedBefore
      <4>3. \A q \in failed : q \in Int
        BY <1>0 DEF Pages
      <4> QED
        BY <1>0, <4>1, <4>2, <4>3, FS_Subset DEF FailedBefore
    <3>3. Cardinality(FailedBefore(page)) <= Cardinality(FailedBefore(page + 1))
      BY <3>2, FS_Subset
    <3>4. RowsAt(rows + 1, page + 1)
      BY <1>0, <1>3, <2>1, <3>3 DEF RowsAt
    <3>5. RowsAt(rows, page + 1)'
      BY <3>1, <3>4 DEF RowsAt, FailedBefore
    <3> QED
      BY <2>1, <2>2, <3>5 DEF RowCounts
  <2>3. CASE pc' # "save"
    <3>1. rows' = rows /\ failed' = failed \union {page} /\ NextPage
      BY <1>9, <2>3 DEF Write
    <3>2. PICK p \in Nat : p = page
      BY <1>0
    <3>3. Cardinality(FailedBefore(p + 1)') = Cardinality(FailedBefore(p)) + 1
      BY <1>0, <3>1, <3>2, OneMoreFailed
    <3>4. (pc' = "exit") \/ (pc' = "fetch" /\ page' = p + 1)
      BY <3>1, <3>2 DEF NextPage
    <3>5. RowsAt(rows, p)
      BY <2>1, <3>2
    <3>6. RowsAt(rows, p + 1)'
      BY <1>0, <1>3, <3>1, <3>3, <3>5 DEF RowsAt
    <3> QED
      BY <2>1, <3>4, <3>6 DEF RowCounts
  <2> QED
    BY <2>2, <2>3
<1>10. CASE Save
  BY <1>0, <1>1, <1>4, <1>5, <1>10 DEF Save, NextPage, RowCounts
<1>11. CASE Exit
  BY <1>0, <1>1, <1>5, <1>11 DEF Exit, RowCounts
<1>12. CASE Crash
  BY <1>0, <1>1, <1>4, <1>5, <1>12 DEF Crash, RowCounts
<1>13. CASE UNCHANGED vars
  BY <1>0, <1>1, <1>4, <1>13 DEF vars, history, RowCounts
<1> QED
  BY <1>6, <1>7, <1>8, <1>9, <1>10, <1>11, <1>12, <1>13 DEF Next, Extract

\* A page that is written again finds the room a fresh start or a loss has made.
LEMMA ExtractRewrites ==
    ASSUME ExtractInv, Next
    PROVE  Rewrites'
<1>0. /\ NumPages \in Nat \ {0} /\ page \in Nat /\ disk.page \in Nat /\ Fresh.page = 0
      /\ files \in [Pages -> Nat] /\ losses \in Nat /\ scratch \in Nat
      /\ \A p \in Pages : p \in Nat /\ files[p] \in Nat
      /\ pc \in {"write", "save"} => page \in Pages
  BY ExtractNumbers DEF ExtractInv, Coverage, Fresh
<1>1. Rewrites
  BY DEF ExtractInv
<1>2. CASE \E resume \in BOOLEAN : Run(resume)
  BY <1>0, <1>1, <1>2 DEF Run, Rewrites, Room
<1>3. CASE Count
  BY <1>0, <1>1, <1>3 DEF Count, Rewrites, Room
<1>4. CASE Fetch
  BY <1>0, <1>1, <1>4 DEF Fetch, Rewrites, Room
<1>5. CASE Write
  BY <1>0, <1>1, <1>5 DEF Write, NextPage, Rewrites, Room
<1>6. CASE Save
  BY <1>0, <1>1, <1>6 DEF Save, NextPage, Rewrites, Room
<1>7. CASE Exit
  BY <1>0, <1>1, <1>7 DEF Exit, Rewrites, Room, history
<1>8. CASE Crash
  BY <1>0, <1>1, <1>8 DEF Crash, Rewrites, Room
<1>9. CASE UNCHANGED vars
  BY <1>0, <1>1, <1>9 DEF vars, history, Rewrites, Room
<1> QED
  BY <1>2, <1>3, <1>4, <1>5, <1>6, <1>7, <1>8, <1>9 DEF Next, Extract

\* Every step of the extractor keeps its invariant.
LEMMA ExtractKept == ExtractInv /\ [Next]_vars => ExtractInv'
<1>1. CASE Next
  BY <1>1, ExtractTypes, ExtractCoverage, ExtractRowCounts, ExtractRewrites DEF ExtractInv
<1>2. CASE UNCHANGED vars
  BY <1>2 DEF vars, history, ExtractInv, TypeOK, Coverage, Covered, RowCounts, RowsAt,
             FailedBefore, Rewrites, Room
<1> QED
  BY <1>1, <1>2

\* What the invariant says of the checkpoint, the pages and the counts.
LEMMA ExtractCounts ==
    ExtractInv => /\ TypeOK /\ CheckpointCovered /\ NoPageForgotten
                  /\ RowsCountPagesOnce /\ RewritesExplained
<1> SUFFICES ASSUME ExtractInv
             PROVE  /\ TypeOK /\ CheckpointCovered /\ NoPageForgotten
                    /\ RowsCountPagesOnce /\ RewritesExplained
  OBVIOUS
<1>1. TypeOK /\ RewritesExplained
  BY DEF ExtractInv, Rewrites, RewritesExplained
<1>2. CheckpointCovered /\ NoPageForgotten
  BY DEF ExtractInv, Coverage, Covered, Written, CheckpointCovered, NoPageForgotten
<1>3. RowsCountPagesOnce
  <2>1. disk.page \in Nat /\ disk.rows \in Nat /\ failed \subseteq Pages
    BY ExtractNumbers DEF ExtractInv, TypeOK
  <2>2. PICK p \in Nat : p = disk.page
    BY <2>1
  <2>3. IsFiniteSet(failed)
    <3>1. IsFiniteSet(Pages)
      BY BoundAssumption, FS_Interval DEF Pages
    <3> QED
      BY <2>1, <3>1, FS_Subset
  <2>4. /\ Cardinality(FailedBefore(p)) \in Nat /\ Cardinality(failed) \in Nat
        /\ Cardinality(FailedBefore(p)) <= Cardinality(failed)
    <3>1. FailedBefore(p) \subseteq failed
      BY DEF FailedBefore
    <3> QED
      BY <2>3, <3>1, FS_Subset, FS_CardinalityType
  <2>5. RowsAt(disk.rows, p)
    BY <2>2 DEF ExtractInv, RowCounts
  <2> QED
    BY <2>1, <2>2, <2>4, <2>5 DEF RowsAt, RowsCountPagesOnce
<1> QED
  BY <1>1, <1>2, <1>3

-------------------------------------------------------------------------------
(* The pipeline.                                                           *)

\* A task that may be tried again has tries left.
TriesBound == \A t \in P!Task : status[t] = "none" => tries[t] <= Retries

\* Validated accounts are all in Salesforce: the load never takes one away.
LoadedIfValidated == status["validate_accounts"] = "success" => inOrg = "all"

PipelineInv ==
    /\ P!TypeOK /\ TriesBound
    /\ P!GraphIsKept /\ LoadedIfValidated /\ P!FreshMappingIsUsed

\* The nine tasks, and the bounds.
LEMMA Tasks ==
    /\ P!Task = {"extract_accounts", "extract_contacts", "transform_accounts", "load_accounts",
                 "transform_contacts", "load_contacts", "validate_accounts",
                 "validate_contacts", "reconciliation_report"}
    /\ Retries \in Nat /\ MaxPipelineRuns \in Nat /\ MaxTaskFaults \in Nat
<1>1. 1..P!Len(P!TASKS) = {1, 2, 3, 4, 5, 6, 7, 8, 9}
  BY DEF P!TASKS
<1>2. P!Task = {P!TASKS[i] : i \in {1, 2, 3, 4, 5, 6, 7, 8, 9}}
  BY <1>1 DEF P!Task
<1>3. /\ P!TASKS[1] = "extract_accounts" /\ P!TASKS[2] = "extract_contacts"
      /\ P!TASKS[3] = "transform_accounts" /\ P!TASKS[4] = "load_accounts"
      /\ P!TASKS[5] = "transform_contacts" /\ P!TASKS[6] = "load_contacts"
      /\ P!TASKS[7] = "validate_accounts" /\ P!TASKS[8] = "validate_contacts"
      /\ P!TASKS[9] = "reconciliation_report"
  BY DEF P!TASKS
<1>4. Retries \in Nat /\ MaxPipelineRuns \in Nat /\ MaxTaskFaults \in Nat
  BY TaskAssumption DEF P!PipelineAssumption
<1> QED
  BY <1>2, <1>3, <1>4

\* The order of the tasks, in numbers.
LEMMA Positions ==
    /\ P!Position["extract_accounts"] = 1 /\ P!Position["extract_contacts"] = 2
    /\ P!Position["transform_accounts"] = 3 /\ P!Position["load_accounts"] = 4
    /\ P!Position["transform_contacts"] = 5 /\ P!Position["load_contacts"] = 6
    /\ P!Position["validate_accounts"] = 7 /\ P!Position["validate_contacts"] = 8
    /\ P!Position["reconciliation_report"] = 9
<1>1. 1..P!Len(P!TASKS) = {1, 2, 3, 4, 5, 6, 7, 8, 9}
  BY DEF P!TASKS
<1>2. /\ P!TASKS[1] = "extract_accounts" /\ P!TASKS[2] = "extract_contacts"
      /\ P!TASKS[3] = "transform_accounts" /\ P!TASKS[4] = "load_accounts"
      /\ P!TASKS[5] = "transform_contacts" /\ P!TASKS[6] = "load_contacts"
      /\ P!TASKS[7] = "validate_accounts" /\ P!TASKS[8] = "validate_contacts"
      /\ P!TASKS[9] = "reconciliation_report"
  BY DEF P!TASKS
<1>3. ASSUME NEW i \in {1, 2, 3, 4, 5, 6, 7, 8, 9}, NEW j \in {1, 2, 3, 4, 5, 6, 7, 8, 9},
             P!TASKS[i] = P!TASKS[j]
      PROVE  i = j
  BY <1>2, <1>3
<1>4. ASSUME NEW i \in {1, 2, 3, 4, 5, 6, 7, 8, 9}
      PROVE  P!Position[P!TASKS[i]] = i
  <2>1. P!TASKS[i] \in P!Task
    BY <1>1 DEF P!Task
  <2>2. P!Position[P!TASKS[i]] = CHOOSE j \in 1..P!Len(P!TASKS) : P!TASKS[j] = P!TASKS[i]
    BY <2>1 DEF P!Position
  <2> QED
    BY <1>1, <1>3, <2>2
<1> QED
  BY <1>2, <1>4

\* Each edge joins two tasks in their order, and is among what its target waits for.
LEMMA EdgeFacts ==
    \A e \in P!Edges : /\ e[1] \in P!Task /\ e[2] \in P!Task /\ e[1] # e[2]
                       /\ e[1] \in P!Before[e[2]]
                       /\ P!Position[e[1]] < P!Position[e[2]]
<1> SUFFICES ASSUME NEW e \in P!Edges
             PROVE  /\ e[1] \in P!Task /\ e[2] \in P!Task /\ e[1] # e[2]
                    /\ e[1] \in P!Before[e[2]]
                    /\ P!Position[e[1]] < P!Position[e[2]]
  OBVIOUS
<1>1. e[1] \in P!Task /\ e[2] \in P!Task /\ e[1] # e[2]
  BY Tasks DEF P!Edges
<1>2. P!Position[e[1]] < P!Position[e[2]]
  BY Positions DEF P!Edges
<1>3. e[1] \in P!Before[e[2]]
  <2>1. P!Before[e[2]] = {f[1] : f \in {f \in P!Edges : f[2] = e[2]}}
    BY <1>1 DEF P!Before
  <2> QED
    BY <2>1
<1> QED
  BY <1>1, <1>2, <1>3

\* A task that was at work ends, for now or for good.
Ends(t) ==
    /\ status[t] = "running"
    /\ \E s \in {"none", "failed", "success"} :
          /\ status' = [status EXCEPT ![t] = s]
          /\ s = "none" => tries[t] <= Retries
          /\ s = "success" /\ t = "validate_accounts" => inOrg = "all"
          /\ s = "success" /\ t = "transform_contacts" => linked' = mapping
    /\ UNCHANGED <<mode, pipelineRun, scope, tries>>
    /\ (mapping' = mapping) \/ (t = "load_accounts" /\ mapping' = pipelineRun)
    /\ (linked' = linked) \/ (t = "transform_contacts" /\ linked' = mapping)
    /\ inOrg = "all" => inOrg' = "all"
    /\ inOrg' \in {"none", "some", "all"}
    /\ outputs' \in [P!Task -> Nat] /\ taskFaults' \in 0..MaxTaskFaults

\* All of the steps but the beginning of a run or a task are such ends.
LEMMA TasksEnd ==
    ASSUME PipelineInv, P!Next
    PROVE  \/ \E first \in 1..P!Len(P!TASKS) : \E last \in first..P!Len(P!TASKS) :
                 P!NewRun(first, last)
           \/ \E t \in P!Task : P!Start(t)
           \/ \E t \in P!Task : Ends(t)
           \/ UNCHANGED taskVars
<1>0. /\ status \in [P!Task -> {"success", "failed", "none", "running"}]
      /\ outputs \in [P!Task -> Nat] /\ taskFaults \in 0..MaxTaskFaults
      /\ tries \in [P!Task -> Int] /\ inOrg \in {"none", "some", "all"}
      /\ MaxTaskFaults \in Nat /\ Retries \in Nat
  BY Tasks DEF PipelineInv, P!TypeOK, P!Ended
<1>1. ASSUME NEW t \in P!Task, P!Raise(t)
      PROVE  \E s \in {"none", "failed", "success"} :
                /\ status' = [status EXCEPT ![t] = s]
                /\ s = "none" => tries[t] <= Retries
                /\ s = "success" /\ t = "validate_accounts" => inOrg = "all"
                /\ s = "success" /\ t = "transform_contacts" => linked' = mapping
  BY <1>1 DEF P!Raise
<1>2. ASSUME NEW t \in P!Task, P!Return(t),
             t = "validate_accounts" => inOrg = "all",
             t = "transform_contacts" => linked' = mapping
      PROVE  \E s \in {"none", "failed", "success"} :
                /\ status' = [status EXCEPT ![t] = s]
                /\ s = "none" => tries[t] <= Retries
                /\ s = "success" /\ t = "validate_accounts" => inOrg = "all"
                /\ s = "success" /\ t = "transform_contacts" => linked' = mapping
  BY <1>2 DEF P!Return
<1>3. ASSUME NEW t \in P!Task, P!Fail(t) PROVE Ends(t)
  <2>1. outputs' \in [P!Task -> Nat]
    BY <1>0, <1>3 DEF P!Fail
  <2>2. /\ inOrg' \in {"none", "some", "all"} /\ (inOrg = "all" => inOrg' = "all")
        /\ taskFaults' \in 0..MaxTaskFaults
    BY <1>0, <1>3 DEF P!Fail, P!Fault
  <2> QED
    BY <1>1, <1>3, <2>1, <2>2 DEF P!Fail, Ends
<1>4. ASSUME NEW t \in P!Task, P!Extract(t) PROVE Ends(t)
  <2>1. outputs' \in [P!Task -> Nat] /\ taskFaults' \in 0..MaxTaskFaults
    BY <1>0, <1>4 DEF P!Extract, P!Fault
  <2> QED
    BY <1>0, <1>2, <1>4, <2>1 DEF P!Extract, Ends
<1>5. CASE P!TransformAccounts
  <2>1. "transform_accounts" \in P!Task
    BY Tasks
  <2>2. outputs' \in [P!Task -> Nat]
    BY <1>0, <1>5, <2>1 DEF P!TransformAccounts
  <2> QED
    BY <1>0, <1>2, <1>5, <2>1, <2>2 DEF P!TransformAccounts, Ends
<1>6. CASE P!TransformContacts
  <2>1. "transform_contacts" \in P!Task
    BY Tasks
  <2>2. outputs' \in [P!Task -> Nat]
    BY <1>0, <1>6, <2>1 DEF P!TransformContacts
  <2> QED
    BY <1>0, <1>2, <1>6, <2>1, <2>2 DEF P!TransformContacts, Ends
<1>7. CASE P!LoadAccounts
  <2>1. "load_accounts" \in P!Task
    BY Tasks
  <2>2. /\ inOrg' \in {"none", "some", "all"} /\ (inOrg = "all" => inOrg' = "all")
        /\ taskFaults' \in 0..MaxTaskFaults
        /\ mapping' = mapping \/ mapping' = pipelineRun
    BY <1>0, <1>7 DEF P!LoadAccounts, P!Fault
  <2> QED
    BY <1>0, <1>2, <1>7, <2>1, <2>2 DEF P!LoadAccounts, Ends
<1>8. CASE P!LoadContacts
  <2>1. "load_contacts" \in P!Task
    BY Tasks
  <2> QED
    BY <1>0, <1>2, <1>8, <2>1 DEF P!LoadContacts, Ends
<1>9. CASE P!ValidateAccounts
  <2>1. "validate_accounts" \in P!Task
    BY Tasks
  <2>2. CASE P!Return("validate_accounts") /\ inOrg = "all"
    BY <1>0, <1>2, <1>9, <2>1, <2>2 DEF P!ValidateAccounts, Ends
  <2>3. CASE P!Raise("validate_accounts")
    BY <1>0, <1>1, <1>9, <2>1, <2>3 DEF P!ValidateAccounts, Ends
  <2> QED
    BY <1>9, <2>2, <2>3 DEF P!ValidateAccounts
<1>10. CASE P!ValidateContacts
  <2>1. PICK t \in {"validate_contacts", "reconciliation_report"} :
           /\ status[t] = "running" /\ P!Return(t)
           /\ UNCHANGED <<mode, pipelineRun, scope, tries, outputs, mapping, linked, inOrg,
                          taskFaults>>
    BY <1>10 DEF P!ValidateContacts
  <2>2. t \in P!Task
    BY Tasks
  <2> QED
    BY <1>0, <1>2, <2>1, <2>2 DEF Ends
<1> QED
  BY <1>3, <1>4, <1>5, <1>6, <1>7, <1>8, <1>9, <1>10
     DEF P!Next, P!Work, P!vars, taskVars

\* No task has run.
LEMMA PipelineStart == P!Init => PipelineInv
<1> SUFFICES ASSUME P!Init PROVE PipelineInv
  OBVIOUS
<1>1. P!TypeOK /\ TriesBound
  BY Tasks DEF P!Init, P!TypeOK, P!Ended, TriesBound
<1>2. P!GraphIsKept
  BY EdgeFacts DEF P!Init, P!GraphIsKept
<1>3. LoadedIfValidated /\ P!FreshMappingIsUsed
  BY Tasks DEF P!Init, LoadedIfValidated, P!FreshMappingIsUsed
<1> QED
  BY <1>1, <1>2, <1>3 DEF PipelineInv

\* Every step of the pipeline keeps its invariant.
LEMMA PipelineKept == PipelineInv /\ [P!Next]_taskVars => PipelineInv'
<1> SUFFICES ASSUME PipelineInv, P!Next \/ UNCHANGED taskVars PROVE PipelineInv'
  OBVIOUS
<1>0. /\ P!TypeOK /\ TriesBound /\ P!GraphIsKept /\ LoadedIfValidated /\ P!FreshMappingIsUsed
      /\ Retries \in Nat /\ MaxPipelineRuns \in Nat /\ MaxTaskFaults \in Nat
      /\ "validate_accounts" \in P!Task /\ "transform_contacts" \in P!Task
      /\ "load_accounts" \in P!Task
  BY Tasks DEF PipelineInv
<1>t. /\ status \in [P!Task -> {"success", "failed", "none", "running"}]
      /\ tries \in [P!Task -> 0..Retries + 1]
      /\ pipelineRun \in 0..MaxPipelineRuns /\ mapping \in 0..pipelineRun
      /\ linked \in 0..pipelineRun
  BY <1>0 DEF P!TypeOK, P!Ended
<1>1. CASE \E first \in 1..P!Len(P!TASKS) : \E last \in first..P!Len(P!TASKS) :
              P!NewRun(first, last)
  <2>0. PICK first \in 1..P!Len(P!TASKS) :
           \E last \in first..P!Len(P!TASKS) : P!NewRun(first, last)
    BY <1>1
  <2>1. PICK last \in first..P!Len(P!TASKS) : P!NewRun(first, last)
    BY <2>0
  <2>2. scope' \subseteq P!Task
    <3>1. first \in Nat /\ \A i \in first..last : i \in 1..P!Len(P!TASKS)
      BY DEF P!TASKS
    <3> QED
      BY <2>1, <3>1 DEF P!NewRun, P!Task
  <2>3. /\ status' = [t \in P!Task |-> "none"] /\ tries' = [t \in P!Task |-> 0]
        /\ pipelineRun' = pipelineRun + 1 /\ pipelineRun' \in 0..MaxPipelineRuns
        /\ UNCHANGED <<mode, outputs, mapping, linked, inOrg, taskFaults>>
    BY <1>0, <1>t, <2>1 DEF P!NewRun
  <2>4. P!TypeOK'
    BY <1>0, <1>t, <2>2, <2>3 DEF P!TypeOK, P!Ended
  <2>5. P!GraphIsKept'
    BY <2>3, EdgeFacts DEF P!GraphIsKept
  <2>6. TriesBound' /\ LoadedIfValidated' /\ P!FreshMappingIsUsed'
    BY <1>0, <2>3 DEF TriesBound, LoadedIfValidated, P!FreshMappingIsUsed
  <2> QED
    BY <2>4, <2>5, <2>6 DEF PipelineInv
<1>2. ASSUME NEW t \in P!Task, P!Start(t)
      PROVE  PipelineInv'
  <2>1. /\ status[t] = "none" /\ P!Ready(t) /\ status' = [status EXCEPT ![t] = "running"]
        /\ tries' = [tries EXCEPT ![t] = @ + 1]
        /\ UNCHANGED <<mode, pipelineRun, scope, outputs, mapping, linked, inOrg, taskFaults>>
    BY <1>2 DEF P!Start, P!Ready
  <2>2. P!TypeOK'
    <3>1. tries[t] \in 0..Retries
      BY <1>0, <1>t, <2>1 DEF TriesBound
    <3>2. tries' \in [P!Task -> 0..Retries + 1]
      BY <1>0, <1>t, <2>1, <3>1
    <3>3. status' \in [P!Task -> {"success", "failed", "none", "running"}]
      BY <1>t, <2>1
    <3> QED
      BY <1>0, <2>1, <3>2, <3>3 DEF P!TypeOK, P!Ended
  <2>3. TriesBound'
    BY <1>0, <1>t, <2>1 DEF TriesBound
  <2>4. P!GraphIsKept'
    <3>1. SUFFICES ASSUME scope = P!Task, NEW e \in P!Edges,
                          status'[e[2]] # "none" \/ tries'[e[2]] > 0
                   PROVE  status'[e[1]] = "success"
      BY <2>1 DEF P!GraphIsKept
    <3>2. /\ e[1] \in P!Task /\ e[2] \in P!Task /\ e[1] # e[2] /\ e[1] \in P!Before[e[2]]
          /\ P!Position[e[1]] < P!Position[e[2]]
      BY EdgeFacts
    <3>3. CASE e[2] = t
      BY <1>t, <2>1, <3>1, <3>2, <3>3 DEF P!Ready
    <3>4. CASE e[2] # t
      BY <1>0, <1>t, <2>1, <3>1, <3>2, <3>4 DEF P!GraphIsKept
    <3> QED
      BY <3>3, <3>4
  <2>5. LoadedIfValidated' /\ P!FreshMappingIsUsed'
    BY <1>0, <1>t, <2>1 DEF LoadedIfValidated, P!FreshMappingIsUsed
  <2> QED
    BY <2>2, <2>3, <2>4, <2>5 DEF PipelineInv
<1>3. ASSUME NEW t \in P!Task, Ends(t)
      PROVE  PipelineInv'
  <2>1. PICK s \in {"none", "failed", "success"} :
           /\ status[t] = "running" /\ status' = [status EXCEPT ![t] = s]
           /\ s = "none" => tries[t] <= Retries
           /\ s = "success" /\ t = "validate_accounts" => inOrg = "all"
           /\ s = "success" /\ t = "transform_contacts" => linked' = mapping
    BY <1>3 DEF Ends
  <2>2. /\ UNCHANGED <<mode, pipelineRun, scope, tries>>
        /\ (mapping' = mapping) \/ (t = "load_accounts" /\ mapping' = pipelineRun)
        /\ (linked' = linked) \/ (t = "transform_contacts" /\ linked' = mapping)
        /\ inOrg = "all" => inOrg' = "all"
        /\ inOrg' \in {"none", "some", "all"}
        /\ outputs' \in [P!Task -> Nat] /\ taskFaults' \in 0..MaxTaskFaults
    BY <1>3 DEF Ends
  <2>3. P!TypeOK'
    <3>1. status' \in [P!Task -> {"success", "failed", "none", "running"}]
      BY <1>t, <2>1
    <3>2. mapping' \in 0..pipelineRun /\ linked' \in 0..pipelineRun
      BY <1>t, <2>2
    <3> QED
      BY <1>0, <2>2, <3>1, <3>2 DEF P!TypeOK, P!Ended
  <2>4. TriesBound'
    BY <1>0, <1>t, <2>1, <2>2 DEF TriesBound
  <2>5. P!GraphIsKept'
    <3>1. SUFFICES ASSUME scope = P!Task, NEW e \in P!Edges,
                          status'[e[2]] # "none" \/ tries[e[2]] > 0
                   PROVE  status'[e[1]] = "success"
      BY <2>2 DEF P!GraphIsKept
    <3>2. e[1] \in P!Task /\ e[2] \in P!Task /\ e[1] # e[2]
      BY EdgeFacts
    <3>3. status[e[1]] = "success"
      BY <1>0, <1>t, <2>1, <3>1, <3>2 DEF P!GraphIsKept
    <3> QED
      BY <1>t, <2>1, <3>2, <3>3
  <2>6. LoadedIfValidated'
    BY <1>0, <1>t, <2>1, <2>2 DEF LoadedIfValidated
  <2>7. P!FreshMappingIsUsed'
    <3>1. SUFFICES ASSUME scope = P!Task, status'["transform_contacts"] = "success",
                          mapping' = pipelineRun
                   PROVE  linked' = pipelineRun
      BY <2>2 DEF P!FreshMappingIsUsed
    <3>2. CASE t = "transform_contacts"
      BY <1>0, <1>t, <2>1, <2>2, <3>1, <3>2
    <3>3. CASE t # "transform_contacts"
      <4>1. status["transform_contacts"] = "success" /\ linked' = linked
        BY <1>0, <1>t, <2>1, <2>2, <3>1, <3>3
      <4>2. <<"load_accounts", "transform_contacts">> \in P!Edges
        BY DEF P!Edges
      <4>3. status["load_accounts"] = "success"
        BY <1>0, <3>1, <4>1, <4>2 DEF P!GraphIsKept
      <4>4. mapping' = mapping
        BY <2>1, <2>2, <4>3
      <4> QED
        BY <1>0, <3>1, <4>1, <4>4 DEF P!FreshMappingIsUsed
    <3> QED
      BY <3>2, <3>3
  <2> QED
    BY <2>3, <2>4, <2>5, <2>6, <2>7 DEF PipelineInv
<1>4. CASE UNCHANGED taskVars
  <2>1. P!TypeOK' /\ TriesBound'
    BY <1>0, <1>4 DEF taskVars, P!TypeOK, TriesBound
  <2>2. P!GraphIsKept' /\ LoadedIfValidated' /\ P!FreshMappingIsUsed'
    BY <1>0, <1>4 DEF taskVars, P!GraphIsKept, LoadedIfValidated, P!FreshMappingIsUsed
  <2> QED
    BY <2>1, <2>2 DEF PipelineInv
<1> QED
  BY <1>1, <1>2, <1>3, <1>4, TasksEnd

\* The report follows the validation, and the validation the load.
LEMMA ReportIsBacked ==
    PipelineInv => P!TypeOK /\ P!GraphIsKept /\ P!FreshMappingIsUsed /\ P!ReportMeansAccountsLoaded
<1> SUFFICES ASSUME PipelineInv, scope = P!Task, status["reconciliation_report"] = "success"
             PROVE  inOrg = "all"
  BY DEF PipelineInv, P!ReportMeansAccountsLoaded
<1>1. <<"validate_accounts", "reconciliation_report">> \in P!Edges
  BY DEF P!Edges
<1>2. status["validate_accounts"] = "success"
  BY <1>1 DEF PipelineInv, P!GraphIsKept
<1> QED
  BY <1>2 DEF PipelineInv, LoadedIfValidated

-------------------------------------------------------------------------------
(* The load phase.                                                         *)

\* Where a worker has its record of the phase open.
Loop == {"fetch", "upsert", "save", "complete"}

OpenRecord(w) == handlerPc[w] \in Loop => copy[w].open >= 1

\* It began on a running job, and nothing in the loop changes its copy.
StillRunning(w) == handlerPc[w] \in Loop \union {"fail"} => copy[w].status = "RUNNING"

FreshStart(w) == handlerPc[w] \in {"load", "begin"} => run[w] = L!FreshRun

\* What is marked is in Salesforce, and stored or still to be.
BatchMarked(w) ==
    handlerPc[w] = "save" => /\ run[w].unsaved \subseteq run[w].marked
                             /\ run[w].marked \subseteq inSF \ Suspended
                             /\ run[w].marked \ run[w].unsaved \subseteq migrated
                             /\ dryRun => run[w].marked = {}

\* At most the worker whose copy is the stored job can still add to its counters, and
\* what it would add is stored, or about to be.
RowsBehind(w) ==
    handlerPc[w] \in Loop /\ copy[w].version = job.version =>
        IF handlerPc[w] = "save"
        THEN job.ok + run[w].ok <= Cardinality(migrated) + Cardinality(run[w].unsaved)
        ELSE job.ok + run[w].ok <= Cardinality(migrated)

\* Pages pass over no account that a dry run leaves unmigrated.
Visited(w) ==
    dryRun =>
        /\ handlerPc[w] = "fetch" => \A a \in L!Account : a <= run[w].offset => a \in run[w].seen
        /\ handlerPc[w] \in {"upsert", "save"} =>
              /\ \A a \in L!Account : a <= run[w].offset + BatchSize => a \in run[w].seen
              /\ run[w].more = (run[w].offset + BatchSize < NumAccounts)
        /\ handlerPc[w] \in {"complete", "done"} => run[w].seen = L!Account

\* What was seen and is not migrated is on a page before the offset, so that no page
\* shows an account for the second time.
SeenBefore(w, limit) == \A a \in run[w].seen : a \in migrated \/ L!RowNumber(a) < limit

SeenOnce(w) ==
    /\ handlerPc[w] = "fetch" => SeenBefore(w, run[w].offset)
    /\ handlerPc[w] \in {"upsert", "save"} => SeenBefore(w, run[w].offset + BatchSize)

\* What was seen is counted, but for the batch at hand.
Totals(w) ==
    ~dryRun =>
        /\ handlerPc[w] \in {"fetch", "save", "complete", "done"} =>
              run[w].ok + run[w].bad = Cardinality(run[w].seen)
        /\ handlerPc[w] = "upsert" =>
              run[w].ok + run[w].bad + Cardinality(run[w].batch) = Cardinality(run[w].seen)

Held(w) ==
    /\ OpenRecord(w) /\ StillRunning(w) /\ FreshStart(w) /\ BatchMarked(w)
    /\ RowsBehind(w) /\ Visited(w) /\ SeenOnce(w) /\ Totals(w)

\* A copy that is not the stored job is older.
Versions == \A h \in L!Handler :
    /\ copy[h].version <= job.version
    /\ copy[h].version = job.version => copy[h] = job

\* The accounts that finished workers have seen.
Finished ==
    {v \in Worker \X L!Account : handlerPc[v[1]] = "done" /\ v[2] \in run[v[1]].seen}

FinishedCount == ~dryRun => IsFiniteSet(Finished) /\ job.ok + job.bad = Cardinality(Finished)

LoadInv ==
    /\ L!TypeOK /\ Versions /\ L!NoPhantomMigration /\ L!SuccessesBackedByRows
    /\ (dryRun => migrated = {}) /\ FinishedCount
    /\ \A w \in Worker : Held(w)

\* A step of a handler: what the others hold it leaves alone, and it never takes back
\* what is stored; it replaces the stored job only if its copy is that job.
Moves(h) ==
    /\ \A g \in L!Handler \ {h} : /\ handlerPc'[g] = handlerPc[g] /\ copy'[g] = copy[g]
                                  /\ g \in Worker => run'[g] = run[g]
    /\ inSF \subseteq inSF' /\ migrated \subseteq migrated' /\ dryRun' = dryRun
    /\ copy'[h] \in {copy[h], job'}
    /\ \/ job' = job
       \/ copy[h].version = job.version /\ job'.version = job.version + 1 /\ copy'[h] = job'

\* The local variables of a worker.
RunRecord == [offset : Nat, batch : SUBSET L!Account, more : BOOLEAN,
              marked : SUBSET L!Account, unsaved : SUBSET L!Account,
              ok : Nat, bad : Nat, seen : SUBSET L!Account]

\* Salesforce took these accounts of the batch.
Took(w, succeeded) ==
    LET marked == succeeded \ Suspended
    IN  /\ inSF' = inSF \union succeeded
        /\ run' = [run EXCEPT ![w].marked = marked, ![w].unsaved = marked,
                              ![w].ok = @ + Cardinality(marked),
                              ![w].bad = @ + Cardinality(run[w].batch \ marked)]

\* The instance speaks of the same cardinality.
LEMMA SameCardinality == \A S : L!Cardinality(S) = Cardinality(S)
  BY DEF L!Cardinality, Cardinality

\* The least of some numbers is one of them.
LEMMA LeastIsOne ==
    ASSUME NEW S, S \subseteq Nat, S # {}
    PROVE  L!Min(S) \in S
<1>1. PICK x \in S : \A y \in S : ~(<<y, x>> \in OpToRel(<, Nat))
  BY NatLessThanWellFounded, WFMin
<1>2. ASSUME NEW y \in S PROVE x <= y
  <2>1. OpToRel(<, Nat) = {ss \in Nat \X Nat : ss[1] < ss[2]}
    BY DEF OpToRel
  <2>2. <<y, x>> \in Nat \X Nat /\ <<y, x>>[1] = y /\ <<y, x>>[2] = x
    OBVIOUS
  <2>3. ~(y < x)
    BY <1>1, <2>1, <2>2
  <2> QED
    BY <2>3
<1> QED
  BY <1>2 DEF L!Min

\* The numbers and sets among the variables.
LEMMA LoadNumbers ==
    ASSUME LoadInv
    PROVE  /\ NumAccounts \in Nat /\ BatchSize \in Nat \ {0} /\ MaxLoadFaults \in Nat
           /\ job \in L!Job /\ copy \in [L!Handler -> L!Job]
           /\ handlerPc \in [L!Handler -> L!WorkerPC \union L!Ended]
           /\ run \in [Worker -> RunRecord]
           /\ inSF \subseteq L!Account /\ migrated \subseteq L!Account
           /\ published \subseteq L!Account /\ loadFaults \in 0..MaxLoadFaults
           /\ dryRun \in BOOLEAN
           /\ Worker \subseteq L!Handler /\ Pauser \subseteq L!Handler
           /\ Completer \subseteq L!Handler /\ Worker \intersect (Pauser \union Completer) = {}
  BY LoadAssumption
     DEF LoadInv, L!TypeOK, L!SizeAssumption, L!FaultAssumption, L!InputAssumption, L!Handler,
         RunRecord

\* Any set of accounts is finite.
LEMMA AccountsFinite ==
    ASSUME NEW S, S \subseteq L!Account
    PROVE  IsFiniteSet(S) /\ Cardinality(S) \in Nat
<1>1. IsFiniteSet(L!Account)
  BY LoadAssumption, FS_Interval DEF L!Account, L!SizeAssumption
<1> QED
  BY <1>1, FS_Subset, FS_CardinalityType

\* Sets without a common element.
LEMMA TwoParts ==
    ASSUME NEW S, NEW T, IsFiniteSet(S), IsFiniteSet(T), S \intersect T = {}
    PROVE  /\ IsFiniteSet(S \union T)
           /\ Cardinality(S \union T) = Cardinality(S) + Cardinality(T)
<1>1. Cardinality(S) \in Nat /\ Cardinality(T) \in Nat
  BY FS_CardinalityType
<1>2. /\ IsFiniteSet(S \union T)
      /\ Cardinality(S \union T) = Cardinality(S) + Cardinality(T) - Cardinality(S \intersect T)
  BY FS_Union
<1>3. Cardinality(S \intersect T) = 0
  BY FS_EmptySet
<1> QED
  BY <1>1, <1>2, <1>3

\* A save keeps the types.
LEMMA SaveTypes ==
    ASSUME LoadInv, NEW h \in L!Handler, NEW new \in L!Job,
           NEW saved \in L!WorkerPC \union L!Ended, NEW refused \in L!WorkerPC \union L!Ended,
           L!SaveJob(h, new, saved, refused)
    PROVE  /\ job' \in L!Job /\ copy' \in [L!Handler -> L!Job]
           /\ handlerPc' \in [L!Handler -> L!WorkerPC \union L!Ended]
<1>1. /\ job \in L!Job /\ copy \in [L!Handler -> L!Job]
      /\ handlerPc \in [L!Handler -> L!WorkerPC \union L!Ended]
  BY LoadNumbers
<1>2. [new EXCEPT !.version = @ + 1] \in L!Job
  BY DEF L!Job
<1> QED
  BY <1>1, <1>2 DEF L!SaveJob, L!Goto

\* So does moving on.
LEMMA GotoTypes ==
    ASSUME LoadInv, NEW h \in L!Handler, NEW label \in L!WorkerPC \union L!Ended,
           L!Goto(h, label)
    PROVE  handlerPc' \in [L!Handler -> L!WorkerPC \union L!Ended]
  BY LoadNumbers DEF L!Goto

\* What a step does to the values, handler by handler.
LEMMA WorkerTypes ==
    ASSUME LoadInv, NEW w \in Worker, L!RunLoadPhase(w) \/ L!PortRaises(w) \/ L!Crash(w)
    PROVE  L!TypeOK'
<1>0. /\ NumAccounts \in Nat /\ BatchSize \in Nat \ {0} /\ MaxLoadFaults \in Nat
      /\ job \in L!Job /\ copy \in [L!Handler -> L!Job]
      /\ handlerPc \in [L!Handler -> L!WorkerPC \union L!Ended]
      /\ run \in [Worker -> RunRecord]
      /\ inSF \subseteq L!Account /\ migrated \subseteq L!Account
      /\ published \subseteq L!Account /\ loadFaults \in 0..MaxLoadFaults /\ dryRun \in BOOLEAN
      /\ w \in L!Handler
  BY LoadNumbers
<1>1. /\ run[w].offset \in Nat /\ run[w].batch \subseteq L!Account
      /\ run[w].marked \subseteq L!Account /\ run[w].unsaved \subseteq L!Account
      /\ run[w].ok \in Nat /\ run[w].bad \in Nat /\ run[w].seen \subseteq L!Account
  BY <1>0 DEF RunRecord
<1>r. ASSUME NEW r \in RunRecord, run' = [run EXCEPT ![w] = r]
      PROVE  run' \in [Worker -> RunRecord]
  BY <1>0, <1>r
<1>2. {"load", "begin", "fetch", "upsert", "save", "publish", "complete", "fail", "done",
       "failed", "error", "crashed"} = L!WorkerPC \union L!Ended
  BY DEF L!WorkerPC, L!Ended
<1>3. copy[w] \in L!Job
  BY <1>0
<1>4. CASE L!LoadJob(w, "begin")
  BY <1>0, <1>2, <1>4, GotoTypes DEF L!LoadJob, L!TypeOK, RunRecord
<1>5. CASE L!Begin(w)
  <2>1. [copy[w] EXCEPT !.open = @ + 1] \in L!Job
    BY <1>3 DEF L!Job
  <2>2. /\ job' \in L!Job /\ copy' \in [L!Handler -> L!Job]
        /\ handlerPc' \in [L!Handler -> L!WorkerPC \union L!Ended]
    BY <1>0, <1>2, <1>5, <2>1, SaveTypes, GotoTypes DEF L!Begin
  <2> QED
    BY <1>0, <1>5, <2>2 DEF L!Begin, L!TypeOK, RunRecord
<1>6. CASE L!Fetch(w)
  <2>1. L!Page(run[w].offset) \subseteq L!Account
    BY DEF L!Page, L!Unmigrated
  <2>2. handlerPc' \in [L!Handler -> L!WorkerPC \union L!Ended]
    BY <1>0, <1>2, <1>6, GotoTypes DEF L!Fetch
  <2>3. L!HasMore(run[w].offset) \in BOOLEAN
    BY DEF L!HasMore
  <2>4. run' \in [Worker -> RunRecord]
    <3>1. CASE UNCHANGED run
      BY <1>0, <3>1
    <3>2. CASE run' # run
      <4> DEFINE r == [run[w] EXCEPT !.batch = L!Page(run[w].offset),
                                     !.seen = @ \union L!Page(run[w].offset),
                                     !.more = L!HasMore(run[w].offset)]
      <4>1. r \in RunRecord
        BY <1>0, <1>1, <2>1, <2>3 DEF RunRecord
      <4>2. run' = [run EXCEPT ![w] = r]
        BY <1>0, <1>6, <3>2 DEF L!Fetch
      <4> QED
        BY <1>r, <4>1, <4>2
    <3> QED
      BY <3>1, <3>2
  <2> QED
    BY <1>0, <1>6, <2>2, <2>4 DEF L!Fetch, L!TypeOK, RunRecord
<1>7. CASE L!Upsert(w)
  <2>1. PICK succeeded \in SUBSET run[w].batch : Took(w, succeeded)
    BY <1>7, SameCardinality DEF L!Upsert, Took
  <2>2. handlerPc' \in [L!Handler -> L!WorkerPC \union L!Ended]
    BY <1>0, <1>2, <1>7, GotoTypes DEF L!Upsert
  <2> DEFINE marked == succeeded \ Suspended
  <2>3. /\ Cardinality(marked) \in Nat /\ Cardinality(run[w].batch \ marked) \in Nat
        /\ marked \subseteq L!Account /\ inSF' \subseteq L!Account
    <3>1. marked \subseteq L!Account /\ run[w].batch \ marked \subseteq L!Account
      BY <1>1
    <3> QED
      BY <1>0, <1>1, <2>1, <3>1, AccountsFinite DEF Took
  <2>4. run' = [run EXCEPT ![w].marked = marked, ![w].unsaved = marked,
                           ![w].ok = @ + Cardinality(marked),
                           ![w].bad = @ + Cardinality(run[w].batch \ marked)]
    BY <2>1 DEF Took
  <2> HIDE DEF marked
  <2>5. run' \in [Worker -> RunRecord]
    <3> DEFINE r == [run[w] EXCEPT !.marked = marked, !.unsaved = marked,
                                   !.ok = @ + Cardinality(marked),
                                   !.bad = @ + Cardinality(run[w].batch \ marked)]
    <3>0. /\ run[w].ok + Cardinality(marked) \in Nat
          /\ run[w].bad + Cardinality(run[w].batch \ marked) \in Nat
      BY <1>1, <2>3
    <3>1. r \in RunRecord
      BY <1>0, <1>1, <2>3, <3>0 DEF RunRecord
    <3>2. run' = [run EXCEPT ![w] = r]
      BY <1>0, <2>4
    <3> QED
      BY <1>r, <3>1, <3>2
  <2> QED
    BY <1>0, <1>7, <2>2, <2>3, <2>5 DEF L!Upsert, L!TypeOK, RunRecord
<1>8. CASE L!UpsertApiError(w)
  <2>1. handlerPc' \in [L!Handler -> L!WorkerPC \union L!Ended]
    BY <1>0, <1>2, <1>8, GotoTypes DEF L!UpsertApiError
  <2>2. Cardinality(run[w].batch) \in Nat
    BY <1>1, AccountsFinite
  <2>3. inSF' \subseteq L!Account
    BY <1>0, <1>1, <1>8 DEF L!UpsertApiError
  <2>4. run' \in [Worker -> RunRecord]
    <3> DEFINE r == [run[w] EXCEPT !.marked = {}, !.unsaved = {},
                                   !.bad = @ + Cardinality(run[w].batch)]
    <3>0. run[w].bad + Cardinality(run[w].batch) \in Nat
      BY <1>1, <2>2
    <3>1. r \in RunRecord
      BY <1>0, <1>1, <3>0 DEF RunRecord
    <3>2. run' = [run EXCEPT ![w] = r]
      BY <1>0, <1>8, SameCardinality DEF L!UpsertApiError
    <3> QED
      BY <1>r, <3>1, <3>2
  <2> QED
    BY <1>0, <1>8, <2>1, <2>3, <2>4 DEF L!UpsertApiError, L!TypeOK, RunRecord
<1>9. CASE L!UpsertDryRun(w)
  <2>1. handlerPc' \in [L!Handler -> L!WorkerPC \union L!Ended]
    BY <1>0, <1>2, <1>9, GotoTypes DEF L!UpsertDryRun
  <2>2. run' \in [Worker -> RunRecord]
    <3> DEFINE r == [run[w] EXCEPT !.marked = {}, !.unsaved = {}]
    <3>1. r \in RunRecord
      BY <1>0, <1>1 DEF RunRecord
    <3>2. run' = [run EXCEPT ![w] = r]
      BY <1>0, <1>9 DEF L!UpsertDryRun
    <3> QED
      BY <1>r, <3>1, <3>2
  <2> QED
    BY <1>0, <1>9, <2>1, <2>2 DEF L!UpsertDryRun, L!TypeOK, RunRecord
<1>10. CASE L!SaveNext(w)
  <2> DEFINE a == L!Min(run[w].unsaved)
  <2>1. a \in run[w].unsaved /\ a \in L!Account
    <3>1. run[w].unsaved # {} /\ run[w].unsaved \subseteq Nat
      BY <1>1, <1>10 DEF L!SaveNext, L!Account
    <3> QED
      BY <1>1, <3>1, LeastIsOne
  <2>2. L!SaveRow(w, a) /\ UNCHANGED <<job, copy, inSF, published, dryRun, loadFaults>>
    BY <1>10 DEF L!SaveNext
  <2> HIDE DEF a
  <2>3. handlerPc' \in [L!Handler -> L!WorkerPC \union L!Ended]
    BY <1>0, <1>2, <2>2, GotoTypes DEF L!SaveRow
  <2>4. migrated' \subseteq L!Account
    BY <1>0, <2>1, <2>2 DEF L!SaveRow
  <2>5. run' \in [Worker -> RunRecord]
    <3>1. CASE UNCHANGED run
      BY <1>0, <3>1
    <3>2. CASE run' # run
      <4> DEFINE r == [run[w] EXCEPT !.unsaved = @ \ {a}]
      <4>1. r \in RunRecord
        BY <1>0, <1>1 DEF RunRecord
      <4>2. run' = [run EXCEPT ![w] = r]
        BY <1>0, <2>2, <3>2 DEF L!SaveRow
      <4> QED
        BY <1>r, <4>1, <4>2
    <3> QED
      BY <3>1, <3>2
  <2> QED
    BY <1>0, <2>2, <2>3, <2>4, <2>5 DEF L!TypeOK, RunRecord
<1>11. CASE L!Publish(w)
  <2>1. handlerPc' \in [L!Handler -> L!WorkerPC \union L!Ended]
    BY <1>0, <1>2, <1>11, GotoTypes DEF L!Publish
  <2>2. L!NextOffset(run[w].offset) \in Nat /\ published' \subseteq L!Account
    BY <1>0, <1>1, <1>11 DEF L!NextOffset, L!Publish
  <2>3. run' \in [Worker -> RunRecord]
    <3> DEFINE r == [run[w] EXCEPT !.offset = L!NextOffset(@), !.batch = {}, !.marked = {}]
    <3>1. r \in RunRecord
      BY <1>0, <1>1, <2>2 DEF RunRecord
    <3>2. run' = [run EXCEPT ![w] = r]
      BY <1>0, <1>11 DEF L!Publish
    <3> QED
      BY <1>r, <3>1, <3>2
  <2> QED
    BY <1>0, <1>11, <2>1, <2>2, <2>3 DEF L!Publish, L!TypeOK, RunRecord
<1>12. CASE L!CompletePhase(w)
  <2> DEFINE closed == [copy[w] EXCEPT !.open = @ - 1, !.closed = @ + 1,
                                       !.ok = @ + run[w].ok, !.bad = @ + run[w].bad]
  <2>1. copy[w].open >= 1
    BY <1>12 DEF LoadInv, Held, OpenRecord, Loop, L!CompletePhase
  <2>2. closed \in L!Job /\ [closed EXCEPT !.status = "FAILED"] \in L!Job
    <3>1. /\ copy[w].open \in Nat /\ copy[w].closed \in Nat /\ copy[w].version \in Nat
          /\ copy[w].ok \in Nat /\ copy[w].bad \in Nat
      BY <1>3 DEF L!Job
    <3>2. /\ copy[w].open - 1 \in Nat /\ copy[w].closed + 1 \in Nat
          /\ copy[w].ok + run[w].ok \in Nat /\ copy[w].bad + run[w].bad \in Nat
      BY <1>1, <2>1, <3>1
    <3>3. closed \in L!Job
      BY <1>3, <3>2 DEF L!Job
    <3> QED
      BY <3>3 DEF L!Job
  <2>3. \E new \in L!Job : L!SaveJob(w, new, "done", "error")
    BY <1>12, <2>2 DEF L!CompletePhase
  <2>4. /\ job' \in L!Job /\ copy' \in [L!Handler -> L!Job]
        /\ handlerPc' \in [L!Handler -> L!WorkerPC \union L!Ended]
    BY <1>0, <1>2, <2>3, SaveTypes
  <2> QED
    BY <1>0, <1>12, <2>4 DEF L!CompletePhase, L!TypeOK, RunRecord
<1>13. CASE L!FailJob(w)
  <2>1. [copy[w] EXCEPT !.status = "FAILED"] \in L!Job
    BY <1>3 DEF L!Job
  <2>2. /\ job' \in L!Job /\ copy' \in [L!Handler -> L!Job]
        /\ handlerPc' \in [L!Handler -> L!WorkerPC \union L!Ended]
    BY <1>0, <1>2, <1>13, <2>1, SaveTypes DEF L!FailJob
  <2> QED
    BY <1>0, <1>13, <2>2 DEF L!FailJob, L!TypeOK, RunRecord
<1>14. CASE L!PortRaises(w)
  <2>1. handlerPc' \in [L!Handler -> L!WorkerPC \union L!Ended]
    BY <1>0, <1>2, <1>14, GotoTypes DEF L!PortRaises
  <2>2. inSF' \subseteq L!Account /\ published' \subseteq L!Account
    BY <1>0, <1>1, <1>14 DEF L!PortRaises
  <2> QED
    BY <1>0, <1>14, <2>1, <2>2 DEF L!PortRaises, L!TypeOK, RunRecord
<1>15. CASE L!Crash(w)
  BY <1>0, <1>2, <1>15, GotoTypes DEF L!Crash, L!TypeOK, RunRecord
<1> QED
  BY <1>4, <1>5, <1>6, <1>7, <1>8, <1>9, <1>10, <1>11, <1>12, <1>13, <1>14, <1>15
     DEF L!RunLoadPhase

\* The same of PauseMigration and complete_job.
LEMMA OtherTypes ==
    ASSUME LoadInv, NEW h \in Pauser \union Completer, NEW target \in {"PAUSED", "COMPLETED"},
           L!LoadJob(h, "begin") \/ L!Transition(h, target)
    PROVE  L!TypeOK'
<1>0. /\ job \in L!Job /\ copy \in [L!Handler -> L!Job]
      /\ handlerPc \in [L!Handler -> L!WorkerPC \union L!Ended] /\ h \in L!Handler
      /\ L!TypeOK
  BY LoadNumbers DEF LoadInv
<1>1. {"begin", "done", "error"} \subseteq L!WorkerPC \union L!Ended
  BY DEF L!WorkerPC, L!Ended
<1>2. CASE L!LoadJob(h, "begin")
  BY <1>0, <1>1, <1>2, GotoTypes DEF L!LoadJob, L!TypeOK, RunRecord
<1>3. CASE L!Transition(h, target)
  <2>1. [copy[h] EXCEPT !.status = target] \in L!Job
    BY <1>0 DEF L!Job
  <2>2. /\ job' \in L!Job /\ copy' \in [L!Handler -> L!Job]
        /\ handlerPc' \in [L!Handler -> L!WorkerPC \union L!Ended]
    BY <1>0, <1>1, <1>3, <2>1, SaveTypes, GotoTypes DEF L!Transition
  <2> QED
    BY <1>0, <1>3, <2>2 DEF L!Transition, L!TypeOK, RunRecord
<1> QED
  BY <1>2, <1>3

\* What a save does: the copy was the stored job, or nothing is written.
LEMMA SaveMoves ==
    ASSUME LoadInv, NEW h \in L!Handler, NEW new \in L!Job, new.version = copy[h].version,
           NEW saved, NEW refused, L!SaveJob(h, new, saved, refused)
    PROVE  /\ \A g \in L!Handler \ {h} : handlerPc'[g] = handlerPc[g] /\ copy'[g] = copy[g]
           /\ \/ /\ copy[h] = job /\ handlerPc'[h] = saved
                 /\ job' = [new EXCEPT !.version = @ + 1]
                 /\ job'.version = job.version + 1 /\ copy'[h] = job'
              \/ /\ copy[h].version # job.version /\ handlerPc'[h] = refused
                 /\ job' = job /\ copy'[h] = copy[h]
<1>0. /\ copy \in [L!Handler -> L!Job] /\ job \in L!Job
      /\ handlerPc \in [L!Handler -> L!WorkerPC \union L!Ended]
  BY LoadNumbers
<1>1. \A g \in L!Handler \ {h} : handlerPc'[g] = handlerPc[g] /\ copy'[g] = copy[g]
  BY <1>0 DEF L!SaveJob, L!Goto
<1>2. CASE copy[h].version = job.version /\ job' = [new EXCEPT !.version = @ + 1]
           /\ copy' = [copy EXCEPT ![h] = job'] /\ L!Goto(h, saved)
  <2>1. copy[h] = job
    BY <1>2 DEF LoadInv, Versions
  <2>2. job'.version = job.version + 1
    BY <1>2 DEF L!Job
  <2> QED
    BY <1>0, <1>1, <1>2, <2>1, <2>2 DEF L!Goto
<1>3. CASE copy[h].version # job.version /\ L!Goto(h, refused) /\ UNCHANGED <<job, copy>>
  BY <1>0, <1>1, <1>3 DEF L!Goto
<1> QED
  BY <1>2, <1>3 DEF L!SaveJob

\* Each step of a worker is such a move.
LEMMA WorkerMoves ==
    ASSUME LoadInv, NEW w \in Worker, L!RunLoadPhase(w) \/ L!PortRaises(w) \/ L!Crash(w)
    PROVE  Moves(w)
<1>0. /\ copy \in [L!Handler -> L!Job] /\ job \in L!Job
      /\ handlerPc \in [L!Handler -> L!WorkerPC \union L!Ended]
      /\ run \in [Worker -> RunRecord] /\ w \in L!Handler
  BY LoadNumbers
<1>1. ASSUME NEW label, L!Goto(w, label)
      PROVE  \A g \in L!Handler \ {w} : handlerPc'[g] = handlerPc[g]
  BY <1>0, <1>1 DEF L!Goto
<1>2. CASE L!LoadJob(w, "begin")
  BY <1>0, <1>1, <1>2 DEF L!LoadJob, Moves
<1>3. CASE L!Begin(w)
  <2>1. CASE L!SaveJob(w, [copy[w] EXCEPT !.open = @ + 1], "fetch", "error")
    <3>1. /\ [copy[w] EXCEPT !.open = @ + 1] \in L!Job
          /\ [copy[w] EXCEPT !.open = @ + 1].version = copy[w].version
      BY <1>0 DEF L!Job
    <3> QED
      BY <1>0, <1>3, <2>1, <3>1, SaveMoves DEF L!Begin, Moves
  <2>2. CASE L!Goto(w, "error") /\ UNCHANGED <<job, copy>>
    BY <1>0, <1>1, <1>3, <2>2 DEF L!Begin, Moves
  <2> QED
    BY <1>3, <2>1, <2>2 DEF L!Begin
<1>4. CASE L!Fetch(w)
  <2>1. \A g \in L!Handler \ {w} : handlerPc'[g] = handlerPc[g]
    BY <1>1, <1>4 DEF L!Fetch
  <2>2. \A g \in Worker \ {w} : run'[g] = run[g]
    BY <1>0, <1>4 DEF L!Fetch
  <2> QED
    BY <1>0, <1>4, <2>1, <2>2 DEF L!Fetch, Moves
<1>5. CASE L!Upsert(w)
  <2>1. \A g \in L!Handler \ {w} : handlerPc'[g] = handlerPc[g]
    BY <1>1, <1>5 DEF L!Upsert
  <2>2. (\A g \in Worker \ {w} : run'[g] = run[g]) /\ inSF \subseteq inSF'
    BY <1>0, <1>5 DEF L!Upsert
  <2> QED
    BY <1>0, <1>5, <2>1, <2>2 DEF L!Upsert, Moves
<1>6. CASE L!UpsertApiError(w)
  <2>1. \A g \in L!Handler \ {w} : handlerPc'[g] = handlerPc[g]
    BY <1>1, <1>6 DEF L!UpsertApiError
  <2>2. (\A g \in Worker \ {w} : run'[g] = run[g]) /\ inSF \subseteq inSF'
    BY <1>0, <1>6 DEF L!UpsertApiError
  <2> QED
    BY <1>0, <1>6, <2>1, <2>2 DEF L!UpsertApiError, Moves
<1>7. CASE L!UpsertDryRun(w)
  <2>1. \A g \in L!Handler \ {w} : handlerPc'[g] = handlerPc[g]
    BY <1>1, <1>7 DEF L!UpsertDryRun
  <2> QED
    BY <1>0, <1>7, <2>1 DEF L!UpsertDryRun, Moves
<1>8. CASE L!SaveNext(w)
  <2>1. \A g \in L!Handler \ {w} : handlerPc'[g] = handlerPc[g]
    BY <1>1, <1>8 DEF L!SaveNext, L!SaveRow
  <2>2. (\A g \in Worker \ {w} : run'[g] = run[g]) /\ migrated \subseteq migrated'
    BY <1>0, <1>8 DEF L!SaveNext, L!SaveRow
  <2> QED
    BY <1>0, <1>8, <2>1, <2>2 DEF L!SaveNext, Moves
<1>9. CASE L!Publish(w)
  <2>1. \A g \in L!Handler \ {w} : handlerPc'[g] = handlerPc[g]
    BY <1>1, <1>9 DEF L!Publish
  <2> QED
    BY <1>0, <1>9, <2>1 DEF L!Publish, Moves
<1>10. CASE L!CompletePhase(w)
  <2> DEFINE closed == [copy[w] EXCEPT !.open = @ - 1, !.closed = @ + 1,
                                       !.ok = @ + run[w].ok, !.bad = @ + run[w].bad]
  <2>1. copy[w].open >= 1
    BY <1>10 DEF LoadInv, Held, OpenRecord, Loop, L!CompletePhase
  <2>2. closed \in L!Job /\ closed.version = copy[w].version
    <3>1. /\ copy[w].open \in Nat /\ copy[w].closed \in Nat /\ copy[w].version \in Nat
          /\ copy[w].ok \in Nat /\ copy[w].bad \in Nat
          /\ run[w].ok \in Nat /\ run[w].bad \in Nat
      BY <1>0 DEF L!Job, RunRecord
    <3>2. /\ copy[w].open - 1 \in Nat /\ copy[w].closed + 1 \in Nat
          /\ copy[w].ok + run[w].ok \in Nat /\ copy[w].bad + run[w].bad \in Nat
      BY <2>1, <3>1
    <3> QED
      BY <1>0, <3>2 DEF L!Job
  <2>3. PICK new \in {closed, [closed EXCEPT !.status = "FAILED"]} :
           L!SaveJob(w, new, "done", "error")
    BY <1>10 DEF L!CompletePhase
  <2> HIDE DEF closed
  <2>4. new \in L!Job /\ new.version = copy[w].version
    BY <2>2, <2>3 DEF L!Job
  <2> QED
    BY <1>0, <1>10, <2>3, <2>4, SaveMoves DEF L!CompletePhase, Moves
<1>11. CASE L!FailJob(w)
  <2>1. /\ [copy[w] EXCEPT !.status = "FAILED"] \in L!Job
        /\ [copy[w] EXCEPT !.status = "FAILED"].version = copy[w].version
    BY <1>0 DEF L!Job
  <2> QED
    BY <1>0, <1>11, <2>1, SaveMoves DEF L!FailJob, Moves
<1>12. CASE L!PortRaises(w)
  <2>1. \A g \in L!Handler \ {w} : handlerPc'[g] = handlerPc[g]
    BY <1>1, <1>12 DEF L!PortRaises
  <2>2. inSF \subseteq inSF'
    BY <1>12 DEF L!PortRaises
  <2> QED
    BY <1>0, <1>12, <2>1, <2>2 DEF L!PortRaises, Moves
<1>13. CASE L!Crash(w)
  BY <1>0, <1>1, <1>13 DEF L!Crash, Moves
<1> QED
  BY <1>2, <1>3, <1>4, <1>5, <1>6, <1>7, <1>8, <1>9, <1>10, <1>11, <1>12, <1>13
     DEF L!RunLoadPhase

\* So is each step of PauseMigration and complete_job.
LEMMA OtherMoves ==
    ASSUME LoadInv, NEW h \in Pauser \union Completer, NEW target \in {"PAUSED", "COMPLETED"},
           L!LoadJob(h, "begin") \/ L!Transition(h, target)
    PROVE  Moves(h)
<1>0. /\ copy \in [L!Handler -> L!Job] /\ job \in L!Job
      /\ handlerPc \in [L!Handler -> L!WorkerPC \union L!Ended]
      /\ h \in L!Handler /\ h \notin Worker
  BY LoadNumbers
<1>1. CASE L!LoadJob(h, "begin")
  BY <1>0, <1>1 DEF L!LoadJob, L!Goto, Moves
<1>2. CASE L!Transition(h, target)
  <2>1. /\ [copy[h] EXCEPT !.status = target] \in L!Job
        /\ [copy[h] EXCEPT !.status = target].version = copy[h].version
    BY <1>0 DEF L!Job
  <2>2. CASE L!SaveJob(h, [copy[h] EXCEPT !.status = target], "done", "error")
    BY <1>0, <1>2, <2>1, <2>2, SaveMoves DEF L!Transition, Moves
  <2>3. CASE L!Goto(h, "error") /\ UNCHANGED <<job, copy>>
    BY <1>0, <1>2, <2>3 DEF L!Transition, L!Goto, Moves
  <2> QED
    BY <1>2, <2>2, <2>3 DEF L!Transition
<1> QED
  BY <1>1, <1>2

\* No copy is ahead of the stored job, and one of its version is that job.
LEMMA VersionsKept ==
    ASSUME LoadInv, NEW h \in L!Handler, Moves(h)
    PROVE  Versions'
<1>0. copy \in [L!Handler -> L!Job] /\ job \in L!Job /\ job.version \in Nat
  BY LoadNumbers DEF L!Job
<1>1. ASSUME NEW g \in L!Handler, g # h
      PROVE  /\ copy'[g].version <= job'.version
             /\ copy'[g].version = job'.version => copy'[g] = job'
  <2>1. copy'[g] = copy[g] /\ copy[g].version \in Nat
    BY <1>0, <1>1 DEF Moves, L!Job
  <2>2. copy[g].version <= job.version /\ (copy[g].version = job.version => copy[g] = job)
    BY DEF LoadInv, Versions
  <2> QED
    BY <1>0, <2>1, <2>2 DEF Moves
<1>2. copy'[h].version <= job'.version /\ (copy'[h].version = job'.version => copy'[h] = job')
  <2>1. copy[h].version <= job.version /\ (copy[h].version = job.version => copy[h] = job)
    BY DEF LoadInv, Versions
  <2>2. CASE copy'[h] = job'
    BY <1>0, <2>2 DEF Moves
  <2>3. CASE copy'[h] # job'
    BY <2>1, <2>3 DEF Moves
  <2> QED
    BY <2>2, <2>3
<1> QED
  BY <1>1, <1>2 DEF Versions

\* Row numbers are numbers, and fall when rows leave the result of the query.
LEMMA RowsFall ==
    ASSUME LoadInv, L!TypeOK', migrated \subseteq migrated', NEW a \in L!Account
    PROVE  /\ L!RowNumber(a) \in Nat /\ L!RowNumber(a)' \in Nat
           /\ L!RowNumber(a)' <= L!RowNumber(a)
<1> DEFINE before == {b \in L!Unmigrated : b < a}
           after  == {b \in L!Unmigrated' : b < a}
<1>1. before \subseteq L!Account /\ after \subseteq before
  BY DEF L!Unmigrated
<1>2. L!RowNumber(a) = Cardinality(before) /\ L!RowNumber(a)' = Cardinality(after)
  BY SameCardinality DEF L!RowNumber
<1>3. IsFiniteSet(before) /\ Cardinality(before) \in Nat /\ Cardinality(after) \in Nat
  BY <1>1, AccountsFinite
<1>4. Cardinality(after) <= Cardinality(before)
  BY <1>1, <1>3, FS_Subset
<1> QED
  BY <1>2, <1>3, <1>4

\* So does the room for rows to come.
LEMMA RowsGrow ==
    ASSUME LoadInv, L!TypeOK', migrated \subseteq migrated'
    PROVE  /\ Cardinality(migrated) \in Nat /\ Cardinality(migrated') \in Nat
           /\ Cardinality(migrated) <= Cardinality(migrated')
<1>1. migrated \subseteq L!Account /\ migrated' \subseteq L!Account
  BY DEF LoadInv, L!TypeOK
<1>2. IsFiniteSet(migrated') /\ Cardinality(migrated) \in Nat /\ Cardinality(migrated') \in Nat
  BY <1>1, AccountsFinite
<1> QED
  BY <1>2, FS_Subset

\* What was behind an offset stays behind it.
LEMMA SeenStaysBefore ==
    ASSUME LoadInv, L!TypeOK', migrated \subseteq migrated', NEW w \in Worker, NEW limit \in Nat,
           NEW seen \in SUBSET L!Account,
           \A a \in seen : a \in migrated \/ L!RowNumber(a) < limit
    PROVE  \A a \in seen : a \in migrated' \/ L!RowNumber(a)' < limit
<1> SUFFICES ASSUME NEW a \in seen, a \notin migrated'
             PROVE  L!RowNumber(a)' < limit
  OBVIOUS
<1>1. L!RowNumber(a) < limit /\ a \in L!Account
  OBVIOUS
<1> QED
  BY <1>1, RowsFall

\* A worker's part of the invariant is not touched by the steps of the others.
LEMMA OthersHeld ==
    ASSUME LoadInv, L!TypeOK', NEW h \in L!Handler, Moves(h), NEW w \in Worker, w # h
    PROVE  Held(w)'
<1>0. /\ copy \in [L!Handler -> L!Job] /\ job \in L!Job /\ job.version \in Nat /\ job.ok \in Nat
      /\ run \in [Worker -> RunRecord] /\ w \in L!Handler /\ BatchSize \in Nat
  BY LoadNumbers DEF L!Job
<1>1. /\ handlerPc'[w] = handlerPc[w] /\ copy'[w] = copy[w] /\ run'[w] = run[w]
      /\ inSF \subseteq inSF' /\ migrated \subseteq migrated' /\ dryRun' = dryRun
  BY <1>0 DEF Moves
<1>2. Held(w)
  BY DEF LoadInv
<1>3. OpenRecord(w)' /\ StillRunning(w)' /\ FreshStart(w)'
  BY <1>1, <1>2 DEF Held, OpenRecord, StillRunning, FreshStart
<1>4. BatchMarked(w)'
  BY <1>1, <1>2 DEF Held, BatchMarked
<1>5. RowsBehind(w)'
  <2> SUFFICES ASSUME handlerPc[w] \in Loop, copy[w].version = job'.version
               PROVE  RowsBehind(w)'
    BY <1>1 DEF RowsBehind
  <2>1. copy[w].version <= job.version
    BY <1>0 DEF LoadInv, Versions
  <2>2. job' = job
    BY <1>0, <2>1 DEF Moves
  <2>3. RowsBehind(w)
    BY <1>2 DEF Held
  <2>4. run[w].ok \in Nat /\ Cardinality(run[w].unsaved) \in Nat
    BY <1>0, AccountsFinite DEF RunRecord
  <2>5. /\ Cardinality(migrated) \in Nat /\ Cardinality(migrated') \in Nat
        /\ Cardinality(migrated) <= Cardinality(migrated')
    BY <1>1, RowsGrow
  <2>6. CASE handlerPc[w] = "save"
    <3>1. job.ok + run[w].ok <= Cardinality(migrated) + Cardinality(run[w].unsaved)
      BY <2>2, <2>3, <2>6 DEF RowsBehind
    <3>2. job.ok + run[w].ok <= Cardinality(migrated') + Cardinality(run[w].unsaved)
      BY <1>0, <2>4, <2>5, <3>1
    <3> QED
      BY <1>1, <2>2, <2>6, <3>2 DEF RowsBehind
  <2>7. CASE handlerPc[w] # "save"
    <3>1. job.ok + run[w].ok <= Cardinality(migrated)
      BY <2>2, <2>3, <2>7 DEF RowsBehind
    <3>2. job.ok + run[w].ok <= Cardinality(migrated')
      BY <1>0, <2>4, <2>5, <3>1
    <3> QED
      BY <1>1, <2>2, <2>7, <3>2 DEF RowsBehind
  <2> QED
    BY <2>6, <2>7
<1>6. Visited(w)'
  BY <1>1, <1>2 DEF Held, Visited
<1>7. SeenOnce(w)'
  <2>1. /\ run[w].seen \in SUBSET L!Account /\ run[w].offset \in Nat
        /\ run[w].offset + BatchSize \in Nat
    BY <1>0 DEF RunRecord
  <2>2. SeenOnce(w)
    BY <1>2 DEF Held
  <2>3. CASE handlerPc[w] = "fetch"
    <3>1. \A a \in run[w].seen : a \in migrated' \/ L!RowNumber(a)' < run[w].offset
      BY <1>1, <2>1, <2>2, <2>3, SeenStaysBefore DEF SeenOnce, SeenBefore
    <3> QED
      BY <1>1, <2>3, <3>1 DEF SeenOnce, SeenBefore
  <2>4. CASE handlerPc[w] \in {"upsert", "save"}
    <3>1. \A a \in run[w].seen : a \in migrated' \/ L!RowNumber(a)' < run[w].offset + BatchSize
      BY <1>1, <2>1, <2>2, <2>4, SeenStaysBefore DEF SeenOnce, SeenBefore
    <3> QED
      BY <1>1, <2>4, <3>1 DEF SeenOnce, SeenBefore
  <2> QED
    BY <1>1, <2>3, <2>4 DEF SeenOnce
<1>8. Totals(w)'
  BY <1>1, <1>2 DEF Held, Totals
<1> QED
  BY <1>3, <1>4, <1>5, <1>6, <1>7, <1>8 DEF Held

\* A worker that has left the loop without closing its phase has nothing left to hold.
LEMMA LeftHeld ==
    ASSUME NEW w \in Worker, handlerPc'[w] \in {"fail", "failed", "error", "crashed"},
           handlerPc'[w] = "fail" => copy'[w].status = "RUNNING"
    PROVE  Held(w)'
<1>1. OpenRecord(w)' /\ StillRunning(w)' /\ FreshStart(w)' /\ BatchMarked(w)' /\ RowsBehind(w)'
  BY DEF OpenRecord, StillRunning, FreshStart, BatchMarked, RowsBehind, Loop
<1>2. Visited(w)' /\ SeenOnce(w)' /\ Totals(w)'
  BY DEF Visited, SeenOnce, Totals
<1> QED
  BY <1>1, <1>2 DEF Held

\* Before the loop.
LEMMA LoadHeld ==
    ASSUME LoadInv, NEW w \in Worker, L!LoadJob(w, "begin")
    PROVE  Held(w)'
<1>0. /\ handlerPc \in [L!Handler -> L!WorkerPC \union L!Ended] /\ w \in L!Handler
  BY LoadNumbers
<1>1. handlerPc[w] = "load" /\ handlerPc'[w] = "begin" /\ run' = run
  BY <1>0 DEF L!LoadJob, L!Goto
<1>2. FreshStart(w)
  BY DEF LoadInv, Held
<1>3. OpenRecord(w)' /\ StillRunning(w)' /\ FreshStart(w)' /\ BatchMarked(w)' /\ RowsBehind(w)'
  BY <1>1, <1>2 DEF OpenRecord, StillRunning, FreshStart, BatchMarked, RowsBehind, Loop
<1>4. Visited(w)' /\ SeenOnce(w)' /\ Totals(w)'
  BY <1>1 DEF Visited, SeenOnce, Totals
<1> QED
  BY <1>3, <1>4 DEF Held

\* Beginning the phase: nothing is counted yet.
LEMMA BeginHeld ==
    ASSUME LoadInv, NEW w \in Worker, L!Begin(w)
    PROVE  Held(w)'
<1>0. /\ handlerPc \in [L!Handler -> L!WorkerPC \union L!Ended] /\ w \in L!Handler
      /\ copy \in [L!Handler -> L!Job] /\ job \in L!Job /\ copy[w] \in L!Job
      /\ NumAccounts \in Nat /\ migrated \subseteq L!Account
  BY LoadNumbers
<1>1. run' = run /\ run[w] = L!FreshRun /\ migrated' = migrated
  BY DEF L!Begin, LoadInv, Held, FreshStart
<1>2. CASE copy[w].status = "RUNNING"
           /\ L!SaveJob(w, [copy[w] EXCEPT !.open = @ + 1], "fetch", "error")
  <2> DEFINE new == [copy[w] EXCEPT !.open = @ + 1]
  <2>1. /\ new \in L!Job /\ new.version = copy[w].version /\ new.open = copy[w].open + 1
        /\ new.ok = copy[w].ok /\ new.status = "RUNNING"
    BY <1>0, <1>2 DEF L!Job
  <2> HIDE DEF new
  <2>2. L!SaveJob(w, new, "fetch", "error")
    BY <1>2 DEF new
  <2>3. \/ /\ copy[w] = job /\ handlerPc'[w] = "fetch"
           /\ job' = [new EXCEPT !.version = @ + 1] /\ copy'[w] = job'
        \/ handlerPc'[w] = "error"
    BY <1>0, <2>1, <2>2, SaveMoves
  <2>4. CASE handlerPc'[w] = "error"
    BY <2>4, LeftHeld
  <2>5. CASE copy[w] = job /\ handlerPc'[w] = "fetch"
             /\ job' = [new EXCEPT !.version = @ + 1] /\ copy'[w] = job'
    <3>1. job'.open = job.open + 1 /\ job'.status = "RUNNING" /\ job'.ok = job.ok
      BY <1>0, <2>1, <2>5 DEF L!Job
    <3>2. OpenRecord(w)' /\ StillRunning(w)' /\ FreshStart(w)' /\ BatchMarked(w)'
      BY <1>0, <2>5, <3>1 DEF OpenRecord, StillRunning, FreshStart, BatchMarked, L!Job
    <3>3. /\ run'[w].ok = 0 /\ run'[w].bad = 0 /\ run'[w].seen = {} /\ run'[w].offset = 0
      BY <1>1 DEF L!FreshRun
    <3>4. RowsBehind(w)'
      <4>1. job.ok <= Cardinality(migrated) /\ job.ok \in Nat
        BY <1>0, SameCardinality DEF LoadInv, L!SuccessesBackedByRows, L!Job
      <4>2. job'.ok + run'[w].ok <= Cardinality(migrated')
        BY <1>1, <3>1, <3>3, <4>1
      <4> QED
        BY <2>5, <4>2 DEF RowsBehind
    <3>5. Visited(w)' /\ SeenOnce(w)'
      BY <1>0, <2>5, <3>3 DEF Visited, SeenOnce, SeenBefore, L!Account
    <3>6. Totals(w)'
      BY <2>5, <3>3, FS_EmptySet DEF Totals
    <3> QED
      BY <3>2, <3>4, <3>5, <3>6 DEF Held
  <2> QED
    BY <2>3, <2>4, <2>5
<1>3. CASE L!Goto(w, "error")
  <2>1. handlerPc'[w] = "error"
    BY <1>0, <1>3 DEF L!Goto
  <2> QED
    BY <2>1, LeftHeld
<1> QED
  BY <1>2, <1>3 DEF L!Begin

\* A page has not been seen before, and in a dry run it follows the last one.
LEMMA FetchHeld ==
    ASSUME LoadInv, NEW w \in Worker, L!Fetch(w)
    PROVE  Held(w)'
<1>0. /\ handlerPc \in [L!Handler -> L!WorkerPC \union L!Ended] /\ w \in L!Handler
      /\ copy \in [L!Handler -> L!Job] /\ run \in [Worker -> RunRecord] /\ dryRun \in BOOLEAN
      /\ NumAccounts \in Nat /\ BatchSize \in Nat \ {0} /\ migrated \subseteq L!Account
  BY LoadNumbers
<1>1. /\ run[w].offset \in Nat /\ run[w].ok \in Nat /\ run[w].bad \in Nat
      /\ run[w].seen \subseteq L!Account
  BY <1>0 DEF RunRecord
<1>2. /\ handlerPc[w] = "fetch" /\ handlerPc'[w] \in {"complete", "upsert"}
      /\ UNCHANGED <<job, copy, inSF, migrated, dryRun>>
  BY <1>0 DEF L!Fetch, L!Goto
<1>3. Held(w)
  BY DEF LoadInv
<1> DEFINE shown == L!Page(run[w].offset)
<1>4. /\ shown \subseteq L!Account
      /\ \A a \in shown : a \notin migrated /\ L!RowNumber(a) >= run[w].offset
                         /\ L!RowNumber(a) < run[w].offset + BatchSize /\ L!RowNumber(a) \in Nat
  <2>1. \A a \in shown : L!RowNumber(a) \in run[w].offset .. run[w].offset + BatchSize - 1
    BY DEF L!Page
  <2>2. shown \subseteq L!Account /\ \A a \in shown : a \notin migrated
    BY DEF L!Page, L!Unmigrated
  <2> QED
    BY <1>0, <1>1, <2>1, <2>2
<1>5. OpenRecord(w)' /\ StillRunning(w)' /\ FreshStart(w)' /\ BatchMarked(w)'
  BY <1>2, <1>3 DEF Held, OpenRecord, StillRunning, FreshStart, BatchMarked, Loop
<1>6. ASSUME dryRun
      PROVE  /\ \A a \in L!Account : a <= run[w].offset => a \in run[w].seen
             /\ \A a \in L!Account :
                   a > run[w].offset /\ a <= run[w].offset + BatchSize => a \in shown
  <2>1. \A a \in L!Account : a <= run[w].offset => a \in run[w].seen
    BY <1>2, <1>3, <1>6 DEF Held, Visited
  <2>2. migrated = {} /\ L!Unmigrated = L!Account
    BY <1>6 DEF LoadInv, L!Unmigrated
  <2>3. ASSUME NEW a \in L!Account, a > run[w].offset, a <= run[w].offset + BatchSize
        PROVE  a \in shown
    <3>1. {b \in L!Unmigrated : b < a} = 1..(a - 1) /\ a - 1 \in Nat /\ a \in Nat
      BY <1>0, <2>2 DEF L!Account
    <3>2. L!RowNumber(a) = a - 1
      <4>1. Cardinality(1..(a - 1)) = a - 1
        BY <3>1, FS_Interval
      <4> QED
        BY <3>1, <4>1, SameCardinality DEF L!RowNumber
    <3>3. a - 1 \in run[w].offset .. run[w].offset + BatchSize - 1
      BY <1>0, <1>1, <2>3, <3>1
    <3> QED
      BY <2>2, <3>2, <3>3 DEF L!Page
  <2> QED
    BY <2>1, <2>3
<1>7. CASE shown = {} /\ handlerPc'[w] = "complete" /\ run' = run
  <2>1. RowsBehind(w)' /\ SeenOnce(w)' /\ Totals(w)'
    BY <1>2, <1>3, <1>7 DEF Held, RowsBehind, SeenOnce, Totals, Loop
  <2>2. Visited(w)'
    <3> SUFFICES ASSUME dryRun PROVE run[w].seen = L!Account
      BY <1>2, <1>7 DEF Visited
    <3>1. NumAccounts <= run[w].offset
      <4> SUFFICES ASSUME run[w].offset < NumAccounts PROVE FALSE
        BY <1>0, <1>1
      <4>1. run[w].offset + 1 \in L!Account
        BY <1>0, <1>1 DEF L!Account
      <4>2. run[w].offset + 1 > run[w].offset /\ run[w].offset + 1 <= run[w].offset + BatchSize
        BY <1>0, <1>1
      <4> QED
        BY <1>6, <1>7, <4>1, <4>2
    <3>2. \A a \in L!Account : a \in run[w].seen
      BY <1>0, <1>1, <1>6, <3>1 DEF L!Account
    <3> QED
      BY <1>1, <3>2
  <2> QED
    BY <1>5, <2>1, <2>2 DEF Held
<1>8. CASE /\ handlerPc'[w] = "upsert"
           /\ run' = [run EXCEPT ![w].batch = shown, ![w].seen = @ \union shown,
                                 ![w].more = L!HasMore(run[w].offset)]
  <2>1. /\ run'[w].batch = shown /\ run'[w].seen = run[w].seen \union shown
        /\ run'[w].more = L!HasMore(run[w].offset) /\ run'[w].offset = run[w].offset
        /\ run'[w].ok = run[w].ok /\ run'[w].bad = run[w].bad
    BY <1>0, <1>8 DEF RunRecord
  <2> HIDE DEF shown
  <2>2. RowsBehind(w)'
    BY <1>2, <1>3, <1>8, <2>1 DEF Held, RowsBehind, Loop
  <2>3. Visited(w)'
    <3> SUFFICES ASSUME dryRun
                 PROVE  /\ \A a \in L!Account : a <= run[w].offset + BatchSize => a \in run'[w].seen
                        /\ run'[w].more = (run[w].offset + BatchSize < NumAccounts)
      BY <1>2, <1>8, <2>1 DEF Visited
    <3>1. \A a \in L!Account : a <= run[w].offset + BatchSize => a \in run'[w].seen
      BY <1>0, <1>1, <1>6, <2>1 DEF L!Account
    <3>2. Cardinality(L!Unmigrated) = NumAccounts
      <4>1. L!Unmigrated = 1..NumAccounts
        BY DEF LoadInv, L!Unmigrated, L!Account
      <4> QED
        BY <1>0, <4>1, FS_Interval
    <3> QED
      BY <2>1, <3>1, <3>2, SameCardinality DEF L!HasMore
  <2>4. SeenOnce(w)'
    <3>1. ASSUME NEW a \in run'[w].seen
          PROVE  a \in migrated \/ L!RowNumber(a) < run[w].offset + BatchSize
      <4>1. CASE a \in shown
        BY <1>4, <4>1
      <4>2. CASE a \in run[w].seen
        <5>1. (a \in migrated \/ L!RowNumber(a) < run[w].offset) /\ a \in L!Account
          BY <1>1, <1>2, <1>3, <4>2 DEF Held, SeenOnce, SeenBefore
        <5>2. L!RowNumber(a) \in Nat
          <6>1. {b \in L!Unmigrated : b < a} \subseteq L!Account
            BY DEF L!Unmigrated
          <6> QED
            BY <6>1, AccountsFinite, SameCardinality DEF L!RowNumber
        <5> QED
          BY <1>0, <1>1, <5>1, <5>2
      <4> QED
        BY <2>1, <4>1, <4>2
    <3>2. \A a : L!RowNumber(a)' = L!RowNumber(a)
      BY <1>2 DEF L!RowNumber, L!Unmigrated
    <3> QED
      BY <1>2, <1>8, <2>1, <3>1, <3>2 DEF SeenOnce, SeenBefore
  <2>5. Totals(w)'
    <3> SUFFICES ASSUME ~dryRun
                 PROVE  run[w].ok + run[w].bad + Cardinality(shown) = Cardinality(run'[w].seen)
      BY <1>2, <1>8, <2>1 DEF Totals
    <3>1. run[w].ok + run[w].bad = Cardinality(run[w].seen)
      BY <1>2, <1>3 DEF Held, Totals
    <3>2. shown \intersect run[w].seen = {}
      <4> SUFFICES ASSUME NEW a \in shown, a \in run[w].seen PROVE FALSE
        OBVIOUS
      <4>1. a \in migrated \/ L!RowNumber(a) < run[w].offset
        BY <1>2, <1>3 DEF Held, SeenOnce, SeenBefore
      <4> QED
        BY <1>1, <1>4, <4>1
    <3>3. /\ IsFiniteSet(shown) /\ IsFiniteSet(run[w].seen)
          /\ Cardinality(shown) \in Nat /\ Cardinality(run[w].seen) \in Nat
      BY <1>1, <1>4, AccountsFinite
    <3>4. Cardinality(run[w].seen \union shown) = Cardinality(run[w].seen) + Cardinality(shown)
      BY <3>2, <3>3, TwoParts
    <3> QED
      BY <2>1, <3>1, <3>4
  <2> QED
    BY <1>5, <2>2, <2>3, <2>4, <2>5 DEF Held
<1> QED
  <2>1. \/ shown = {} /\ L!Goto(w, "complete") /\ run' = run
        \/ /\ L!Goto(w, "upsert")
           /\ run' = [run EXCEPT ![w].batch = shown, ![w].seen = @ \union shown,
                                 ![w].more = L!HasMore(run[w].offset)]
    BY DEF L!Fetch
  <2> HIDE DEF shown
  <2> QED
    BY <1>0, <1>7, <1>8, <2>1 DEF L!Goto

\* The batch at hand is counted, however Salesforce answers.
LEMMA BatchHeld ==
    ASSUME LoadInv, NEW w \in Worker, handlerPc[w] = "upsert", handlerPc'[w] = "save",
           UNCHANGED <<job, copy, migrated, dryRun>>,
           run'[w].offset = run[w].offset, run'[w].more = run[w].more,
           run'[w].seen = run[w].seen, run'[w].unsaved = run'[w].marked,
           run'[w].marked \subseteq run[w].batch, run'[w].marked \subseteq inSF' \ Suspended,
           dryRun => run'[w].marked = {},
           run'[w].ok = run[w].ok + Cardinality(run'[w].marked),
           ~dryRun => run'[w].bad = run[w].bad + Cardinality(run[w].batch \ run'[w].marked)
    PROVE  Held(w)'
<1>0. /\ copy \in [L!Handler -> L!Job] /\ run \in [Worker -> RunRecord] /\ w \in L!Handler
      /\ job.ok \in Nat /\ migrated \subseteq L!Account
  BY LoadNumbers DEF L!Job
<1>1. /\ run[w].ok \in Nat /\ run[w].bad \in Nat /\ run[w].batch \subseteq L!Account
      /\ run[w].seen \subseteq L!Account
  BY <1>0 DEF RunRecord
<1>2. Held(w)
  BY DEF LoadInv
<1>3. OpenRecord(w)' /\ StillRunning(w)' /\ FreshStart(w)' /\ BatchMarked(w)'
  BY <1>2 DEF Held, OpenRecord, StillRunning, FreshStart, BatchMarked, Loop
<1>4. /\ Cardinality(run'[w].marked) \in Nat
      /\ Cardinality(run[w].batch \ run'[w].marked) \in Nat
      /\ IsFiniteSet(run'[w].marked) /\ IsFiniteSet(run[w].batch \ run'[w].marked)
      /\ Cardinality(migrated) \in Nat /\ Cardinality(run[w].seen) \in Nat
  <2>1. run'[w].marked \subseteq L!Account /\ run[w].batch \ run'[w].marked \subseteq L!Account
    BY <1>1
  <2> QED
    BY <1>0, <1>1, <2>1, AccountsFinite
<1>5. RowsBehind(w)'
  <2> SUFFICES ASSUME copy[w].version = job.version
               PROVE  job.ok + run'[w].ok <= Cardinality(migrated) + Cardinality(run'[w].unsaved)
    BY DEF RowsBehind
  <2>1. job.ok + run[w].ok <= Cardinality(migrated)
    BY <1>2 DEF Held, RowsBehind, Loop
  <2>2. Cardinality(run'[w].unsaved) = Cardinality(run'[w].marked)
    OBVIOUS
  <2> QED
    BY <1>0, <1>1, <1>4, <2>1, <2>2
<1>6. Visited(w)'
  BY <1>2 DEF Held, Visited
<1>7. SeenOnce(w)'
  <2>1. \A a : L!RowNumber(a)' = L!RowNumber(a)
    BY DEF L!RowNumber, L!Unmigrated
  <2> QED
    BY <1>2, <2>1 DEF Held, SeenOnce, SeenBefore
<1>8. Totals(w)'
  <2> SUFFICES ASSUME ~dryRun
               PROVE  run'[w].ok + run'[w].bad = Cardinality(run[w].seen)
    BY DEF Totals
  <2>1. run[w].ok + run[w].bad + Cardinality(run[w].batch) = Cardinality(run[w].seen)
    BY <1>2 DEF Held, Totals
  <2>2. Cardinality(run[w].batch)
           = Cardinality(run'[w].marked) + Cardinality(run[w].batch \ run'[w].marked)
    <3>1. /\ run'[w].marked \union (run[w].batch \ run'[w].marked) = run[w].batch
          /\ run'[w].marked \intersect (run[w].batch \ run'[w].marked) = {}
      OBVIOUS
    <3> DEFINE one == run'[w].marked
               other == run[w].batch \ run'[w].marked
    <3> HIDE DEF one, other
    <3>2. Cardinality(one \union other) = Cardinality(one) + Cardinality(other)
      BY <1>4, <3>1, TwoParts DEF one, other
    <3> QED
      BY <3>1, <3>2 DEF one, other
  <2> QED
    BY <1>1, <1>4, <2>1, <2>2
<1> QED
  BY <1>3, <1>5, <1>6, <1>7, <1>8 DEF Held

\* The three answers of upsert_accounts_bulk.
LEMMA UpsertHeld ==
    ASSUME LoadInv, NEW w \in Worker, L!Upsert(w) \/ L!UpsertApiError(w) \/ L!UpsertDryRun(w)
    PROVE  Held(w)'
<1>0. /\ handlerPc \in [L!Handler -> L!WorkerPC \union L!Ended] /\ w \in L!Handler
      /\ run \in [Worker -> RunRecord] /\ run[w] \in RunRecord
  BY LoadNumbers
<1>1. /\ handlerPc[w] = "upsert" /\ handlerPc'[w] = "save"
      /\ UNCHANGED <<job, copy, migrated, dryRun>>
  BY <1>0 DEF L!Upsert, L!UpsertApiError, L!UpsertDryRun, L!Goto
<1>2. CASE L!Upsert(w)
  <2>1. PICK succeeded \in SUBSET run[w].batch : Took(w, succeeded)
    BY <1>2, SameCardinality DEF L!Upsert, Took
  <2> DEFINE marked == succeeded \ Suspended
  <2>2. /\ run'[w].offset = run[w].offset /\ run'[w].more = run[w].more
        /\ run'[w].seen = run[w].seen /\ run'[w].unsaved = marked /\ run'[w].marked = marked
        /\ run'[w].ok = run[w].ok + Cardinality(marked)
        /\ run'[w].bad = run[w].bad + Cardinality(run[w].batch \ marked)
    BY <1>0, <2>1 DEF RunRecord, Took
  <2>3. marked \subseteq run[w].batch /\ marked \subseteq inSF' \ Suspended
    BY <2>1 DEF Took
  <2>4. ~dryRun
    BY <1>2 DEF L!Upsert
  <2> HIDE DEF marked
  <2> QED
    BY <1>1, <2>2, <2>3, <2>4, BatchHeld
<1>3. CASE L!UpsertApiError(w)
  <2>1. /\ run'[w].offset = run[w].offset /\ run'[w].more = run[w].more
        /\ run'[w].seen = run[w].seen /\ run'[w].unsaved = {} /\ run'[w].marked = {}
        /\ run'[w].ok = run[w].ok
        /\ run'[w].bad = run[w].bad + Cardinality(run[w].batch) /\ run[w].ok \in Nat
    BY <1>0, <1>3, SameCardinality DEF RunRecord, L!UpsertApiError
  <2>2. run[w].batch \ {} = run[w].batch /\ run[w].ok = run[w].ok + Cardinality({})
    BY <2>1, FS_EmptySet
  <2> QED
    BY <1>1, <1>3, <2>1, <2>2, BatchHeld DEF L!UpsertApiError
<1>4. CASE L!UpsertDryRun(w)
  <2>1. /\ run'[w].offset = run[w].offset /\ run'[w].more = run[w].more
        /\ run'[w].seen = run[w].seen /\ run'[w].unsaved = {} /\ run'[w].marked = {}
        /\ run'[w].ok = run[w].ok /\ run[w].ok \in Nat
    BY <1>0, <1>4 DEF RunRecord, L!UpsertDryRun
  <2>2. run[w].ok = run[w].ok + Cardinality({}) /\ dryRun
    BY <1>4, <2>1, FS_EmptySet DEF L!UpsertDryRun
  <2> QED
    BY <1>1, <2>1, <2>2, BatchHeld
<1> QED
  BY <1>2, <1>3, <1>4

\* One marked account is stored: what was to be becomes what is.
LEMMA SaveHeld ==
    ASSUME LoadInv, L!TypeOK', NEW w \in Worker, L!SaveNext(w)
    PROVE  Held(w)' /\ (dryRun' => migrated' = {}) /\ L!NoPhantomMigration'
<1>0. /\ handlerPc \in [L!Handler -> L!WorkerPC \union L!Ended] /\ w \in L!Handler
      /\ copy \in [L!Handler -> L!Job] /\ run \in [Worker -> RunRecord] /\ run[w] \in RunRecord
      /\ job.ok \in Nat /\ migrated \subseteq L!Account /\ BatchSize \in Nat
  BY LoadNumbers DEF L!Job
<1>1. /\ run[w].ok \in Nat /\ run[w].offset \in Nat /\ run[w].unsaved \subseteq L!Account
      /\ run[w].seen \subseteq L!Account
  BY <1>0 DEF RunRecord
<1>2. Held(w) /\ L!NoPhantomMigration /\ (dryRun => migrated = {})
  BY DEF LoadInv
<1> DEFINE a == L!Min(run[w].unsaved)
<1>3. /\ handlerPc[w] = "save" /\ UNCHANGED <<job, copy, inSF, published, dryRun>>
      /\ L!SaveRow(w, a)
  BY DEF L!SaveNext
<1>4. a \in run[w].unsaved
  <2>1. run[w].unsaved # {} /\ run[w].unsaved \subseteq Nat
    BY <1>1 DEF L!SaveNext, L!Account
  <2> QED
    BY <2>1, LeastIsOne
<1>5. /\ a \in inSF \ Suspended /\ ~dryRun /\ a \in run[w].marked
  BY <1>2, <1>3, <1>4 DEF Held, BatchMarked
<1> HIDE DEF a
<1>6. CASE a \in migrated /\ L!Goto(w, "fail") /\ UNCHANGED <<run, migrated>>
  <2>1. handlerPc'[w] = "fail" /\ copy'[w].status = "RUNNING"
    BY <1>0, <1>2, <1>3, <1>6 DEF L!Goto, Held, StillRunning, Loop
  <2> QED
    BY <1>2, <1>3, <1>6, <2>1, LeftHeld DEF L!NoPhantomMigration
<1>7. CASE /\ a \notin migrated /\ migrated' = migrated \union {a}
           /\ run' = [run EXCEPT ![w].unsaved = @ \ {a}] /\ UNCHANGED handlerPc
  <2>1. /\ run'[w].unsaved = run[w].unsaved \ {a} /\ run'[w].marked = run[w].marked
        /\ run'[w].ok = run[w].ok /\ run'[w].bad = run[w].bad /\ run'[w].seen = run[w].seen
        /\ run'[w].offset = run[w].offset /\ run'[w].more = run[w].more
    BY <1>0, <1>7 DEF RunRecord
  <2>2. OpenRecord(w)' /\ StillRunning(w)' /\ FreshStart(w)' /\ BatchMarked(w)'
    BY <1>2, <1>3, <1>5, <1>7, <2>1
       DEF Held, OpenRecord, StillRunning, FreshStart, BatchMarked
  <2>3. RowsBehind(w)'
    <3> SUFFICES ASSUME copy[w].version = job.version
                 PROVE  job.ok + run[w].ok <= Cardinality(migrated') + Cardinality(run'[w].unsaved)
      BY <1>3, <1>7, <2>1 DEF RowsBehind
    <3>1. job.ok + run[w].ok <= Cardinality(migrated) + Cardinality(run[w].unsaved)
      BY <1>2, <1>3 DEF Held, RowsBehind, Loop
    <3>2. /\ IsFiniteSet(migrated) /\ Cardinality(migrated) \in Nat
          /\ IsFiniteSet(run[w].unsaved) /\ Cardinality(run[w].unsaved) \in Nat
      BY <1>0, <1>1, AccountsFinite
    <3>3. Cardinality(migrated') = Cardinality(migrated) + 1
      BY <1>7, <3>2, FS_AddElement
    <3>4. Cardinality(run'[w].unsaved) = Cardinality(run[w].unsaved) - 1
      BY <1>4, <2>1, <3>2, FS_RemoveElement
    <3> QED
      BY <1>0, <1>1, <3>1, <3>2, <3>3, <3>4
  <2>4. Visited(w)' /\ Totals(w)'
    BY <1>2, <1>3, <1>7, <2>1 DEF Held, Visited, Totals
  <2>5. SeenOnce(w)'
    <3>1. run[w].offset + BatchSize \in Nat /\ run[w].seen \in SUBSET L!Account
      BY <1>0, <1>1
    <3>2. \A b \in run[w].seen : b \in migrated \/ L!RowNumber(b) < run[w].offset + BatchSize
      BY <1>2, <1>3 DEF Held, SeenOnce, SeenBefore
    <3>3. migrated \subseteq migrated'
      BY <1>7
    <3>4. \A b \in run[w].seen : b \in migrated' \/ L!RowNumber(b)' < run[w].offset + BatchSize
      BY <3>1, <3>2, <3>3, SeenStaysBefore
    <3> QED
      BY <1>3, <1>7, <2>1, <3>4 DEF SeenOnce, SeenBefore
  <2>6. L!NoPhantomMigration'
    BY <1>2, <1>3, <1>5, <1>7 DEF L!NoPhantomMigration
  <2> QED
    BY <1>3, <1>5, <2>2, <2>3, <2>4, <2>5, <2>6 DEF Held
<1> QED
  BY <1>3, <1>6, <1>7 DEF L!SaveRow

\* A stored batch: the loop goes on behind it, or has seen everything.
LEMMA PublishHeld ==
    ASSUME LoadInv, NEW w \in Worker, L!Publish(w)
    PROVE  Held(w)' /\ L!NoPhantomMigration'
<1>0. /\ handlerPc \in [L!Handler -> L!WorkerPC \union L!Ended] /\ w \in L!Handler
      /\ run \in [Worker -> RunRecord] /\ run[w] \in RunRecord
      /\ NumAccounts \in Nat /\ BatchSize \in Nat \ {0} /\ migrated \subseteq L!Account
      /\ job.ok \in Nat
  BY LoadNumbers DEF L!Job
<1>1. /\ run[w].ok \in Nat /\ run[w].offset \in Nat /\ run[w].more \in BOOLEAN
      /\ run[w].seen \subseteq L!Account
  BY <1>0 DEF RunRecord
<1>2. Held(w) /\ L!NoPhantomMigration
  BY DEF LoadInv
<1>3. /\ handlerPc[w] = "save" /\ run[w].unsaved = {}
      /\ handlerPc'[w] = (IF run[w].more THEN "fetch" ELSE "complete")
      /\ UNCHANGED <<job, copy, inSF, migrated, dryRun>>
      /\ published' = published \union run[w].marked
  BY <1>0 DEF L!Publish, L!Goto
<1>4. /\ run'[w].offset = run[w].offset + BatchSize /\ run'[w].ok = run[w].ok
      /\ run'[w].bad = run[w].bad /\ run'[w].seen = run[w].seen
  BY <1>0 DEF L!Publish, L!NextOffset, RunRecord
<1>5. OpenRecord(w)' /\ StillRunning(w)' /\ FreshStart(w)' /\ BatchMarked(w)'
  BY <1>2, <1>3 DEF Held, OpenRecord, StillRunning, FreshStart, BatchMarked, Loop
<1>6. RowsBehind(w)'
  <2> SUFFICES ASSUME copy[w].version = job.version
               PROVE  job.ok + run[w].ok <= Cardinality(migrated)
    BY <1>3, <1>4 DEF RowsBehind
  <2>1. job.ok + run[w].ok <= Cardinality(migrated) + Cardinality(run[w].unsaved)
    BY <1>2, <1>3 DEF Held, RowsBehind, Loop
  <2>2. Cardinality(run[w].unsaved) = 0 /\ Cardinality(migrated) \in Nat
    BY <1>0, <1>3, FS_EmptySet, AccountsFinite
  <2> QED
    BY <1>0, <1>1, <2>1, <2>2
<1>7. Visited(w)'
  <2>1. CASE ~dryRun
    BY <1>3, <2>1 DEF Visited
  <2>2. CASE dryRun
    <3>1. /\ \A a \in L!Account : a <= run[w].offset + BatchSize => a \in run[w].seen
          /\ run[w].more = (run[w].offset + BatchSize < NumAccounts)
      BY <1>2, <1>3, <2>2 DEF Held, Visited
    <3>2. CASE run[w].more
      BY <1>3, <1>4, <3>1, <3>2 DEF Visited
    <3>3. CASE ~run[w].more
      <4>1. NumAccounts <= run[w].offset + BatchSize
        <5>1. ~(run[w].offset + BatchSize < NumAccounts)
          BY <3>1, <3>3, Zenon
        <5> QED
          BY <1>0, <1>1, <5>1
      <4>2. \A a \in L!Account : a \in run[w].seen
        BY <1>0, <1>1, <3>1, <4>1 DEF L!Account
      <4>3. run[w].seen = L!Account
        BY <1>1, <4>2
      <4> QED
        BY <1>3, <1>4, <3>3, <4>3 DEF Visited
    <3> QED
      BY <3>2, <3>3
  <2> QED
    BY <2>1, <2>2
<1>8. SeenOnce(w)'
  <2>1. \A a : L!RowNumber(a)' = L!RowNumber(a)
    BY <1>3 DEF L!RowNumber, L!Unmigrated
  <2>2. SeenBefore(w, run[w].offset + BatchSize)
    BY <1>2, <1>3 DEF Held, SeenOnce
  <2> QED
    BY <1>3, <1>4, <2>1, <2>2 DEF SeenOnce, SeenBefore
<1>9. Totals(w)'
  BY <1>2, <1>3, <1>4 DEF Held, Totals
<1>10. L!NoPhantomMigration'
  BY <1>2, <1>3 DEF L!NoPhantomMigration, Held, BatchMarked
<1> QED
  BY <1>5, <1>6, <1>7, <1>8, <1>9, <1>10 DEF Held

\* Steps that close no phase leave the counters of the job and the set of those who have.
LEMMA NothingFinished ==
    ASSUME LoadInv, NEW h \in L!Handler, Moves(h),
           h \in Worker => handlerPc[h] # "done" /\ handlerPc'[h] # "done",
           job'.ok = job.ok, job'.bad = job.bad
    PROVE  FinishedCount'
<1>1. dryRun' = dryRun
  BY DEF Moves
<1>2. Worker \subseteq L!Handler
  BY LoadNumbers
<1>3. ASSUME NEW g \in Worker, NEW a
      PROVE  handlerPc'[g] = "done" /\ a \in run'[g].seen
                <=> handlerPc[g] = "done" /\ a \in run[g].seen
  BY <1>2 DEF Moves
<1>4. Finished' = Finished
  BY <1>3 DEF Finished
<1> QED
  BY <1>1, <1>4 DEF LoadInv, FinishedCount

\* A phase is closed by the save that counts what its worker has seen.
LEMMA CompleteKept ==
    ASSUME LoadInv, NEW w \in Worker, L!CompletePhase(w)
    PROVE  /\ Held(w)' /\ FinishedCount' /\ L!SuccessesBackedByRows'
           /\ job' # job => job.status = "RUNNING"
<1>0. /\ handlerPc \in [L!Handler -> L!WorkerPC \union L!Ended] /\ w \in L!Handler
      /\ copy \in [L!Handler -> L!Job] /\ copy[w] \in L!Job /\ job \in L!Job
      /\ run \in [Worker -> RunRecord] /\ run[w] \in RunRecord /\ dryRun \in BOOLEAN
      /\ migrated \subseteq L!Account
  BY LoadNumbers
<1>1. /\ run[w].ok \in Nat /\ run[w].bad \in Nat /\ run[w].seen \subseteq L!Account
      /\ copy[w].open \in Nat /\ copy[w].closed \in Nat /\ copy[w].version \in Nat
      /\ copy[w].ok \in Nat /\ copy[w].bad \in Nat
  BY <1>0 DEF RunRecord, L!Job
<1>2. Held(w) /\ FinishedCount /\ L!SuccessesBackedByRows
  BY DEF LoadInv
<1>3. handlerPc[w] = "complete" /\ UNCHANGED <<run, inSF, migrated, dryRun>>
  BY DEF L!CompletePhase
<1> DEFINE closed == [copy[w] EXCEPT !.open = @ - 1, !.closed = @ + 1,
                                     !.ok = @ + run[w].ok, !.bad = @ + run[w].bad]
<1>4. PICK new \in {closed, [closed EXCEPT !.status = "FAILED"]} :
         L!SaveJob(w, new, "done", "error")
  BY DEF L!CompletePhase
<1>5. /\ new \in L!Job /\ new.version = copy[w].version
      /\ new.ok = copy[w].ok + run[w].ok /\ new.bad = copy[w].bad + run[w].bad
  <2>1. copy[w].open >= 1
    BY <1>2, <1>3 DEF Held, OpenRecord, Loop
  <2>2. /\ copy[w].open - 1 \in Nat /\ copy[w].closed + 1 \in Nat
        /\ copy[w].ok + run[w].ok \in Nat /\ copy[w].bad + run[w].bad \in Nat
    BY <1>1, <2>1
  <2>3. /\ closed \in L!Job /\ closed.version = copy[w].version
        /\ closed.ok = copy[w].ok + run[w].ok /\ closed.bad = copy[w].bad + run[w].bad
    BY <1>0, <2>2 DEF L!Job
  <2> HIDE DEF closed
  <2> QED
    BY <1>4, <2>3 DEF L!Job
<1> HIDE DEF closed
<1>6. /\ \A g \in L!Handler \ {w} : handlerPc'[g] = handlerPc[g] /\ copy'[g] = copy[g]
      /\ \/ /\ copy[w] = job /\ handlerPc'[w] = "done"
            /\ job' = [new EXCEPT !.version = @ + 1] /\ copy'[w] = job'
         \/ handlerPc'[w] = "error" /\ job' = job
  BY <1>0, <1>4, <1>5, SaveMoves
<1>7. CASE handlerPc'[w] = "error" /\ job' = job
  <2>1. Held(w)'
    BY <1>7, LeftHeld
  <2>2. FinishedCount'
    <3>1. Worker \subseteq L!Handler
      BY LoadNumbers
    <3>2. \A g \in Worker : handlerPc'[g] = "done" <=> handlerPc[g] = "done"
      BY <1>3, <1>6, <1>7, <3>1
    <3>3. Finished' = Finished
      BY <1>3, <3>2 DEF Finished
    <3> QED
      BY <1>2, <1>3, <1>7, <3>3 DEF FinishedCount
  <2> QED
    BY <1>2, <1>3, <1>7, <2>1, <2>2 DEF L!SuccessesBackedByRows
<1>8. CASE /\ copy[w] = job /\ handlerPc'[w] = "done"
           /\ job' = [new EXCEPT !.version = @ + 1] /\ copy'[w] = job'
  <2>1. job'.ok = job.ok + run[w].ok /\ job'.bad = job.bad + run[w].bad
    BY <1>0, <1>5, <1>8 DEF L!Job
  <2>2. OpenRecord(w)' /\ StillRunning(w)' /\ FreshStart(w)' /\ BatchMarked(w)' /\ RowsBehind(w)'
    BY <1>8 DEF OpenRecord, StillRunning, FreshStart, BatchMarked, RowsBehind, Loop
  <2>3. Visited(w)' /\ SeenOnce(w)' /\ Totals(w)'
    BY <1>2, <1>3, <1>8 DEF Held, Visited, SeenOnce, Totals
  <2>4. L!SuccessesBackedByRows'
    <3>1. job.ok + run[w].ok <= Cardinality(migrated)
      BY <1>2, <1>3, <1>8 DEF Held, RowsBehind, Loop
    <3> QED
      BY <1>3, <2>1, <3>1, SameCardinality DEF L!SuccessesBackedByRows
  <2>5. FinishedCount'
    <3> SUFFICES ASSUME ~dryRun
                 PROVE  IsFiniteSet(Finished') /\ job'.ok + job'.bad = Cardinality(Finished')
      BY <1>3 DEF FinishedCount
    <3> DEFINE seen  == run[w].seen
               added == {w} \X seen
    <3>1. Finished' = Finished \union added
      <4>1. Worker \subseteq L!Handler
        BY LoadNumbers
      <4>2. \A g \in Worker : handlerPc'[g] = "done" <=> handlerPc[g] = "done" \/ g = w
        BY <1>6, <1>8, <4>1
      <4>3. Finished' = {v \in Worker \X L!Account :
                            handlerPc'[v[1]] = "done" /\ v[2] \in run[v[1]].seen}
        BY <1>3 DEF Finished
      <4>4. ASSUME NEW v \in Worker \X L!Account
            PROVE  v \in Finished' <=> v \in Finished \union added
        <5>1. v = <<v[1], v[2]>> /\ v[1] \in Worker
          BY <4>4
        <5>2. v \in added <=> v[1] = w /\ v[2] \in seen
          BY <5>1
        <5> QED
          BY <4>2, <4>3, <5>1, <5>2 DEF Finished
      <4>5. added \subseteq Worker \X L!Account
        BY <1>1
      <4>6. Finished \subseteq Worker \X L!Account /\ Finished' \subseteq Worker \X L!Account
        BY <4>3 DEF Finished
      <4> HIDE DEF added
      <4> QED
        BY <4>4, <4>5, <4>6
    <3>2. Finished \intersect added = {}
      BY <1>3 DEF Finished
    <3>3. IsFiniteSet(seen) /\ Cardinality(seen) \in Nat
      BY <1>1, AccountsFinite
    <3>4. IsFiniteSet(added) /\ Cardinality(added) = Cardinality(seen)
      <4> DEFINE f == [a \in seen |-> <<w, a>>]
      <4>1. f \in Bijection(seen, added)
        <5>1. f \in [seen -> added] /\ \A a, b \in seen : f[a] = f[b] => a = b
          OBVIOUS
        <5>2. \A v \in added : v[2] \in seen /\ f[v[2]] = v
          OBVIOUS
        <5> HIDE DEF f, added, seen
        <5>3. f \in Injection(seen, added)
          BY <5>1 DEF Injection, IsInjective
        <5>4. \A v \in added : \E a \in seen : f[a] = v
          BY <5>2
        <5>5. f \in Surjection(seen, added)
          BY <5>1, <5>4 DEF Surjection
        <5> QED
          BY <5>3, <5>5 DEF Bijection
      <4>2. ExistsBijection(seen, added)
        BY <4>1 DEF ExistsBijection
      <4> HIDE DEF added, seen
      <4> QED
        BY <3>3, <4>2, FS_Bijection
    <3>5. IsFiniteSet(Finished) /\ job.ok + job.bad = Cardinality(Finished)
      BY <1>2 DEF FinishedCount
    <3>6. run[w].ok + run[w].bad = Cardinality(seen)
      BY <1>2, <1>3 DEF Held, Totals
    <3> HIDE DEF added, seen
    <3>7. /\ IsFiniteSet(Finished \union added)
          /\ Cardinality(Finished \union added) = Cardinality(Finished) + Cardinality(added)
      BY <3>2, <3>4, <3>5, TwoParts
    <3>8. job.ok \in Nat /\ job.bad \in Nat
      BY <1>0 DEF L!Job
    <3>9. job'.ok + job'.bad = (job.ok + job.bad) + (run[w].ok + run[w].bad)
      BY <1>1, <2>1, <3>8
    <3> QED
      BY <3>1, <3>4, <3>5, <3>6, <3>7, <3>9
  <2>6. job.status = "RUNNING"
    BY <1>2, <1>3, <1>8 DEF Held, StillRunning, Loop
  <2> QED
    BY <2>2, <2>3, <2>4, <2>5, <2>6 DEF Held
<1> QED
  BY <1>6, <1>7, <1>8

\* The other saves of the job leave its counters alone.
LEMMA CountersKept ==
    ASSUME LoadInv, NEW h \in L!Handler, NEW new \in L!Job, new.version = copy[h].version,
           new.ok = copy[h].ok, new.bad = copy[h].bad, NEW saved, NEW refused,
           L!SaveJob(h, new, saved, refused)
    PROVE  /\ job'.ok = job.ok /\ job'.bad = job.bad /\ handlerPc'[h] \in {saved, refused}
           /\ job' # job => copy[h] = job
<1>1. \/ /\ copy[h] = job /\ handlerPc'[h] = saved /\ job' = [new EXCEPT !.version = @ + 1]
      \/ handlerPc'[h] = refused /\ job' = job
  BY SaveMoves
<1>2. CASE /\ copy[h] = job /\ handlerPc'[h] = saved /\ job' = [new EXCEPT !.version = @ + 1]
  BY <1>2 DEF L!Job
<1>3. CASE handlerPc'[h] = refused /\ job' = job
  BY <1>3
<1> QED
  BY <1>1, <1>2, <1>3

\* All that a step of a worker must keep but its own part, when it stores no row, closes
\* no phase and publishes nothing.
LEMMA QuietKept ==
    ASSUME LoadInv, L!TypeOK', NEW h \in L!Handler, Moves(h),
           h \in Worker => Held(h)' /\ handlerPc[h] # "done" /\ handlerPc'[h] # "done",
           job'.ok = job.ok, job'.bad = job.bad, migrated' = migrated,
           L!NoPhantomMigration'
    PROVE  LoadInv'
<1>1. Versions'
  BY VersionsKept
<1>2. L!SuccessesBackedByRows'
  BY DEF LoadInv, L!SuccessesBackedByRows
<1>3. dryRun' => migrated' = {}
  BY DEF LoadInv, Moves
<1>4. FinishedCount'
  BY NothingFinished
<1>5. \A w \in Worker : Held(w)'
  BY OthersHeld
<1> QED
  BY <1>1, <1>2, <1>3, <1>4, <1>5 DEF LoadInv

\* Every step of a worker keeps the invariant, and replaces the job only while it runs.
LEMMA WorkerKept ==
    ASSUME LoadInv, NEW w \in Worker, L!RunLoadPhase(w) \/ L!PortRaises(w) \/ L!Crash(w)
    PROVE  LoadInv' /\ (job' # job => job.status = "RUNNING")
<1>0. /\ handlerPc \in [L!Handler -> L!WorkerPC \union L!Ended] /\ w \in L!Handler
      /\ copy \in [L!Handler -> L!Job] /\ copy[w] \in L!Job /\ job \in L!Job
  BY LoadNumbers
<1>1. L!TypeOK' /\ Moves(w)
  BY WorkerTypes, WorkerMoves
<1>2. Held(w) /\ L!NoPhantomMigration
  BY DEF LoadInv
<1>3. ASSUME UNCHANGED <<inSF, migrated, published>>
      PROVE  L!NoPhantomMigration'
  BY <1>2, <1>3 DEF L!NoPhantomMigration
<1>4. CASE L!LoadJob(w, "begin")
  <2>1. /\ handlerPc[w] # "done" /\ handlerPc'[w] # "done" /\ job' = job /\ migrated' = migrated
        /\ L!NoPhantomMigration'
    BY <1>0, <1>3, <1>4 DEF L!LoadJob, L!Goto
  <2> QED
    BY <1>0, <1>1, <1>4, <2>1, LoadHeld, QuietKept
<1>5. CASE L!Begin(w)
  <2>1. handlerPc[w] # "done" /\ migrated' = migrated /\ L!NoPhantomMigration'
    BY <1>3, <1>5 DEF L!Begin
  <2>2. /\ job'.ok = job.ok /\ job'.bad = job.bad /\ handlerPc'[w] # "done"
        /\ job' # job => job.status = "RUNNING"
    <3>1. CASE copy[w].status = "RUNNING"
               /\ L!SaveJob(w, [copy[w] EXCEPT !.open = @ + 1], "fetch", "error")
      <4> DEFINE new == [copy[w] EXCEPT !.open = @ + 1]
      <4>1. /\ new \in L!Job /\ new.version = copy[w].version
            /\ new.ok = copy[w].ok /\ new.bad = copy[w].bad
        BY <1>0 DEF L!Job
      <4> HIDE DEF new
      <4>2. L!SaveJob(w, new, "fetch", "error")
        BY <3>1 DEF new
      <4>3. /\ job'.ok = job.ok /\ job'.bad = job.bad /\ handlerPc'[w] \in {"fetch", "error"}
            /\ job' # job => copy[w] = job
        BY <1>0, <4>1, <4>2, CountersKept
      <4> QED
        BY <3>1, <4>3
    <3>2. CASE L!Goto(w, "error") /\ UNCHANGED <<job, copy>>
      BY <1>0, <3>2 DEF L!Goto
    <3> QED
      BY <1>5, <3>1, <3>2 DEF L!Begin
  <2> QED
    BY <1>0, <1>1, <1>5, <2>1, <2>2, BeginHeld, QuietKept
<1>6. CASE L!Fetch(w)
  <2>1. /\ handlerPc[w] # "done" /\ handlerPc'[w] # "done" /\ job' = job /\ migrated' = migrated
        /\ L!NoPhantomMigration'
    BY <1>0, <1>3, <1>6 DEF L!Fetch, L!Goto
  <2> QED
    BY <1>0, <1>1, <1>6, <2>1, FetchHeld, QuietKept
<1>7. CASE L!Upsert(w) \/ L!UpsertApiError(w) \/ L!UpsertDryRun(w)
  <2>1. /\ handlerPc[w] # "done" /\ handlerPc'[w] # "done" /\ job' = job /\ migrated' = migrated
        /\ published' = published
    BY <1>0, <1>7 DEF L!Upsert, L!UpsertApiError, L!UpsertDryRun, L!Goto
  <2>2. L!NoPhantomMigration'
    BY <1>1, <1>2, <2>1 DEF L!NoPhantomMigration, Moves
  <2> QED
    BY <1>0, <1>1, <1>7, <2>1, <2>2, UpsertHeld, QuietKept
<1>8. CASE L!SaveNext(w)
  <2>1. Held(w)' /\ (dryRun' => migrated' = {}) /\ L!NoPhantomMigration'
    BY <1>1, <1>8, SaveHeld
  <2>2. handlerPc[w] # "done" /\ handlerPc'[w] # "done" /\ job' = job
    BY <1>0, <1>8 DEF L!SaveNext, L!SaveRow, L!Goto
  <2>3. FinishedCount' /\ Versions' /\ \A g \in Worker : Held(g)'
    BY <1>0, <1>1, <2>1, <2>2, NothingFinished, VersionsKept, OthersHeld
  <2>4. L!SuccessesBackedByRows'
    <3>1. /\ Cardinality(migrated) \in Nat /\ Cardinality(migrated') \in Nat
          /\ Cardinality(migrated) <= Cardinality(migrated')
      BY <1>1, RowsGrow DEF Moves
    <3>2. job.ok <= Cardinality(migrated) /\ job.ok \in Nat
      BY <1>0, SameCardinality DEF LoadInv, L!SuccessesBackedByRows, L!Job
    <3>3. job.ok <= Cardinality(migrated')
      BY <3>1, <3>2
    <3> QED
      BY <2>2, <3>3, SameCardinality DEF L!SuccessesBackedByRows
  <2> QED
    BY <1>1, <2>1, <2>2, <2>3, <2>4 DEF LoadInv
<1>9. CASE L!Publish(w)
  <2>1. handlerPc[w] # "done" /\ handlerPc'[w] # "done" /\ job' = job /\ migrated' = migrated
    BY <1>0, <1>9 DEF L!Publish, L!Goto
  <2> QED
    BY <1>0, <1>1, <1>9, <2>1, PublishHeld, QuietKept
<1>10. CASE L!CompletePhase(w)
  <2>1. UNCHANGED <<inSF, migrated, published>>
    BY <1>10 DEF L!CompletePhase
  <2>2. dryRun' => migrated' = {}
    BY <1>1, <2>1 DEF LoadInv, Moves
  <2> QED
    BY <1>0, <1>1, <1>3, <1>10, <2>1, <2>2, CompleteKept, VersionsKept, OthersHeld DEF LoadInv
<1>11. CASE L!FailJob(w)
  <2> DEFINE new == [copy[w] EXCEPT !.status = "FAILED"]
  <2>1. /\ new \in L!Job /\ new.version = copy[w].version
        /\ new.ok = copy[w].ok /\ new.bad = copy[w].bad
    BY <1>0 DEF L!Job
  <2>2. L!SaveJob(w, new, "failed", "error")
    BY <1>11 DEF L!FailJob
  <2> HIDE DEF new
  <2>3. /\ job'.ok = job.ok /\ job'.bad = job.bad /\ handlerPc'[w] \in {"failed", "error"}
        /\ job' # job => copy[w] = job
    BY <1>0, <2>1, <2>2, CountersKept
  <2>4. Held(w)'
    BY <2>3, LeftHeld
  <2>5. /\ handlerPc[w] = "fail" /\ copy[w].status = "RUNNING" /\ migrated' = migrated
        /\ L!NoPhantomMigration'
    BY <1>2, <1>3, <1>11 DEF L!FailJob, Held, StillRunning
  <2> QED
    BY <1>0, <1>1, <2>3, <2>4, <2>5, QuietKept
<1>12. CASE L!PortRaises(w)
  <2>1. /\ handlerPc'[w] = "fail" /\ handlerPc[w] \in {"fetch", "upsert", "save"}
        /\ UNCHANGED <<job, copy, migrated>>
    BY <1>0, <1>12 DEF L!PortRaises, L!Goto
  <2>2. copy'[w].status = "RUNNING"
    BY <1>2, <2>1 DEF Held, StillRunning, Loop
  <2>3. Held(w)'
    BY <2>1, <2>2, LeftHeld
  <2>4. L!NoPhantomMigration'
    <3>1. published' \subseteq migrated
      BY <1>2, <1>12 DEF L!PortRaises, L!NoPhantomMigration, Held, BatchMarked
    <3> QED
      BY <1>1, <1>2, <2>1, <3>1 DEF L!NoPhantomMigration, Moves
  <2> QED
    BY <1>0, <1>1, <2>1, <2>3, <2>4, QuietKept
<1>13. CASE L!Crash(w)
  <2>1. /\ handlerPc[w] # "done" /\ handlerPc'[w] = "crashed" /\ job' = job
        /\ migrated' = migrated /\ L!NoPhantomMigration'
    BY <1>0, <1>3, <1>13 DEF L!Crash, L!Goto, L!WorkerPC
  <2>2. Held(w)'
    BY <2>1, LeftHeld
  <2> QED
    BY <1>0, <1>1, <2>1, <2>2, QuietKept
<1> QED
  BY <1>4, <1>5, <1>6, <1>7, <1>8, <1>9, <1>10, <1>11, <1>12, <1>13 DEF L!RunLoadPhase

\* So does every step of PauseMigration and complete_job.
LEMMA OtherKept ==
    ASSUME LoadInv, NEW h \in Pauser \union Completer, NEW target \in {"PAUSED", "COMPLETED"},
           L!LoadJob(h, "begin") \/ L!Transition(h, target)
    PROVE  LoadInv' /\ (job' # job => job.status = "RUNNING")
<1>0. /\ handlerPc \in [L!Handler -> L!WorkerPC \union L!Ended] /\ h \in L!Handler
      /\ copy \in [L!Handler -> L!Job] /\ copy[h] \in L!Job /\ job \in L!Job /\ h \notin Worker
  BY LoadNumbers
<1>1. L!TypeOK' /\ Moves(h)
  BY OtherTypes, OtherMoves
<1>2. migrated' = migrated /\ L!NoPhantomMigration'
  BY DEF LoadInv, L!NoPhantomMigration, L!LoadJob, L!Transition
<1>3. /\ job'.ok = job.ok /\ job'.bad = job.bad
      /\ job' # job => job.status = "RUNNING"
  <2>1. CASE job' = job
    BY <2>1
  <2>2. CASE copy[h].status = "RUNNING"
             /\ L!SaveJob(h, [copy[h] EXCEPT !.status = target], "done", "error")
    <3> DEFINE new == [copy[h] EXCEPT !.status = target]
    <3>1. /\ new \in L!Job /\ new.version = copy[h].version
          /\ new.ok = copy[h].ok /\ new.bad = copy[h].bad
      BY <1>0 DEF L!Job
    <3> HIDE DEF new
    <3>2. L!SaveJob(h, new, "done", "error")
      BY <2>2 DEF new
    <3>3. /\ job'.ok = job.ok /\ job'.bad = job.bad
          /\ job' # job => copy[h] = job
      BY <1>0, <3>1, <3>2, CountersKept
    <3> QED
      BY <2>2, <3>3
  <2> QED
    BY <2>1, <2>2 DEF L!LoadJob, L!Transition
<1> QED
  BY <1>0, <1>1, <1>2, <1>3, QuietKept

\* Nothing has been read, counted or stored.
LEMMA LoadStart == L!Init => LoadInv
<1> SUFFICES ASSUME L!Init PROVE LoadInv
  OBVIOUS
<1>0. /\ NumAccounts \in Nat /\ BatchSize \in Nat \ {0} /\ MaxLoadFaults \in Nat
      /\ DryRuns \subseteq BOOLEAN /\ Worker \subseteq L!Handler
  BY LoadAssumption
     DEF L!SizeAssumption, L!FaultAssumption, L!InputAssumption, L!Handler
<1>1. job \in L!Job /\ job.ok = 0 /\ job.bad = 0
  BY DEF L!Init, L!Job
<1>2. \A h \in L!Handler : handlerPc[h] = "load" /\ copy[h] = job
  BY DEF L!Init
<1>3. L!FreshRun \in RunRecord
  BY DEF L!FreshRun, RunRecord
<1>4. L!TypeOK
  <2>1. copy \in [L!Handler -> L!Job] /\ handlerPc \in [L!Handler -> L!WorkerPC \union L!Ended]
    BY <1>1 DEF L!Init, L!WorkerPC
  <2>2. run \in [Worker -> RunRecord]
    BY <1>3 DEF L!Init
  <2>3. dryRun \in BOOLEAN /\ loadFaults \in 0..MaxLoadFaults
    BY <1>0 DEF L!Init
  <2> QED
    BY <1>1, <2>1, <2>2, <2>3 DEF L!Init, L!TypeOK, RunRecord
<1>5. Versions
  BY <1>1, <1>2 DEF Versions, L!Job
<1>6. L!NoPhantomMigration /\ L!SuccessesBackedByRows /\ (dryRun => migrated = {})
  BY <1>1, SameCardinality, FS_EmptySet DEF L!Init, L!NoPhantomMigration, L!SuccessesBackedByRows
<1>7. FinishedCount
  <2>1. Finished = {}
    BY <1>0, <1>2 DEF Finished
  <2> QED
    BY <1>1, <2>1, FS_EmptySet DEF FinishedCount
<1>8. ASSUME NEW w \in Worker PROVE Held(w)
  <2>1. handlerPc[w] = "load" /\ run[w] = L!FreshRun
    BY <1>0, <1>2 DEF L!Init
  <2>2. OpenRecord(w) /\ StillRunning(w) /\ FreshStart(w) /\ BatchMarked(w) /\ RowsBehind(w)
    BY <2>1 DEF OpenRecord, StillRunning, FreshStart, BatchMarked, RowsBehind, Loop
  <2>3. Visited(w) /\ SeenOnce(w) /\ Totals(w)
    BY <2>1 DEF Visited, SeenOnce, Totals
  <2> QED
    BY <2>2, <2>3 DEF Held
<1> QED
  BY <1>4, <1>5, <1>6, <1>7, <1>8 DEF LoadInv

\* Every step of the load phase keeps its invariant.
LEMMA LoadKept ==
    ASSUME LoadInv, [L!Next]_loadVars
    PROVE  LoadInv' /\ (job.status # "RUNNING" => job' = job)
<1>1. ASSUME NEW w \in Worker, L!RunLoadPhase(w) \/ L!PortRaises(w) \/ L!Crash(w)
      PROVE  LoadInv' /\ (job.status # "RUNNING" => job' = job)
  BY <1>1, WorkerKept
<1>2. ASSUME NEW h \in Pauser, L!PauseMigration(h)
      PROVE  LoadInv' /\ (job.status # "RUNNING" => job' = job)
  BY <1>2, OtherKept DEF L!PauseMigration
<1>3. ASSUME NEW h \in Completer, L!CompleteJob(h)
      PROVE  LoadInv' /\ (job.status # "RUNNING" => job' = job)
  BY <1>3, OtherKept DEF L!CompleteJob
<1>4. CASE UNCHANGED loadVars
  <2>1. L!TypeOK' /\ Versions' /\ L!NoPhantomMigration' /\ L!SuccessesBackedByRows'
    BY <1>4 DEF LoadInv, loadVars, L!TypeOK, Versions, L!NoPhantomMigration,
                L!SuccessesBackedByRows
  <2>2. (dryRun' => migrated' = {}) /\ FinishedCount'
    BY <1>4 DEF LoadInv, loadVars, FinishedCount, Finished
  <2>3. ASSUME NEW w \in Worker PROVE Held(w)'
    <3>1. Held(w)
      BY DEF LoadInv
    <3>2. OpenRecord(w)' /\ StillRunning(w)' /\ FreshStart(w)' /\ BatchMarked(w)' /\ RowsBehind(w)'
      BY <1>4, <3>1 DEF Held, loadVars, OpenRecord, StillRunning, FreshStart, BatchMarked,
                            RowsBehind
    <3>3. Visited(w)' /\ SeenOnce(w)' /\ Totals(w)'
      BY <1>4, <3>1 DEF Held, loadVars, Visited, SeenOnce, SeenBefore, L!RowNumber,
                            L!Unmigrated, Totals
    <3> QED
      BY <3>2, <3>3 DEF Held
  <2> QED
    BY <1>4, <2>1, <2>2, <2>3 DEF LoadInv, loadVars
<1> QED
  BY <1>1, <1>2, <1>3, <1>4 DEF L!Next, L!vars, loadVars

\* What the invariant says of the counters and rows that a reader sees.
LEMMA LoadCounts ==
    LoadInv => /\ L!TypeOK /\ L!ClosedPhasesCountAll /\ L!DryRunVisitsAll
               /\ L!NoPhantomMigration /\ L!SuccessesBackedByRows
<1> SUFFICES ASSUME LoadInv
             PROVE  L!ClosedPhasesCountAll /\ L!DryRunVisitsAll
  BY DEF LoadInv
<1>1. L!ClosedPhasesCountAll
  BY SameCardinality DEF LoadInv, FinishedCount, Finished, L!ClosedPhasesCountAll
<1>2. L!DryRunVisitsAll
  BY DEF LoadInv, Held, Visited, L!DryRunVisitsAll
<1> QED
  BY <1>1, <1>2

-------------------------------------------------------------------------------
(* The bulk loader.                                                        *)

BulkJob == [state : B!Terminal \union {"Open", "UploadComplete"}, todo : SUBSET B!Row,
            good : SUBSET B!Row, bad : SUBSET B!Row]

\* The batch a row belongs to.
BatchOf(r) == (r - 1) \div RowsPerBatch + 1

\* The rows a job was given.
Sent(j) == jobs[j].todo \union jobs[j].good \union jobs[j].bad

\* Salesforce works on the job, or has.
Closed(j) == jobs[j].state \in {"UploadComplete", "JobComplete", "Failed"}

\* The row's batch is over, or its job is closed.
Started(r) ==
    \/ BatchOf(r) < batch
    \/ BatchOf(r) = batch /\ bulkPc \in {"poll", "fetch", "returned"}

JobsHonest == \A j \in 1..Len(jobs) :
    /\ jobs[j].good \intersect Rejected = {} /\ jobs[j].bad \subseteq Rejected
    /\ \A r \in jobs[j].good : copies[r] > 0
    /\ jobs[j].state = "JobComplete" => jobs[j].todo = {}

RejectedOut == \A r \in B!Row : r \in Rejected => copies[r] = 0

\* A job that is not closed, with these rows to do.
Unsent(j, todo) ==
    /\ jobs[j].state = "Open" /\ jobs[j].todo = todo
    /\ jobs[j].good = {} /\ jobs[j].bad = {}

\* The job at hand, wherever the loader stands.
JobAtHand ==
    /\ bulkPc \in {"upload", "close", "poll", "fetch", "abort"} => Len(jobs) > 0
    /\ bulkPc = "upload" => Unsent(Len(jobs), {})
    /\ bulkPc = "close" => Unsent(Len(jobs), B!RowsOf(batch))
    /\ bulkPc \in {"poll", "fetch"} =>
          Closed(Len(jobs)) /\ Sent(Len(jobs)) = B!RowsOf(batch)
    /\ bulkPc = "fetch" => jobs[Len(jobs)].state = "JobComplete"

\* Only rows of batches that are over are counted.
CountedBatches == \A r \in ok \union bad \union unread :
    BatchOf(r) < batch \/ (BatchOf(r) = batch /\ bulkPc = "returned")

\* The rate is tested after every batch, so that a load that goes on is below it.
RateTested ==
    /\ bulkPc = "returned" /\ batch < B!NumBatches => B!ShouldAbort(ok, bad)
    /\ bulkPc \notin {"returned", "raised"} => ~B!ShouldAbort(ok, bad)

\* What a job that works on the row says of it: no other one does, it has not been stored
\* while it is still to do, and it is a failure only if it is refused.
OneJob(r, j) ==
    /\ Started(r)
    /\ r \in jobs[j].todo => copies[r] = 0
    /\ r \in bad => r \in Rejected
    /\ \A k \in 1..Len(jobs) : Closed(k) /\ r \in Sent(k) => j = k

\* While no attempt at its batch was spoiled, a row is in one closed job at most.
StoredOnce(r) ==
    /\ copies[r] <= 1
    /\ copies[r] > 0 => Started(r)
    /\ r \in bad => copies[r] = 0
    /\ \A j \in 1..Len(jobs) : Closed(j) /\ r \in Sent(j) => OneJob(r, j)

Once == \A r \in B!Row : BatchOf(r) \notin spoiled => StoredOnce(r)

BulkInv ==
    /\ B!TypeOK /\ jobs \in Seq(BulkJob) /\ JobsHonest /\ RejectedOut /\ JobAtHand
    /\ CountedBatches /\ B!CountsAreSound /\ RateTested /\ Once

\* The instance speaks of the same cardinality here too.
LEMMA SameCount == \A S : B!Cardinality(S) = Cardinality(S)
  BY DEF B!Cardinality, Cardinality

\* The numbers and sequences among the variables.
LEMMA BulkNumbers ==
    ASSUME BulkInv
    PROVE  /\ NumRows \in Nat \ {0} /\ RowsPerBatch \in Nat \ {0} /\ MaxRetries \in Nat \ {0}
           /\ MaxBulkFaults \in Nat /\ jobs \in Seq(BulkJob) /\ Len(jobs) \in Nat
           /\ \A j \in 1..Len(jobs) : jobs[j] \in BulkJob
           /\ copies \in [B!Row -> Nat] /\ batch \in Int
           /\ operation \in {"insert", "upsert"}
  BY TaskAssumption DEF BulkInv, B!TypeOK, B!LoaderAssumption

\* Rows are in one batch each, and batches have numbers.
LEMMA BatchNumbers ==
    /\ B!NumBatches \in Nat \ {0}
    /\ \A r \in B!Row : BatchOf(r) \in Int
    /\ \A b, r : r \in B!RowsOf(b) <=> r \in B!Row /\ BatchOf(r) = b
<1>0. NumRows \in Nat \ {0} /\ RowsPerBatch \in Nat \ {0}
  BY TaskAssumption DEF B!LoaderAssumption
<1>1. B!NumBatches \in Nat \ {0}
  <2>1. \A m \in Nat : m >= RowsPerBatch => m \div RowsPerBatch \in Nat \ {0}
    BY <1>0
  <2>2. NumRows + RowsPerBatch - 1 \in Nat /\ NumRows + RowsPerBatch - 1 >= RowsPerBatch
    BY <1>0
  <2> QED
    BY <2>1, <2>2 DEF B!NumBatches
<1>2. \A r \in B!Row : BatchOf(r) \in Int
  BY <1>0 DEF B!Row, BatchOf
<1>3. \A b, r : r \in B!RowsOf(b) <=> r \in B!Row /\ BatchOf(r) = b
  BY DEF B!RowsOf, BatchOf
<1> QED
  BY <1>1, <1>2, <1>3

\* Nothing has been sent or counted.
LEMMA BulkStart == B!Init => BulkInv
<1> SUFFICES ASSUME B!Init PROVE BulkInv
  OBVIOUS
<1>0. B!NumBatches \in Nat \ {0} /\ MaxRetries \in Nat \ {0} /\ MaxBulkFaults \in Nat
      /\ MaxPct \in 0..100
  BY BatchNumbers, TaskAssumption DEF B!LoaderAssumption
<1>1. /\ operation \in Operations /\ bulkPc = "authenticate" /\ batch = 1 /\ bulkAttempt = 1
      /\ jobs = <<>> /\ Len(jobs) = 0 /\ copies = [r \in B!Row |-> 0]
      /\ ok = {} /\ bad = {} /\ unread = {} /\ spoiled = {} /\ bulkFaults = 0
  BY DEF B!Init
<1>2. B!TypeOK /\ jobs \in Seq(BulkJob)
  BY <1>0, <1>1 DEF B!TypeOK, B!Last
<1>3. JobsHonest /\ RejectedOut /\ JobAtHand /\ CountedBatches
  BY <1>1 DEF JobsHonest, RejectedOut, JobAtHand, CountedBatches
<1>4. B!CountsAreSound
  BY <1>0, <1>1 DEF B!CountsAreSound
<1>5. RateTested
  <2>1. ~(Cardinality({}) * 100 > MaxPct * Cardinality({}))
    BY <1>0, FS_EmptySet
  <2>2. {} \union {} = {}
    OBVIOUS
  <2>3. ~B!ShouldAbort(ok, bad)
    BY <1>1, <2>1, <2>2, SameCount DEF B!ShouldAbort
  <2> QED
    BY <1>1, <2>3 DEF RateTested
<1>6. Once
  BY <1>1 DEF Once, StoredOnce
<1> QED
  BY <1>2, <1>3, <1>4, <1>5, <1>6 DEF BulkInv

\* The variables but the jobs.
Scalars ==
    /\ operation \in Operations
    /\ bulkPc \in {"authenticate", "create", "upload", "close", "poll", "fetch", "abort",
                   "returned", "raised"}
    /\ batch \in 1..B!NumBatches /\ bulkAttempt \in 1..MaxRetries
    /\ copies \in [B!Row -> Nat]
    /\ ok \union bad \union unread \subseteq B!Row
    /\ spoiled \subseteq 1..B!NumBatches
    /\ bulkFaults \in 0..MaxBulkFaults

\* With the jobs, these are the types.
LEMMA TypesMade ==
    ASSUME Scalars', jobs' \in Seq(BulkJob)
    PROVE  B!TypeOK'
<1>1. \A j \in 1..Len(jobs') : jobs'[j] \in BulkJob
  OBVIOUS
<1> QED
  BY <1>1 DEF Scalars, B!TypeOK, B!Last, BulkJob

\* One job is replaced by another.
LEMMA JobReplaced ==
    ASSUME jobs \in Seq(BulkJob), NEW j \in 1..Len(jobs), NEW new \in BulkJob,
           jobs' = [jobs EXCEPT ![j] = new]
    PROVE  /\ jobs' \in Seq(BulkJob) /\ Len(jobs') = Len(jobs) /\ jobs'[j] = new
           /\ \A k \in 1..Len(jobs) : k # j => jobs'[k] = jobs[k]
  OBVIOUS

\* The counters are left alone while a batch goes on.
LEMMA CountsStay ==
    ASSUME BulkInv, UNCHANGED <<batch, ok, bad, unread>>,
           bulkPc' = bulkPc \/ (bulkPc \notin {"returned", "raised"} /\ bulkPc' # "returned"),
           \A r \in B!Row : copies[r] > 0 => copies'[r] > 0
    PROVE  CountedBatches' /\ B!CountsAreSound' /\ RateTested'
<1>0. copies \in [B!Row -> Nat] /\ ok \subseteq B!Row
  BY BulkNumbers DEF BulkInv, B!TypeOK
<1>1. CountedBatches'
  BY DEF BulkInv, CountedBatches
<1>2. B!CountsAreSound'
  <2>1. \A r \in ok : copies'[r] > 0
    <3> SUFFICES ASSUME NEW r \in ok PROVE copies'[r] > 0
      OBVIOUS
    <3>1. copies[r] > 0 /\ r \in B!Row
      BY <1>0 DEF BulkInv, B!CountsAreSound
    <3> QED
      BY <3>1
  <2> QED
    BY <2>1 DEF BulkInv, B!CountsAreSound
<1>3. RateTested'
  <2>1. B!ShouldAbort(ok, bad)' <=> B!ShouldAbort(ok, bad)
    BY DEF B!ShouldAbort
  <2> QED
    BY <2>1 DEF BulkInv, RateTested
<1> QED
  BY <1>1, <1>2, <1>3

\* A batch ends with these successes and failures, and with results that were not read.
LEMMA BatchEnds ==
    ASSUME BulkInv, bulkPc \notin {"returned", "raised"},
           NEW good \in SUBSET B!RowsOf(batch), NEW wrong \in SUBSET B!RowsOf(batch),
           NEW lost \in SUBSET B!RowsOf(batch), good \intersect wrong = {},
           B!RowsOf(batch) \subseteq good \union wrong \union lost,
           \A r \in good : copies[r] > 0,
           B!EndBatch(good, wrong), unread' = unread \union lost, copies' = copies
    PROVE  /\ bulkPc' \in {"returned", "create"} /\ batch' \in 1..B!NumBatches
           /\ bulkAttempt' \in 1..MaxRetries /\ (ok \union bad \union unread)' \subseteq B!Row
           /\ \/ batch' = batch /\ bulkPc' = "returned"
              \/ batch' = batch + 1 /\ bulkPc' = "create"
           /\ CountedBatches' /\ B!CountsAreSound' /\ RateTested'
<1>0. /\ batch \in 1..B!NumBatches /\ bulkAttempt \in 1..MaxRetries
      /\ ok \union bad \union unread \subseteq B!Row /\ MaxRetries \in Nat \ {0}
      /\ B!NumBatches \in Nat \ {0} /\ batch \in Int
  BY BatchNumbers, BulkNumbers DEF BulkInv, B!TypeOK
<1>1. /\ ok' = ok \union good /\ bad' = bad \union wrong
      /\ \/ /\ B!ShouldAbort(ok', bad') \/ batch = B!NumBatches
            /\ bulkPc' = "returned" /\ batch' = batch /\ bulkAttempt' = bulkAttempt
         \/ /\ ~B!ShouldAbort(ok', bad') /\ batch # B!NumBatches
            /\ bulkPc' = "create" /\ batch' = batch + 1 /\ bulkAttempt' = 1
  BY DEF B!EndBatch
<1>2. \A r \in good \union wrong \union lost : r \in B!Row /\ BatchOf(r) = batch
  BY BatchNumbers
<1>3. /\ bulkPc' \in {"returned", "create"} /\ batch' \in 1..B!NumBatches
      /\ bulkAttempt' \in 1..MaxRetries
      /\ \/ batch' = batch /\ bulkPc' = "returned"
         \/ batch' = batch + 1 /\ bulkPc' = "create"
  BY <1>0, <1>1
<1>4. (ok \union bad \union unread)' \subseteq B!Row
  BY <1>0, <1>1, <1>2
<1>5. \A r \in ok \union bad \union unread : BatchOf(r) < batch /\ r \in B!Row
  BY <1>0 DEF BulkInv, CountedBatches
<1>6. CountedBatches'
  <2> SUFFICES ASSUME NEW r \in (ok \union bad \union unread)'
               PROVE  BatchOf(r) < batch' \/ (BatchOf(r) = batch' /\ bulkPc' = "returned")
    BY DEF CountedBatches
  <2>1. BatchOf(r) < batch \/ BatchOf(r) = batch
    BY <1>1, <1>2, <1>5
  <2>2. r \in B!Row /\ BatchOf(r) \in Int
    BY <1>4, BatchNumbers
  <2> QED
    BY <1>0, <1>3, <2>1, <2>2
<1>7. B!CountsAreSound'
  <2>1. \A r \in ok' : copies'[r] > 0
    BY <1>1 DEF BulkInv, B!CountsAreSound
  <2>2. ok' \intersect bad' = {}
    <3> SUFFICES ASSUME NEW r \in ok', r \in bad' PROVE FALSE
      OBVIOUS
    <3>1. r \in B!Row /\ BatchOf(r) \in Int
      BY <1>4, BatchNumbers
    <3>2. ok \intersect bad = {}
      BY DEF BulkInv, B!CountsAreSound
    <3>3. \/ r \in ok /\ r \in wrong
          \/ r \in good /\ r \in bad
      BY <1>1, <3>2
    <3> QED
      BY <1>0, <1>2, <1>5, <3>1, <3>3
  <2>3. ASSUME NEW b \in 1..B!NumBatches, b < batch' \/ (bulkPc' = "returned" /\ b = batch')
        PROVE  B!RowsOf(b) \subseteq ok' \union bad' \union unread'
    <3>1. b < batch \/ b = batch
      BY <1>0, <1>3, <2>3
    <3>2. CASE b < batch
      <4>1. B!RowsOf(b) \subseteq ok \union bad \union unread
        BY <3>2 DEF BulkInv, B!CountsAreSound
      <4> QED
        BY <1>1, <4>1
    <3>3. CASE b = batch
      BY <1>1, <3>3
    <3> QED
      BY <3>1, <3>2, <3>3
  <2>4. \A b : B!RowsOf(b)' = B!RowsOf(b)
    BY DEF B!RowsOf, B!Row
  <2> QED
    BY <2>1, <2>2, <2>3, <2>4 DEF B!CountsAreSound, B!NumBatches
<1>8. RateTested'
  <2>1. B!ShouldAbort(ok, bad)' <=> B!ShouldAbort(ok', bad')
    BY DEF B!ShouldAbort
  <2> QED
    BY <1>0, <1>1, <2>1 DEF RateTested, B!NumBatches
<1> QED
  BY <1>3, <1>4, <1>6, <1>7, <1>8

\* The exception of an attempt: the batch is tried again, or counted as failed.
LEMMA GivenUp ==
    ASSUME BulkInv, bulkPc \notin {"returned", "raised"}, B!GiveUp,
           UNCHANGED <<unread, copies>>
    PROVE  /\ bulkPc' \in {"returned", "create"} /\ batch' \in 1..B!NumBatches
           /\ bulkAttempt' \in 1..MaxRetries /\ (ok \union bad \union unread)' \subseteq B!Row
           /\ \/ batch' = batch
              \/ batch' = batch + 1 /\ bulkPc' = "create"
           /\ bad' \subseteq bad \union B!RowsOf(batch)
           /\ CountedBatches' /\ B!CountsAreSound' /\ RateTested'
<1>0. /\ bulkAttempt \in 1..MaxRetries /\ MaxRetries \in Nat \ {0}
      /\ batch \in 1..B!NumBatches /\ ok \union bad \union unread \subseteq B!Row
      /\ copies \in [B!Row -> Nat]
  BY BulkNumbers DEF BulkInv, B!TypeOK
<1>1. CASE /\ bulkAttempt < MaxRetries /\ bulkAttempt' = bulkAttempt + 1
           /\ bulkPc' = "create" /\ UNCHANGED <<batch, ok, bad>>
  <2>1. CountedBatches' /\ B!CountsAreSound' /\ RateTested'
    BY <1>1, CountsStay
  <2> QED
    BY <1>0, <1>1, <2>1
<1>2. CASE B!EndBatch({}, B!RowsOf(batch))
  <2>1. unread' = unread \union {}
    OBVIOUS
  <2>2. bad' = bad \union B!RowsOf(batch)
    BY <1>2 DEF B!EndBatch
  <2> DEFINE none == {}
  <2>3. /\ none \in SUBSET B!RowsOf(batch) /\ B!RowsOf(batch) \in SUBSET B!RowsOf(batch)
        /\ none \intersect B!RowsOf(batch) = {} /\ \A r \in none : copies[r] > 0
        /\ B!RowsOf(batch) \subseteq none \union B!RowsOf(batch) \union none
        /\ B!EndBatch(none, B!RowsOf(batch)) /\ unread' = unread \union none
    BY <1>2
  <2> HIDE DEF none
  <2>4. /\ bulkPc' \in {"returned", "create"} /\ batch' \in 1..B!NumBatches
        /\ bulkAttempt' \in 1..MaxRetries /\ (ok \union bad \union unread)' \subseteq B!Row
        /\ \/ batch' = batch
           \/ batch' = batch + 1 /\ bulkPc' = "create"
        /\ CountedBatches' /\ B!CountsAreSound' /\ RateTested'
    BY <2>3, BatchEnds
  <2> QED
    BY <2>2, <2>4
<1> QED
  BY <1>1, <1>2 DEF B!GiveUp

\* After a step of the loader that closes no job, each job is as it was, aborted, or one
\* that is not closed yet.
JobsRest ==
    \A k \in 1..Len(jobs') :
       \/ /\ k \in 1..Len(jobs)
          /\ jobs'[k].todo = jobs[k].todo /\ jobs'[k].good = jobs[k].good
          /\ jobs'[k].bad = jobs[k].bad /\ jobs'[k].state \in {jobs[k].state, "Aborted"}
       \/ jobs'[k].state = "Open" /\ jobs'[k].good = {} /\ jobs'[k].bad = {}

\* Such a step leaves alone what is known of jobs and rows.
LEMMA JobsRestKept ==
    ASSUME BulkInv, JobsRest, spoiled \subseteq spoiled', copies' = copies,
           \A r \in B!Row : BatchOf(r) \notin spoiled' /\ Started(r) => Started(r)',
           \A r \in bad' \ bad : BatchOf(r) \notin spoiled' =>
              r \in Rejected \/ (BatchOf(r) = batch /\ bulkPc \in {"create", "abort"})
    PROVE  JobsHonest' /\ RejectedOut' /\ Once'
<1>0. /\ batch \in Int /\ \A r \in B!Row : BatchOf(r) \in Int /\ copies[r] \in Nat
  BY BatchNumbers, BulkNumbers
<1>1. ASSUME NEW k \in 1..Len(jobs'), Closed(k)'
      PROVE  /\ k \in 1..Len(jobs) /\ Closed(k) /\ Sent(k)' = Sent(k)
             /\ jobs'[k].todo = jobs[k].todo
  <2>1. jobs'[k].state # "Open"
    BY <1>1 DEF Closed
  <2>2. /\ k \in 1..Len(jobs)
        /\ jobs'[k].todo = jobs[k].todo /\ jobs'[k].good = jobs[k].good
        /\ jobs'[k].bad = jobs[k].bad /\ jobs'[k].state \in {jobs[k].state, "Aborted"}
    BY <2>1 DEF JobsRest
  <2> QED
    BY <1>1, <2>2 DEF Closed, Sent
<1>2. JobsHonest'
  <2> SUFFICES ASSUME NEW k \in 1..Len(jobs')
               PROVE  /\ jobs'[k].good \intersect Rejected = {} /\ jobs'[k].bad \subseteq Rejected
                      /\ \A r \in jobs'[k].good : copies[r] > 0
                      /\ jobs'[k].state = "JobComplete" => jobs'[k].todo = {}
    BY DEF JobsHonest
  <2>1. CASE jobs'[k].state = "Open" /\ jobs'[k].good = {} /\ jobs'[k].bad = {}
    BY <2>1
  <2>2. CASE /\ k \in 1..Len(jobs)
             /\ jobs'[k].todo = jobs[k].todo /\ jobs'[k].good = jobs[k].good
             /\ jobs'[k].bad = jobs[k].bad /\ jobs'[k].state \in {jobs[k].state, "Aborted"}
    BY <2>2 DEF BulkInv, JobsHonest
  <2> QED
    BY <2>1, <2>2 DEF JobsRest
<1>3. RejectedOut'
  BY DEF BulkInv, RejectedOut, B!Row
<1>4. ASSUME NEW r \in B!Row, BatchOf(r) \notin spoiled'
      PROVE  StoredOnce(r)'
  <2>1. StoredOnce(r)
    BY <1>4 DEF BulkInv, Once
  <2>2. Started(r) => Started(r)'
    BY <1>4
  <2>3. CASE r \in bad' /\ r \notin bad
    <3>1. r \in Rejected \/ (BatchOf(r) = batch /\ bulkPc \in {"create", "abort"})
      BY <1>4, <2>3
    <3>2. r \in Rejected \/ ~Started(r)
      BY <1>0, <3>1 DEF Started
    <3>3. copies[r] = 0
      BY <1>0, <2>1, <3>2 DEF BulkInv, RejectedOut, StoredOnce
    <3>4. ASSUME NEW k \in 1..Len(jobs'), Closed(k)', r \in Sent(k)'
          PROVE  OneJob(r, k)'
      <4>1. OneJob(r, k) /\ r \in Rejected
        BY <1>1, <2>1, <3>2, <3>4 DEF StoredOnce, OneJob
      <4> QED
        BY <1>1, <2>2, <3>4, <4>1 DEF OneJob
    <3> QED
      BY <1>0, <2>1, <3>3, <3>4 DEF StoredOnce
  <2>4. CASE ~(r \in bad' /\ r \notin bad)
    <3>1. ASSUME NEW k \in 1..Len(jobs'), Closed(k)', r \in Sent(k)'
          PROVE  OneJob(r, k)'
      <4>1. OneJob(r, k)
        BY <1>1, <2>1, <3>1 DEF StoredOnce
      <4> QED
        BY <1>1, <2>2, <2>4, <3>1, <4>1 DEF OneJob
    <3> QED
      BY <2>1, <2>2, <2>4, <3>1 DEF StoredOnce
  <2> QED
    BY <2>3, <2>4
<1>5. Once'
  BY <1>4 DEF Once, B!Row, BatchOf
<1> QED
  BY <1>2, <1>3, <1>5

\* The rows and the job at hand keep their name while the batch is the same.
LEMMA SameRows ==
    ASSUME batch' = batch
    PROVE  B!RowsOf(batch)' = B!RowsOf(batch)
  BY DEF B!RowsOf, B!Row

\* The steps of the loader, one by one.
LEMMA AuthenticateKept == ASSUME BulkInv, B!Authenticate PROVE BulkInv'
<1>0. /\ copies \in [B!Row -> Nat] /\ jobs \in Seq(BulkJob) /\ MaxBulkFaults \in Nat
  BY BulkNumbers
<1>1. /\ bulkPc = "authenticate" /\ bulkPc' \in {"create", "raised"}
      /\ UNCHANGED <<operation, batch, bulkAttempt, jobs, copies, ok, bad, unread, spoiled>>
      /\ bulkFaults' \in 0..MaxBulkFaults
  BY <1>0 DEF B!Authenticate, B!Fault, BulkInv, B!TypeOK
<1>2. B!TypeOK' /\ jobs' \in Seq(BulkJob)
  <2>1. Scalars'
    BY <1>1 DEF BulkInv, B!TypeOK, Scalars, B!NumBatches, B!Row
  <2> QED
    BY <1>0, <1>1, <2>1, TypesMade
<1>3. CountedBatches' /\ B!CountsAreSound' /\ RateTested'
  BY <1>0, <1>1, CountsStay
<1>4. JobsHonest' /\ RejectedOut' /\ Once'
  <2>1. JobsRest
    BY <1>1 DEF JobsRest
  <2>2. \A r \in B!Row : Started(r) => Started(r)'
    BY <1>1 DEF Started, BatchOf
  <2> QED
    BY <1>1, <2>1, <2>2, JobsRestKept
<1>5. JobAtHand'
  BY <1>1 DEF JobAtHand
<1> QED
  BY <1>2, <1>3, <1>4, <1>5 DEF BulkInv

\* A new job has no rows yet.
LEMMA CreateKept == ASSUME BulkInv, B!CreateJob PROVE BulkInv'
<1>0. /\ copies \in [B!Row -> Nat] /\ jobs \in Seq(BulkJob) /\ MaxBulkFaults \in Nat
      /\ batch \in Int
  BY BulkNumbers
<1>1. bulkPc = "create" /\ UNCHANGED <<operation, copies, unread, spoiled>>
  BY DEF B!CreateJob
<1> DEFINE new == [state |-> "Open", todo |-> {}, good |-> {}, bad |-> {}]
<1>2. CASE /\ jobs' = Append(jobs, new) /\ bulkPc' = "upload"
           /\ UNCHANGED <<batch, bulkAttempt, ok, bad, bulkFaults>>
  <2>1. /\ jobs' \in Seq(BulkJob) /\ Len(jobs') = Len(jobs) + 1
        /\ jobs'[Len(jobs')] = new
        /\ \A k \in 1..Len(jobs) : jobs'[k] = jobs[k]
    <3>1. new \in BulkJob
      BY DEF BulkJob
    <3> HIDE DEF new
    <3> QED
      BY <1>0, <1>2, <3>1
  <2>2. Scalars'
    BY <1>1, <1>2 DEF BulkInv, B!TypeOK, Scalars, B!NumBatches, B!Row
  <2>3. CountedBatches' /\ B!CountsAreSound' /\ RateTested'
    BY <1>0, <1>1, <1>2, CountsStay
  <2>4. JobsRest
    <3>1. \A k \in 1..Len(jobs') : k \in 1..Len(jobs) \/ k = Len(jobs')
      BY <1>0, <2>1
    <3> QED
      BY <2>1, <3>1 DEF JobsRest
  <2>5. \A r \in B!Row : Started(r) => Started(r)'
    BY <1>1, <1>2 DEF Started, BatchOf
  <2>6. JobAtHand'
    BY <1>0, <1>2, <2>1 DEF JobAtHand, Unsent
  <2> QED
    BY <1>1, <1>2, <2>1, <2>2, <2>3, <2>4, <2>5, <2>6, TypesMade, JobsRestKept DEF BulkInv
<1>3. CASE B!Fault /\ B!GiveUp /\ UNCHANGED jobs
  <2>1. /\ bulkPc' \in {"returned", "create"} /\ batch' \in 1..B!NumBatches
        /\ bulkAttempt' \in 1..MaxRetries /\ (ok \union bad \union unread)' \subseteq B!Row
        /\ \/ batch' = batch
           \/ batch' = batch + 1 /\ bulkPc' = "create"
        /\ bad' \subseteq bad \union B!RowsOf(batch)
        /\ CountedBatches' /\ B!CountsAreSound' /\ RateTested'
    BY <1>1, <1>3, GivenUp
  <2>2. bulkFaults' \in 0..MaxBulkFaults
    BY <1>0, <1>3 DEF B!Fault, BulkInv, B!TypeOK
  <2>3. Scalars'
    BY <1>1, <1>3, <2>1, <2>2 DEF BulkInv, B!TypeOK, Scalars, B!NumBatches, B!Row
  <2>4. JobsRest
    BY <1>3 DEF JobsRest
  <2>5. \A r \in B!Row : Started(r) => Started(r)'
    <3>1. \A r \in B!Row : Started(r) => BatchOf(r) < batch /\ BatchOf(r) \in Int
      BY <1>1, BatchNumbers DEF Started
    <3> QED
      BY <1>0, <2>1, <3>1 DEF Started, BatchOf
  <2>6. \A r \in bad' \ bad : BatchOf(r) = batch
    BY <2>1, BatchNumbers
  <2>7. JobAtHand'
    BY <2>1 DEF JobAtHand
  <2> QED
    BY <1>0, <1>1, <1>3, <2>1, <2>3, <2>4, <2>5, <2>6, <2>7, TypesMade, JobsRestKept DEF BulkInv
<1> QED
  BY <1>2, <1>3 DEF B!CreateJob

\* The job at hand is given the rows of the batch.
LEMMA UploadKept == ASSUME BulkInv, B!UploadData PROVE BulkInv'
<1>0. /\ copies \in [B!Row -> Nat] /\ jobs \in Seq(BulkJob) /\ MaxBulkFaults \in Nat
      /\ Len(jobs) \in Nat
  BY BulkNumbers
<1>1. /\ bulkPc = "upload" /\ Len(jobs) > 0 /\ Unsent(Len(jobs), {})
      /\ UNCHANGED <<operation, batch, bulkAttempt, copies, ok, bad, unread, spoiled>>
  BY DEF B!UploadData, BulkInv, JobAtHand
<1>2. /\ bulkPc' \in {"close", "abort"} /\ bulkFaults' \in 0..MaxBulkFaults
      /\ \/ jobs' = [jobs EXCEPT ![Len(jobs)].todo = B!RowsOf(batch)]
         \/ jobs' = jobs /\ bulkPc' = "abort"
  BY <1>0 DEF B!UploadData, B!Fault, BulkInv, B!TypeOK, B!Last
<1>3. Scalars'
  BY <1>1, <1>2 DEF BulkInv, B!TypeOK, Scalars, B!NumBatches, B!Row
<1>4. CountedBatches' /\ B!CountsAreSound' /\ RateTested'
  BY <1>0, <1>1, <1>2, CountsStay
<1>5. \A r \in B!Row : Started(r) => Started(r)'
  BY <1>1 DEF Started, BatchOf
<1>6. jobs' \in Seq(BulkJob) /\ JobsRest /\ JobAtHand'
  <2>1. CASE jobs' = [jobs EXCEPT ![Len(jobs)].todo = B!RowsOf(batch)]
    <3> DEFINE last == Len(jobs)
               new == [jobs[last] EXCEPT !.todo = B!RowsOf(batch)]
    <3>1. last \in 1..Len(jobs) /\ jobs[last] \in BulkJob
      BY <1>0, <1>1
    <3>2. /\ new \in BulkJob /\ new.state = "Open" /\ new.todo = B!RowsOf(batch)
          /\ new.good = {} /\ new.bad = {}
      BY <1>1, <3>1 DEF Unsent, BulkJob, B!RowsOf
    <3>3. jobs' = [jobs EXCEPT ![last] = new]
      BY <1>0, <2>1
    <3> HIDE DEF new
    <3>4. /\ jobs' \in Seq(BulkJob) /\ Len(jobs') = Len(jobs) /\ jobs'[last] = new
          /\ \A k \in 1..Len(jobs) : k # last => jobs'[k] = jobs[k]
      BY <1>0, <3>1, <3>2, <3>3, JobReplaced
    <3>5. JobsRest
      BY <3>2, <3>4 DEF JobsRest
    <3>6. JobAtHand'
      BY <1>1, <1>2, <3>2, <3>4, SameRows DEF JobAtHand, Unsent
    <3> QED
      BY <3>4, <3>5, <3>6
  <2>2. CASE jobs' = jobs /\ bulkPc' = "abort"
    BY <1>0, <1>1, <2>2 DEF JobsRest, JobAtHand
  <2> QED
    BY <1>2, <2>1, <2>2
<1> QED
  BY <1>1, <1>3, <1>4, <1>5, <1>6, TypesMade, JobsRestKept DEF BulkInv

\* Salesforce starts to work on the job, which the loader may not learn.
LEMMA ClosedOnce ==
    ASSUME BulkInv, bulkPc = "close", UNCHANGED <<batch, copies, bad>>,
           NEW new \in BulkJob, jobs' = [jobs EXCEPT ![Len(jobs)] = new],
           new.state = "UploadComplete", new.todo = B!RowsOf(batch),
           new.good = {}, new.bad = {}, spoiled \subseteq spoiled',
           batch \in spoiled' \/ bulkPc' = "poll"
    PROVE  /\ jobs' \in Seq(BulkJob) /\ JobsHonest' /\ RejectedOut' /\ Once'
           /\ Len(jobs') = Len(jobs) /\ Len(jobs) > 0
           /\ Closed(Len(jobs))' /\ Sent(Len(jobs))' = B!RowsOf(batch)
<1>0. /\ batch \in Int /\ \A r \in B!Row : BatchOf(r) \in Int /\ copies[r] \in Nat
      /\ jobs \in Seq(BulkJob) /\ Len(jobs) \in Nat
      /\ \A r : r \in B!RowsOf(batch) <=> r \in B!Row /\ BatchOf(r) = batch
  BY BatchNumbers, BulkNumbers
<1>1. Len(jobs) > 0 /\ Len(jobs) \in 1..Len(jobs)
  BY <1>0 DEF BulkInv, JobAtHand
<1> PICK last \in Nat : last = Len(jobs)
  BY <1>0
<1>2. /\ jobs' \in Seq(BulkJob) /\ Len(jobs') = last /\ jobs'[last] = new
      /\ \A k \in 1..last : k # last => jobs'[k] = jobs[k]
  BY <1>0, <1>1, JobReplaced
<1>3. Closed(last)' /\ Sent(last)' = B!RowsOf(batch)
  BY <1>2 DEF Closed, Sent
<1>4. \A k \in 1..last : k # last => Closed(k)' = Closed(k) /\ Sent(k)' = Sent(k)
  BY <1>2 DEF Closed, Sent
<1>5. JobsHonest' /\ RejectedOut'
  BY <1>2 DEF BulkInv, JobsHonest, RejectedOut, B!Row
<1>6. ASSUME NEW r \in B!Row, BatchOf(r) \notin spoiled' PROVE StoredOnce(r)'
  <2>1. StoredOnce(r)
    BY <1>6 DEF BulkInv, Once
  <2>2. CASE BatchOf(r) # batch
    <3>1. r \notin Sent(last)'
      BY <1>0, <1>3, <2>2
    <3>2. Started(r)' <=> Started(r)
      BY <2>2 DEF Started, BatchOf
    <3>3. ASSUME NEW k \in 1..last, Closed(k)', r \in Sent(k)'
          PROVE  OneJob(r, k)'
      <4>1. k # last /\ OneJob(r, k)
        BY <1>4, <2>1, <3>1, <3>3 DEF StoredOnce
      <4> QED
        BY <1>2, <1>4, <3>1, <3>2, <4>1 DEF OneJob
    <3> QED
      BY <1>2, <2>1, <3>2, <3>3 DEF StoredOnce
  <2>3. CASE BatchOf(r) = batch
    <3>1. ~Started(r) /\ bulkPc' = "poll"
      BY <1>0, <1>6, <2>3 DEF Started
    <3>2. copies[r] = 0 /\ \A k \in 1..last : ~(Closed(k) /\ r \in Sent(k))
      BY <1>0, <2>1, <3>1 DEF StoredOnce, OneJob
    <3>3. r \notin bad
      BY <1>0, <2>3 DEF BulkInv, CountedBatches
    <3>4. Started(r)'
      BY <2>3, <3>1 DEF Started, BatchOf
    <3>5. \A k \in 1..last : Closed(k)' /\ r \in Sent(k)' => k = last
      BY <1>4, <3>2
    <3>6. OneJob(r, last)'
      BY <1>2, <3>2, <3>3, <3>4, <3>5 DEF OneJob
    <3> QED
      BY <1>0, <1>2, <3>2, <3>3, <3>4, <3>5, <3>6 DEF StoredOnce
  <2> QED
    BY <2>2, <2>3
<1>7. Once'
  BY <1>6 DEF Once, B!Row, BatchOf
<1> QED
  BY <1>1, <1>2, <1>3, <1>5, <1>7

\* The job is closed, or the request failed before that.
LEMMA CloseKept == ASSUME BulkInv, B!CloseJob PROVE BulkInv'
<1>0. /\ jobs \in Seq(BulkJob) /\ MaxBulkFaults \in Nat /\ Len(jobs) \in Nat
      /\ batch \in 1..B!NumBatches /\ spoiled \subseteq 1..B!NumBatches
  BY BulkNumbers DEF BulkInv, B!TypeOK
<1>1. /\ bulkPc = "close" /\ Len(jobs) > 0 /\ Unsent(Len(jobs), B!RowsOf(batch))
      /\ UNCHANGED <<operation, batch, bulkAttempt, copies, ok, bad, unread>>
  BY DEF B!CloseJob, BulkInv, JobAtHand
<1>2. /\ bulkFaults' \in 0..MaxBulkFaults
      /\ \/ /\ jobs' = [jobs EXCEPT ![Len(jobs)].state = "UploadComplete"]
            /\ \/ bulkPc' = "poll" /\ spoiled' = spoiled
               \/ bulkPc' = "abort" /\ spoiled' = spoiled \union {batch}
         \/ jobs' = jobs /\ bulkPc' = "abort" /\ spoiled' = spoiled
  BY <1>0 DEF B!CloseJob, B!Fault, BulkInv, B!TypeOK, B!Last
<1>3. Scalars'
  BY <1>0, <1>1, <1>2 DEF BulkInv, B!TypeOK, Scalars, B!NumBatches, B!Row
<1>4. CountedBatches' /\ B!CountsAreSound' /\ RateTested'
  BY <1>1, <1>2, CountsStay
<1>5. CASE jobs' = jobs /\ bulkPc' = "abort" /\ spoiled' = spoiled
  <2>1. JobsRest /\ JobAtHand'
    BY <1>1, <1>5 DEF JobsRest, JobAtHand
  <2>2. \A r \in B!Row : Started(r) => Started(r)'
    BY <1>1 DEF Started, BatchOf
  <2>3. JobsHonest' /\ RejectedOut' /\ Once'
    BY <1>1, <1>5, <2>1, <2>2, JobsRestKept
  <2> QED
    BY <1>0, <1>3, <1>4, <1>5, <2>1, <2>3, TypesMade DEF BulkInv
<1>6. CASE /\ jobs' = [jobs EXCEPT ![Len(jobs)].state = "UploadComplete"]
           /\ \/ bulkPc' = "poll" /\ spoiled' = spoiled
              \/ bulkPc' = "abort" /\ spoiled' = spoiled \union {batch}
  <2> DEFINE new == [jobs[Len(jobs)] EXCEPT !.state = "UploadComplete"]
  <2>1. jobs[Len(jobs)] \in BulkJob
    BY <1>0, <1>1
  <2>2. /\ new \in BulkJob /\ new.state = "UploadComplete" /\ new.todo = B!RowsOf(batch)
        /\ new.good = {} /\ new.bad = {}
    BY <1>1, <2>1 DEF Unsent, BulkJob
  <2>3. jobs' = [jobs EXCEPT ![Len(jobs)] = new]
    BY <1>0, <1>6
  <2> HIDE DEF new
  <2>4. /\ jobs' \in Seq(BulkJob) /\ JobsHonest' /\ RejectedOut' /\ Once'
        /\ Len(jobs') = Len(jobs) /\ Len(jobs) > 0
        /\ Closed(Len(jobs))' /\ Sent(Len(jobs))' = B!RowsOf(batch)
    BY <1>1, <1>6, <2>2, <2>3, ClosedOnce
  <2>5. JobAtHand'
    BY <1>1, <1>6, <2>4, SameRows DEF JobAtHand, Closed, Sent
  <2> QED
    BY <1>3, <1>4, <2>4, <2>5, TypesMade DEF BulkInv
<1> QED
  BY <1>2, <1>5, <1>6

\* The loader learns that the job is complete, or gives up on it.
LEMMA PollKept == ASSUME BulkInv, B!PollJob PROVE BulkInv'
<1>0. /\ jobs \in Seq(BulkJob) /\ MaxBulkFaults \in Nat /\ batch \in Int
      /\ batch \in 1..B!NumBatches /\ spoiled \subseteq 1..B!NumBatches
  BY BulkNumbers DEF BulkInv, B!TypeOK
<1>1. /\ bulkPc = "poll"
      /\ UNCHANGED <<operation, batch, bulkAttempt, jobs, copies, ok, bad, unread>>
  BY DEF B!PollJob
<1>2. /\ bulkFaults' \in 0..MaxBulkFaults
      /\ \/ jobs[Len(jobs)].state = "JobComplete" /\ bulkPc' = "fetch" /\ spoiled' = spoiled
         \/ bulkPc' = "abort" /\ spoiled' = spoiled \union {batch}
  BY <1>0 DEF B!PollJob, B!Fault, BulkInv, B!TypeOK, B!Last
<1>3. Scalars'
  BY <1>0, <1>1, <1>2 DEF BulkInv, B!TypeOK, Scalars, B!NumBatches, B!Row
<1>4. CountedBatches' /\ B!CountsAreSound' /\ RateTested'
  BY <1>1, <1>2, CountsStay
<1>5. JobsRest
  BY <1>1 DEF JobsRest
<1>6. \A r \in B!Row : BatchOf(r) \notin spoiled' /\ Started(r) => Started(r)'
  BY <1>1, <1>2 DEF Started, BatchOf
<1>7. JobAtHand'
  BY <1>1, <1>2, SameRows DEF BulkInv, JobAtHand, Closed, Sent
<1>8. JobsHonest' /\ RejectedOut' /\ Once'
  BY <1>1, <1>2, <1>5, <1>6, JobsRestKept
<1> QED
  BY <1>0, <1>1, <1>3, <1>4, <1>7, <1>8, TypesMade DEF BulkInv

\* The results, as far as they can be read, end the batch.
LEMMA FetchResultsKept == ASSUME BulkInv, B!FetchResults PROVE BulkInv'
<1>0. /\ jobs \in Seq(BulkJob) /\ MaxBulkFaults \in Nat /\ batch \in Int
      /\ Len(jobs) \in Nat
  BY BulkNumbers
<1>1. bulkPc = "fetch" /\ UNCHANGED <<operation, jobs, copies, spoiled>>
  BY DEF B!FetchResults
<1> DEFINE answer == jobs[Len(jobs)]
<1>2. /\ Len(jobs) > 0 /\ Sent(Len(jobs)) = B!RowsOf(batch) /\ answer.todo = {}
      /\ answer.good \intersect Rejected = {} /\ answer.bad \subseteq Rejected
      /\ \A r \in answer.good : copies[r] > 0
  <2>1. Len(jobs) > 0 /\ Sent(Len(jobs)) = B!RowsOf(batch) /\ answer.state = "JobComplete"
    BY <1>1 DEF BulkInv, JobAtHand
  <2>2. Len(jobs) \in 1..Len(jobs)
    BY <1>0, <2>1
  <2> QED
    BY <2>1, <2>2 DEF BulkInv, JobsHonest
<1>3. answer.good \union answer.bad = B!RowsOf(batch)
  BY <1>2 DEF Sent
<1>4. PICK readGood \in BOOLEAN, readFailed \in BOOLEAN :
         /\ IF readGood /\ readFailed THEN UNCHANGED bulkFaults ELSE B!Fault
         /\ B!EndBatch(IF readGood THEN answer.good ELSE {}, IF readFailed THEN answer.bad ELSE {})
         /\ unread' = unread \union (IF readGood THEN {} ELSE answer.good)
                             \union (IF readFailed THEN {} ELSE answer.bad)
  BY DEF B!FetchResults, B!Last
<1> DEFINE good  == IF readGood THEN answer.good ELSE {}
           wrong == IF readFailed THEN answer.bad ELSE {}
           lost  == (IF readGood THEN {} ELSE answer.good)
                       \union (IF readFailed THEN {} ELSE answer.bad)
<1>5. /\ good \in SUBSET B!RowsOf(batch) /\ wrong \in SUBSET B!RowsOf(batch)
      /\ lost \in SUBSET B!RowsOf(batch) /\ good \intersect wrong = {}
      /\ B!RowsOf(batch) \subseteq good \union wrong \union lost
      /\ \A r \in good : copies[r] > 0
      /\ wrong \subseteq Rejected
  BY <1>2, <1>3
<1>6. B!EndBatch(good, wrong) /\ unread' = unread \union lost
  BY <1>4
<1>7. bulkFaults' \in 0..MaxBulkFaults
  BY <1>0, <1>4 DEF B!Fault, BulkInv, B!TypeOK
<1> HIDE DEF good, wrong, lost, answer
<1>8. /\ bulkPc' \in {"returned", "create"} /\ batch' \in 1..B!NumBatches
      /\ bulkAttempt' \in 1..MaxRetries /\ (ok \union bad \union unread)' \subseteq B!Row
      /\ \/ batch' = batch /\ bulkPc' = "returned"
         \/ batch' = batch + 1 /\ bulkPc' = "create"
      /\ CountedBatches' /\ B!CountsAreSound' /\ RateTested'
  BY <1>1, <1>5, <1>6, BatchEnds
<1>9. Scalars'
  BY <1>1, <1>7, <1>8 DEF BulkInv, B!TypeOK, Scalars, B!NumBatches, B!Row
<1>10. JobsRest
  BY <1>1 DEF JobsRest
<1>11. \A r \in B!Row : Started(r) => Started(r)'
  <2>1. \A r \in B!Row : BatchOf(r) \in Int
    BY BatchNumbers
  <2> QED
    BY <1>0, <1>1, <1>8, <2>1 DEF Started, BatchOf
<1>12. \A r \in bad' \ bad : r \in Rejected
  BY <1>5, <1>6 DEF B!EndBatch
<1>13. JobsHonest' /\ RejectedOut' /\ Once'
  BY <1>1, <1>10, <1>11, <1>12, JobsRestKept
<1>14. JobAtHand'
  BY <1>8 DEF JobAtHand
<1> QED
  BY <1>0, <1>1, <1>8, <1>9, <1>13, <1>14, TypesMade DEF BulkInv

\* The job is aborted if it can be, and the attempt ends.
LEMMA AbortKept == ASSUME BulkInv, B!AbortJob PROVE BulkInv'
<1>0. /\ jobs \in Seq(BulkJob) /\ MaxBulkFaults \in Nat /\ batch \in Int
      /\ Len(jobs) \in Nat
  BY BulkNumbers
<1>1. /\ bulkPc = "abort" /\ B!GiveUp /\ UNCHANGED <<operation, copies, unread, spoiled>>
      /\ Len(jobs) > 0
  BY DEF B!AbortJob, BulkInv, JobAtHand
<1>2. /\ bulkFaults' \in 0..MaxBulkFaults
      /\ jobs' \in {jobs, [jobs EXCEPT ![Len(jobs)].state = "Aborted"]}
  BY <1>0 DEF B!AbortJob, B!Fault, BulkInv, B!TypeOK, B!Last
<1>3. /\ bulkPc' \in {"returned", "create"} /\ batch' \in 1..B!NumBatches
      /\ bulkAttempt' \in 1..MaxRetries /\ (ok \union bad \union unread)' \subseteq B!Row
      /\ \/ batch' = batch
         \/ batch' = batch + 1 /\ bulkPc' = "create"
      /\ bad' \subseteq bad \union B!RowsOf(batch)
      /\ CountedBatches' /\ B!CountsAreSound' /\ RateTested'
  BY <1>1, GivenUp
<1>4. Scalars'
  BY <1>1, <1>2, <1>3 DEF BulkInv, B!TypeOK, Scalars, B!NumBatches, B!Row
<1>5. jobs' \in Seq(BulkJob) /\ JobsRest
  <2>1. CASE jobs' = jobs
    BY <1>0, <2>1 DEF JobsRest
  <2>2. CASE jobs' = [jobs EXCEPT ![Len(jobs)].state = "Aborted"]
    <3> DEFINE new == [jobs[Len(jobs)] EXCEPT !.state = "Aborted"]
    <3>1. Len(jobs) \in 1..Len(jobs) /\ jobs[Len(jobs)] \in BulkJob
      BY <1>0, <1>1
    <3>2. /\ new \in BulkJob /\ new.state = "Aborted" /\ new.todo = jobs[Len(jobs)].todo
          /\ new.good = jobs[Len(jobs)].good /\ new.bad = jobs[Len(jobs)].bad
      BY <3>1 DEF BulkJob, B!Terminal
    <3>3. jobs' = [jobs EXCEPT ![Len(jobs)] = new]
      BY <1>0, <2>2
    <3> HIDE DEF new
    <3>4. /\ jobs' \in Seq(BulkJob) /\ Len(jobs') = Len(jobs) /\ jobs'[Len(jobs)] = new
          /\ \A k \in 1..Len(jobs) : k # Len(jobs) => jobs'[k] = jobs[k]
      BY <1>0, <3>1, <3>2, <3>3, JobReplaced
    <3> QED
      BY <3>2, <3>4 DEF JobsRest
  <2> QED
    BY <1>2, <2>1, <2>2
<1>6. \A r \in B!Row : Started(r) => Started(r)'
  <2>1. \A r \in B!Row : Started(r) => BatchOf(r) < batch /\ BatchOf(r) \in Int
    BY <1>1, BatchNumbers DEF Started
  <2> QED
    BY <1>0, <1>3, <2>1 DEF Started, BatchOf
<1>7. \A r \in bad' \ bad : BatchOf(r) = batch
  BY <1>3, BatchNumbers
<1>8. JobsHonest' /\ RejectedOut' /\ Once'
  BY <1>1, <1>5, <1>6, <1>7, JobsRestKept
<1>9. JobAtHand'
  BY <1>3 DEF JobAtHand
<1> QED
  BY <1>3, <1>4, <1>5, <1>8, <1>9, TypesMade DEF BulkInv

\* A row of a closed job is taken: it was not stored before, unless an attempt at its
\* batch was spoiled.
LEMMA ProcessKept ==
    ASSUME BulkInv, NEW j \in 1..Len(jobs), NEW r \in jobs[j].todo, B!Process(j, r)
    PROVE  BulkInv'
<1>0. /\ jobs \in Seq(BulkJob) /\ Len(jobs) \in Nat /\ copies \in [B!Row -> Nat]
      /\ jobs[j] \in BulkJob /\ r \in B!Row /\ operation \in {"insert", "upsert"}
  BY BulkNumbers DEF BulkJob
<1>1. /\ jobs[j].state = "UploadComplete"
      /\ UNCHANGED <<operation, bulkPc, batch, bulkAttempt, ok, bad, unread, spoiled, bulkFaults>>
      /\ copies' = [copies EXCEPT ![r] = IF r \in Rejected THEN @
                                         ELSE IF operation = "upsert" THEN 1 ELSE @ + 1]
  BY DEF B!Process
<1> DEFINE new == [jobs[j] EXCEPT
                     !.todo = @ \ {r},
                     !.good = IF r \in Rejected THEN @ ELSE @ \union {r},
                     !.bad  = IF r \in Rejected THEN @ \union {r} ELSE @,
                     !.state = IF jobs[j].todo = {r} THEN "JobComplete" ELSE @]
<1>2. /\ new.todo = jobs[j].todo \ {r}
      /\ new.good = (IF r \in Rejected THEN jobs[j].good ELSE jobs[j].good \union {r})
      /\ new.bad = (IF r \in Rejected THEN jobs[j].bad \union {r} ELSE jobs[j].bad)
      /\ new.state = (IF jobs[j].todo = {r} THEN "JobComplete" ELSE "UploadComplete")
  BY <1>0, <1>1 DEF BulkJob
<1>3. new \in BulkJob
  BY <1>0 DEF BulkJob, B!Terminal
<1>4. jobs' = [jobs EXCEPT ![j] = new]
  BY <1>0 DEF B!Process
<1> HIDE DEF new
<1>5. /\ jobs' \in Seq(BulkJob) /\ Len(jobs') = Len(jobs) /\ jobs'[j] = new
      /\ \A k \in 1..Len(jobs) : k # j => jobs'[k] = jobs[k]
  BY <1>0, <1>3, <1>4, JobReplaced
<1>6. /\ copies' \in [B!Row -> Nat]
      /\ r \in Rejected => copies' = copies
      /\ \A s \in B!Row : s # r => copies'[s] = copies[s]
      /\ r \notin Rejected => copies'[r] \in {1, copies[r] + 1}
  BY <1>0, <1>1
<1>7. \A s \in B!Row : copies[s] > 0 => copies'[s] > 0
  BY <1>0, <1>6
<1>8. \A k \in 1..Len(jobs) : /\ Closed(k)' <=> Closed(k)
                              /\ Sent(k)' = Sent(k) /\ jobs'[k].todo \subseteq jobs[k].todo
  <2>1. ASSUME NEW k \in 1..Len(jobs), k # j
        PROVE  /\ Closed(k)' <=> Closed(k)
               /\ Sent(k)' = Sent(k) /\ jobs'[k].todo \subseteq jobs[k].todo
    BY <1>5, <2>1 DEF Closed, Sent
  <2>2. (Closed(j)' <=> Closed(j)) /\ jobs'[j].todo \subseteq jobs[j].todo
    BY <1>1, <1>2, <1>5 DEF Closed
  <2>3. Sent(j)' = Sent(j)
    <3>1. new.todo \union new.good \union new.bad
            = jobs[j].todo \union jobs[j].good \union jobs[j].bad
      <4>1. CASE r \in Rejected
        BY <1>2, <4>1
      <4>2. CASE r \notin Rejected
        BY <1>2, <4>2
      <4> QED
        BY <4>1, <4>2
    <3> QED
      BY <1>5, <3>1 DEF Sent
  <2> QED
    BY <2>1, <2>2, <2>3
<1>9. Scalars'
  BY <1>1, <1>6 DEF BulkInv, B!TypeOK, Scalars, B!NumBatches, B!Row
<1>10. CountedBatches' /\ B!CountsAreSound' /\ RateTested'
  BY <1>1, <1>7, CountsStay
<1>11. JobsHonest'
  <2> SUFFICES ASSUME NEW k \in 1..Len(jobs)
               PROVE  /\ jobs'[k].good \intersect Rejected = {} /\ jobs'[k].bad \subseteq Rejected
                      /\ \A s \in jobs'[k].good : copies'[s] > 0
                      /\ jobs'[k].state = "JobComplete" => jobs'[k].todo = {}
    BY <1>5 DEF JobsHonest
  <2>1. /\ jobs[k].good \intersect Rejected = {} /\ jobs[k].bad \subseteq Rejected
        /\ \A s \in jobs[k].good : copies[s] > 0 /\ s \in B!Row
        /\ jobs[k].state = "JobComplete" => jobs[k].todo = {}
    BY BulkNumbers DEF BulkInv, JobsHonest, BulkJob
  <2>2. CASE k # j
    BY <1>5, <1>7, <2>1, <2>2
  <2>3. CASE k = j /\ r \in Rejected
    BY <1>2, <1>5, <1>7, <2>1, <2>3
  <2>4. CASE k = j /\ r \notin Rejected
    <3>1. copies'[r] > 0
      BY <1>0, <1>6, <2>4
    <3> QED
      BY <1>2, <1>5, <1>7, <2>1, <2>4, <3>1
  <2> QED
    BY <2>2, <2>3, <2>4
<1>12. RejectedOut'
  BY <1>6 DEF BulkInv, RejectedOut, B!Row
<1>13. JobAtHand'
  <2>1. ASSUME bulkPc \in {"upload", "close"} PROVE j # Len(jobs)
    BY <1>1, <2>1 DEF BulkInv, JobAtHand, Unsent
  <2>2. ASSUME bulkPc = "fetch" PROVE j # Len(jobs)
    BY <1>1, <2>2 DEF BulkInv, JobAtHand
  <2>3. Len(jobs) > 0 => Len(jobs) \in 1..Len(jobs)
    BY <1>0
  <2>4. CASE bulkPc \in {"upload", "close"}
    BY <1>1, <1>5, <2>1, <2>3, <2>4, SameRows DEF BulkInv, JobAtHand, Unsent
  <2>5. CASE bulkPc \in {"poll", "fetch"}
    <3>1. /\ Len(jobs) > 0 /\ Closed(Len(jobs)) /\ Sent(Len(jobs)) = B!RowsOf(batch)
      BY <2>5 DEF BulkInv, JobAtHand
    <3>2. PICK last \in 1..Len(jobs) : last = Len(jobs)
      BY <2>3, <3>1
    <3>3. Closed(last)' /\ Sent(last)' = B!RowsOf(batch)
      BY <1>8, <3>1, <3>2
    <3>4. Closed(Len(jobs))' /\ Sent(Len(jobs))' = B!RowsOf(batch)
      BY <1>5, <3>2, <3>3 DEF Closed, Sent
    <3>5. bulkPc = "fetch" => jobs'[Len(jobs)].state = "JobComplete"
      BY <1>5, <2>2, <3>2 DEF BulkInv, JobAtHand
    <3> QED
      BY <1>1, <1>5, <2>5, <3>1, <3>4, <3>5, SameRows DEF JobAtHand, Closed, Sent
  <2>6. CASE bulkPc \notin {"upload", "close", "poll", "fetch"}
    BY <1>1, <1>5, <2>6 DEF BulkInv, JobAtHand
  <2> QED
    BY <2>4, <2>5, <2>6
<1>14. ASSUME NEW s \in B!Row, BatchOf(s) \notin spoiled PROVE StoredOnce(s)'
  <2>1. StoredOnce(s) /\ (Started(s)' <=> Started(s))
    BY <1>1, <1>14 DEF BulkInv, Once, Started, BatchOf
  <2>2. CASE s # r
    <3>1. ASSUME NEW k \in 1..Len(jobs), Closed(k)', s \in Sent(k)'
          PROVE  OneJob(s, k)'
      <4>1. OneJob(s, k)
        BY <1>8, <2>1, <3>1 DEF StoredOnce
      <4> QED
        BY <1>1, <1>5, <1>6, <1>8, <2>1, <2>2, <4>1 DEF OneJob
    <3> QED
      BY <1>1, <1>5, <1>6, <2>1, <2>2, <3>1 DEF StoredOnce
  <2>3. CASE s = r
    <3>1. Closed(j) /\ r \in Sent(j)
      BY <1>1 DEF Closed, Sent
    <3>2. OneJob(r, j)
      BY <2>1, <2>3, <3>1 DEF StoredOnce
    <3>3. Started(r)' /\ copies[r] = 0 /\ (r \in bad => r \in Rejected)
      BY <2>1, <2>3, <3>2 DEF OneJob
    <3>4. copies'[r] <= 1 /\ (r \in bad => copies'[r] = 0)
      BY <1>6, <3>3
    <3>5. ASSUME NEW k \in 1..Len(jobs), Closed(k)', r \in Sent(k)'
          PROVE  OneJob(r, k)'
      <4>1. k = j /\ \A i \in 1..Len(jobs) : Closed(i)' /\ r \in Sent(i)' => j = i
        BY <1>8, <3>2, <3>5 DEF OneJob
      <4>2. r \notin jobs'[j].todo
        BY <1>2, <1>5
      <4> QED
        BY <1>1, <1>5, <3>3, <4>1, <4>2 DEF OneJob
    <3> QED
      BY <1>1, <1>5, <2>3, <3>3, <3>4, <3>5 DEF StoredOnce
  <2> QED
    BY <2>2, <2>3
<1>15. Once'
  BY <1>1, <1>14 DEF Once, B!Row, BatchOf
<1> QED
  BY <1>5, <1>9, <1>10, <1>11, <1>12, <1>13, <1>15, TypesMade DEF BulkInv

\* A job that fails keeps the rows it has stored.
LEMMA BulkJobFails ==
    ASSUME BulkInv, NEW j \in 1..Len(jobs), B!FailJob(j)
    PROVE  BulkInv'
<1>0. /\ jobs \in Seq(BulkJob) /\ Len(jobs) \in Nat /\ jobs[j] \in BulkJob
      /\ MaxBulkFaults \in Nat
  BY BulkNumbers
<1>1. /\ jobs[j].state = "UploadComplete" /\ bulkFaults' \in 0..MaxBulkFaults
      /\ UNCHANGED <<operation, bulkPc, batch, bulkAttempt, copies, ok, bad, unread, spoiled>>
  BY <1>0 DEF B!FailJob, B!Fault, BulkInv, B!TypeOK
<1> DEFINE new == [jobs[j] EXCEPT !.state = "Failed"]
<1>2. /\ new \in BulkJob /\ new.state = "Failed" /\ new.todo = jobs[j].todo
      /\ new.good = jobs[j].good /\ new.bad = jobs[j].bad
  BY <1>0 DEF BulkJob, B!Terminal
<1>3. jobs' = [jobs EXCEPT ![j] = new]
  BY <1>0 DEF B!FailJob
<1> HIDE DEF new
<1>4. /\ jobs' \in Seq(BulkJob) /\ Len(jobs') = Len(jobs) /\ jobs'[j] = new
      /\ \A k \in 1..Len(jobs) : k # j => jobs'[k] = jobs[k]
  BY <1>0, <1>2, <1>3, JobReplaced
<1>5. \A k \in 1..Len(jobs) : /\ Closed(k)' <=> Closed(k)
                              /\ Sent(k)' = Sent(k) /\ jobs'[k].todo = jobs[k].todo
  <2>1. ASSUME NEW k \in 1..Len(jobs), k # j
        PROVE  (Closed(k)' <=> Closed(k)) /\ Sent(k)' = Sent(k) /\ jobs'[k].todo = jobs[k].todo
    BY <1>4, <2>1 DEF Closed, Sent
  <2>2. (Closed(j)' <=> Closed(j)) /\ Sent(j)' = Sent(j) /\ jobs'[j].todo = jobs[j].todo
    BY <1>1, <1>2, <1>4 DEF Closed, Sent
  <2> QED
    BY <2>1, <2>2
<1>6. Scalars'
  BY <1>1 DEF BulkInv, B!TypeOK, Scalars, B!NumBatches, B!Row
<1>7. CountedBatches' /\ B!CountsAreSound' /\ RateTested'
  BY <1>1, CountsStay
<1>8. JobsHonest'
  <2> SUFFICES ASSUME NEW k \in 1..Len(jobs)
               PROVE  /\ jobs'[k].good \intersect Rejected = {} /\ jobs'[k].bad \subseteq Rejected
                      /\ \A s \in jobs'[k].good : copies[s] > 0
                      /\ jobs'[k].state = "JobComplete" => jobs'[k].todo = {}
    BY <1>1, <1>4 DEF JobsHonest
  <2>1. CASE k # j
    BY <1>4, <2>1 DEF BulkInv, JobsHonest
  <2>2. CASE k = j
    BY <1>2, <1>4, <2>2 DEF BulkInv, JobsHonest
  <2> QED
    BY <2>1, <2>2
<1>9. RejectedOut'
  BY <1>1 DEF BulkInv, RejectedOut, B!Row
<1>10. JobAtHand'
  <2>1. ASSUME bulkPc \in {"upload", "close"} PROVE j # Len(jobs)
    BY <1>1, <2>1 DEF BulkInv, JobAtHand, Unsent
  <2>2. ASSUME bulkPc = "fetch" PROVE j # Len(jobs)
    BY <1>1, <2>2 DEF BulkInv, JobAtHand
  <2>3. Len(jobs) > 0 => Len(jobs) \in 1..Len(jobs)
    BY <1>0
  <2>4. CASE bulkPc \in {"upload", "close"}
    BY <1>1, <1>4, <2>1, <2>3, <2>4, SameRows DEF BulkInv, JobAtHand, Unsent
  <2>5. CASE bulkPc \in {"poll", "fetch"}
    <3>1. /\ Len(jobs) > 0 /\ Closed(Len(jobs)) /\ Sent(Len(jobs)) = B!RowsOf(batch)
      BY <2>5 DEF BulkInv, JobAtHand
    <3>2. PICK last \in 1..Len(jobs) : last = Len(jobs)
      BY <2>3, <3>1
    <3>3. Closed(last)' /\ Sent(last)' = B!RowsOf(batch)
      BY <1>5, <3>1, <3>2
    <3>4. Closed(Len(jobs))' /\ Sent(Len(jobs))' = B!RowsOf(batch)
      BY <1>4, <3>2, <3>3 DEF Closed, Sent
    <3>5. bulkPc = "fetch" => jobs'[Len(jobs)].state = "JobComplete"
      BY <1>4, <2>2, <3>2 DEF BulkInv, JobAtHand
    <3> QED
      BY <1>1, <1>4, <2>5, <3>1, <3>4, <3>5, SameRows DEF JobAtHand, Closed, Sent
  <2>6. CASE bulkPc \notin {"upload", "close", "poll", "fetch"}
    BY <1>1, <1>4, <2>6 DEF BulkInv, JobAtHand
  <2> QED
    BY <2>4, <2>5, <2>6
<1>11. ASSUME NEW s \in B!Row, BatchOf(s) \notin spoiled PROVE StoredOnce(s)'
  <2>1. StoredOnce(s) /\ (Started(s)' <=> Started(s))
    BY <1>1, <1>11 DEF BulkInv, Once, Started, BatchOf
  <2>2. ASSUME NEW k \in 1..Len(jobs), Closed(k)', s \in Sent(k)'
        PROVE  OneJob(s, k)'
    <3>1. OneJob(s, k)
      BY <1>5, <2>1, <2>2 DEF StoredOnce
    <3> QED
      BY <1>1, <1>4, <1>5, <2>1, <3>1 DEF OneJob
  <2> QED
    BY <1>1, <1>4, <2>1, <2>2 DEF StoredOnce
<1>12. Once'
  BY <1>1, <1>11 DEF Once, B!Row, BatchOf
<1> QED
  BY <1>4, <1>6, <1>7, <1>8, <1>9, <1>10, <1>12, TypesMade DEF BulkInv

\* Every step of the loader and of Salesforce keeps the invariant.
LEMMA BulkKept == BulkInv /\ [B!Next]_bulkVars => BulkInv'
<1> SUFFICES ASSUME BulkInv, [B!Next]_bulkVars PROVE BulkInv'
  OBVIOUS
<1>1. CASE B!Load
  BY <1>1, AuthenticateKept, CreateKept, UploadKept, CloseKept, PollKept, FetchResultsKept,
     AbortKept DEF B!Load
<1>2. CASE B!Salesforce
  BY <1>2, ProcessKept DEF B!Salesforce, B!Last
<1>3. CASE \E j \in 1..B!Last : B!FailJob(j)
  BY <1>3, BulkJobFails DEF B!Last
<1>4. CASE UNCHANGED bulkVars
  <2>1. B!TypeOK' /\ jobs' \in Seq(BulkJob)
    BY <1>4 DEF BulkInv, bulkVars, B!TypeOK, B!NumBatches, B!Row, B!Last
  <2>2. JobsHonest' /\ RejectedOut' /\ JobAtHand'
    BY <1>4, SameRows DEF BulkInv, bulkVars, JobsHonest, RejectedOut, JobAtHand, Unsent, Closed,
                          Sent, B!Row
  <2>3. CountedBatches' /\ B!CountsAreSound' /\ RateTested'
    BY <1>4, CountsStay DEF bulkVars
  <2>4. Once'
    BY <1>4 DEF BulkInv, bulkVars, Once, StoredOnce, OneJob, Started, Closed, Sent, B!Row, BatchOf
  <2> QED
    BY <2>1, <2>2, <2>3, <2>4 DEF BulkInv
<1> QED
  BY <1>1, <1>2, <1>3, <1>4 DEF B!Next, B!Work, B!vars, bulkVars

\* What the invariant says of the counters.
LEMMA BulkCounts ==
    BulkInv => /\ B!TypeOK /\ B!CountsAreSound /\ B!DuplicatesNeedSpoiledAttempt
               /\ B!StopsWhenTooManyFail
<1> SUFFICES ASSUME BulkInv
             PROVE  B!DuplicatesNeedSpoiledAttempt /\ B!StopsWhenTooManyFail
  BY DEF BulkInv
<1>1. B!StopsWhenTooManyFail
  BY DEF BulkInv, RateTested, B!StopsWhenTooManyFail
<1>2. B!DuplicatesNeedSpoiledAttempt
  <2> SUFFICES ASSUME NEW b \in (1..B!NumBatches) \ spoiled, NEW r \in B!RowsOf(b)
               PROVE  copies[r] <= 1 /\ (r \in bad => copies[r] = 0)
    BY DEF B!DuplicatesNeedSpoiledAttempt
  <2>1. r \in B!Row /\ BatchOf(r) = b
    BY BatchNumbers
  <2> QED
    BY <2>1 DEF BulkInv, Once, StoredOnce
<1> QED
  BY <1>1, <1>2

-------------------------------------------------------------------------------
(* What moves records.                                                     *)

\* Each component keeps its invariant, whichever runs.
TransferInv ==
    /\ part \in {"extractor", "load", "bulk", "pipeline"}
    /\ ExtractInv /\ LoadInv /\ BulkInv /\ PipelineInv

\* All components start in their invariants.
LEMMA TransferStart == MCInit => TransferInv
  BY ExtractStart, LoadStart, BulkStart, PipelineStart DEF MCInit, TransferInv

\* A step of one component, and the stored job that only a running one changes.
LEMMA TransferKept ==
    TransferInv /\ [MCNext]_<<part, vars, loadVars, bulkVars, taskVars>>
        => TransferInv' /\ (job.status # "RUNNING" => job' = job)
<1> SUFFICES ASSUME TransferInv, [MCNext]_<<part, vars, loadVars, bulkVars, taskVars>>
             PROVE  TransferInv' /\ (job.status # "RUNNING" => job' = job)
  OBVIOUS
<1>1. /\ part' = part /\ [Next]_vars /\ [L!Next]_loadVars /\ [B!Next]_bulkVars
      /\ [P!Next]_taskVars
  BY DEF MCNext, ExtractorStep, LoadStep, BulkStep, PipelineStep
<1>2. ExtractInv'
  BY <1>1, ExtractKept DEF TransferInv
<1>3. LoadInv' /\ (job.status # "RUNNING" => job' = job)
  BY <1>1, LoadKept DEF TransferInv
<1>4. BulkInv'
  BY <1>1, BulkKept DEF TransferInv
<1>5. PipelineInv'
  BY <1>1, PipelineKept DEF TransferInv
<1> QED
  BY <1>1, <1>2, <1>3, <1>4, <1>5 DEF TransferInv

\* So the invariant holds throughout.
LEMMA TransferInvariant == MCSpec => []TransferInv
<1>1. MCInit => TransferInv
  BY TransferStart
<1>2. TransferInv /\ [MCNext]_<<part, vars, loadVars, bulkVars, taskVars>> => TransferInv'
  BY TransferKept
<1> QED
  BY <1>1, <1>2, PTL DEF MCSpec

\* For any number of pages, accounts, rows and handlers: a checkpoint and a returning run
\* leave out no page but those that failed, a closed load phase has counted what its
\* workers have seen, and what is counted or stored twice has a cause that is named.
THEOREM TransfersCountOnce == MCSpec => []EverythingCountedOnce
<1>1. TransferInv => EverythingCountedOnce
  BY ExtractCounts, LoadCounts, BulkCounts DEF TransferInv, EverythingCountedOnce
<1> QED
  BY <1>1, TransferInvariant, PTL

\* Every RecordMigrated event and every counted success has its row, every row its record
\* in Salesforce, and a run of the pipeline reports success only with all accounts loaded.
THEOREM ReportsHaveRows == MCSpec => []ReportsAreBacked
<1>1. TransferInv => ReportsAreBacked
  BY LoadCounts, ReportIsBacked DEF TransferInv, ReportsAreBacked, PipelineInv
<1> QED
  BY <1>1, TransferInvariant, PTL

\* A job that was paused, failed or completed is not changed any more by a handler that
\* read it before: the version of its copy is not the stored one.
THEOREM StaleHandlersAreRefused == MCSpec => StaleHandlerNeverOverwrites
<1>1. TransferInv /\ [MCNext]_<<part, vars, loadVars, bulkVars, taskVars>>
         => [job.status # "RUNNING" => job' = job]_(L!vars)
  BY TransferKept
<1> QED
  BY <1>1, TransferInvariant, PTL
     DEF MCSpec, StaleHandlerNeverOverwrites, L!StaleHandlerNeverOverwrites
=============================================================================
