--------------------------- MODULE Reconciliation ---------------------------
(***************************************************************************)
(* What the pipeline does when all is loaded: DataValidator asks the org,  *)
(* one check after another, whether an object arrived, while the org goes  *)
(* on changing, and ReconciliationReport turns the reports of the two      *)
(* objects into rows and a verdict.  Records are counted, not told apart;  *)
(* percentages are compared as the fractions they are.                     *)
(***************************************************************************)
EXTENDS Integers, Sequences, FiniteSets

CONSTANTS
    Sources,      \* object -> what its transformed files may hold
    Orgs,         \* object -> what the org may hold of it
    MaxChanges, MaxFaults      \* bounds

\* ids: distinct ids; again: rows that repeat one; noId, noName: rows without; hasName:
\* is the column there.  In the org, of these ids: arrived, failed, twice (in a second
\* record); and strangers with other legacy ids.
ReconciliationAssumption ==
    /\ \A o \in DOMAIN Sources : Sources[o] \subseteq
           [ids : Nat, again : Nat, noId : Nat, noName : Nat, hasName : BOOLEAN]
    /\ \A o \in DOMAIN Orgs : Orgs[o] \subseteq
           [arrived : Nat, failed : Nat, twice : Nat, strangers : Nat, orphans : Nat]
    /\ {MaxChanges, MaxFaults} \subseteq Nat

VARIABLES
    source, org,      \* by object
    encodes,          \* does the JSON encoder take numpy's boolean (releases so far do not)
    object,           \* the object that is validated, or "report", "done", "raised"
    checks,           \* object -> results so far
    began,            \* object -> the org when its validation began (history)
    still,            \* object -> the org has not changed since (history)
    output,           \* the files of the report that are written
    changes, faults

vars == <<source, org, encodes, object, checks, began, still, output, changes, faults>>

Objects == {"Account", "Contact"}

Suite == [Account |-> <<"record_count", "required_name", "required_id", "source_duplicates",
                        "sf_duplicates", "checksum", "status_distribution">>,
          Contact |-> <<"record_count", "required_name", "required_id", "ref_integrity",
                        "sf_duplicates", "checksum", "status_distribution">>]

Most(a, b) == IF a >= b THEN a ELSE b
Away(a, b) == IF a >= b THEN a - b ELSE b - a

Rows(s) == s.ids + s.again + s.noId
NotFailed(g) == g.arrived + g.twice + g.strangers       \* Migration_Status__c != 'Failed'
Total(g) == NotFailed(g) + g.failed

Result(name, passed, severity, details) ==
    [name |-> name, passed |-> passed, severity |-> severity, details |-> details]
NoDetails == [known |-> FALSE]

\* Mutant: five per cent.
WithinTolerance_Loose(s, g) == Away(s.ids, NotFailed(g)) * 100 <= 5 * Most(s.ids, 1)

\* count_tolerance_pct is a half per cent.
WithinTolerance(s, g) == Away(s.ids, NotFailed(g)) * 1000 <= 5 * Most(s.ids, 1)

\* A column that is missing is a warning, values that are missing are critical.
Complete(rows, missing) == rows > 0 /\ (rows - missing) * 100 >= 99 * rows

\* What a check finds if the org answers.
Finding(name, s, g) ==
    CASE name = "record_count" ->
           {Result(name, WithinTolerance(s, g),
                   IF WithinTolerance(s, g) THEN "info" ELSE "critical",
                   [known |-> TRUE, source |-> s.ids, sf |-> NotFailed(g)])}
      [] name = "required_name" ->
           {IF s.hasName THEN Result(name, Complete(Rows(s), s.noName), "critical", NoDetails)
            ELSE Result(name, FALSE, "warning", NoDetails)}
      [] name = "required_id" ->
           {Result(name, Complete(Rows(s), s.noId), "critical", NoDetails)}
      [] name = "source_duplicates" ->
           {LET dupes == s.again + Most(s.noId - 1, 0)
            IN  Result(name, dupes = 0, IF dupes = 0 THEN "info" ELSE "critical", NoDetails)}
      [] name = "sf_duplicates" ->
           {Result(name, g.twice = 0, IF g.twice = 0 THEN "info" ELSE "critical", NoDetails)}
      [] name = "checksum" ->       \* of a sample, which is not modelled
           {Result(name, ok, IF ok THEN "info" ELSE "warning", NoDetails) : ok \in BOOLEAN}
      [] name = "ref_integrity" ->
           {LET ok == g.orphans * 100 <= 2 * Most(Total(g), 1)
            IN  Result(name, ok, IF ok THEN "info" ELSE "warning", NoDetails)}
      [] name = "status_distribution" ->
           {LET fails(pct) == g.failed * 100 > pct * Most(Total(g), 1)
            IN  Result(name, ~fails(5),
                       IF fails(20) THEN "critical" ELSE IF fails(5) THEN "warning" ELSE "info",
                       [known |-> TRUE, failed |-> g.failed, total |-> Total(g)])}

AsksTheOrg(name) == name \notin {"required_name", "required_id", "source_duplicates"}

\* What it says if the query fails.
Unanswered(name) ==
    Result(name, FALSE, IF name = "record_count" THEN "critical" ELSE "warning", NoDetails)

-----------------------------------------------------------------------------
NextCheck == Suite[object][Len(checks[object]) + 1]
Checking == object \in Objects /\ Len(checks[object]) < Len(Suite[object])

Record(result) == checks' = [checks EXCEPT ![object] = Append(@, result)]

Begin == IF checks[object] = <<>> THEN
             /\ began' = [began EXCEPT ![object] = org[object]]
             /\ still' = [still EXCEPT ![object] = TRUE]
         ELSE UNCHANGED <<began, still>>

Check ==
    /\ Checking /\ Begin
    /\ \E result \in Finding(NextCheck, source[object], org[object]) : Record(result)
    /\ UNCHANGED <<source, org, encodes, object, output, changes, faults>>

CheckUnanswered ==
    /\ Checking /\ Begin /\ AsksTheOrg(NextCheck) /\ faults < MaxFaults
    /\ faults' = faults + 1
    /\ Record(Unanswered(NextCheck))
    /\ UNCHANGED <<source, org, encodes, object, output, changes>>

\* The second query of the check of references is outside the try.
CheckRaises ==
    /\ Checking /\ NextCheck = "ref_integrity" /\ faults < MaxFaults
    /\ faults' = faults + 1
    /\ object' = "raised"
    /\ UNCHANGED <<source, org, encodes, checks, began, still, output, changes>>

\* Whether a column repeats an id is numpy's boolean, in the suite of accounts alone.
Encodable(o) == encodes \/ \A i \in DOMAIN checks[o] : checks[o][i].name # "source_duplicates"

SaveReport ==
    /\ object \in Objects /\ ~Checking
    /\ object' = IF ~Encodable(object) THEN "raised"
                 ELSE IF object = "Account" THEN "Contact" ELSE "report"
    /\ UNCHANGED <<source, org, encodes, checks, began, still, output, changes, faults>>

CriticalFailures(o) ==
    {i \in DOMAIN checks[o] : ~checks[o][i].passed /\ checks[o][i].severity = "critical"}
IsPassing(o) == CriticalFailures(o) = {}

-----------------------------------------------------------------------------
(* ReconciliationReport *)

Details(o, name) ==
    LET found == {i \in DOMAIN checks[o] : checks[o][i].name = name /\ checks[o][i].details.known}
    IN  IF found = {} THEN NoDetails ELSE checks[o][CHOOSE i \in found : TRUE].details

\* What is not known counts as nothing: no records, none that failed.
Row(o) ==
    LET count == Details(o, "record_count")
        dist == Details(o, "status_distribution")
    IN  [source |-> IF count.known THEN count.source ELSE 0,
         sf |-> IF count.known THEN count.sf ELSE 0,
         failed |-> IF dist.known THEN dist.failed ELSE 0,
         total |-> IF dist.known /\ dist.total > 0 THEN dist.total ELSE 1]

\* Mutant: the rate of success is not looked at.
RowStatus_CountsOnly(r) ==
    LET off(permille) == Away(r.sf, r.source) * 1000 > permille * Most(r.source, 1)
    IN  IF off(10) THEN "FAIL" ELSE IF off(5) THEN "WARN" ELSE "PASS"

RowStatus(r) ==
    LET off(permille) == Away(r.sf, r.source) * 1000 > permille * Most(r.source, 1)
        below(pct) == (r.total - r.failed) * 100 < pct * r.total
    IN  IF off(10) \/ below(95) THEN "FAIL" ELSE IF off(5) \/ below(99) THEN "WARN" ELSE "PASS"

OverallStatus ==
    IF \A o \in Objects : RowStatus(Row(o)) # "FAIL" /\ IsPassing(o) THEN "PASS" ELSE "FAIL"

Files == <<"html", "csv", "json">>

\* The files are written one after another; one that cannot be written ends it.
Generate ==
    /\ object = "report"
    /\ \/ /\ output' = Append(output, Files[Len(output) + 1])
          /\ object' = IF Len(output') = Len(Files) THEN "done" ELSE object
          /\ UNCHANGED faults
       \/ /\ faults < MaxFaults /\ faults' = faults + 1
          /\ object' = "raised" /\ UNCHANGED output
    /\ UNCHANGED <<source, org, encodes, checks, began, still, changes>>

\* Late results, other loads and users change the org.
OrgChanges(o, g) ==
    /\ changes < MaxChanges /\ changes' = changes + 1 /\ g # org[o]
    /\ org' = [org EXCEPT ![o] = g]
    /\ still' = [still EXCEPT ![o] = FALSE]
    /\ UNCHANGED <<source, encodes, object, checks, began, output, faults>>

Init ==
    /\ source \in [Objects -> UNION {Sources[o] : o \in Objects}]
    /\ org \in [Objects -> UNION {Orgs[o] : o \in Objects}]
    /\ \A o \in Objects : source[o] \in Sources[o] /\ org[o] \in Orgs[o]
    /\ encodes \in BOOLEAN
    /\ object = "Account" /\ checks = [o \in Objects |-> <<>>]
    /\ began = org /\ still = [o \in Objects |-> FALSE]
    /\ output = <<>> /\ changes = 0 /\ faults = 0

Step == Check \/ SaveReport \/ Generate
Next ==
    \/ Step
    \/ CheckUnanswered
    \/ CheckRaises
    \/ \E o \in Objects : \E g \in Orgs[o] : OrgChanges(o, g)

Spec == Init /\ [][Next]_vars
\* The task goes on.
FairSpec == Spec /\ WF_vars(Step)

-----------------------------------------------------------------------------
(* Properties *)

TypeOK ==
    /\ object \in Objects \cup {"report", "done", "raised"}
    /\ \A o \in Objects : Len(checks[o]) <= Len(Suite[o])
    /\ \A o \in Objects, i \in 1 .. 7 :
           i \in DOMAIN checks[o] => checks[o][i].name = Suite[o][i]
    /\ Len(output) <= Len(Files)

Validated(o) == Len(checks[o]) = Len(Suite[o])
Answered(o) == \A i \in DOMAIN checks[o] :
                   AsksTheOrg(checks[o][i].name) =>
                       checks[o][i] \in Finding(checks[o][i].name, source[o], began[o])

\* When every query was answered, the org stood still, and holds no other legacy ids, then
\* a passing report means that no more than the tolerated half per cent of the ids is
\* missing: no duplicate in the org makes up for a record that is not there, which the
\* count alone would let pass, and at most a fifth of the records failed.
PassingMeansArrived ==
    \A o \in Objects :
        (Validated(o) /\ IsPassing(o) /\ Answered(o) /\ still[o] /\ began[o].strangers = 0) =>
            /\ (source[o].ids - began[o].arrived) * 1000 <= 5 * Most(source[o].ids, 1)
            /\ began[o].failed * 100 <= 20 * Most(Total(began[o]), 1)

\* The verdict that is written is PASS only of objects that passed, of which less than a
\* twentieth failed, and no row is better than its checks if they were answered.
VerdictIsBacked ==
    (object = "done" /\ OverallStatus = "PASS") =>
        \A o \in Objects :
            /\ IsPassing(o)
            /\ (Answered(o) /\ still[o]) => began[o].failed * 100 <= 5 * Total(began[o])

ReconciliationIsSound == PassingMeansArrived /\ VerdictIsBacked

\* The task ends, with a report or an exception.
ReconciliationEnds == <>(object \in {"done", "raised"})

(* Documented, and not so in the code *)

\* "Duplicate detection", "Record count verification": records of other ids make up for
\* ones that are missing.
CountMeansArrived ==
    \A o \in Objects : (Validated(o) /\ IsPassing(o) /\ Answered(o) /\ still[o]) =>
        (source[o].ids - began[o].arrived) * 1000 <= 5 * Most(source[o].ids, 1)

\* "Required field completeness": a report passes without the column.
PassingHasNames ==
    \A o \in Objects : (Validated(o) /\ IsPassing(o)) => source[o].hasName

\* A verdict of PASS rests on answers: a distribution that is not known counts as none failed.
PassIsAnswered ==
    (object = "done" /\ OverallStatus = "PASS") =>
        \A o \in Objects : Details(o, "status_distribution").known

\* Accounts can be validated (with the encoder as released: encodes is FALSE).
AccountsCanPass == encodes \/ object # "raised" \/ faults > 0
=============================================================================
