--------------------------- MODULE ContextServers ---------------------------
(***************************************************************************)
(* The three context servers agents ask over stdin, one request at a time: *)
(* documentation-context keeps an index of the Markdown files, rebuilt     *)
(* when it is older than its time to live; runtime-context asks the        *)
(* internal APIs on each request, in a new event loop but with the HTTP    *)
(* client of the earlier ones; security-context decides from a policy and  *)
(* appends its decisions to an audit file.  Files, metrics and the disk    *)
(* change while a request is served.  Time is in units of its own.         *)
(***************************************************************************)
EXTENDS Integers, Sequences, FiniteSets

CONSTANTS
    Paths,                  \* the Markdown files' paths, in a sequence
    Texts,                  \* what a file may hold: [length, breaks]
    ChunkSize, Overlap,     \* chunk_size_chars, chunk_overlap_chars
    MaxBytes,               \* files that are longer are not indexed
    IndexTtl,               \* index_ttl_seconds
    Queries,                \* the permission checks, file checks and queries offered
    MaxTime, MaxRequests, MaxChanges, MaxFaults    \* bounds

CONSTANT Absent             \* no file at a path
ContextAssumption ==
    /\ ChunkSize \in Nat /\ Overlap \in Nat /\ Overlap < ChunkSize \div 2
    /\ {IndexTtl, MaxBytes, MaxTime, MaxRequests, MaxChanges, MaxFaults} \subseteq Nat

VARIABLES
    server,       \* the server that is followed: they share nothing but the clock
    clock, changes, faults, requests,
    files,        \* path -> text or Absent
    lastTrue,     \* path -> what it may hold -> when it last did (history, -1 never)
    index,        \* path -> chunks
    builtAt, startedAt,     \* when the last build ended, and began (history)
    metric,       \* fetch -> "under" or "over" its threshold
    during,       \* fetch -> values it had since the request began (history)
    old,          \* origins with an idle connection of an earlier event loop
    used,         \* origins asked in this event loop
    disk,         \* can the audit file be written
    audit,        \* the audit file
    job,          \* what the server that was asked is doing
    answer        \* the last answer

docs == <<files, lastTrue, index, builtAt, startedAt>>
live == <<metric, during, old, used>>
safe == <<disk, audit>>
vars == <<server, clock, changes, faults, requests, docs, live, safe, job, answer>>

Path == {Paths[i] : i \in DOMAIN Paths}

-----------------------------------------------------------------------------
(* documentation-context *)

\* The last paragraph break in the window that is past the middle of it.
Boundary(text, start, end) ==
    LET late == {b \in text.breaks : start + (ChunkSize \div 2) < b /\ b + 2 <= end}
    IN  IF late = {} THEN -1 ELSE CHOOSE b \in late : \A c \in late : c <= b

ChunkEnd(text, start) ==
    LET end == IF start + ChunkSize < text.length THEN start + ChunkSize ELSE text.length
    IN  IF end < text.length /\ Boundary(text, start, end) >= 0
        THEN Boundary(text, start, end) + 2 ELSE end

\* _chunk_text: the chunks from an offset on.
ChunkText(text) ==
    LET From[start \in 0 .. text.length] ==
            IF start >= text.length THEN <<>>
            ELSE LET end == ChunkEnd(text, start)
                 IN  <<[from |-> start, to |-> end]>>
                     \o From[IF end < text.length THEN end - Overlap ELSE text.length]
    IN  From[0]

\* What _index_file makes of what it finds at a path.
Indexed(x) == IF x = Absent \/ x.length > MaxBytes THEN <<>> ELSE ChunkText(x)

IsStale == clock - builtAt > IndexTtl

Idle == [tool |-> "none"]
Busy(s) == server = s /\ job # Idle
NoAnswer == [tool |-> "none"]

\* One file that was found is read; it may have changed since.  The build ends with the
\* last one, and its time is noted then.
IndexFile ==
    /\ Busy("docs") /\ job.next <= Len(Paths)
    /\ index' = [index EXCEPT ![Paths[job.next]] =
                      IF Paths[job.next] \in job.found THEN Indexed(files[Paths[job.next]]) ELSE @]
    /\ builtAt' = IF job.next = Len(Paths) THEN clock ELSE builtAt
    /\ job' = [job EXCEPT !.next = @ + 1]
    /\ UNCHANGED <<server, clock, changes, faults, requests, files, lastTrue, startedAt,
                   live, safe, answer>>

\* Mutant: build() leaves what it indexed before.
BeginBuild_Kept ==
    /\ startedAt' = clock
    /\ UNCHANGED <<files, lastTrue, index, builtAt>>

\* build() clears the index before it reads the first file.
BeginBuild ==
    /\ index' = [p \in Path |-> <<>>]
    /\ startedAt' = clock
    /\ UNCHANGED <<files, lastTrue, builtAt>>

BuildsNow(tool) == tool = "rebuild_index" \/ IsStale

AskDocs(tool, path) ==
    /\ server = "docs" /\ job = Idle /\ requests < MaxRequests
    /\ tool # "get_document" => path = Paths[1]
    /\ requests' = requests + 1
    /\ job' = [tool |-> tool, path |-> path, asked |-> clock,
               found |-> {p \in Path : files[p] # Absent},
               next |-> IF BuildsNow(tool) THEN 1 ELSE Len(Paths) + 1]
    /\ answer' = NoAnswer
    /\ IF BuildsNow(tool) THEN BeginBuild ELSE UNCHANGED docs
    /\ UNCHANGED <<server, clock, changes, faults, live, safe>>

AnswerDocs ==
    /\ Busy("docs") /\ job.next > Len(Paths)
    /\ job' = Idle
    /\ answer' = IF job.tool # "get_document" THEN [tool |-> job.tool, index |-> index]
                 ELSE IF index[job.path] = <<>> THEN [tool |-> "not_found", path |-> job.path]
                 ELSE [tool |-> job.tool, path |-> job.path, chunks |-> index[job.path]]
    /\ UNCHANGED <<server, clock, changes, faults, requests, docs, live, safe>>

EditFile(p, x) ==
    /\ server = "docs" /\ changes < MaxChanges /\ changes' = changes + 1
    /\ files[p] # x
    /\ files' = [files EXCEPT ![p] = x]
    /\ lastTrue' = [lastTrue EXCEPT ![p][x] = clock]
    /\ UNCHANGED <<server, clock, faults, requests, index, builtAt, startedAt, live,
                   safe, job, answer>>

-----------------------------------------------------------------------------
(* runtime-context *)

Fetches == {"job_status", "kafka_lag", "dlq", "spire", "salesforce_limits"}
Gathered == Fetches \ {"salesforce_limits"}

\* The origins a fetch asks, in order, and which answer holds the value.
Calls == [job_status |-> <<"api">>, kafka_lag |-> <<"kafka">>, dlq |-> <<"dlq", "api">>,
          spire |-> <<"spire">>, salesforce_limits |-> <<"api", "salesforce">>]
Origins == {"api", "kafka", "dlq", "spire", "salesforce"}
ReadAt == [f \in Fetches |-> IF f = "salesforce_limits" THEN 2 ELSE 1]
Missing == "missing"

AskRuntime(wanted) ==
    /\ server = "runtime" /\ job = Idle /\ requests < MaxRequests
    /\ requests' = requests + 1
    /\ job' = [tool |-> "metrics", wanted |-> wanted, calls |-> [f \in Fetches |-> 0],
               failed |-> {}, parts |-> [f \in Fetches |-> Missing]]
    /\ used' = {}
    /\ during' = [f \in Fetches |-> {metric[f]}]
    /\ answer' = NoAnswer
    /\ UNCHANGED <<server, clock, changes, faults, docs, metric, old, safe>>

Finished(f) == f \in job.failed \/ job.calls[f] = Len(Calls[f])

\* gather() runs four fetches together; the limits come after them.
CanCall(f) ==
    /\ Busy("runtime") /\ f \in job.wanted /\ ~Finished(f)
    /\ f = "salesforce_limits" => \A g \in job.wanted \ {f} : Finished(g)

Origin(f) == Calls[f][job.calls[f] + 1]

\* What the API says when it is asked.
Measured(f) == metric[f]

Call(f) ==
    /\ CanCall(f)
    /\ job' = [job EXCEPT !.calls[f] = @ + 1,
                          !.parts[f] = IF job.calls[f] + 1 = ReadAt[f] THEN Measured(f) ELSE @]
    /\ used' = used \cup {Origin(f)}
    /\ UNCHANGED <<server, clock, changes, faults, requests, docs, metric, during, old,
                   safe, answer>>

\* The idle connection belongs to a closed loop: the call raises, and the connection is dropped.
LoopClosed(f) ==
    /\ CanCall(f) /\ Origin(f) \in old
    /\ job' = [job EXCEPT !.failed = @ \cup {f}, !.parts[f] = Missing]
    /\ old' = old \ {Origin(f)}
    /\ UNCHANGED <<server, clock, changes, faults, requests, docs, metric, during, used,
                   safe, answer>>

CallFails(f) ==
    /\ CanCall(f) /\ faults < MaxFaults
    /\ faults' = faults + 1
    /\ job' = [job EXCEPT !.failed = @ \cup {f}, !.parts[f] = Missing]
    /\ UNCHANGED <<server, clock, changes, requests, docs, live, safe, answer>>

Warnings == {f \in job.wanted : job.parts[f] = Missing}
Alerts == {f \in job.wanted \ {"job_status"} : job.parts[f] = "over"}

AnswerRuntime ==
    /\ Busy("runtime") /\ \A f \in job.wanted : Finished(f)
    /\ answer' = IF job.wanted = Fetches
                 THEN [tool |-> "snapshot", parts |-> job.parts, seen |-> during,
                       warnings |-> Warnings, alerts |-> Alerts]
                 ELSE IF job.failed # {} THEN [tool |-> "internal_error"]
                 ELSE [tool |-> "metric", parts |-> job.parts, seen |-> during]
    /\ old' = old \cup used /\ used' = {}
    /\ during' = [f \in Fetches |-> {}]
    /\ job' = Idle
    /\ UNCHANGED <<server, clock, changes, faults, requests, docs, metric, safe>>

MetricMoves(f) ==
    /\ server = "runtime" /\ changes < MaxChanges /\ changes' = changes + 1
    /\ metric' = [metric EXCEPT ![f] = IF @ = "over" THEN "under" ELSE "over"]
    /\ during' = IF job = Idle THEN during ELSE [during EXCEPT ![f] = @ \cup {metric'[f]}]
    /\ UNCHANGED <<server, clock, faults, requests, docs, old, used, safe, job, answer>>

-----------------------------------------------------------------------------
(* security-context *)

Policy == [MIGRATE_CHUNK |-> {"operator", "admin"}, EXECUTE_MIGRATION |-> {"operator", "admin"},
           ROLLBACK |-> {"admin"}, HIGH_RISK_EXECUTION |-> {"admin"},
           FORCE_DELETE |-> {"admin"}, OVERRIDE_GATE |-> {"admin"},
           VALIDATE_SOURCE |-> {"operator", "admin", "auditor"},
           VALIDATE_TARGET |-> {"operator", "admin", "auditor"},
           SECRETS_SCAN |-> {"auditor", "admin"}, DEPENDENCY_AUDIT |-> {"auditor", "admin"},
           READ_LOGS |-> {"operator", "admin", "auditor", "readonly"},
           READ_SCHEMA |-> {"operator", "admin", "auditor"}]
HighRisk == {"ROLLBACK", "HIGH_RISK_EXECUTION", "FORCE_DELETE", "OVERRIDE_GATE"}

Permitted(q) == q.operation \in DOMAIN Policy /\ q.roles \cap Policy[q.operation] # {}

\* The first check that fails decides; the size counts only for a file that exists.
FileAllowed(q) == ~q.denied /\ q.inside /\ q.extension /\ (q.exists => ~q.oversized)

\* The findings of _validate_soql that are critical or high; SELECT * is neither.
SoqlFindings(q) ==
    (IF q.dml THEN {"NON_SELECT_QUERY"} ELSE {})
    \cup (IF q.concatenates THEN {"STRING_CONCATENATION"} ELSE {})
    \cup (IF q.long THEN {"QUERY_TOO_LONG"} ELSE {})

Decision(q) ==
    CASE q.tool = "check_permission" -> Permitted(q)
      [] q.tool = "validate_file_access" -> FileAllowed(q)
      [] q.tool = "validate_soql_query" -> SoqlFindings(q) = {}
      [] OTHER -> TRUE

\* The calls that leave a record, and the record; a write that fails is logged only.
Recorded(q) == q.tool \in {"check_permission", "validate_file_access", "get_vault_secret_names"}
Record(q) == IF Recorded(q) /\ disk THEN Append(audit, [tool |-> q.tool, allow |-> Decision(q)])
             ELSE audit

NeedsHuman(q) == q.tool = "check_permission" /\ q.operation \in HighRisk /\ Permitted(q)

AskSecurity(q) ==
    /\ server = "security" /\ job = Idle /\ requests < MaxRequests
    /\ requests' = requests + 1
    /\ audit' = Record(q)
    /\ answer' = [tool |-> q.tool, query |-> q, allow |-> Decision(q), human |-> NeedsHuman(q),
                  diskWas |-> disk]
    /\ UNCHANGED <<server, clock, changes, faults, docs, live, disk, job>>

DiskTurns ==
    /\ server = "security" /\ changes < MaxChanges /\ changes' = changes + 1
    /\ disk' = ~disk
    /\ UNCHANGED <<server, clock, faults, requests, docs, live, audit, job, answer>>

-----------------------------------------------------------------------------
\* What is on disk now was on disk until now.
Tick ==
    /\ server = "docs" /\ clock < MaxTime /\ clock' = clock + 1
    /\ lastTrue' = [p \in Path |-> [lastTrue[p] EXCEPT ![files[p]] = clock + 1]]
    /\ UNCHANGED <<server, changes, faults, requests, files, index, builtAt, startedAt, live, safe,
                   job, answer>>

\* The index is built before the first request is read.
Init ==
    /\ server \in {"docs", "runtime", "security"}
    /\ clock = 0 /\ changes = 0 /\ faults = 0 /\ requests = 0
    /\ files \in [Path -> Texts \cup {Absent}]
    /\ server = "docs" \/ files = [p \in Path |-> Absent]
    /\ lastTrue = [p \in Path |-> [x \in Texts \cup {Absent} |-> IF x = files[p] THEN 0 ELSE -1]]
    /\ index = [p \in Path |-> Indexed(files[p])]
    /\ builtAt = 0 /\ startedAt = 0
    /\ metric = [f \in Fetches |-> "under"] /\ during = [f \in Fetches |-> {}]
    /\ old = {} /\ used = {}
    /\ disk = TRUE /\ audit = <<>>
    /\ job = Idle /\ answer = NoAnswer

\* search_docs, search_runbook and initialize look at the index as list_documents does.
DocTools == {"get_document", "list_documents", "rebuild_index"}

Serve ==
    \/ IndexFile \/ AnswerDocs \/ AnswerRuntime
    \/ \E f \in Fetches : Call(f) \/ LoopClosed(f)

Next ==
    \/ Serve
    \/ \E tool \in DocTools, p \in Path : AskDocs(tool, p)
    \/ \E wanted \in {Fetches} \cup {{f} : f \in Fetches} : AskRuntime(wanted)
    \/ \E q \in Queries : AskSecurity(q)
    \/ \E f \in Fetches : CallFails(f) \/ MetricMoves(f)
    \/ \E p \in Path, x \in Texts \cup {Absent} : EditFile(p, x)
    \/ DiskTurns \/ Tick

Spec == Init /\ [][Next]_vars
\* A server that has a request goes on with it.
FairSpec == Spec /\ WF_vars(Serve)

-----------------------------------------------------------------------------
(* Properties *)

TypeOK ==
    /\ server \in {"docs", "runtime", "security"}
    /\ index \in [Path -> Seq([from : Nat, to : Nat])]
    /\ metric \in [Fetches -> {"under", "over"}] /\ old \subseteq Origins /\ used \subseteq Origins
    /\ startedAt <= builtAt \/ Busy("docs")
    /\ Len(audit) <= requests

\* Chunks cut a text without a gap: they begin at its start, stop at its end, each goes
\* beyond the last and takes up its last Overlap characters, so that what is no longer
\* than the overlap is whole in one of them (_chunk_text with its paragraph breaks).
ChunksCover ==
    \A p \in Path, x \in Texts :
        (index[p] # <<>> /\ index[p] = Indexed(x)) =>
            LET c == index[p]
            IN  /\ c[1].from = 0 /\ c[Len(c)].to = x.length
                /\ \A i \in DOMAIN c : c[i].to - c[i].from \in 1 .. ChunkSize
                /\ \A i \in 1 .. Len(c) - 1 :
                       c[i + 1].from = c[i].to - Overlap /\ c[i + 1].to > c[i].to
                /\ \A a \in 0 .. x.length - Overlap :
                       \E i \in DOMAIN c : c[i].from <= a /\ a + Overlap <= c[i].to

\* What an answer is about to say of a file, that it is not there included, was so on disk
\* after the last build began, and that build ended no longer before the request than the
\* time to live: files come, go and change while the build reads them (DocumentIndex).
DocsAreRecent ==
    (Busy("docs") /\ job.next > Len(Paths)) =>
        /\ job.asked - builtAt <= IndexTtl
        /\ \A p \in Path : \E x \in Texts \cup {Absent} :
               Indexed(x) = index[p] /\ lastTrue[p][x] >= startedAt

\* Each part of an answer was so while the request was served, whatever failed around it
\* ("All data is fetched from internal APIs on each request - no stale cache"), and what
\* was past its threshold all that time is an alert of the snapshot or a warning in it.
SnapshotsMissNothing ==
    /\ answer.tool \in {"snapshot", "metric"} =>
           \A f \in Fetches : answer.parts[f] \in answer.seen[f] \cup {Missing}
    /\ answer.tool = "snapshot" =>
           \A f \in Fetches \ {"job_status"} :
               answer.seen[f] = {"over"} => f \in answer.alerts \cup answer.warnings

\* What needs a human's approval is for administrators alone, and a decision that was
\* answered is the last record of the trail, unless the disk refused it.
DecisionsStand ==
    answer.tool \in {"check_permission", "validate_file_access"} =>
        /\ answer.human => "admin" \in answer.query.roles
        /\ answer.diskWas => audit # <<>> /\ audit[Len(audit)].allow = answer.allow

\* "Appends all permission checks and access decisions to an audit log": does not hold, a
\* record the disk refuses is logged as an error, and the decision is answered without it.
EveryDecisionIsKept ==
    answer.tool \in {"check_permission", "validate_file_access"} =>
        audit # <<>> /\ audit[Len(audit)].allow = answer.allow

ContextIsSound == ChunksCover /\ DocsAreRecent /\ SnapshotsMissNothing /\ DecisionsStand

\* A request is answered: a build ends, and every fetch ends or fails.
RequestsEnd == job # Idle ~> job = Idle
=============================================================================
