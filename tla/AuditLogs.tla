------------------------------ MODULE AuditLogs -------------------------------
(***************************************************************************)
(* The two audit logs of the program.  They share nothing, and each is a   *)
(* state machine of its own.                                               *)
(*                                                                         *)
(* AuditLogger, its chain and its sinks                                    *)
(* (src/security/audit/audit_logger.py): events are stamped and queued     *)
(* without waiting, and two workers write each of them to every sink.  An  *)
(* event is its position in the order of the calls of log_event.           *)
(*                                                                         *)
(* AuditLogger of src/monitoring/structured_audit_log.py: entries are      *)
(* appended to a file, each with a code over the entry before it, and then *)
(* shipped by a thread of their own.  Several loggers may write one file.  *)
(* An entry is its position in the order of the calls of log; its code     *)
(* stands for the entry it was computed with.                              *)
(***************************************************************************)
EXTENDS Integers, Sequences, FiniteSets, SequencesExt

CONSTANTS
    NumEvents,      \* bound on the calls of log_event
    QueueSize,      \* queue_size
    BufferSize,     \* _buffer_size of the sink for the search index
    MaxStarts,      \* bound on the starts of the process
    MaxFaults,      \* bound on failing writes and crashes
    Logger,         \* processes that log to one file
    NumEntries,     \* bound on the calls of log
    MaxTears        \* bound on failing writes, killed processes and failing requests

AuditAssumption ==
    /\ {QueueSize, BufferSize, MaxStarts} \subseteq Nat \ {0}
    /\ {NumEvents, MaxFaults} \subseteq Nat

ChainAssumption == {NumEntries, MaxTears} \subseteq Nat /\ IsFiniteSet(Logger)

VARIABLES
    pc,         \* of the logger: "new", "running", "stopping", "stopped"
    queue,      \* _queue; Stop for None
    worker,     \* each worker: the event it holds and the sink it comes to
    sequence,   \* _sequence of the chain
    number,     \* the sequence number of each event that was logged, 0 before
    buffer,     \* _buffer of the search index
    lines,      \* per sink: what was written, in order
    flushed,    \* how many lines of the file are more than a buffer
    lost,       \* observed: events a full queue, a fault or a crash took
    late,       \* observed: events logged when stop() had been called
    starts, faults

loggerVars == <<pc, queue, worker, sequence, number, buffer, lines, flushed, lost, late, starts,
                faults>>

-------------------------------------------------------------------------------
(* The logger with its sinks.                                              *)
Stop == 0
NoEvent == -1
Event == 1..NumEvents
Worker == 1..2
Sink == <<"log", "file", "index">>
Sinks == Range(Sink)

Free == [event |-> NoEvent, sink |-> 1]
Gone == [event |-> Stop, sink |-> 1]

LoggerInit ==
    /\ pc = "new" /\ queue = <<>> /\ worker = [w \in Worker |-> Gone]
    /\ sequence = 0 /\ number = [e \in Event |-> 0]
    /\ buffer = <<>> /\ lines = [s \in Sinks |-> <<>>]
    /\ flushed = 0 /\ lost = {} /\ late = {} /\ starts = 0 /\ faults = 0

Fault == faults < MaxFaults /\ faults' = faults + 1

Logged == {e \in Event : number[e] # 0}

-------------------------------------------------------------------------------
Start ==
    /\ pc = "new" /\ starts < MaxStarts
    /\ pc' = "running" /\ starts' = starts + 1
    /\ worker' = [w \in Worker |-> Free]
    /\ UNCHANGED <<queue, sequence, number, buffer, lines, flushed, lost, late, faults>>

\* log_event: stamped, and dropped when the queue is full.
LogEvent(e) ==
    /\ Cardinality(Logged) = e - 1
    /\ sequence' = sequence + 1
    /\ number' = [number EXCEPT ![e] = sequence']
    /\ IF Len(queue) < QueueSize
       THEN queue' = Append(queue, e) /\ UNCHANGED lost
       ELSE lost' = lost \union {e} /\ UNCHANGED queue
    /\ late' = IF pc \in {"new", "running"} THEN late ELSE late \union {e}
    /\ UNCHANGED <<pc, worker, buffer, lines, flushed, starts, faults>>

\* The sentinels are put one by one; put waits for room.
Stops == 2 - Len(SelectSeq(queue, LAMBDA e : e = Stop))
           - Cardinality({w \in Worker : worker[w] = Gone})

PutStop ==
    /\ pc \in {"running", "stopping"}
    /\ Len(queue) < QueueSize
    /\ Stops > 0
    /\ queue' = Append(queue, Stop)
    /\ pc' = "stopping"
    /\ UNCHANGED <<worker, sequence, number, buffer, lines, flushed, lost, late, starts, faults>>

\* A worker takes the next event; None ends it.
Take(w) ==
    /\ worker[w] = Free /\ queue # <<>>
    /\ worker' = [worker EXCEPT ![w].event = Head(queue)]
    /\ queue' = Tail(queue)
    /\ UNCHANGED <<pc, sequence, number, buffer, lines, flushed, lost, late, starts, faults>>

\* The event goes to the next sink, or the worker to the next event.
NextSink(w) ==
    worker' = IF worker[w].sink < Len(Sink) THEN [worker EXCEPT ![w].sink = @ + 1]
                                            ELSE [worker EXCEPT ![w] = Free]

\* A sink that raises ends the event.
NextSink_Break(w) == worker' = [worker EXCEPT ![w] = Free]

Holds(w, s) == worker[w].event \in Event /\ Sink[worker[w].sink] = s

\* StructlogSink in a thread, FileAuditSink under its lock.
Write(w, s) ==
    /\ s \in {"log", "file"} /\ Holds(w, s)
    /\ lines' = [lines EXCEPT ![s] = Append(@, worker[w].event)]
    /\ NextSink(w)
    /\ UNCHANGED <<pc, queue, sequence, number, buffer, flushed, lost, late, starts, faults>>

\* The error is printed.
WriteRaises(w, s) ==
    /\ s \in {"log", "file"} /\ Holds(w, s)
    /\ Fault
    /\ lost' = lost \union {worker[w].event}
    /\ NextSink(w)
    /\ UNCHANGED <<pc, queue, sequence, number, buffer, lines, flushed, late, starts>>

\* _flush_buffer: one request, after which the buffer is empty whatever came of it.
FlushBuffer(events) ==
    /\ buffer' = <<>>
    /\ \/ lines' = [lines EXCEPT !["index"] = @ \o events] /\ UNCHANGED <<lost, faults>>
       \/ Fault /\ lost' = lost \union Range(events) /\ UNCHANGED lines

\* A buffer that is flushed when it is more than full.
Buffer_Late(w) ==
    /\ Holds(w, "index")
    /\ LET events == Append(buffer, worker[w].event)
       IN  IF Len(events) > BufferSize THEN FlushBuffer(events)
           ELSE buffer' = events /\ UNCHANGED <<lines, lost, faults>>
    /\ NextSink(w)
    /\ UNCHANGED <<pc, queue, sequence, number, flushed, late, starts>>

\* ElasticsearchAuditSink.write, under its lock.
Buffer(w) ==
    /\ Holds(w, "index")
    /\ LET events == Append(buffer, worker[w].event)
       IN  IF Len(events) >= BufferSize THEN FlushBuffer(events)
           ELSE buffer' = events /\ UNCHANGED <<lines, lost, faults>>
    /\ NextSink(w)
    /\ UNCHANGED <<pc, queue, sequence, number, flushed, late, starts>>

Flush_Never ==
    /\ pc = "stopping"
    /\ \A w \in Worker : worker[w] = Gone
    /\ pc' = "stopped"
    /\ UNCHANGED <<queue, worker, sequence, number, buffer, lines, flushed, lost, late, starts,
                   faults>>

\* stop: when the workers have ended, the sinks are flushed.
Flush ==
    /\ pc = "stopping"
    /\ \A w \in Worker : worker[w] = Gone
    /\ FlushBuffer(buffer)
    /\ flushed' = Len(lines["file"])
    /\ pc' = "stopped"
    /\ UNCHANGED <<queue, worker, sequence, number, late, starts>>

\* The process ends or is killed; the next one has a chain of its own.
Restart ==
    /\ \/ pc = "stopped" /\ UNCHANGED faults
       \/ pc \in {"running", "stopping"} /\ Fault
    /\ starts < MaxStarts
    /\ pc' = "new" /\ sequence' = 0
    /\ \E n \in flushed..Len(lines["file"]) :
          /\ pc = "stopped" => n = flushed
          /\ lines' = [lines EXCEPT !["file"] = SubSeq(@, 1, n)]
          /\ flushed' = n
          /\ lost' = lost \union (IF pc = "stopped" THEN {} ELSE
               Range(buffer) \union Range(queue) \union {worker[w].event : w \in Worker}
               \union Range(SubSeq(lines["file"], n + 1, Len(lines["file"]))))
    /\ queue' = <<>> /\ buffer' = <<>> /\ worker' = [w \in Worker |-> Gone]
    /\ UNCHANGED <<number, late, starts>>

Serve(w) == Take(w) \/ (\E s \in Sinks : Write(w, s) \/ WriteRaises(w, s)) \/ Buffer(w)

Stopping == pc # "running" /\ PutStop

Work == Stopping \/ Flush \/ \E w \in Worker : Serve(w)

LoggerNext ==
    \/ Start \/ PutStop \/ Restart \/ Work
    \/ \E e \in Event : LogEvent(e)
    \/ pc \in {"new", "stopped"} /\ UNCHANGED loggerVars

LoggerSpec == LoggerInit /\ [][LoggerNext]_loggerVars

\* The sinks answer, the workers are scheduled, and stop() goes on.
FairSpec == LoggerSpec /\ WF_loggerVars(Work)

-------------------------------------------------------------------------------
\* The types of the variables.
LoggerTypes ==
    /\ pc \in {"new", "running", "stopping", "stopped"}
    /\ queue \in Seq(Event \union {Stop}) /\ Len(queue) <= QueueSize
    /\ \A w \in Worker : /\ worker[w].event \in Event \union {Stop, NoEvent}
                         /\ worker[w].sink \in DOMAIN Sink
    /\ Len(buffer) < BufferSize /\ flushed <= Len(lines["file"])
    /\ lost \subseteq Event \union {Stop, NoEvent}

\* When stop() has returned, each event that was logged before it is at every sink, in
\* this or an earlier process, or was taken by a full queue, a fault or a crash: what
\* was queued, held by a worker or buffered when stop() was called is not forgotten.
StoppedMeansWritten ==
    pc = "stopped" =>
        \A e \in Logged \ (lost \union late), s \in Sinks : e \in Range(lines[s])

\* No sink gets an event twice.
WrittenOnce == \A s \in Sinks : IsInjective(lines[s])

\* stop() returns, unless the process is killed.
StopEnds == [](pc = "stopping" => <>(pc # "stopping"))

-------------------------------------------------------------------------------
\* "An independent auditor can replay the log and verify the chain": two workers may
\* write two events in the other order, and a new process begins at 1 again.
FileFollowsChain ==
    \A i \in 1..Len(lines["file"]) - 1 :
        number[lines["file"][i]] < number[lines["file"][i + 1]]

\* "Gracefully stop, flushing all queued events".
StopFlushesAll == pc = "stopped" => queue = <<>>

-------------------------------------------------------------------------------
(* The chained file.                                                       *)

VARIABLES
    file,       \* its lines; entry is 0 if a line cannot be read
    torn,       \* the last line has no end
    up,         \* the loggers that run
    last,       \* _last_entry_hash of each logger
    returned,   \* entries whose log() has returned their id
    shipping,   \* entries in a thread of _ship_to_splunk
    shipped,
    logged, tears,
    broken      \* observed: failing writes

chainVars == <<file, torn, up, last, returned, shipping, shipped, logged, tears, broken>>

Line == [entry : 0..NumEntries, code : 0..NumEntries]
Unreadable == [entry |-> 0, code |-> 0]

ChainInit ==
    /\ file = <<>> /\ torn = FALSE
    /\ up = {} /\ last = [l \in Logger |-> 0]
    /\ returned = {} /\ shipping = {} /\ shipped = {}
    /\ logged = 0 /\ tears = 0 /\ broken = 0

Tear == tears < MaxTears /\ tears' = tears + 1

\* The last line up to the i-th that can be read, 0 without one.
LastRead(i) == LET readable == {j \in 1..i : file[j].entry # 0}
               IN  IF readable = {} THEN 0 ELSE file[Max(readable)].entry

\* _load_last_hash, in the constructor: lines that cannot be read are passed over.
Open(l) ==
    /\ l \notin up
    /\ up' = up \union {l}
    /\ last' = [last EXCEPT ![l] = LastRead(Len(file))]
    /\ UNCHANGED <<file, torn, returned, shipping, shipped, logged, tears, broken>>

\* What is appended to a line without an end ends that line.
WithLine(line) ==
    IF torn THEN [file EXCEPT ![Len(file)] = Unreadable] ELSE Append(file, line)

Log_Ahead(l) ==
    LET e == logged + 1
    IN  /\ l \in up /\ logged < NumEntries
        /\ logged' = e
        /\ file' = WithLine([entry |-> e, code |-> e])
        /\ torn' = FALSE
        /\ last' = [last EXCEPT ![l] = e]
        /\ returned' = returned \union {e}
        /\ shipping' = shipping \union {e}
        /\ UNCHANGED <<up, shipped, tears, broken>>

\* log: one entry, under the lock of this logger.
Log(l) ==
    LET e == logged + 1
    IN  /\ l \in up /\ logged < NumEntries
        /\ logged' = e
        /\ file' = WithLine([entry |-> e, code |-> last[l]])
        /\ torn' = FALSE
        /\ last' = [last EXCEPT ![l] = e]
        /\ returned' = returned \union {e}
        /\ shipping' = shipping \union {e}
        /\ UNCHANGED <<up, shipped, tears, broken>>

\* The write, the flush or the fsync fails, with nothing, a part or all of the line in
\* the file: log raises and last stays.  Or the process is killed at that moment.
WriteFails(l) ==
    LET e == logged + 1
    IN  /\ l \in up /\ logged < NumEntries
        /\ Tear /\ broken' = broken + 1
        /\ logged' = e
        /\ \/ UNCHANGED <<file, torn>>
           \/ file' = WithLine(Unreadable) /\ torn' = TRUE
           \/ file' = WithLine([entry |-> e, code |-> last[l]]) /\ torn' \in BOOLEAN
        /\ \/ UNCHANGED up
           \/ up' = up \ {l}
        /\ UNCHANGED <<last, returned, shipping, shipped>>

\* The process ends between two logged, and its threads with it.
Exit(l) ==
    /\ l \in up /\ Tear
    /\ up' = up \ {l}
    /\ \E gone \in SUBSET shipping : shipping' = shipping \ gone
    /\ UNCHANGED <<file, torn, last, returned, shipped, logged, broken>>

\* Whatever the request meets is logged as a warning.
Ship(e) ==
    /\ e \in shipping
    /\ shipping' = shipping \ {e}
    /\ shipped' = shipped \union {e} \/ UNCHANGED shipped
    /\ UNCHANGED <<file, torn, up, last, returned, logged, tears, broken>>

ChainNext ==
    \/ \E l \in Logger : Open(l) \/ Log(l) \/ WriteFails(l) \/ Exit(l)
    \/ \E e \in shipping : Ship(e)
    \/ logged = NumEntries /\ UNCHANGED chainVars

ChainSpec == ChainInit /\ [][ChainNext]_chainVars

\* verify_chain: the lines it complains of.
Complaints ==
    {i \in DOMAIN file : file[i].entry = 0 \/ file[i].code # LastRead(i - 1)}

Readable(e) == \E i \in DOMAIN file : file[i].entry = e

-------------------------------------------------------------------------------
\* The types of the variables.
ChainTypes ==
    /\ file \in Seq(Line) /\ torn \in BOOLEAN
    /\ torn => file # <<>>
    /\ up \subseteq Logger /\ last \in [Logger -> 0..NumEntries]
    /\ shipping \union shipped \subseteq returned /\ returned \subseteq 1..logged
    /\ logged \in 0..NumEntries /\ tears \in 0..MaxTears /\ broken \in 0..tears

\* A log nobody touched verifies, across restarts, unless writes failed; and each
\* failing write spoils one line and the code of one more, as long as one process
\* writes the file.
ComplaintsNeedFaults ==
    Cardinality(Logger) = 1 => Cardinality(Complaints) <= 2 * broken

\* An entry whose log() returned can be read, or a write that failed before it left
\* a line without an end: at most one entry is lost in such a line.
LossNeedsFaults ==
    Cardinality({e \in returned : ~Readable(e)}) <= broken

-------------------------------------------------------------------------------
\* "Local log write failed — this is a hard failure (audit must not be lost)": the
\* entry after the one that failed is lost, and its log() returns.
ReturnedIsReadable == \A e \in returned : Readable(e)

\* "HMAC chain": of two processes that log to one file each continues its own.
ChainHolds == broken = 0 => Complaints = {}
===============================================================================
