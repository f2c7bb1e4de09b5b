------------------------------ MODULE RuntimeLogs ------------------------------
(***************************************************************************)
(* The log of function executions (metrics.go, mutation_logs.go,           *)
(* log_stream.go, runtime_errors.go): a ring in memory that log streams    *)
(* follow, a queue of durable entries that one goroutine writes, their     *)
(* restoration after a restart, and the queue of failures on their way     *)
(* into the errors inbox.  The errors store is ErrorTracking's subject;    *)
(* here it is the set of executions that it knows.                         *)
(***************************************************************************)
EXTENDS Integers, Sequences, FiniteSets, SequencesExt

CONSTANTS Recorder,    \* handlers that record executions
          KindOf,      \* of an entry: "mutation", "failed" or "ok"
          RingSize,    \* metricsLogLimit, also of the queue of failures
          WriteQueue,  \* mutationLogQueueSize
          StreamSize,  \* the channel of a log stream
          MaxRestarts, MaxWriteFails

LogEntry == DOMAIN KindOf

ASSUME RuntimeLogsAssumption == {RingSize, WriteQueue, StreamSize} \subseteq Nat \ {0}

VARIABLES
    made,      \* executions so far
    recorder,  \* of a handler: [at, e]
    ring,      \* runtimeMetrics.logs
    writes,    \* mutationWrites
    table,     \* gonvex_runtime_mutation_logs
    restored,  \* has runMutationLogPersistence loaded the table?
    replay,    \* restored entries whose failures are still to be reported
    failures,  \* the runtimeErrors channel
    inbox,     \* failures that the errors store knows
    gone,      \* entries of a queue that a crash, a failed write or a full queue lost
    unseen,    \* failures that did not fit into the queue
    stream,    \* [at, todo, buffer, sent, owed, missed]
    restarts, writeFails

logVars == <<made, recorder, ring, writes, table, restored, replay, failures, inbox, gone, unseen,
             stream, restarts, writeFails>>

LastOf(n, s) == SubSeq(s, IF Len(s) > n THEN Len(s) - n + 1 ELSE 1, Len(s))
IdleRecorder == [at |-> "idle", e |-> 0]
NoStream == [at |-> "none", todo |-> <<>>, buffer |-> <<>>, sent |-> <<>>, owed |-> {}, missed |-> {}]
Failed == {e \in LogEntry : KindOf[e] = "failed"}
Mutations == {e \in LogEntry : KindOf[e] = "mutation"}

-----------------------------------------------------------------------------
\* appendLog: a stream whose channel is full misses the entry.
Publish(st, e) ==
    IF st.at = "none" THEN st
    ELSE IF Len(st.buffer) < StreamSize
    THEN [st EXCEPT !.buffer = Append(@, e), !.owed = @ \cup {e}]
    ELSE [st EXCEPT !.missed = @ \cup {e}, !.owed = @ \cup {e}]

\* recordRuntimeLog, under its lock; what is durable goes on after the unlock.
Record(p) ==
    LET e == made + 1 IN
    /\ recorder[p].at = "idle" /\ e \in LogEntry
    /\ made' = e
    /\ ring' = LastOf(RingSize, Append(ring, e))
    /\ stream' = Publish(stream, e)
    /\ recorder' = [recorder EXCEPT ![p] =
                       IF KindOf[e] = "ok" THEN IdleRecorder ELSE [at |-> "persist", e |-> e]]
    /\ UNCHANGED <<writes, table, restored, replay, failures, inbox, gone, unseen, restarts, writeFails>>

AfterPersist(p) ==
    recorder' = [recorder EXCEPT ![p] = IF @.e \in Failed THEN [@ EXCEPT !.at = "report"] ELSE IdleRecorder]
\* persistMutationLog: a mutation waits for room, the failure of anything else
\* is dropped.
Persist(p) ==
    LET e == recorder[p].e
        room == Len(writes) < WriteQueue IN
    /\ recorder[p].at = "persist" /\ (room \/ e \notin Mutations)
    /\ IF room THEN writes' = Append(writes, e) /\ UNCHANGED gone
       ELSE gone' = gone \cup {e} /\ UNCHANGED writes
    /\ AfterPersist(p)
    /\ UNCHANGED <<made, ring, table, restored, replay, failures, inbox, unseen, stream, restarts, writeFails>>

\* queueRuntimeFunctionError
Enqueue(e) ==
    IF Len(failures) < RingSize THEN failures' = Append(failures, e) /\ UNCHANGED unseen
    ELSE unseen' = unseen \cup {e} /\ UNCHANGED failures
ReportFailure(p) ==
    /\ recorder[p].at = "report" /\ Enqueue(recorder[p].e)
    /\ recorder' = [recorder EXCEPT ![p] = IdleRecorder]
    /\ UNCHANGED <<made, ring, writes, table, restored, replay, inbox, gone, stream, restarts, writeFails>>

\* captureRuntimeFunctionError: the event ID is the execution's.
CaptureFailure ==
    /\ failures # <<>> /\ failures' = Tail(failures) /\ inbox' = inbox \cup {Head(failures)}
    /\ UNCHANGED <<made, recorder, ring, writes, table, restored, replay, gone, unseen, stream, restarts, writeFails>>

-----------------------------------------------------------------------------
(* runMutationLogPersistence *)

RestoreSilently ==
    /\ ~restored /\ restored' = TRUE
    /\ ring' = LastOf(RingSize, LastOf(RingSize, table) \o ring)
    /\ UNCHANGED <<made, recorder, writes, table, replay, failures, inbox, gone, unseen, stream, restarts, writeFails>>
\* restoreMutationLogs: before what has been logged since the start.
Restore ==
    LET entries == LastOf(RingSize, table) IN
    /\ ~restored /\ restored' = TRUE
    /\ ring' = LastOf(RingSize, entries \o ring)
    /\ replay' = SelectSeq(entries, LAMBDA e : e \in Failed)
    /\ UNCHANGED <<made, recorder, writes, table, failures, inbox, gone, unseen, stream, restarts, writeFails>>
Replay ==
    /\ replay # <<>> /\ replay' = Tail(replay) /\ Enqueue(Head(replay))
    /\ UNCHANGED <<made, recorder, ring, writes, table, restored, inbox, gone, stream, restarts, writeFails>>

\* Append, once the past is restored; an error is logged and forgotten.
WriteEntry ==
    /\ restored /\ replay = <<>> /\ writes # <<>> /\ writes' = Tail(writes)
    /\ \/ table' = Append(table, Head(writes)) /\ UNCHANGED <<gone, writeFails>>
       \/ /\ writeFails < MaxWriteFails /\ writeFails' = writeFails + 1
          /\ gone' = gone \cup {Head(writes)} /\ UNCHANGED table
    /\ UNCHANGED <<made, recorder, ring, restored, replay, failures, inbox, unseen, stream, restarts>>

\* The worker dies; a new one starts with the table.
RestartLogs ==
    /\ restarts < MaxRestarts /\ restarts' = restarts + 1
    /\ gone' = gone \cup ToSet(writes) \cup {recorder[p].e : p \in {q \in Recorder : recorder[q].at = "persist"}}
    /\ recorder' = [p \in Recorder |-> IdleRecorder]
    /\ ring' = <<>> /\ writes' = <<>> /\ restored' = FALSE /\ replay' = <<>> /\ failures' = <<>>
    /\ unseen' = {}
    /\ stream' = NoStream
    /\ UNCHANGED <<made, table, inbox, writeFails>>

-----------------------------------------------------------------------------
(* handleLogStream *)

\* subscribeLogs: the channel and the copy of the ring, under one lock.
Subscribe ==
    /\ stream.at = "none"
    /\ stream' = [NoStream EXCEPT !.at = "open", !.todo = ring, !.owed = ToSet(ring)]
    /\ UNCHANGED <<made, recorder, ring, writes, table, restored, replay, failures, inbox, gone, unseen, restarts, writeFails>>
SendLog ==
    /\ stream.todo # <<>> \/ stream.buffer # <<>>
    /\ stream' = IF stream.todo # <<>>
                 THEN [stream EXCEPT !.todo = Tail(@), !.sent = Append(@, Head(stream.todo))]
                 ELSE [stream EXCEPT !.buffer = Tail(@), !.sent = Append(@, Head(stream.buffer))]
    /\ UNCHANGED <<made, recorder, ring, writes, table, restored, replay, failures, inbox, gone, unseen, restarts, writeFails>>
\* clearLogs
ClearLogs ==
    /\ ring # <<>> /\ ring' = <<>>
    /\ UNCHANGED <<made, recorder, writes, table, restored, replay, failures, inbox, gone, unseen, stream, restarts, writeFails>>

-----------------------------------------------------------------------------
LogInit ==
    /\ made = 0 /\ recorder = [p \in Recorder |-> IdleRecorder]
    /\ ring = <<>> /\ writes = <<>> /\ table = <<>> /\ restored = FALSE /\ replay = <<>>
    /\ failures = <<>> /\ inbox = {} /\ gone = {} /\ unseen = {}
    /\ stream = NoStream /\ restarts = 0 /\ writeFails = 0

LogProgress ==
    \/ \E p \in Recorder : Persist(p) \/ ReportFailure(p)
    \/ CaptureFailure \/ Restore \/ Replay \/ WriteEntry \/ SendLog
LogNext ==
    \/ LogProgress \/ \E p \in Recorder : Record(p)
    \/ RestartLogs \/ Subscribe \/ ClearLogs

-----------------------------------------------------------------------------
NoRepetition(s) == Cardinality(ToSet(s)) = Len(s)

\* A restart merges the table with what was logged meanwhile: no execution is
\* shown twice, in the ring or on a stream, since nothing is written before the
\* table is read (runMutationLogPersistence).
ShownOnce == NoRepetition(ring) /\ NoRepetition(stream.sent \o stream.todo \o stream.buffer)

\* A stream shows what the ring held and all that follows; only a full channel
\* makes it miss an entry (subscribeLogs, appendLog).
StreamComplete ==
    ToSet(stream.sent) \cup ToSet(stream.todo) \cup ToSet(stream.buffer) \cup stream.missed = stream.owed

\* "Backpressure is preferable to silently losing durable history": a mutation is
\* in the table or on its way there, unless the process died or the write failed.
MutationsKept ==
    \A e \in Mutations : e <= made =>
        e \in ToSet(table) \cup ToSet(writes) \cup gone \cup {recorder[p].e : p \in Recorder}

\* Nothing is left to restore, to report, to capture or to write.
LogSettled ==
    /\ restored /\ replay = <<>> /\ failures = <<>> /\ writes = <<>>
    /\ \A p \in Recorder : recorder[p] = IdleRecorder

\* The failures that the logs show after a restart reach the errors inbox, also
\* when the process died before it had reported them (restoreMutationLogs): once
\* the goroutines have done their work, the inbox has them or the queue was full.
FailuresReachInbox ==
    LogSettled => \A e \in ToSet(LastOf(RingSize, table)) \cap Failed : e \in inbox \cup unseen

\* The log, its table, its streams and the errors inbox agree across a restart.
LogsSound == ShownOnce /\ StreamComplete /\ MutationsKept /\ FailuresReachInbox
================================================================================
