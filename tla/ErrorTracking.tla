----------------------------- MODULE ErrorTracking -----------------------------
(***************************************************************************)
(* The errors inbox (errors.go, errors_store.go) and the reporter of the   *)
(* client (error-reporter.ts).  A tab queues reports and sends them in     *)
(* envelopes; a runtime records each report of an envelope in a            *)
(* transaction of its own, which inserts the event, takes the advisory     *)
(* lock of its group, reads the group and writes it back whole.  People    *)
(* triage groups meanwhile, and an export walks them page by page.         *)
(*                                                                         *)
(* A report stands for an event ID; what is hashed into its fingerprint is *)
(* abstracted to the group it belongs to.  Envelopes under way may belong  *)
(* to different runtimes.                                                  *)
(***************************************************************************)
EXTENDS Integers, Sequences, FiniteSets, SequencesExt, FiniteSetsExt

CONSTANTS MaxReports,           \* bound on reports
          Fingerprint,          \* of a report: its group, a number
          ReleaseOf,
          Flight,               \* envelopes that may be under way at once
          BatchSize, QueueSize, \* 20 events of an envelope; maxQueueSize
          MaxEvents,            \* bound of the tracker in memory
          PageSize,             \* 500 groups of an export page
          MaxFaults, MaxTriages \* bounds

Report == 1..MaxReports  \* in the order in which they are made
GroupId == {Fingerprint[r] : r \in Report}
Statuses == {"unresolved", "resolved", "ignored"}

ASSUME ErrorTrackingAssumption ==
    /\ MaxReports \in Nat /\ GroupId \subseteq Nat \ {0}
    /\ {BatchSize, QueueSize, PageSize} \subseteq Nat \ {0}

VARIABLES
    durable,   \* is there a telemetry database?
    queued,   \* GonvexErrorReporter.queue
    kept,      \* the queue in localStorage
    captured, forgotten,  \* reports made; reports a full queue or a reload lost
    flight,    \* of an envelope: [at, batch, next, read, of]
    events,    \* gonvex_error_events, or the event log in memory
    group,     \* gonvex_error_groups: [count, status, regression, releases]
    export,    \* [at, cursor, seen, owed]
    page,      \* which load of the tab
    faults, triages

errorVars == <<durable, queued, kept, captured, forgotten, flight, events, group, export, page,
               faults, triages>>
tabVars == <<queued, kept, captured, forgotten, page>>
storeState == <<events, group>>

NoGroup == [count |-> 0, status |-> "unresolved", regression |-> FALSE, releases |-> {}]
Free == [at |-> "free", batch |-> <<>>, next |-> 1, read |-> NoGroup, of |-> 0]
First(n, s) == SubSeq(s, 1, IF Len(s) < n THEN Len(s) ELSE n)
Current(f) == flight[f].batch[flight[f].next]
Handling(f) == flight[f].at = "next" /\ flight[f].next <= Len(flight[f].batch)
GoTo(f, at) == flight' = [flight EXCEPT ![f].at = at]
GoOn(f) == flight' = [flight EXCEPT ![f].at = "next", ![f].next = @ + 1]
Fault == faults < MaxFaults /\ faults' = faults + 1

-----------------------------------------------------------------------------
(* The tab. *)

CaptureException(r) ==
    /\ r = Cardinality(captured) + 1 /\ captured' = captured \cup {r}
    /\ queued' = Append(queued, r)
    /\ kept' = First(QueueSize, queued')
    /\ UNCHANGED <<durable, forgotten, flight, storeState, export, page, faults, triages>>

\* flush, by the timer or by the page that hides; one may be under way.
Flush(f) ==
    /\ flight[f].at = "free" /\ queued # <<>>
    /\ flight' = [flight EXCEPT ![f] = [Free EXCEPT !.at = "next", !.of = page,
                                                   !.batch = First(BatchSize, queued)]]
    /\ queued' = SubSeq(queued, Len(First(BatchSize, queued)) + 1, Len(queued))
    /\ UNCHANGED <<durable, kept, captured, forgotten, storeState, export, page, faults, triages>>

Accepted(f) ==
    /\ flight[f].at = "next" /\ flight[f].next > Len(flight[f].batch)
    /\ flight' = [flight EXCEPT ![f] = Free]
    /\ kept' = IF flight[f].of = page THEN First(QueueSize, queued) ELSE kept
    /\ UNCHANGED <<durable, queued, captured, forgotten, storeState, export, page, faults, triages>>

\* Any other answer, or none: the batch goes back to the front.
Requeue(f) ==
    LET all == flight[f].batch \o queued IN
    /\ flight[f].at = "refused"
    /\ flight' = [flight EXCEPT ![f] = Free]
    /\ IF flight[f].of = page
       THEN /\ queued' = First(QueueSize, all) /\ kept' = queued'
            /\ forgotten' = forgotten \cup (ToSet(all) \ ToSet(queued'))
       ELSE UNCHANGED <<queued, kept, forgotten>>
    /\ UNCHANGED <<durable, captured, storeState, export, page, faults, triages>>
AnswerLost(f) ==
    /\ flight[f].at = "next" /\ flight[f].next > Len(flight[f].batch)
    /\ Fault /\ GoTo(f, "refused")
    /\ UNCHANGED <<durable, tabVars, storeState, export, triages>>

\* The tab starts again from what it stored.
ReloadTab ==
    /\ Fault /\ page' = page + 1
    /\ queued' = kept
    /\ forgotten' = forgotten \cup (captured \ ToSet(kept))
    /\ UNCHANGED <<durable, kept, captured, flight, storeState, export, triages>>

-----------------------------------------------------------------------------
(* handleErrorEnvelope and persistError. *)

\* newErrorGroup, applyErrorToGroup
Apply(g, r) ==
    [count |-> g.count + 1,
     status |-> IF g.status = "resolved" THEN "unresolved" ELSE g.status,
     regression |-> g.regression \/ g.status = "resolved",
     releases |-> g.releases \cup {ReleaseOf[r]}]

\* The rate limit, or a database that does not answer: the transaction of the
\* current event is rolled back, what earlier events wrote stays.
RefuseReport(f) ==
    /\ flight[f].at \in {"next", "inserted", "locked"} /\ flight[f].next <= Len(flight[f].batch)
    /\ Fault /\ GoTo(f, "refused")
    /\ UNCHANGED <<durable, tabVars, storeState, export, triages>>

\* Without a database the tracker in memory counts, as long as it has room.
CaptureInMemory(f) ==
    LET r == Current(f) IN
    /\ ~durable /\ Handling(f)
    /\ IF r \in events \/ Cardinality(events) >= MaxEvents THEN UNCHANGED storeState
       ELSE /\ events' = events \cup {r}
            /\ group' = [group EXCEPT ![Fingerprint[r]] = Apply(@, r)]
    /\ GoOn(f) /\ UNCHANGED <<durable, tabVars, export, faults, triages>>

\* INSERT ... ON CONFLICT DO NOTHING waits for a transaction that has inserted
\* the same event.
Inserting(r) == {f \in Flight : flight[f].at \in {"inserted", "locked"} /\ Current(f) = r}
SkipKnown(f) ==
    /\ durable /\ Handling(f) /\ Current(f) \in events
    /\ GoOn(f) /\ UNCHANGED <<durable, tabVars, storeState, export, faults, triages>>
Insert(f) ==
    /\ durable /\ Handling(f) /\ Current(f) \notin events /\ Inserting(Current(f)) = {}
    /\ GoTo(f, "inserted") /\ UNCHANGED <<durable, tabVars, storeState, export, faults, triages>>

ReadUnlocked(f) ==
    LET g == Fingerprint[Current(f)] IN
    /\ flight[f].at = "inserted"
    /\ flight' = [flight EXCEPT ![f].at = "locked", ![f].read = group[g]]
    /\ UNCHANGED <<durable, tabVars, storeState, export, faults, triages>>
\* pg_advisory_xact_lock, then the group is read.
LockAndRead(f) ==
    LET g == Fingerprint[Current(f)] IN
    /\ flight[f].at = "inserted"
    /\ \A h \in Flight : flight[h].at = "locked" => Fingerprint[Current(h)] # g
    /\ flight' = [flight EXCEPT ![f].at = "locked", ![f].read = group[g]]
    /\ UNCHANGED <<durable, tabVars, storeState, export, faults, triages>>

\* upsertErrorGroup writes every column of what was read; then the commit.
UpsertAndCommit(f) ==
    LET r == Current(f) IN
    /\ flight[f].at = "locked"
    /\ events' = events \cup {r}
    /\ group' = [group EXCEPT ![Fingerprint[r]] = Apply(flight[f].read, r)]
    /\ flight' = [flight EXCEPT ![f].at = "next", ![f].next = @ + 1, ![f].read = NoGroup]
    /\ UNCHANGED <<durable, tabVars, export, faults, triages>>

-----------------------------------------------------------------------------
(* The dashboard. *)

\* updatePersistentErrorGroup: an UPDATE that takes no advisory lock.
Triage(g, status) ==
    /\ group[g].count > 0 /\ group[g].status # status
    /\ triages < MaxTriages /\ triages' = triages + 1
    /\ group' = [group EXCEPT ![g].status = status]
    /\ UNCHANGED <<durable, tabVars, flight, events, export, faults>>

Known == {g \in GroupId : group[g].count > 0}
StartExport ==
    /\ export.at = "idle"
    /\ export' = [at |-> "page", cursor |-> 0, seen |-> {}, owed |-> Known]
    /\ UNCHANGED <<durable, tabVars, flight, storeState, faults, triages>>

\* One row more than a page tells whether another page follows.
ExportPage ==
    LET after == {g \in Known : g > export.cursor}
        rows == {g \in after : Cardinality({h \in after : h < g}) < PageSize}
    IN
    /\ export.at = "page"
    /\ export' = [export EXCEPT !.seen = @ \cup rows,
                                !.at = IF after = rows THEN "done" ELSE "page",
                                !.cursor = IF after = rows THEN @ ELSE Max(rows)]
    /\ UNCHANGED <<durable, tabVars, flight, storeState, faults, triages>>

-----------------------------------------------------------------------------
ErrorInit ==
    /\ durable \in BOOLEAN
    /\ queued = <<>> /\ kept = <<>> /\ captured = {} /\ forgotten = {}
    /\ flight = [f \in Flight |-> Free]
    /\ events = {} /\ group = [g \in GroupId |-> NoGroup]
    /\ export = [at |-> "idle", cursor |-> 0, seen |-> {}, owed |-> {}]
    /\ page = 1 /\ faults = 0 /\ triages = 0

EnvelopeStep(f) ==
    \/ Flush(f) \/ Accepted(f) \/ Requeue(f) \/ AnswerLost(f) \/ RefuseReport(f) \/ CaptureInMemory(f)
    \/ SkipKnown(f) \/ Insert(f) \/ LockAndRead(f) \/ UpsertAndCommit(f)
ErrorNext ==
    \/ \E r \in Report : CaptureException(r)
    \/ \E f \in Flight : EnvelopeStep(f)
    \/ ReloadTab \/ StartExport \/ ExportPage
    \/ \E g \in GroupId, s \in Statuses : Triage(g, s)

-----------------------------------------------------------------------------
InFlight == UNION {ToSet(flight[f].batch) : f \in Flight}

\* A group counts each of its events once: not twice when an envelope that was
\* recorded is sent again, not less when two runtimes record at once
\* (persistError; "makes count maps safe across multiple runtime replicas").
CountsAgree == \A g \in GroupId : group[g].count = Cardinality({r \in events : Fingerprint[r] = g})

\* A report is dropped from the tab only once it is recorded: an envelope that
\* fails half-way is sent again as a whole (flush, handleErrorEnvelope).
ReportsSurvive ==
    durable => captured \ forgotten \subseteq events \cup ToSet(queued) \cup InFlight

\* The groups that the listing of a release is drawn from are those with an
\* event of the release, so the two ways to compute it, from the log in memory
\* and by SQL, agree (listGroupsSince, persistentErrorGroupsSince).
ListedByLog(rel) == {Fingerprint[r] : r \in {e \in events : ReleaseOf[e] = rel}}
ListedBySQL(rel) == {g \in GroupId : rel \in group[g].releases}
ReleaseViewsAgree ==
    \A rel \in {ReleaseOf[r] : r \in Report} : ListedByLog(rel) = ListedBySQL(rel)

\* An export that has ended has every group that there was when it began, while
\* events and groups are added under it (handleErrorGroups).
ExportComplete == export.at = "done" => export.owed \subseteq export.seen

\* "Ignored groups remain ignored": only a person takes the mark away.
IgnoredStays ==
    [][\A g \in GroupId : group[g].status = "ignored" /\ triages' = triages
            => group'[g].status = "ignored"]_errorVars

\* What is reported is recorded, once, and shown by every listing and export.
InboxSound == CountsAgree /\ ReportsSurvive /\ ReleaseViewsAgree /\ ExportComplete
================================================================================
