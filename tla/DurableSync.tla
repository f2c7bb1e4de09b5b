------------------------------ MODULE DurableSync ------------------------------
(***************************************************************************)
(* Durable sync: the change log and its clock in the tenant database       *)
(* (schema/sync.go), the subscriptions of one websocket and the delivery   *)
(* of changes to them (sync.go, ws.go), and the collections of one tab     *)
(* (packages/client/src/index.ts).                                         *)
(*                                                                         *)
(* The rows of a collection are abstracted to the set of revisions whose   *)
(* changes they reflect: a delta adds revisions, a digest is the set.      *)
(* The socket is a FIFO each way; the 25 ms batch of ready frames keeps    *)
(* the order (write flushes it first) and is left out.                     *)
(***************************************************************************)
EXTENDS Integers, Sequences, FiniteSets, SequencesExt

CONSTANTS Collection, Table,
          Source,       \* the table whose rows a collection holds
          Visibility,   \* the other tables its handler reads
          Progressive,  \* the collections of mode "progressive"
          Large,        \* those with more rows than the compact threshold
          MaxRevision,  \* bound on commits
          FaultLimit,   \* bound on the failures of each kind
          MaxFaults,    \* bound on all of them
          MaxFrames     \* frames the socket takes before a write waits

Fault == {"prune", "redefine", "listener", "socket", "reload", "query"}

ASSUME DurableSyncAssumption ==
    /\ IsFiniteSet(Collection) /\ Source \in [Collection -> Table]
    /\ Visibility \in [Collection -> SUBSET Table]
    /\ Progressive \subseteq Collection /\ Large \subseteq Collection
    /\ MaxRevision \in Nat /\ FaultLimit \in [Fault -> Nat] /\ MaxFaults \in Nat
    /\ MaxFrames \in Nat \ {0}

VARIABLES
    log,        \* _gonvex_sync_changes: the table each revision changed
    retained,   \* retained_revision of the clock
    epoch,      \* what the cursor epoch is derived from
    notes,      \* revisions notified and not received
    events,     \* collections a received table change makes visible or not
    listening,  \* LISTEN is in place at the database
    connected,  \* what the listener manager believes
    subs,       \* conn.syncs
    reader,     \* the sync.open the read loop of the connection is at
    marks,      \* pendingWatermarks: [rev, waiting]
    inbox,      \* frames to the runtime
    out,        \* frames to the tab
    online,     \* the socket is up
    opened,     \* the collections the page subscribes to
    client,     \* syncSubscriptions of the tab
    faults      \* how often each failure happened

databaseVars == <<log, retained, epoch>>
listenVars == <<notes, events, listening, connected>>
serverVars == <<subs, reader, marks>>
syncVars == <<log, retained, epoch, notes, events, listening, connected, subs, reader,
          marks, inbox, out, online, opened, client, faults>>

May(f) == /\ faults[f] < FaultLimit[f]
          /\ SumFunction(faults) < MaxFaults
Count(f) == faults' = [faults EXCEPT ![f] = @ + 1]

Clock == Len(log)
Revision == 0..MaxRevision
Cursor == [ep : 0..1 + FaultLimit["redefine"], rev : Revision]
NoCursor == [ep |-> 0, rev |-> 0]
Latest == [ep |-> epoch, rev |-> Clock]
Rows == SUBSET (1..MaxRevision)

Deps(c) == {Source[c]} \cup Visibility[c]
\* Only tables that some collection reads get the triggers of the log.
Logged == UNION {Deps(c) : c \in Collection}
\* What the handler of a collection returns at a revision.
Content(c, r) == {i \in 1..r : log[i] \in Deps(c)}
Changes(c, after, through) == {i \in after + 1..through : log[i] \in Deps(c)}

-----------------------------------------------------------------------------
(* The database. *)

\* The deferred trigger takes the next revision under the lock of the clock
\* row and notifies; a table change reaches the collections it makes visible.
Commit ==
    /\ Clock < MaxRevision
    /\ \E t \in Logged :
        /\ log' = Append(log, t)
        /\ notes' = IF listening THEN Append(notes, Clock + 1) ELSE notes
        /\ events' = IF listening THEN events \cup {c \in Collection : t \in Visibility[c]}
                     ELSE events
    /\ UNCHANGED <<retained, epoch, listening, connected, serverVars, inbox, out, online, opened,
                   client, faults>>

\* pruneSyncLog: the oldest changes go and the clock remembers through which.
Prune ==
    /\ May("prune") /\ Count("prune")
    /\ \E r \in retained + 1..Clock : retained' = r
    /\ UNCHANGED <<log, epoch, listenVars, serverVars, inbox, out, online, opened, client>>

\* A deploy changes the definition, or the visibility scope of the caller changes.
Redefine ==
    /\ May("redefine") /\ Count("redefine")
    /\ epoch' = epoch + 1
    /\ UNCHANGED <<log, retained, listenVars, serverVars, inbox, out, online, opened, client>>

-----------------------------------------------------------------------------
(* Frames and pending watermarks of the connection. *)

Frame(type, c) == [type |-> type, c |-> c]
ReadyFrame(c, cur, rows) == [type |-> "ready", c |-> c, cur |-> cur, rows |-> rows]
DeltaFrame(c, cur, ups, del) ==
    [type |-> "delta", c |-> c, cur |-> cur, ups |-> ups, del |-> del]
SnapshotFrame(c, cur, rows) == [type |-> "snapshot", c |-> c, cur |-> cur, rows |-> rows]
WatermarkFrame(r) == [type |-> "watermark", rev |-> r]

\* Watermarks nobody is waited for, up to the first that waits.
Releasable(ms) == CHOOSE n \in 0..Len(ms) :
    /\ \A i \in 1..n : ms[i].waiting = {}
    /\ n = Len(ms) \/ ms[n + 1].waiting # {}
Resolve(ms, c, through) ==
    [i \in 1..Len(ms) |-> IF ms[i].rev <= through
                          THEN [ms[i] EXCEPT !.waiting = @ \ {c}] ELSE ms[i]]

\* Write the frames, then release the watermarks that need not wait any more.
Send(frames, ms) ==
    LET n == Releasable(ms) IN
    /\ Len(out) < MaxFrames
    /\ marks' = SubSeq(ms, n + 1, Len(ms))
    /\ out' = out \o frames \o [i \in 1..n |-> WatermarkFrame(ms[i].rev)]

\* A ready is only written while the listener is connected.
SendReady(frames, c, cur, rows) ==
    IF connected
    THEN Send(frames \o <<ReadyFrame(c, cur, rows)>>, Resolve(marks, c, cur.rev))
    ELSE Send(frames, marks)
\* write resolves the watermarks of a collection that is reset or failed.
SendFinal(type, c) == Send(<<Frame(type, c)>>, Resolve(marks, c, MaxRevision))

-----------------------------------------------------------------------------
(* The subscriptions of the connection and the delivery to one of them. *)

NoSub == [on |-> FALSE]
IsOn(c) == subs[c].on
\* stage is where the holder of the subscription lock is.
Unlocked(c) == IsOn(c) => subs[c].stage = "free"
SubFor(cur, rows, verified, proof) ==
    [on |-> TRUE, cur |-> cur, seen |-> rows, verified |-> verified, proof |-> proof,
     running |-> "no", pending |-> FALSE, stage |-> "free", latest |-> NoCursor]

Drop(c) == subs' = [subs EXCEPT ![c] = NoSub]

\* A delivery that has ended: the worker goes on to finishSyncDelivery, the
\* read loop to its next frame.
Ended(s, by) == [s EXCEPT !.stage = "free", !.latest = NoCursor,
                          !.running = IF by = "worker" THEN "ended" ELSE @]
ReaderEnded(by) == reader' = IF by = "reader" THEN [stage |-> "idle"] ELSE reader

BegunWhenIdle(s) == IF s.running = "no" THEN [s EXCEPT !.running = "ready"] ELSE s
\* beginSyncDelivery
Begun(s) == IF s.running = "no" THEN [s EXCEPT !.running = "ready"] ELSE [s EXCEPT !.pending = TRUE]

NeedsReconcile(c, changes) == c \in Progressive \/ \E i \in changes : log[i] # Source[c]

Ascending(revs) == CHOOSE s \in [1..Cardinality(revs) -> revs] :
    \A i, j \in DOMAIN s : i < j => s[i] < s[j]
\* One delta for each revision, in order.
DeltasOf(c, changes) ==
    LET revs == Ascending(changes) IN
    [i \in 1..Len(revs) |->
        DeltaFrame(c, [ep |-> epoch, rev |-> revs[i]], {revs[i]}, {})]

\* deliverSync up to the point where it has written a ready or must run the
\* handler. A change log without the revisions after the cursor resets.
Deliver(c, by) ==
    LET s == subs[c]
        changes == Changes(c, s.cur.rev, Clock)
    IN
    /\ IsOn(c) /\ s.stage = "free"
    /\ IF s.cur.ep # epoch \/ s.cur.rev < retained
       THEN /\ Drop(c) /\ SendFinal("reset", c) /\ ReaderEnded(by)
       ELSE IF ~s.verified \/ (changes # {} /\ NeedsReconcile(c, changes))
       THEN /\ subs' = [subs EXCEPT ![c].stage = by, ![c].latest = Latest]
            /\ IF s.verified THEN Send(<<Frame("syncing", c)>>, marks)
               ELSE UNCHANGED <<marks, out>>
            /\ UNCHANGED reader
       ELSE /\ subs' = [subs EXCEPT ![c] =
                            Ended([s EXCEPT !.cur = Latest, !.seen = @ \cup changes], by)]
            /\ SendReady(DeltasOf(c, changes), c, Latest, s.seen \cup changes)
            /\ ReaderEnded(by)
    /\ UNCHANGED <<databaseVars, listenVars, inbox, online, opened, client, faults>>

\* deliverAuthoritativeSync: the handler runs now, which may be after the
\* cursor was read; the difference to what the client is known to hold goes out.
Reconcile(c, by) ==
    LET s == subs[c]
        rows == Content(c, Clock)
        ups == rows \ s.seen
        del == s.seen \ rows
        settled == [s EXCEPT !.cur = s.latest, !.seen = rows, !.verified = TRUE]
    IN
    /\ IsOn(c) /\ s.stage = by
    /\ IF ~s.verified /\ s.proof.compact
       THEN IF s.proof.rows # rows
            THEN /\ Drop(c) /\ Send(<<Frame("needHashes", c)>>, marks)
            ELSE /\ subs' = [subs EXCEPT ![c] = Ended(settled, by)]
                 /\ SendReady(<<>>, c, s.latest, rows)
       ELSE /\ subs' = [subs EXCEPT ![c] = Ended(settled, by)]
            /\ SendReady(IF ups = {} /\ del = {} THEN <<>>
                         ELSE <<DeltaFrame(c, s.latest, ups, del)>>,
                         c, s.latest, rows)
    /\ ReaderEnded(by)
    /\ UNCHANGED <<databaseVars, listenVars, inbox, online, opened, client, faults>>

\* The handler, the clock or the log cannot be read.
DeliverFails(c, by) ==
    /\ IsOn(c) /\ subs[c].stage = by /\ May("query") /\ Count("query")
    /\ subs' = [subs EXCEPT ![c] = Ended(@, by)]
    /\ SendFinal("error", c) /\ ReaderEnded(by)
    /\ UNCHANGED <<databaseVars, listenVars, inbox, online, opened, client>>

\* The goroutine of scheduleSyncDelivery.
WorkerDelivers(c) ==
    /\ IsOn(c) /\ subs[c].running = "ready" /\ Deliver(c, "worker")
WorkerReconciles(c) == Reconcile(c, "worker")
WorkerFails(c) == DeliverFails(c, "worker")
\* finishSyncDelivery: once more if someone asked meanwhile.
WorkerFinishes(c) ==
    /\ IsOn(c) /\ subs[c].running = "ended" /\ subs[c].stage = "free"
    /\ subs' = [subs EXCEPT ![c].running = IF subs[c].pending THEN "ready" ELSE "no",
                            ![c].pending = FALSE]
    /\ UNCHANGED <<databaseVars, listenVars, reader, marks, inbox, out, online, opened, client, faults>>

-----------------------------------------------------------------------------
(* openSync, in the read loop of the connection: one frame at a time. *)

Free(c) == reader.stage = "idle" /\ Unlocked(c)

\* The clock is read first; then the old subscription of the collection goes.
ReadOpen ==
    /\ inbox # <<>> /\ Free(Head(inbox).c)
    /\ LET m == Head(inbox)
           resumable == /\ m.cur.ep = epoch /\ m.cur.rev <= Clock /\ m.cur.rev >= retained
       IN
       /\ reader' = [stage |-> IF resumable THEN "attach" ELSE "snapshot", c |-> m.c,
                     resume |-> resumable, base |-> Latest, rows |-> {},
                     sub |-> SubFor(m.cur, IF m.full THEN m.rows ELSE {}, FALSE,
                                    [compact |-> ~m.full, rows |-> m.rows])]
       /\ Drop(m.c) /\ Send(<<>>, Resolve(marks, m.c, MaxRevision))
    /\ inbox' = Tail(inbox)
    /\ UNCHANGED <<databaseVars, listenVars, online, opened, client, faults>>

\* The snapshot is of now, its cursor of when the clock was read.
QuerySnapshot ==
    /\ reader.stage = "snapshot"
    /\ LET rows == Content(reader.c, Clock) IN
       reader' = [reader EXCEPT !.stage = "attach", !.rows = rows,
                    !.sub = SubFor(reader.base, rows, TRUE, [compact |-> FALSE, rows |-> {}])]
    /\ UNCHANGED <<databaseVars, listenVars, subs, marks, inbox, out, online, opened, client, faults>>

\* attachSync publishes the subscription while the listener is connected.
Attach ==
    /\ reader.stage = "attach" /\ connected
    /\ subs' = [subs EXCEPT ![reader.c] = reader.sub]
    /\ reader' = [reader EXCEPT !.stage = IF reader.resume THEN "deliver" ELSE "attached"]
    /\ UNCHANGED <<databaseVars, listenVars, marks, inbox, out, online, opened, client, faults>>

WriteSnapshot ==
    /\ reader.stage = "attached"
    /\ Send(<<SnapshotFrame(reader.c, reader.base, reader.rows)>>, marks)
    /\ reader' = [reader EXCEPT !.stage = "deliver"]
    /\ UNCHANGED <<databaseVars, listenVars, subs, inbox, online, opened, client, faults>>

ReaderDelivers == reader.stage = "deliver" /\ Deliver(reader.c, "reader")
ReaderReconciles == reader.stage = "deliver" /\ Reconcile(reader.c, "reader")
ReaderFails == reader.stage = "deliver" /\ DeliverFails(reader.c, "reader")
\* The subscription was reset before its first delivery.
ReaderFindsItGone ==
    /\ reader.stage = "deliver" /\ ~IsOn(reader.c)
    /\ reader' = [stage |-> "idle"]
    /\ UNCHANGED <<databaseVars, listenVars, subs, marks, inbox, out, online, opened, client, faults>>

\* The listener does not get ready within five seconds.
AttachTimesOut ==
    /\ reader.stage = "attach" /\ ~connected /\ May("query") /\ Count("query")
    /\ SendFinal("error", reader.c) /\ reader' = [stage |-> "idle"]
    /\ UNCHANGED <<databaseVars, listenVars, subs, inbox, online, opened, client>>

\* The snapshot query fails.
SnapshotFails ==
    /\ reader.stage = "snapshot" /\ May("query") /\ Count("query")
    /\ SendFinal("error", reader.c) /\ reader' = [stage |-> "idle"]
    /\ UNCHANGED <<databaseVars, listenVars, subs, inbox, online, opened, client>>

ReaderStep == ReadOpen \/ QuerySnapshot \/ Attach \/ WriteSnapshot \/ ReaderDelivers
              \/ ReaderReconciles \/ ReaderFindsItGone

-----------------------------------------------------------------------------
(* The listener of the tenant. *)

Attached == {c \in Collection : IsOn(c)}
Touched(r) == {c \in Attached : log[r] \in Deps(c)}

MayAdvanceFar(s, r) ==
    /\ s.verified /\ s.running = "no" /\ s.cur.ep = epoch /\ s.cur.rev < r
\* advanceUnchangedSync: a subscription that is exactly one revision behind
\* and has no delivery to come moves past a revision that does not concern it.
MayAdvance(s, r) ==
    /\ s.verified /\ s.running = "no" /\ s.cur.ep = epoch /\ s.cur.rev + 1 = r
Ahead(s, r) == s.verified /\ s.running = "no" /\ s.cur.ep = epoch /\ s.cur.rev >= r

\* notifySyncRevision: the collections the revision concerns, and those that
\* cannot skip it, are delivered; the watermark waits for them.
Notify ==
    /\ notes # <<>> /\ \A c \in Attached : Unlocked(c)
    /\ LET r == Head(notes)
           skipping == {c \in Attached \ Touched(r) : MayAdvance(subs[c], r)}
           quiet == {c \in Attached \ Touched(r) : Ahead(subs[c], r)}
           waiting == Attached \ (skipping \cup quiet)
       IN
       /\ subs' = [c \in Collection |->
            IF c \in skipping THEN [subs[c] EXCEPT !.cur.rev = r]
            ELSE IF c \in waiting THEN Begun(subs[c]) ELSE subs[c]]
       /\ IF skipping # {} /\ connected
          THEN Send(<<>>, Append(marks, [rev |-> r, waiting |-> waiting]))
          ELSE UNCHANGED <<marks, out>>
    /\ notes' = Tail(notes)
    /\ UNCHANGED <<databaseVars, events, listening, connected, reader, inbox, online, opened, client, faults>>

\* resetSyncsForVisibilityChange: a progressive collection reconciles, another
\* one is reset.
VisibilityChange(c) ==
    /\ c \in events /\ Unlocked(c)
    /\ events' = events \ {c}
    /\ IF ~IsOn(c) THEN UNCHANGED <<subs, marks, out>>
       ELSE IF c \in Progressive
       THEN subs' = [subs EXCEPT ![c] = Begun(@)] /\ UNCHANGED <<marks, out>>
       ELSE Drop(c) /\ SendFinal("reset", c)
    /\ UNCHANGED <<databaseVars, notes, listening, connected, reader, inbox, online, opened,
                   client, faults>>

\* The LISTEN connection breaks: what is notified from now on is lost.
ListenerBreaks ==
    /\ listening /\ May("listener") /\ Count("listener")
    /\ listening' = FALSE /\ notes' = <<>> /\ events' = {}
    /\ UNCHANGED <<databaseVars, connected, serverVars, inbox, out, online, opened, client>>

\* markDisconnected: every attached collection is told.
NoticeDisconnect ==
    /\ ~listening /\ connected
    /\ connected' = FALSE
    /\ LET attached == SetToSeq(Attached) IN
       Send([i \in 1..Len(attached) |-> Frame("syncing", attached[i])], marks)
    /\ UNCHANGED <<databaseVars, notes, events, listening, subs, reader, inbox, online, opened,
                   client, faults>>

\* Once LISTEN is in place again everything is delivered from the log.
Relisten ==
    /\ ~listening /\ ~connected
    /\ listening' = TRUE /\ connected' = TRUE
    /\ subs' = [c \in Collection |-> IF IsOn(c) THEN Begun(subs[c]) ELSE subs[c]]
    /\ UNCHANGED <<databaseVars, notes, events, reader, marks, inbox, out, online, opened, client, faults>>

-----------------------------------------------------------------------------
(* The collections of the tab. *)

NoReady == [cur |-> NoCursor, rows |-> {}]
\* opening is a flag in the code; "hashing" and "lost" are the two ways it is
\* set without an open frame on its way: the rows are being hashed for it, or
\* were replaced while they were.
Fresh0 == [cur |-> NoCursor, rows |-> {}, floor |-> NoCursor, retired |-> {}, opening |-> "no",
           hashed |-> FALSE, force |-> FALSE, upToDate |-> FALSE, verifying |-> NoReady,
           retry |-> FALSE]

\* syncCursorIsStale, raiseSyncCursorFloor
Stale(k, cur) == cur.ep \in k.retired \/ (cur.ep = k.floor.ep /\ cur.rev < k.floor.rev)
Raise(k, cur) ==
    [k EXCEPT !.retired = IF k.floor.ep \notin {0, cur.ep} THEN @ \cup {k.floor.ep} ELSE @,
              !.floor = IF k.floor.ep # cur.ep \/ cur.rev > k.floor.rev THEN cur ELSE @]

\* verificationGeneration moves on: what is being hashed no longer counts.
Unverified(k) == [k EXCEPT !.upToDate = FALSE, !.verifying = NoReady]
\* The rows are another array now.
Replaced(k, cur, rows) ==
    [Raise(Unverified(k), cur) EXCEPT
        !.cur = cur, !.rows = rows, !.hashed = FALSE, !.retry = FALSE,
        !.opening = IF @ = "hashing" THEN "lost" ELSE @]
Emptied(k) ==
    [Unverified(k) EXCEPT !.cur = NoCursor, !.rows = {}, !.hashed = FALSE, !.force = FALSE,
                          !.opening = "no", !.retry = FALSE]

\* sendSyncOpen: rows that a cursor vouches for are hashed first.
MustHash(k) == k.cur # NoCursor /\ ~k.hashed
Asked(k) == IF k.opening # "no" THEN k
            ELSE [k EXCEPT !.opening = IF MustHash(k) THEN "hashing" ELSE "sent"]
OpenFrame(c, k) ==
    LET full == k.cur # NoCursor /\ (k.force \/ c \notin Large) IN
    [c |-> c, cur |-> k.cur, rows |-> k.rows, full |-> full]
Opens(c, k) == IF k.opening = "no" /\ ~MustHash(k) THEN <<OpenFrame(c, k)>> ELSE <<>>
SendOpen(c, k) ==
    /\ client' = [client EXCEPT ![c] = Asked(k)]
    /\ inbox' = inbox \o Opens(c, k)
Keep(c, k) == client' = [client EXCEPT ![c] = k] /\ UNCHANGED inbox

\* A snapshot only answers an open.
OnSnapshot(c, m) ==
    LET k == client[c] IN
    IF \/ k.opening = "no" \/ Stale(k, m.cur)
       \/ k.cur.ep = m.cur.ep /\ m.cur.rev < k.cur.rev
    THEN Keep(c, k)
    ELSE Keep(c, [Replaced(k, m.cur, m.rows) EXCEPT !.opening = "no"])

\* Without a cursor any delta is taken.
OnDelta(c, m) ==
    LET k == client[c] IN
    IF \/ Stale(k, m.cur)
       \/ k.cur # NoCursor /\ (m.cur.ep # k.cur.ep \/ m.cur.rev < k.cur.rev)
    THEN Keep(c, k)
    ELSE Keep(c, Replaced(k, m.cur, (k.rows \ m.del) \cup m.ups))

Accepted(k, ready) ==
    [Raise(k, ready.cur) EXCEPT !.upToDate = TRUE, !.opening = "no", !.cur = ready.cur,
        !.hashed = TRUE, !.force = FALSE, !.retry = FALSE, !.verifying = NoReady]

\* A ready that matches the digest known of these very rows is taken at once;
\* otherwise the rows are hashed again.
OnReady(c, m) ==
    LET k == client[c] IN
    IF k.cur = NoCursor \/ m.cur.ep # k.cur.ep \/ m.cur.rev < k.cur.rev \/ Stale(k, m.cur)
    THEN Keep(c, k)
    ELSE IF ~k.force /\ k.hashed /\ k.rows = m.rows THEN Keep(c, Accepted(k, m))
    ELSE Keep(c, [k EXCEPT !.verifying = [cur |-> m.cur, rows |-> m.rows]])

OnWatermark(r) ==
    /\ client' = [c \in Collection |->
            LET k == client[c]
                cur == [k.cur EXCEPT !.rev = r] IN
            IF k.cur # NoCursor /\ k.cur.rev < r /\ k.upToDate /\ k.opening = "no"
               /\ ~k.force /\ k.hashed
            THEN Raise([k EXCEPT !.cur = cur], cur) ELSE k]
    /\ UNCHANGED inbox

\* handleSyncMessage
Receive ==
    /\ out # <<>> /\ out' = Tail(out)
    /\ LET m == Head(out) IN
       CASE m.type = "snapshot" -> OnSnapshot(m.c, m)
         [] m.type = "delta" -> OnDelta(m.c, m)
         [] m.type = "ready" -> OnReady(m.c, m)
         [] m.type = "watermark" -> OnWatermark(m.rev)
         [] m.type = "reset" -> SendOpen(m.c, Emptied(client[m.c]))
         [] m.type = "syncing" -> Keep(m.c, Unverified(client[m.c]))
         [] m.type = "needHashes" ->
                SendOpen(m.c, [Unverified(client[m.c]) EXCEPT !.opening = "no", !.force = TRUE])
         [] m.type = "error" ->
                Keep(m.c, [Unverified(client[m.c]) EXCEPT !.opening = "no", !.retry = TRUE])
    /\ UNCHANGED <<databaseVars, listenVars, serverVars, online, opened, faults>>

VerifiedUnseen(c) ==
    LET k == client[c] IN
    /\ k.verifying # NoReady /\ Keep(c, Accepted(k, k.verifying))
    /\ UNCHANGED <<databaseVars, listenVars, serverVars, out, online, opened, faults>>
\* The rows have been hashed for a ready.
Verified(c) ==
    LET k == client[c] IN
    /\ k.verifying # NoReady
    /\ IF k.rows = k.verifying.rows THEN Keep(c, Accepted(k, k.verifying))
       ELSE SendOpen(c, Emptied(k))
    /\ UNCHANGED <<databaseVars, listenVars, serverVars, out, online, opened, faults>>

\* The rows have been hashed for an open.
HashedForOpen(c) ==
    /\ client[c].opening = "hashing" /\ online
    /\ SendOpen(c, [client[c] EXCEPT !.hashed = TRUE, !.opening = "no"])
    /\ UNCHANGED <<databaseVars, listenVars, serverVars, out, online, opened, faults>>

\* The retry timer.
Retry(c) ==
    /\ client[c].retry
    /\ LET k == [client[c] EXCEPT !.retry = FALSE] IN
       IF online THEN SendOpen(c, [k EXCEPT !.opening = "no"]) ELSE Keep(c, k)
    /\ UNCHANGED <<databaseVars, listenVars, serverVars, out, online, opened, faults>>

\* The socket closes: closeAllSyncs at the runtime,
\* markSyncSubscriptionsOutOfDate at the tab.
Disconnected ==
    /\ online' = FALSE /\ inbox' = <<>> /\ out' = <<>>
    /\ subs' = [c \in Collection |-> NoSub] /\ reader' = [stage |-> "idle"] /\ marks' = <<>>
SocketCloses ==
    /\ online /\ May("socket") /\ Count("socket")
    /\ \A c \in Collection : Unlocked(c)
    /\ Disconnected
    /\ client' = [c \in Collection |-> Unverified(client[c])]
    /\ UNCHANGED <<databaseVars, listenVars, opened>>

\* resubscribeQueries
Reconnect ==
    /\ ~online /\ online' = TRUE
    /\ LET again == [c \in Collection |->
                        [client[c] EXCEPT !.retry = FALSE, !.opening = "no"]]
           \* the others hash their rows first
           order == SetToSeq({c \in opened : ~MustHash(client[c])}) IN
       /\ client' = [c \in Collection |-> IF c \in opened THEN Asked(again[c]) ELSE client[c]]
       /\ inbox' = [i \in 1..Len(order) |-> OpenFrame(order[i], again[order[i]])]
    /\ UNCHANGED <<databaseVars, listenVars, serverVars, out, opened, faults>>

\* The tab is reloaded and reads its collections from the store of the browser,
\* which other tabs write too: no rows are ruled out, since the stored digests
\* are never trusted.  The store may also be empty or late.
Reload ==
    /\ online /\ May("reload") /\ Count("reload") /\ \A c \in Collection : Unlocked(c)
    /\ Disconnected
    /\ \E c \in opened, rows \in SUBSET (1..Clock), r \in 0..Clock, e \in {0} \cup 1..epoch :
        LET cur == IF e = 0 THEN NoCursor ELSE [ep |-> e, rev |-> r] IN
        client' = [d \in Collection |->
            IF d # c \/ e = 0 THEN Fresh0
            ELSE [Fresh0 EXCEPT !.cur = cur, !.rows = rows, !.floor = cur]]
    /\ UNCHANGED <<databaseVars, listenVars, opened>>

-----------------------------------------------------------------------------
Quiet ==
    /\ log = <<>> /\ retained = 0 /\ epoch = 1
    /\ notes = <<>> /\ events = {} /\ listening = TRUE /\ connected = TRUE
    /\ reader = [stage |-> "idle"] /\ marks = <<>> /\ inbox = <<>> /\ out = <<>>
    /\ faults = [f \in Fault |-> 0]
SyncInit ==
    /\ Quiet /\ online = FALSE /\ opened \in SUBSET Collection
    /\ subs = [c \in Collection |-> NoSub] /\ client = [c \in Collection |-> Fresh0]
\* Every collection has been opened and delivered.
UpToDate ==
    /\ Quiet /\ online = TRUE /\ opened = Collection
    /\ subs = [c \in Collection |->
                  SubFor([ep |-> 1, rev |-> 0], {}, TRUE, [compact |-> FALSE, rows |-> {}])]
    /\ client = [c \in Collection |-> Accepted(Fresh0, [cur |-> [ep |-> 1, rev |-> 0]])]

\* What goes on by itself: the read loop, the workers, the listener and the tab.
WorkerStep(c) == WorkerDelivers(c) \/ WorkerReconciles(c) \/ WorkerFinishes(c)
TabStep(c) == Verified(c) \/ HashedForOpen(c) \/ Retry(c)
Progress ==
    \/ ReaderStep \/ Notify \/ NoticeDisconnect \/ Relisten \/ Receive \/ Reconnect
    \/ \E c \in Collection : WorkerStep(c) \/ TabStep(c) \/ VisibilityChange(c)
Failure ==
    \/ Prune \/ Redefine \/ ListenerBreaks \/ SocketCloses \/ Reload
    \/ AttachTimesOut \/ SnapshotFails \/ ReaderFails
    \/ \E c \in Collection : WorkerFails(c)

SyncNext == Commit \/ Failure \/ Progress
SyncSpec == (SyncInit \/ UpToDate) /\ [][SyncNext]_syncVars

-----------------------------------------------------------------------------
SyncOK ==
    /\ log \in BoundedSeq(Table, MaxRevision) /\ retained \in 0..Clock /\ epoch \in Nat
    /\ \A i \in DOMAIN notes : notes[i] \in 1..Clock
    /\ events \subseteq Collection /\ opened \subseteq Collection /\ {listening, connected, online} \subseteq BOOLEAN
    /\ \A c \in Attached :
        /\ subs[c].cur \in Cursor /\ subs[c].seen \in Rows
        /\ subs[c].running \in {"no", "ready", "ended"}
        /\ subs[c].stage \in {"free", "worker", "reader"}
    /\ \A c \in Collection :
        /\ client[c].cur \in Cursor /\ client[c].rows \in Rows /\ client[c].floor \in Cursor
        /\ client[c].opening \in {"no", "sent", "hashing", "lost"}

\* docs/durable-sync.md:109: a collection that is up to date shows all durable
\* changes through its cursor, whatever the store held, whichever frames were
\* overtaken and however the cursor got there: by a ready or by a watermark.
\* It is not kept when a tab has two opens of a collection outstanding and another
\* collection releases the watermark (README, section 5).
UpToDateIsComplete ==
    \A c \in Collection : client[c].upToDate =>
        \E r \in client[c].cur.rev..Clock : client[c].rows = Content(c, r)

\* The runtime never moves the cursor of a subscription past a revision it has
\* not delivered: not while a delivery of an earlier one runs, not over a gap
\* in the notifications (advanceUnchangedSync, sync.go).
CursorCoversSeen ==
    \A c \in Attached : subs[c].verified /\ subs[c].stage = "free" =>
        \E r \in subs[c].cur.rev..Clock : subs[c].seen = Content(c, r)

\* Once the runtime knows that it no longer hears of changes, a collection is
\* only up to date until a frame that is on its way is handled, or an open of
\* it that is in hand (whileConnected, tenant_listeners.go).
FreshOnlyWhileListening ==
    \A c \in Collection : client[c].upToDate /\ ~connected =>
        \/ \E i \in DOMAIN out : /\ out[i].type \in {"syncing", "reset", "error", "needHashes"}
                                 /\ out[i].c = c
        \/ reader.stage # "idle" /\ reader.c = c
        \/ \E i \in DOMAIN inbox : inbox[i].c = c

\* openSync publishes the subscription before it writes the snapshot: a reset
\* can go out first, and the snapshot then answers the open that the reset
\* caused.  If the definition changed in between, the tab waits for frames of
\* the old one and ignores those of the new one.
LeftBehind(c) == IsOn(c) /\ epoch = subs[c].cur.ep /\ epoch # client[c].cur.ep

\* Whatever was lost, every collection ends up to date with the last commit:
\* no wake-up is lost between two deliveries, no open stays without an answer
\* (scheduleSyncDelivery, handleSyncMessage), unless it is left behind.
Converges ==
    <>[](\A c \in opened : \/ client[c].upToDate /\ client[c].rows = Content(c, Clock)
                          \/ LeftBehind(c))

\* Neither side counts as up to date what may have been missed: the runtime's
\* cursors cover what was delivered, the tab's end with the LISTEN connection.
CursorsHonest == SyncOK /\ CursorCoversSeen /\ FreshOnlyWhileListening
================================================================================
