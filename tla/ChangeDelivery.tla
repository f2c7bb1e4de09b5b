--------------------------- MODULE ChangeDelivery ---------------------------
(***************************************************************************)
(* How a commit reaches a shared query and the Valkey caches of a tenant   *)
(* (server/internal/server: ws.go, tenant_listeners.go, cache.go).         *)
(*                                                                         *)
(* Every committed change is announced twice: PostgreSQL triggers NOTIFY   *)
(* each physical table on the tenant's LISTEN connection, and the mutation *)
(* that committed broadcasts the tables its manifest declares.  Both meet  *)
(* in one pending batch per commit.  A flushed batch trusts the triggers   *)
(* while the listener is healthy and falls back to the declaration while   *)
(* it is not; it advances the cache generation of its tables and asks the  *)
(* query for a run.  The runs themselves, and one-shot calls of the same   *)
(* query, go through a cache whose keys contain the generation.            *)
(*                                                                         *)
(* A table's contents are abstracted to the last commit that wrote it, a   *)
(* cached payload to the versions of the tables it was computed from.      *)
(***************************************************************************)
EXTENDS Integers, Sequences, FiniteSets

CONSTANTS
    TenantTable,    \* tables whose triggers notify the tenant's listener
    LandlordTable,  \* tables of the landlord database, which it cannot hear
    Reads,          \* the tables the query depends on
    Caller,         \* one-shot calls of the same query, and table browsers
    Cached,         \* the subscription has a cache scope (QueryCacheEnabled)
    Changes,        \* what a commit may be: the tables it writes and those its
                    \* function declares ({}: another process committed), and
                    \* whether its notifications carry its ID (named)
    MaxCommits,     \* bound: commits
    Bounds          \* bounds of a behaviour, one of them holds: its commits, one-shot
                    \* calls, browsed tables, losses of the LISTEN connection,
                    \* calls of markNeedsRecovery, clears of the project's cache;
                    \* byHand: tables may be browsed and the cache cleared

Table == TenantTable \cup LandlordTable
Commit == 1 .. MaxCommits
Key == Commit \cup TenantTable

ASSUME ConstantsAssumption ==
    /\ TenantTable \cap LandlordTable = {} /\ Reads \subseteq Table
    /\ IsFiniteSet(TenantTable) /\ TenantTable \cap Commit = {} /\ "run" \notin Caller
    /\ Cached \in BOOLEAN
    /\ Changes \subseteq [writes : SUBSET Table, declared : SUBSET Table, named : BOOLEAN]
    /\ \A x \in Changes : x.writes \cap LandlordTable \subseteq x.declared
    /\ MaxCommits \in Nat

ASSUME BoundsAssumption ==
    /\ Bounds \subseteq [commits : 0 .. MaxCommits, calls : Nat, browses : Nat, cuts : Nat,
                        doubts : Nat, clears : Nat, clearing : BOOLEAN, byHand : BOOLEAN]
    /\ \A b \in Bounds : ~b.clearing /\ (b.byHand \/ (b.browses = 0 /\ b.clears = 0))

VARIABLES
    db,         \* db[t]: the last commit that wrote t
    commits,    \* the commits so far
    declaring,  \* mutations that have not broadcast their declaration yet
    channel,    \* notifications under way on the LISTEN connection
    listener,   \* the tenantListener and its goroutine; link: its connection is
                \* alive, whether or not the goroutine knows
    batch,      \* tableChanges: the pending batch of each key
    flights,    \* flushed batches that are being delivered
    gen,        \* generation counters of the tables, in Valkey
    entries,    \* cached payloads: [kind, gen, val]
    applied,    \* history: <<k, t>> whose invalidation reached the caches
    sub,        \* the shared subscription of the query
    fetch,      \* executions: the subscription's run and the callers'
    budget      \* what is left of the bounds; clearing: a clear is half done

vars == <<db, commits, declaring, channel, listener, batch, flights, gen, entries,
          applied, sub, fetch, budget>>

NoBatch == [open |-> FALSE, declared |-> {}, observed |-> {}]
NoFetch == [pc |-> "idle", kind |-> "query", reason |-> "none",
            gen |-> [t \in Reads |-> 0], val |-> [t \in Reads |-> 0]]
Fetcher == Caller \cup {"run"}

\* The versions of the tables the query reads.
Now == [t \in Reads |-> db[t]]
Generation == [t \in Reads |-> gen[t]]

Init ==
    /\ db = [t \in Table |-> 0]
    /\ commits = <<>>
    /\ declaring = {}
    /\ channel = <<>>
    /\ listener = [pc |-> "wait", link |-> TRUE, connected |-> TRUE, needsRecovery |-> FALSE]
    /\ batch = [key \in Key |-> NoBatch]
    /\ flights = {}
    /\ gen = [t \in Table |-> 0]
    /\ entries = {}
    /\ applied = {}
    /\ sub = [want |-> "initial", asked |-> {}, seen |-> [t \in Reads |-> 0]]
    /\ fetch = [f \in Fetcher |-> NoFetch]
    /\ budget \in Bounds

-----------------------------------------------------------------------------
(* Commits and their two announcements.                                     *)

\* What the triggers send is lost unless LISTEN is in force.
Hears == listener.link /\ listener.pc # "dial"

\* The notifications of one commit, in some order.
Notifications(k, tables) ==
    {s \in [1 .. Cardinality(tables) -> [k : {k}, t : tables]] :
        \A t \in tables : \E i \in DOMAIN s : s[i].t = t}

DoCommit(x) ==
    LET k == Len(commits) + 1
    IN  /\ k <= budget.commits
        /\ commits' = Append(commits, x)
        /\ db' = [t \in Table |-> IF t \in x.writes THEN k ELSE db[t]]
        /\ \E sent \in Notifications(k, x.writes \cap TenantTable) :
              channel' = IF Hears THEN channel \o sent ELSE channel
        /\ declaring' = IF x.declared # {} THEN declaring \cup {k} ELSE declaring
        /\ UNCHANGED <<listener, batch, flights, gen, entries, applied, sub, fetch, budget>>

\* broadcastMutationInvalidationsForCommitAt, then scheduleTableChange.
Broadcast(k) ==
    /\ k \in declaring /\ declaring' = declaring \ {k}
    /\ batch' = [batch EXCEPT ![k].open = TRUE, ![k].declared = commits[k].declared]
    /\ UNCHANGED <<db, commits, channel, listener, flights, gen, entries, applied, sub, fetch,
                   budget>>

\* invalidateTableCaches, because of commit k.
Invalidate(tables, k) ==
    /\ gen' = [t \in Table |-> IF t \in tables THEN gen[t] + 1 ELSE gen[t]]
    /\ applied' = applied \cup {<<k, t>> : t \in tables \cap commits[k].writes}

\* Mutant: the caches are left to the flush of the batch.
ObserveWithoutInvalidation ==
    /\ listener.pc = "wait" /\ channel # <<>> /\ channel' = Tail(channel)
    /\ LET n == Head(channel)
           key == IF commits[n.k].named THEN n.k ELSE n.t
       IN  batch' = [batch EXCEPT ![key].open = TRUE, ![key].observed = @ \cup {n.t}]
    /\ UNCHANGED <<db, commits, declaring, listener, flights, gen, entries, applied, sub, fetch,
                   budget>>

\* wait, then scheduleTableChange for an observed trigger: the caches are
\* invalidated at once; the table joins the batch of its commit, or a batch
\* of its own when the commit has no ID.
Observe ==
    /\ listener.pc = "wait" /\ channel # <<>> /\ channel' = Tail(channel)
    /\ LET n == Head(channel)
           key == IF commits[n.k].named THEN n.k ELSE n.t
       IN  /\ Invalidate({n.t}, n.k)
           /\ batch' = [batch EXCEPT ![key].open = TRUE, ![key].observed = @ \cup {n.t}]
    /\ UNCHANGED <<db, commits, declaring, listener, flights, entries, sub, fetch, budget>>

-----------------------------------------------------------------------------
(* run of the tenant listener.                                              *)

\* The connection dies; notifications on it are lost.
Cut ==
    /\ listener.link /\ budget.cuts > 0
    /\ listener' = [listener EXCEPT !.link = FALSE] /\ channel' = <<>>
    /\ budget' = [budget EXCEPT !.cuts = @ - 1]
    /\ UNCHANGED <<db, commits, declaring, batch, flights, gen, entries, applied, sub, fetch>>

\* WaitForNotification fails: markDisconnected.
MarkDisconnected ==
    /\ listener.pc = "wait" /\ ~listener.link
    /\ listener' = [listener EXCEPT !.pc = "dial", !.connected = FALSE, !.needsRecovery = TRUE]
    /\ UNCHANGED <<db, commits, declaring, channel, batch, flights, gen, entries, applied, sub,
                   fetch, budget>>

\* A new connection, LISTEN on it.
Listen ==
    /\ listener.pc = "dial"
    /\ listener' = [listener EXCEPT !.pc = "listen", !.link = TRUE]
    /\ UNCHANGED <<db, commits, declaring, channel, batch, flights, gen, entries, applied, sub,
                   fetch, budget>>

MarkReady ==
    /\ listener.pc = "listen"
    /\ listener' = [listener EXCEPT !.pc = "refresh", !.connected = TRUE, !.needsRecovery = FALSE]
    /\ UNCHANGED <<db, commits, declaring, channel, batch, flights, gen, entries, applied, sub,
                   fetch, budget>>

\* Every reconnect refreshes the subscriptions.
RefreshTenant ==
    /\ listener.pc = "refresh" /\ listener' = [listener EXCEPT !.pc = "wait"]
    /\ sub' = [sub EXCEPT !.want = "recover"]
    /\ UNCHANGED <<db, commits, declaring, channel, batch, flights, gen, entries, applied, fetch,
                   budget>>

\* A malformed notification, or a subscriber that waited too long.
MarkNeedsRecovery ==
    /\ budget.doubts > 0 /\ budget' = [budget EXCEPT !.doubts = @ - 1]
    /\ listener' = [listener EXCEPT !.needsRecovery = TRUE]
    /\ UNCHANGED <<db, commits, declaring, channel, batch, flights, gen, entries, applied, sub,
                   fetch>>

Healthy == listener.connected /\ ~listener.needsRecovery

-----------------------------------------------------------------------------
(* flushTableChange.                                                        *)

\* The timer of a batch fires and takes it out of the map.
FlushTake(key) ==
    /\ batch[key].open
    /\ batch' = [batch EXCEPT ![key] = NoBatch]
    /\ flights' = flights \cup {[key |-> key, declared |-> batch[key].declared,
                                 observed |-> batch[key].observed, pc |-> "taken", tables |-> {}]}
    /\ UNCHANGED <<db, commits, declaring, channel, listener, gen, entries, applied, sub, fetch,
                   budget>>

\* Mutant: the landlord's tables are not looked for.
NoOpForgetsLandlord(b) == b.key \in Commit /\ Healthy /\ b.observed = {}

\* A declared write that no trigger confirmed, while the listener is healthy.
NoOp(b) ==
    b.key \in Commit /\ Healthy /\ b.observed = {} /\ b.declared \cap LandlordTable = {}

\* Mutant: without the listener's authority only the declaration counts.
DeliveryDeclaredOnly(b) ==
    IF b.observed # {} /\ (b.key \notin Commit \/ Healthy) THEN b.observed ELSE b.declared

\* pendingChangeForDelivery: the tables a batch is delivered for.
Delivery(b) ==
    IF b.observed # {} /\ (b.key \notin Commit \/ Healthy) THEN b.observed
    ELSE b.declared \cup b.observed

\* The listener's health is read once, after the batch was taken.
FlushDecide(b) ==
    /\ b \in flights /\ b.pc = "taken"
    /\ flights' = (flights \ {b}) \cup
                  (IF NoOp(b) THEN {} ELSE {[b EXCEPT !.pc = "deliver", !.tables = Delivery(b)]})
    /\ UNCHANGED <<db, commits, declaring, channel, listener, batch, gen, entries, applied, sub,
                   fetch, budget>>

\* Invalidate the caches the triggers have not, then requestChange; one
\* request per commit ID.
FlushDeliver(b) ==
    /\ b \in flights /\ b.pc = "deliver" /\ flights' = flights \ {b}
    /\ IF b.key \in Commit THEN Invalidate(b.tables \ b.observed, b.key)
       ELSE UNCHANGED <<gen, applied>>
    /\ sub' = IF b.tables \cap Reads = {} \/ b.key \in sub.asked THEN sub
              ELSE [sub EXCEPT !.want = "invalidate",
                               !.asked = IF b.key \in Commit THEN @ \cup {b.key} ELSE @]
    /\ UNCHANGED <<db, commits, declaring, channel, listener, batch, entries, fetch, budget>>

-----------------------------------------------------------------------------
(* executeTenantQueryForCallerCached, and the row browser's handler.       *)

Finished(f, val) ==
    /\ fetch' = [fetch EXCEPT ![f] = NoFetch]
    /\ sub' = IF f = "run" THEN [sub EXCEPT !.seen = val] ELSE sub

Begin(f, kind, reason) ==
    fetch' = [fetch EXCEPT ![f] = [pc |-> IF reason = "invalidate" \/ (f = "run" /\ ~Cached)
                                          THEN "read" ELSE "lookup",
                                   kind |-> kind, reason |-> reason,
                                   gen |-> Generation, val |-> [t \in Reads |-> 0]]]

\* The subscription's next run.
BeginRun ==
    /\ fetch["run"].pc = "idle" /\ sub.want # "none"
    /\ Begin("run", "query", sub.want) /\ sub' = [sub EXCEPT !.want = "none"]
    /\ UNCHANGED <<db, commits, declaring, channel, listener, batch, flights, gen, entries,
                   applied, budget>>

\* The caller runs the query, or browses a table.
BeginCall(c) ==
    /\ fetch[c].pc = "idle"
    /\ \/ /\ budget.calls > 0 /\ Begin(c, "query", "initial")
          /\ budget' = [budget EXCEPT !.calls = @ - 1]
       \/ /\ budget.browses > 0 /\ Begin(c, "rows", "initial")
          /\ budget' = [budget EXCEPT !.browses = @ - 1]
    /\ UNCHANGED <<db, commits, declaring, channel, listener, batch, flights, gen, entries,
                   applied, sub>>

\* The payload cached under the generation read at the beginning.
Lookup(f) ==
    LET x == fetch[f]
        hit == {e \in entries : e.kind = x.kind /\ e.gen = x.gen}
    IN  /\ x.pc = "lookup"
        /\ \/ hit = {} /\ fetch' = [fetch EXCEPT ![f].pc = "read"] /\ UNCHANGED sub
           \/ \E e \in hit : Finished(f, e.val)
        /\ UNCHANGED <<db, commits, declaring, channel, listener, batch, flights, gen, entries,
                       applied, budget>>

\* Execute against the database.  Invalidation reruns are not cached.
ReadDatabase(f) ==
    LET x == fetch[f]
    IN  /\ x.pc = "read"
        /\ IF x.reason = "invalidate" \/ (f = "run" /\ ~Cached) THEN Finished(f, Now)
           ELSE /\ fetch' = [fetch EXCEPT ![f].val = Now,
                                ![f].pc = IF x.kind = "query" THEN "check" ELSE "key"]
                /\ UNCHANGED sub
        /\ UNCHANGED <<db, commits, declaring, channel, listener, batch, flights, gen, entries,
                       applied, budget>>

\* A query's payload is only stored if no generation moved meanwhile.
CheckGeneration(f) ==
    LET x == fetch[f]
    IN  /\ x.pc = "check"
        /\ IF x.gen = Generation
           THEN fetch' = [fetch EXCEPT ![f].pc = "store"] /\ UNCHANGED sub
           ELSE Finished(f, x.val)
        /\ UNCHANGED <<db, commits, declaring, channel, listener, batch, flights, gen, entries,
                       applied, budget>>

\* The row browser computes its key anew when it stores.
RowsKey(f) ==
    /\ fetch[f].pc = "key"
    /\ fetch' = [fetch EXCEPT ![f].gen = Generation, ![f].pc = "store"]
    /\ UNCHANGED <<db, commits, declaring, channel, listener, batch, flights, gen, entries,
                   applied, sub, budget>>

\* Mutant: the key is made from the generations at the time of the write.
StoreUnderCurrent(f) ==
    LET x == fetch[f]
    IN  /\ x.pc = "store"
        /\ entries' = {e \in entries : e.kind # x.kind \/ e.gen # Generation}
                      \cup {[kind |-> x.kind, gen |-> Generation, val |-> x.val]}
        /\ Finished(f, x.val)
        /\ UNCHANGED <<db, commits, declaring, channel, listener, batch, flights, gen, applied,
                       budget>>

Store(f) ==
    LET x == fetch[f]
    IN  /\ x.pc = "store"
        /\ entries' = {e \in entries : e.kind # x.kind \/ e.gen # x.gen}
                      \cup {[kind |-> x.kind, gen |-> x.gen, val |-> x.val]}
        /\ Finished(f, x.val)
        /\ UNCHANGED <<db, commits, declaring, channel, listener, batch, flights, gen, applied,
                       budget>>

\* clearProject deletes the payloads, then the generation counters.
ClearEntries ==
    /\ budget.clears > 0 /\ ~budget.clearing
    /\ budget' = [budget EXCEPT !.clears = @ - 1, !.clearing = TRUE]
    /\ entries' = {}
    /\ UNCHANGED <<db, commits, declaring, channel, listener, batch, flights, gen, applied, sub,
                   fetch>>

ClearGenerations ==
    /\ budget.clearing /\ budget' = [budget EXCEPT !.clearing = FALSE]
    /\ gen' = [t \in Table |-> 0]
    /\ UNCHANGED <<db, commits, declaring, channel, listener, batch, flights, entries, applied,
                   sub, fetch>>

-----------------------------------------------------------------------------
Announce == Observe \/ (\E k \in Commit : Broadcast(k))

Flush ==
    \/ \E key \in Key : FlushTake(key)
    \/ \E b \in flights : FlushDecide(b) \/ FlushDeliver(b)

Listening == MarkDisconnected \/ Listen \/ MarkReady \/ RefreshTenant

Execute(f) == Lookup(f) \/ ReadDatabase(f) \/ CheckGeneration(f) \/ RowsKey(f) \/ Store(f)

Next ==
    \/ \E x \in Changes : DoCommit(x)
    \/ Announce \/ Flush \/ Listening
    \/ Cut \/ MarkNeedsRecovery
    \/ BeginRun
    \/ \E c \in Caller : BeginCall(c)
    \/ \E f \in Fetcher : Execute(f)
    \/ ClearEntries \/ ClearGenerations

Spec == Init /\ [][Next]_vars

\* Timers fire, the listener's goroutine and the run of the subscription go
\* on, a mutation that committed broadcasts.  Nobody has to commit or call.
FairSpec ==
    /\ Spec
    /\ WF_vars(Observe) /\ \A k \in Commit : WF_vars(Broadcast(k))
    /\ WF_vars(Flush) /\ WF_vars(Listening)
    /\ WF_vars(BeginRun) /\ WF_vars(Execute("run"))

-----------------------------------------------------------------------------
\* The variables have their types; a batch that is not in tableChanges holds
\* no tables, and one keyed by a table (a notification without commit ID)
\* holds that table only.
TypeOK ==
    /\ db \in [Table -> 0 .. Len(commits)]
    /\ declaring \subseteq 1 .. Len(commits)
    /\ \A i \in DOMAIN channel : channel[i].k \in 1 .. Len(commits) /\ channel[i].t \in TenantTable
    /\ listener \in [pc : {"wait", "dial", "listen", "refresh"}, link : BOOLEAN,
                     connected : BOOLEAN, needsRecovery : BOOLEAN]
    /\ \A key \in Key : batch[key].declared \subseteq Table
                        /\ batch[key].observed \subseteq TenantTable
                        /\ ~batch[key].open => batch[key] = NoBatch
    /\ \A t \in TenantTable : batch[t].declared = {} /\ batch[t].observed \subseteq {t}
    /\ \A b \in flights : b.key \in Key /\ b.pc \in {"taken", "deliver"} /\ b.tables \subseteq Table
    /\ gen \in [Table -> Nat]
    /\ \A e \in entries : e.kind \in {"query", "rows"} /\ DOMAIN e.val = Reads
    /\ sub.want \in {"none", "initial", "invalidate", "recover"} /\ sub.asked \subseteq Commit
    /\ \A f \in Fetcher : fetch[f].pc \in {"idle", "lookup", "read", "check", "key", "store"}

\* The payloads a query or a row browser could be served now.
Servable == {e \in entries : e.gen = Generation}

\* "so a query cannot reuse pre-commit cache entries": once the caches were
\* invalidated because of a commit, no payload without it can be served, unless
\* tables are browsed or the cache is cleared by hand.
NoPreCommitHit ==
    ~budget.byHand =>
        \A e \in Servable, k \in Commit, t \in Reads : <<k, t>> \in applied => e.val[t] >= k

\* Everything announced has been delivered.
Quiet ==
    /\ channel = <<>> /\ declaring = {} /\ flights = {}
    /\ \A key \in Key : ~batch[key].open
    /\ listener.pc = "wait" /\ listener.link
    /\ sub.want = "none" /\ fetch["run"].pc = "idle"

\* A subscription that has nothing more to run for shows the database,
\* whatever the batches merged, dropped as no-ops or narrowed to observed
\* tables, and whatever the listener missed.
SubscriptionFresh == Quiet => sub.seen = Now

\* "Valkey is never lastingly wrong": in a quiet system every payload that
\* can be served is the database's, with the same exception.
CacheFresh == ~budget.byHand /\ Quiet => \A e \in Servable : e.val = Now

\* The cache ends right, and the variables have their types.
LastingCacheFresh == TypeOK /\ CacheFresh

\* A commit to a table the query reads reaches the subscription.
CommitReaches ==
    \A k \in Commit, t \in Reads :
        []<>(Len(commits) >= k /\ t \in commits[k].writes => sub.seen[t] >= k)
=============================================================================
