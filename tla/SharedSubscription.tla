------------------------- MODULE SharedSubscription -------------------------
(***************************************************************************)
(* One shared query subscription (server/internal/server/subscriptions.go) *)
(* and the clients attached to it (packages/client/src/index.ts).          *)
(*                                                                         *)
(* Clients that subscribe to the same query share one group.  Commits that *)
(* touch its tables reach the group as notifications, each of which asks   *)
(* for a re-execution; executions are serialised in one runner goroutine,  *)
(* requests that arrive meanwhile are coalesced into one trailing run, and *)
(* what an execution returns is fanned out as a full result, a keyed patch *)
(* against the previous result, or a progress frame that only advances the *)
(* revision.  Every locked section of group.mu is one action; what the     *)
(* code does after unlocking (writing to sockets, asking for a run) is a   *)
(* later action of the same goroutine.                                     *)
(*                                                                         *)
(* The query is abstracted to the value it would return (a member of       *)
(* Values; its hash is the value itself), a keyed patch to the pair of     *)
(* values it leads from and to.  An expired group object has no listener   *)
(* and a cancelled context, so nothing its goroutines still do is visible: *)
(* Expire forgets it.                                                      *)
(***************************************************************************)
EXTENDS Integers, FiniteSets, Sequences

CONSTANTS
    Listener,        \* client connections
    Values,          \* results the query can have
    None,            \* no value, no listener
    Corrupt,         \* a patch applied to a result it was not made for
    RetainSnapshot,  \* the query reads a window, so its result is retained
    Forms,           \* how a change to a retained result is sent:
                     \* a subset of {"patch", "result"}
    Notices,         \* bound: notifications per commit (declared, trigger)
    MaxCommits,      \* bound: commits to the tables the query reads
    MaxJoins,        \* bound: subscribes by clients
    MaxLeaves,       \* bound: sockets and subscriptions that close
    MaxExpiries,     \* bound: grace periods that end
    MaxDrops,        \* bound: disconnects of the tenant's LISTEN connection
    MaxFailures      \* bound: failed executions and authorization checks

ASSUME ConstantsAssumption ==
    /\ None \notin Values \cup Listener /\ Corrupt \notin Values \cup {None}
    /\ RetainSnapshot \in BOOLEAN
    /\ Forms \subseteq {"patch", "result"} /\ Forms # {}
    /\ {Notices, MaxCommits, MaxJoins, MaxLeaves, MaxExpiries, MaxDrops, MaxFailures} \subseteq Nat

Commit == 1 .. MaxCommits
Reason == {"initial", "invalidate", "recover"}

VARIABLES
    db,         \* value: what the query returns now; commits: how many so far
    notices,    \* notifications of each commit that are still under way
    listening,  \* the tenant's LISTEN connection is up
    group,      \* the sharedSubscription object
    runner,     \* its run goroutine
    client,     \* each connection: the client and its server-side token
    published,  \* the value of every revision the server has published
    track,      \* history of the current group, see NewTrack
    budget      \* what is left of the bounds

vars == <<db, notices, listening, group, runner, client, published, track, budget>>

\* A sharedSubscription as attach creates it.  requested: a request came in
\* since the runner last took stock (requested > the runner's copy of it);
\* lastHash None: no result yet (hasHash); starter: the creator's goroutine
\* that waits for the tenant listener before the first request.
NewGroup ==
    [exists |-> TRUE, listeners |-> {}, awaiting |-> TRUE, starter |-> "waiting",
     running |-> FALSE, coalescing |-> FALSE, dirty |-> FALSE, stale |-> FALSE,
     requested |-> FALSE, reason |-> "initial", pend |-> {}, act |-> {}, done |-> {},
     revision |-> 0, lastResult |-> None, lastHash |-> None, lastError |-> FALSE,
     lastSingle |-> None]

NoGroup == [NewGroup EXCEPT !.exists = FALSE, !.awaiting = FALSE, !.starter = "none"]

\* to: the listeners of the message at hand; out: prepared, unwritten frames.
Idle == [pc |-> "off", reason |-> "initial", value |-> None, at |-> 0, to |-> {},
         msg |-> None, out |-> {}]

\* tail: what attach still does for it after unlocking; cache: the live
\* cacheRevision of its token; rev: lastRevision (0: none); last: the type of
\* lastMessage; want: a snapshot request is on its way to the server.
NewClient == [phase |-> "out", tail |-> [do |-> "nothing"], cache |-> None, view |-> None,
              rev |-> 0, last |-> "none", settled |-> FALSE, want |-> FALSE]

\* heard: commits the group was asked to re-execute for; readAt: how many
\* commits its last completed execution saw; skipped: commits it had heard
\* of when a run gave up without a result.
NewTrack == [heard |-> {}, readAt |-> 0, skipped |-> {}]

Init ==
    /\ db \in [value : Values, commits : {0}]
    /\ notices = [k \in Commit |-> 0]
    /\ listening = TRUE
    /\ group = NoGroup
    /\ runner = Idle
    /\ client = [l \in Listener |-> NewClient]
    /\ published = <<>>
    /\ track = NewTrack
    /\ budget = [joins |-> MaxJoins, leaves |-> MaxLeaves, expiries |-> MaxExpiries,
                 drops |-> MaxDrops, failures |-> MaxFailures]

-----------------------------------------------------------------------------
(* What the client does with a frame (normalizeSubscriptionMessage).        *)

\* requestSubscriptionSnapshot: ask again, advertising no cached revision.
AskSnapshot(c) == [c EXCEPT !.want = TRUE, !.settled = FALSE]

\* acceptRevision within one server epoch.
Newer(c, m) == c.rev = 0 \/ m.rev > c.rev

ReceiveProgress(c, m) ==
    CASE c.last # "result" -> AskSnapshot(c)
      [] c.last = "result" /\ Newer(c, m) -> [c EXCEPT !.rev = m.rev, !.settled = TRUE]
      [] OTHER -> c

ReceiveResult(c, m) ==
    IF Newer(c, m)
    THEN [c EXCEPT !.rev = m.rev, !.settled = TRUE, !.last = "result", !.view = m.value]
    ELSE c

\* A patch made for another result than the one shown yields rubbish.
ReceivePatch(c, m) ==
    CASE m.base # c.rev -> AskSnapshot(c)
      [] m.base = c.rev /\ ~Newer(c, m) -> c
      [] m.base = c.rev /\ Newer(c, m) /\ c.last # "result" -> AskSnapshot(c)
      [] OTHER -> [c EXCEPT !.rev = m.rev, !.settled = TRUE,
                            !.view = IF c.view = m.from THEN m.value ELSE Corrupt]

ReceiveError(c) == [c EXCEPT !.settled = TRUE, !.last = "error", !.view = None]

Receive(c, m) ==
    CASE m.type = "progress" -> ReceiveProgress(c, m)
      [] m.type = "result"   -> ReceiveResult(c, m)
      [] m.type = "patch"    -> ReceivePatch(c, m)
      [] m.type = "error"    -> ReceiveError(c)

\* Writing a result or a patch also records what the listener now holds
\* (storeListenerCacheRevision), unless its token was replaced meanwhile.
Written(c, m, live) ==
    LET d == Receive(c, m)
    IN  IF live /\ m.type \in {"result", "patch"} THEN [d EXCEPT !.cache = m.value] ELSE d

-----------------------------------------------------------------------------
(* Requests for a run.                                                      *)

\* requestForCommitBatch without a commit.
Request(g, why) ==
    [g EXCEPT !.requested = TRUE, !.reason = why, !.running = TRUE,
              !.dirty = @ \/ (g.running /\ ~g.coalescing)]

\* requestForCommitBatch for commit k: one run serves every notification of
\* a commit.
RequestCommit(g, k) ==
    IF k \in g.pend \cup g.act \cup g.done THEN g
    ELSE [Request(g, "invalidate") EXCEPT !.pend = @ \cup {k}]

\* Mutant: nobody starts the goroutine.
StartedNever(g, h) == runner

\* The goroutine that a request starts when none is running.
Started(g, h) == IF ~g.running /\ h.running THEN [Idle EXCEPT !.pc = "start"] ELSE runner

Ask(h) == group' = h /\ runner' = Started(group, h)

-----------------------------------------------------------------------------
(* The environment: commits, their notifications, the LISTEN connection.   *)

DoCommit(v) ==
    /\ db.commits < MaxCommits
    /\ db' = [value |-> v, commits |-> db.commits + 1]
    /\ notices' = [notices EXCEPT ![db.commits + 1] = Notices]
    /\ UNCHANGED <<listening, group, runner, client, published, track, budget>>

\* requestChange for a notification of commit k.
RequestChange(k) ==
    /\ notices[k] > 0
    /\ notices' = [notices EXCEPT ![k] = @ - 1]
    /\ IF group.exists
       THEN Ask(RequestCommit(group, k)) /\ track' = [track EXCEPT !.heard = @ \cup {k}]
       ELSE UNCHANGED <<group, runner, track>>
    /\ UNCHANGED <<db, listening, client, published, budget>>

Disconnect ==
    /\ listening /\ budget.drops > 0
    /\ listening' = FALSE /\ budget' = [budget EXCEPT !.drops = @ - 1]
    /\ UNCHANGED <<db, notices, group, runner, client, published, track>>

LoseNotice(k) ==
    /\ ~listening /\ notices[k] > 0
    /\ notices' = [notices EXCEPT ![k] = @ - 1]
    /\ UNCHANGED <<db, listening, group, runner, client, published, track, budget>>

\* Mutant: the reconnect forgets refreshTenant.
RefreshTenantSilently ==
    /\ ~listening /\ listening' = TRUE
    /\ UNCHANGED <<db, notices, group, runner, client, published, track, budget>>

\* The listener reconnects and refreshTenant asks every group to recover.
RefreshTenant ==
    /\ ~listening /\ listening' = TRUE
    /\ IF group.exists
       THEN Ask(Request(group, "recover"))
       ELSE UNCHANGED <<group, runner>>
    /\ UNCHANGED <<db, notices, client, published, track, budget>>

-----------------------------------------------------------------------------
(* attach, detach, expire.                                                  *)

\* What attach decides under the lock; it acts on it after unlocking.
AfterUnlock(g, created) ==
    CASE g.lastResult # None /\ ~g.stale ->
            [do |-> "snapshot", value |-> g.lastResult, rev |-> g.revision]
      [] ~(g.lastResult # None /\ ~g.stale) /\ g.lastError -> [do |-> "error"]
      [] ~(g.lastResult # None /\ ~g.stale) /\ ~g.lastError
            /\ ~created /\ ~g.running /\ ~g.awaiting -> [do |-> "request"]
      [] OTHER -> [do |-> "nothing"]

\* The locked section of attach, for a client whose state is c.
Attach(l, c) ==
    LET g == IF group.exists THEN group ELSE NewGroup
        t == AfterUnlock(g, ~group.exists)
    IN  /\ group' = [g EXCEPT !.listeners = @ \cup {l}]
        /\ client' = [client EXCEPT ![l] = [c EXCEPT !.tail = t,
                         !.phase = IF t.do = "nothing" THEN "in" ELSE "attaching"]]
        /\ track' = IF group.exists THEN track ELSE NewTrack
        /\ UNCHANGED <<db, notices, listening, runner, published>>

\* A client subscribes, advertising the result it has cached, if any.
Subscribe(l, cached) ==
    /\ client[l].phase = "out" /\ budget.joins > 0
    /\ cached \in {None, client[l].view}
    /\ Attach(l, [client[l] EXCEPT !.cache = cached, !.settled = FALSE])
    /\ budget' = [budget EXCEPT !.joins = @ - 1]

Attached(c) == [c EXCEPT !.phase = "in", !.tail = [do |-> "nothing"]]

\* sendFullTo: the retained snapshot, or progress if the listener has it.
AttachSnapshot(l) ==
    LET c == client[l]
        m == [type |-> IF c.cache = c.tail.value THEN "progress" ELSE "result",
              value |-> c.tail.value, rev |-> c.tail.rev]
    IN  /\ c.phase = "attaching" /\ c.tail.do = "snapshot"
        /\ client' = [client EXCEPT ![l] = Attached(Written(c, m, TRUE))]
        /\ UNCHANGED <<db, notices, listening, group, runner, published, track, budget>>

AttachError(l) ==
    /\ client[l].phase = "attaching" /\ client[l].tail.do = "error"
    /\ client' = [client EXCEPT ![l] = Attached(ReceiveError(@))]
    /\ UNCHANGED <<db, notices, listening, group, runner, published, track, budget>>

AttachRequest(l) ==
    /\ client[l].phase = "attaching" /\ client[l].tail.do = "request"
    /\ client' = [client EXCEPT ![l] = Attached(@)]
    /\ Ask(Request(group, "initial"))
    /\ UNCHANGED <<db, notices, listening, published, track, budget>>

\* The creator's goroutine: the tenant listener is ready (or timed out), so
\* markListenerReady, then the first request.
StarterReady ==
    /\ group.starter = "waiting"
    /\ group' = [group EXCEPT !.starter = "ready", !.awaiting = FALSE]
    /\ UNCHANGED <<db, notices, listening, runner, client, published, track, budget>>

StarterRequest ==
    /\ group.starter = "ready"
    /\ Ask([Request(group, "initial") EXCEPT !.starter = "none"])
    /\ UNCHANGED <<db, notices, listening, client, published, track, budget>>

\* detach drops the listener's token: it is no longer the last single
\* listener, and the runner skips it when it prepares its frames.
Detached(g, l) ==
    [g EXCEPT !.listeners = @ \ {l}, !.lastSingle = IF @ = l THEN None ELSE @]

\* The socket closes, or the client unsubscribes: frames prepared for it go
\* nowhere.  A reconnecting client keeps its result, a closed one does not.
Leave(l, kept) ==
    /\ client[l].phase = "in" /\ budget.leaves > 0
    /\ group' = Detached(group, l)
    /\ runner' = [runner EXCEPT !.to = @ \ {l}, !.out = {m \in @ : m.to # l}]
    /\ client' = [client EXCEPT ![l] = IF kept THEN [@ EXCEPT !.phase = "out", !.want = FALSE]
                                       ELSE NewClient]
    /\ budget' = [budget EXCEPT !.leaves = @ - 1]
    /\ UNCHANGED <<db, notices, listening, published, track>>

\* query.subscribe for an id that is already subscribed: the old token is
\* dropped here and attach follows; frames prepared for the old token still
\* reach the client.
Resubscribe(l) ==
    /\ client[l].phase = "in" /\ client[l].want
    /\ group' = Detached(group, l)
    /\ runner' = [runner EXCEPT !.to = @ \ {l},
                     !.out = {IF m.to = l THEN [m EXCEPT !.live = FALSE] ELSE m : m \in @}]
    /\ client' = [client EXCEPT ![l].phase = "detached", ![l].cache = None, ![l].want = FALSE]
    /\ UNCHANGED <<db, notices, listening, published, track, budget>>

Reattach(l) ==
    /\ client[l].phase = "detached"
    /\ Attach(l, client[l])
    /\ UNCHANGED budget

\* The grace period of a group without listeners ends.
Expire ==
    /\ group.exists /\ group.listeners = {} /\ budget.expiries > 0
    /\ group' = NoGroup /\ runner' = Idle
    /\ track' = NewTrack
    /\ budget' = [budget EXCEPT !.expiries = @ - 1]
    /\ UNCHANGED <<db, notices, listening, client, published>>

-----------------------------------------------------------------------------
(* run: one pass of the runner, a locked section or a write per action.     *)

RunBegin ==
    /\ runner.pc = "start"
    /\ group' = [group EXCEPT !.coalescing = FALSE, !.requested = FALSE, !.dirty = FALSE,
                              !.act = group.pend, !.pend = {}]
    /\ runner' = [runner EXCEPT !.reason = group.reason,
                     !.pc = CASE group.listeners # {} -> "authorize"
                              [] group.listeners = {} /\ group.reason = "invalidate" -> "mark"
                              [] OTHER -> "finish",
                     !.to = group.listeners]
    /\ UNCHANGED <<db, notices, listening, client, published, track, budget>>

RunMarkStale ==
    /\ runner.pc = "mark"
    /\ group' = [group EXCEPT !.stale = TRUE]
    /\ runner' = [runner EXCEPT !.pc = "finish"]
    /\ UNCHANGED <<db, notices, listening, client, published, track, budget>>

GaveUp == track' = [track EXCEPT !.skipped = @ \cup track.heard]

\* Mutant: finishRun leaves running set.
FinishRunStaysRunning ==
    /\ runner.pc = "finish" /\ GaveUp
    /\ group' = [group EXCEPT !.done = @ \cup group.act, !.act = {}]
    /\ runner' = Idle
    /\ UNCHANGED <<db, notices, listening, client, published, budget>>

\* finishRun.
FinishRun ==
    /\ runner.pc = "finish" /\ GaveUp
    /\ group' = [group EXCEPT !.done = @ \cup group.act, !.act = {}, !.running = FALSE]
    /\ runner' = Idle
    /\ UNCHANGED <<db, notices, listening, client, published, budget>>

\* firstAuthorizedListener: listeners whose check fails before one succeeds
\* are told so.
RunAuthorize(denied) ==
    /\ runner.pc = "authorize" /\ denied \subseteq runner.to
    /\ denied # {} => budget.failures > 0
    /\ client' = [l \in Listener |-> IF l \in denied THEN ReceiveError(client[l]) ELSE client[l]]
    /\ runner' = [runner EXCEPT !.pc = IF denied = runner.to THEN "finish" ELSE "execute",
                                !.to = {}]
    /\ budget' = [budget EXCEPT !.failures = IF denied = {} THEN @ ELSE @ - 1]
    /\ UNCHANGED <<db, notices, listening, group, published, track>>

RunExecute ==
    /\ runner.pc = "execute"
    /\ runner' = [runner EXCEPT !.pc = "complete", !.value = db.value, !.at = db.commits]
    /\ UNCHANGED <<db, notices, listening, group, client, published, track, budget>>

RunFail ==
    /\ runner.pc = "execute" /\ budget.failures > 0
    /\ runner' = [runner EXCEPT !.pc = "failed"]
    /\ budget' = [budget EXCEPT !.failures = @ - 1]
    /\ UNCHANGED <<db, notices, listening, group, client, published, track>>

Unchanged == group.lastHash # None /\ runner.value = group.lastHash

SameSingle == Cardinality(group.listeners) = 1 /\ group.listeners = {group.lastSingle}

\* An unchanged result that the listeners are taken to hold already.
Held == Unchanged /\ (group.lastResult # None \/ SameSingle)

\* completeResult, an unchanged invalidation: nothing is sent.
CompleteSuppressed ==
    /\ runner.pc = "complete" /\ runner.reason = "invalidate" /\ Held
    /\ group' = [group EXCEPT !.lastError = FALSE]
    /\ runner' = [runner EXCEPT !.pc = "settle"]
    /\ track' = [track EXCEPT !.readAt = runner.at]
    /\ UNCHANGED <<db, notices, listening, client, published, budget>>

\* How a new revision may be sent: a patch needs the previous result.
Shapes ==
    CASE Held -> {"progress"}
      [] ~Held /\ group.lastResult = None -> {"result"}
      [] OTHER -> Forms

\* completeResult otherwise: a new revision.
CompletePublished(form) ==
    LET next == Len(published) + 1
    IN  /\ runner.pc = "complete" /\ ~(runner.reason = "invalidate" /\ Held)
        /\ form \in Shapes
        /\ published' = Append(published, runner.value)
        /\ group' = [group EXCEPT !.revision = next, !.stale = FALSE, !.lastHash = runner.value,
                        !.lastError = FALSE,
                        !.lastSingle = IF Cardinality(group.listeners) = 1
                                       THEN CHOOSE l \in group.listeners : TRUE ELSE None,
                        !.lastResult = IF Cardinality(group.listeners) > 1 \/ RetainSnapshot
                                       THEN runner.value ELSE None]
        /\ runner' = [runner EXCEPT !.pc = "prepare", !.to = group.listeners,
                         !.msg = [type |-> form, value |-> runner.value, rev |-> next,
                                  from |-> group.lastResult, base |-> group.revision]]
        /\ track' = [track EXCEPT !.readAt = runner.at]
        /\ UNCHANGED <<db, notices, listening, client, budget>>

\* completeError: only a first execution that fails is reported.
CompleteError ==
    /\ runner.pc = "failed" /\ GaveUp
    /\ group' = IF group.lastHash = None THEN [group EXCEPT !.lastError = TRUE] ELSE group
    /\ runner' = [runner EXCEPT !.pc = IF group.lastHash = None THEN "report" ELSE "settle"]
    /\ UNCHANGED <<db, notices, listening, client, published, budget>>

\* broadcastError takes the listeners anew.
BroadcastError ==
    /\ runner.pc = "report"
    /\ runner' = [runner EXCEPT !.pc = "write",
                     !.out = {[to |-> l, live |-> TRUE, type |-> "error"] : l \in group.listeners}]
    /\ UNCHANGED <<db, notices, listening, group, client, published, track, budget>>

\* Mutant: any cached revision is taken to be the current one.
FrameAnyCached(l, m) ==
    [to |-> l, live |-> TRUE, value |-> m.value, rev |-> m.rev, from |-> m.from, base |-> m.base,
     type |-> IF m.type = "result" /\ client[l].cache # None THEN "progress" ELSE m.type]

\* The frame broadcastTo prepares for one listener: a full result that its
\* live cacheRevision says it holds becomes progress.
Frame(l, m) ==
    [to |-> l, live |-> TRUE, value |-> m.value, rev |-> m.rev, from |-> m.from, base |-> m.base,
     type |-> IF m.type = "result" /\ client[l].cache = group.lastHash THEN "progress" ELSE m.type]

Prepare ==
    /\ runner.pc = "prepare"
    /\ runner' = [runner EXCEPT !.pc = "write", !.to = {}, !.msg = None,
                     !.out = {Frame(l, runner.msg) : l \in runner.to}]
    /\ UNCHANGED <<db, notices, listening, group, client, published, track, budget>>

Write(l) ==
    /\ runner.pc = "write"
    /\ \E m \in runner.out :
          /\ m.to = l
          /\ runner' = [runner EXCEPT !.out = @ \ {m}]
          /\ client' = [client EXCEPT ![l] = Written(@, m, m.live)]
    /\ UNCHANGED <<db, notices, listening, group, published, track, budget>>

\* Mutant: requests that came during the pass are taken to be served by it.
RunSettleIgnoresLate ==
    /\ runner.pc = "settle" \/ (runner.pc = "write" /\ runner.out = {})
    /\ group' = [group EXCEPT !.done = @ \cup group.act, !.act = {},
                              !.coalescing = FALSE, !.running = FALSE]
    /\ runner' = Idle
    /\ UNCHANGED <<db, notices, listening, client, published, track, budget>>

\* The end of a pass: the commits it served are remembered, and requests
\* that came meanwhile get one trailing pass after the cooldown.
RunSettle ==
    /\ runner.pc = "settle" \/ (runner.pc = "write" /\ runner.out = {})
    /\ LET again == group.dirty \/ group.requested
       IN  /\ group' = [group EXCEPT !.done = @ \cup group.act, !.act = {},
                            !.coalescing = again, !.running = again]
           /\ runner' = [Idle EXCEPT !.pc = IF again THEN "start" ELSE "off"]
    /\ UNCHANGED <<db, notices, listening, client, published, track, budget>>

Runner ==
    \/ RunBegin \/ RunMarkStale \/ FinishRun
    \/ \E denied \in SUBSET Listener : RunAuthorize(denied)
    \/ RunExecute \/ RunFail
    \/ CompleteSuppressed
    \/ \E form \in {"progress", "result", "patch"} : CompletePublished(form)
    \/ CompleteError \/ BroadcastError
    \/ Prepare \/ (\E l \in Listener : Write(l))
    \/ RunSettle

Connection(l) ==
    \/ \E cached \in Values \cup {None} : Subscribe(l, cached)
    \/ AttachSnapshot(l) \/ AttachError(l) \/ AttachRequest(l)
    \/ \E kept \in BOOLEAN : Leave(l, kept)
    \/ Resubscribe(l) \/ Reattach(l)

Next ==
    \/ \E v \in Values : DoCommit(v)
    \/ \E k \in Commit : RequestChange(k) \/ LoseNotice(k)
    \/ Disconnect \/ RefreshTenant
    \/ \E l \in Listener : Connection(l)
    \/ StarterReady \/ StarterRequest
    \/ Expire
    \/ Runner

Spec == Init /\ [][Next]_vars

\* The Go scheduler runs every goroutine and timer that can run; whether a
\* client subscribes, leaves or a commit happens is up to nobody.
FairSpec == Spec /\ WF_vars(Runner)

-----------------------------------------------------------------------------
\* The variables have their types, and nobody knows a revision that the
\* manager's sequence has not reached.
TypeOK ==
    /\ db \in [value : Values, commits : 0 .. MaxCommits]
    /\ notices \in [Commit -> 0 .. Notices]
    /\ listening \in BOOLEAN
    /\ group.listeners \subseteq Listener
    /\ group.starter \in {"none", "waiting", "ready"}
    /\ group.reason \in Reason
    /\ group.revision <= Len(published)
    /\ group.lastResult \in Values \cup {None} /\ group.lastHash \in Values \cup {None}
    /\ runner.pc \in {"off", "start", "mark", "finish", "authorize", "execute", "complete",
                      "failed", "report", "prepare", "write", "settle"}
    /\ \A l \in Listener :
          /\ client[l].phase \in {"out", "detached", "attaching", "in"}
          /\ client[l].rev \in 0 .. Len(published)
          /\ client[l].view \in Values \cup {None, Corrupt}

\* At most one goroutine executes the query of a group, and the flags that
\* tell a request whether to start one, to ask for a trailing pass or to do
\* nothing agree with where it is.
OneRunner ==
    /\ group.running <=> runner.pc # "off"
    /\ group.coalescing => runner.pc = "start"
    /\ runner.pc \in {"off", "start", "mark", "finish"} => runner.out = {}
    /\ group.act # {} => runner.pc \notin {"off", "start"}

\* The pass under way, or the one that follows it, still has to read the
\* database, or has read it after commit k.
Outstanding(k) ==
    \/ group.requested /\ group.running
    \/ runner.pc \in {"start", "mark", "finish", "authorize", "execute", "failed"}
    \/ runner.pc = "complete" /\ k <= runner.at

\* No notification is lost to coalescing or to the deduplication of commit
\* IDs: a commit the group has heard of is in the last completed read, or a
\* read that will see it is still to come, unless a run gave up meanwhile.
CommitsServed ==
    \A k \in track.heard \ track.skipped : k <= track.readAt \/ Outstanding(k)

-----------------------------------------------------------------------------
\* Nothing is under way.
Quiet ==
    /\ runner.pc = "off" /\ group.starter = "none" /\ listening
    /\ \A k \in Commit : notices[k] = 0
    /\ \A l \in Listener : client[l].phase \in {"out", "in"} /\ ~client[l].want

Attendees == {l \in Listener : client[l].phase = "in"}

\* The revision a client acknowledges names the result it shows: patches,
\* progress frames and late snapshots never advance one without the other.
ViewMatchesRevision ==
    \A l \in Listener : client[l].last = "result" => client[l].view = published[client[l].rev]

\* Once everything is delivered, an answered listener shows what the query
\* returns now.
SettledFresh ==
    Quiet => \A l \in Attendees :
                client[l].settled /\ client[l].last = "result" => client[l].view = db.value

\* Every listener is answered: "The active execution broadcasts its first
\* authoritative snapshot to every listener, including this one."
JoinersServed == Quiet => \A l \in Attendees : client[l].settled

\* A request is followed by a run that reads the database or gives up.
EveryCommitReaches ==
    \A k \in Commit :
        []<>(k \in track.heard => k <= track.readAt \/ k \in track.skipped)
=============================================================================
