-------------------------- MODULE MutationDelivery --------------------------
(***************************************************************************)
(* A client's write from client.mutation() to the tenant database and back *)
(* (packages/client/src: index.ts, outbox.ts, optimistic.ts; server:       *)
(* ws.go, mutation_idempotency.go).                                        *)
(*                                                                         *)
(* A write with optimistic patches, or with offline: "queue", is stored in *)
(* an outbox shared by all tabs of an identity, sent at once, and resent   *)
(* under the same idempotency key by the drain loop after a failure.  The  *)
(* server claims the key in the transaction of the write, so a second      *)
(* delivery waits for the first one and is served its stored result.  The  *)
(* optimistic overlay shows the write until every live source has          *)
(* delivered it.                                                           *)
(*                                                                         *)
(* Writes are numbered in the order of their calls; all optimistic writes  *)
(* touch one row.  Time is abstract: a backoff elapses, a claim ages.      *)
(***************************************************************************)
EXTENDS Integers, Sequences, FiniteSets

CONSTANTS
    N,          \* number of writes
    Client,     \* browser tabs that share one outbox database
    Source,     \* live subscriptions of the row, in every tab
    Optimistic, \* writes with patches
    Queueable,  \* writes called with offline: "queue"
    MaxConns,   \* bound: connections of a tab
    MaxFaults,  \* bound: faults of the kinds in Faults
    Faults      \* the kinds of faults that happen

Key == 1 .. N
Gen == 1 .. MaxConns
Who == {"direct", "drain"}
Managed == Optimistic \cup Queueable   \* writes that go through the outbox

ASSUME ConstantsAssumption ==
    /\ N \in Nat \ {0} /\ MaxConns \in Nat \ {0}
    /\ Optimistic \subseteq Key /\ Queueable \subseteq Key
    /\ MaxFaults \in Nat
    /\ Faults \subseteq {"reload", "restart", "failure", "sweep", "slow", "break"}

VARIABLES
    db,       \* entries of the shared outbox database, by write
    tab,      \* the tabs: memory of the outbox, connection and drain loop
    waiting,  \* waiting[c][k]: who awaits the answer to write k
    handler,  \* handler[c][k]: whom an answer to k resolves
    overlay,  \* the optimistic overlay of each tab
    base,     \* base[c][s]: the last result of source s: the writes it contains
              \* and the one the row shows
    news,     \* news[c][s]: mutation IDs the next result of s will carry
    wire,     \* wire[c][g]: calls sent on connection g, not handled yet
    answers,  \* answers[c]: results and errors under way to tab c
    exec,     \* exec[c][g]: the call that connection g is executing
    claims,   \* _gonvex_mutation_idempotency, by write
    effects,  \* effects[k]: committed executions of write k
    row,      \* the optimistic write that the row holds in the tenant database
    outcome,  \* outcome[k]: what the caller of mutation() was told
    refused,  \* history: writes the server has answered with an error
    swept,    \* history: writes whose claim was swept
    left      \* faults that may still happen

vars == <<db, tab, waiting, handler, overlay, base, news, wire, answers, exec,
          claims, effects, row, outcome, refused, swept, left>>

EntryState == {"none", "pending", "backoff", "inflight", "committed"}
Idle == [key |-> 0, phase |-> "idle"]
Hidden == [state |-> "none", targets |-> {}, acked |-> {}]
NoEntries == [k \in Key |-> "none"]
\* A tab after loading the page: drain is 0 (idle), -1 (looking) or a write;
\* timer is the write that the drain timer was armed for, 0 when not armed.
NewTab == [mem |-> NoEntries, memoryOnly |-> FALSE, loaded |-> FALSE, gen |-> 0,
           open |-> FALSE, dead |-> 0, unsent |-> << >>, drain |-> 0, wake |-> FALSE,
           timer |-> 0, settling |-> {}, live |-> {}]

TabType ==
    [mem : [Key -> EntryState], memoryOnly : BOOLEAN, loaded : BOOLEAN,
     gen : 0 .. MaxConns, open : BOOLEAN, dead : 0 .. MaxConns,
     unsent : Seq(Key), drain : Key \cup {0, -1}, wake : BOOLEAN,
     timer : Key \cup {0}, settling : SUBSET (Key \X Who), live : SUBSET Source]
OverlayType ==
    [state : {"none", "shown", "accepted"}, targets : SUBSET Source, acked : SUBSET Source]
ExecType == [key : Key \cup {0}, phase : {"idle", "running", "replaying"}]

TypeOK ==
    /\ db \in [Key -> EntryState]
    /\ tab \in [Client -> TabType]
    /\ waiting \in [Client -> [Key -> SUBSET Who]]
    /\ handler \in [Client -> [Key -> Who \cup {"none"}]]
    /\ overlay \in [Client -> [Key -> OverlayType]]
    /\ base \in [Client -> [Source -> [seen : SUBSET Key, row : Key \cup {0}]]]
    /\ news \in [Client -> [Source -> SUBSET Key]]
    /\ wire \in [Client -> [Gen -> Seq(Key)]]
    /\ answers \in [Client -> Seq([key : Key, ok : BOOLEAN])]
    /\ exec \in [Client -> [Gen -> ExecType]]
    /\ claims \in [Key -> {"free", "held", "committed"}]
    /\ effects \in [Key -> Nat] /\ row \in Key \cup {0}
    /\ outcome \in [Key -> {"none", "waiting", "queued", "ok", "unknown", "rejected"}]
    /\ refused \in SUBSET Key /\ swept \in SUBSET Key
    /\ left \in 0 .. MaxFaults

Init ==
    /\ db = NoEntries
    /\ tab = [c \in Client |-> NewTab]
    /\ waiting = [c \in Client |-> [k \in Key |-> {}]]
    /\ handler = [c \in Client |-> [k \in Key |-> "none"]]
    /\ overlay = [c \in Client |-> [k \in Key |-> Hidden]]
    /\ base = [c \in Client |-> [s \in Source |-> [seen |-> {}, row |-> 0]]]
    /\ news = [c \in Client |-> [s \in Source |-> {}]]
    /\ wire = [c \in Client |-> [g \in Gen |-> << >>]]
    /\ answers = [c \in Client |-> << >>]
    /\ exec = [c \in Client |-> [g \in Gen |-> Idle]]
    /\ claims = [k \in Key |-> "free"]
    /\ effects = [k \in Key |-> 0] /\ row = 0
    /\ outcome = [k \in Key |-> "none"]
    /\ refused = {} /\ swept = {}
    /\ left = MaxFaults

Fault(f) == f \in Faults /\ left > 0 /\ left' = left - 1

-----------------------------------------------------------------------------
(***************************************************************************)
(* The outbox.  A tab works on the database, and keeps a copy in memory    *)
(* that it falls back to, for good, when an operation on it fails.         *)
(***************************************************************************)

Entries(c) == IF tab[c].memoryOnly THEN tab[c].mem ELSE db

\* Put(c, new): tab c gives the entries in DOMAIN new their new state.
Merged(new, old) == [k \in Key |-> IF k \in DOMAIN new THEN new[k] ELSE old[k]]
PutDB(c, new) == db' = IF tab[c].memoryOnly THEN db ELSE Merged(new, db)

\* A transition of an entry that no longer exists does nothing.
Moved(c, K, state) == [k \in {j \in K : Entries(c)[j] # "none"} |-> state]
Removed(K) == [k \in K |-> "none"]

\* firstReady: entries are walked in order of their numbers; one that is not
\* ready blocks the later ones of its row, unless it is committed.
Blocks(e, j) == e[j] \in {"pending", "backoff", "inflight"}
Ready(e, k) ==
    /\ e[k] = "pending"
    /\ k \in Optimistic => \A j \in Optimistic : j < k => ~Blocks(e, j)
FirstReady(e) ==
    IF \E k \in Key : Ready(e, k)
    THEN CHOOSE k \in Key : Ready(e, k) /\ \A j \in Key : Ready(e, j) => k <= j
    ELSE 0

-----------------------------------------------------------------------------
(***************************************************************************)
(* The optimistic overlay.                                                 *)
(***************************************************************************)

\* Adding an entry makes every live source of the row one of its targets.
Shown(c, state) == [state |-> state, targets |-> tab[c].live, acked |-> {}]

\* Mutant: an entry is settled by its transport result.
SettledByResult(o) == {k \in Key : o[k].state = "accepted"}

\* settleReadyEntries: accepted entries all of whose targets have delivered.
Settled(o) == {k \in Key : o[k].state = "accepted" /\ o[k].targets \subseteq o[k].acked}
Drop(o, K) == [k \in Key |-> IF k \in K THEN Hidden ELSE o[k]]

\* acknowledgeMatching: results that show exactly what an accepted entry wrote.
Matched(o, b) ==
    [k \in Key |-> IF o[k].state # "accepted" THEN o[k]
                   ELSE [o[k] EXCEPT !.acked = @ \cup {s \in o[k].targets : b[s].row = k}]]

\* The pass goes from the last entry to the first; each removal emits the
\* sources again, which can only settle entries the pass has yet to reach.
Settling(o, b) ==
    LET S == Settled(o)
    IN  S \cup {j \in Settled(Matched(o, b)) : \E i \in S : j < i}
AfterPass(o, b) == IF Settled(o) = {} THEN o ELSE Drop(Matched(o, b), Settling(o, b))

\* The overlay of c becomes o; entries that settle are acknowledged and gone,
\* beside the changes `new' of the same step; t is the tab after the step.
Reconcile(c, t, o, b, new) ==
    LET gone == Removed(Settling(o, b))
    IN  /\ overlay' = [overlay EXCEPT ![c] = AfterPass(o, b)]
        /\ PutDB(c, Merged(gone, Merged(new, Entries(c))))
        /\ tab' = [tab EXCEPT ![c] =
               [t EXCEPT !.mem = Merged(gone, Merged(new, @)),
                         !.wake = @ \/ \E k \in DOMAIN gone : Entries(c)[k] # "none"]]

-----------------------------------------------------------------------------
(***************************************************************************)
(* Calls of the client.                                                    *)
(***************************************************************************)

\* call and send: the message goes out on the open socket, where it is lost if
\* the server is gone, or waits for one.
Send(c, t, k) ==
    IF t.open THEN /\ wire' = IF t.gen > t.dead THEN [wire EXCEPT ![c][t.gen] = Append(@, k)] ELSE wire
                   /\ tab' = [tab EXCEPT ![c] = t]
              ELSE /\ tab' = [tab EXCEPT ![c] = [t EXCEPT !.unsent = Append(@, k)]]
                   /\ UNCHANGED wire

\* registerCall: a second registration under the same ID takes the first
\* one's handler away, but not its timer.
Register(c, k, w) ==
    /\ waiting' = [waiting EXCEPT ![c][k] = @ \cup {w}]
    /\ handler' = [handler EXCEPT ![c][k] = w]

\* mutation and runOptimisticMutation, up to the send.
Mutate(c, k) ==
    /\ tab[c].loaded
    /\ outcome[k] = "none" /\ \A j \in Key : j < k => outcome[j] # "none"
    /\ IF k \in Managed /\ tab[c].memoryOnly
       THEN \* enqueue refuses: persistence is required
            /\ outcome' = [outcome EXCEPT ![k] = "rejected"]
            /\ UNCHANGED <<db, tab, waiting, handler, overlay, wire>>
       ELSE /\ outcome' = [outcome EXCEPT ![k] = "waiting"]
            /\ LET e == [j \in {k} \cap Managed |-> "inflight"]
               IN  /\ PutDB(c, e)
                   /\ Send(c, [tab[c] EXCEPT !.mem = Merged(e, @), !.wake = k \in Managed \/ @], k)
            /\ overlay' = IF k \in Optimistic
                          THEN [overlay EXCEPT ![c][k] = Shown(c, "shown")] ELSE overlay
            /\ Register(c, k, "direct")
    /\ UNCHANGED <<base, news, answers, exec, claims, effects, row, refused, swept, left>>

\* Mutant: the entry of a call whose caller is answered leaves the outbox.
FailedForgets(c, t, D, E) ==
    LET over == D \cap Managed
        new == [k \in {j \in E \cup over : Entries(c)[j] # "none"} |->
                   IF k \in over THEN "none" ELSE "backoff"]
    IN  /\ waiting' = [waiting EXCEPT ![c] = [k \in Key |->
                @[k] \ ((IF k \in D THEN {"direct"} ELSE {}) \cup (IF k \in E THEN {"drain"} ELSE {}))]]
        /\ handler' = [handler EXCEPT ![c] = [k \in Key |-> IF k \in D \cup E THEN "none" ELSE @[k]]]
        /\ outcome' = [k \in Key |-> IF k \notin D THEN outcome[k]
                                     ELSE IF k \in Queueable THEN "queued" ELSE "unknown"]
        /\ overlay' = [overlay EXCEPT ![c] = Drop(@, D \ Queueable)]
        /\ PutDB(c, new)
        /\ tab' = [tab EXCEPT ![c] =
               [t EXCEPT !.mem = Merged(new, @), !.wake = @ \/ DOMAIN new # {},
                         !.timer = IF E = {} THEN @ ELSE CHOOSE k \in E : TRUE,
                         !.drain = IF E = {} THEN @ ELSE 0]]

\* Calls D of callers and E of the drain loop fail in transport: what may be
\* queued waits for a retry, everything else is taken back.
Failed(c, t, D, E) ==
    LET again == (D \cap Queueable) \cup E
        over == (D \cap Managed) \ Queueable
        new == [k \in {j \in again \cup over : Entries(c)[j] # "none"} |->
                   IF k \in over THEN "none" ELSE "backoff"]
    IN  /\ waiting' = [waiting EXCEPT ![c] = [k \in Key |->
                @[k] \ ((IF k \in D THEN {"direct"} ELSE {}) \cup (IF k \in E THEN {"drain"} ELSE {}))]]
        /\ handler' = [handler EXCEPT ![c] = [k \in Key |-> IF k \in D \cup E THEN "none" ELSE @[k]]]
        /\ outcome' = [k \in Key |-> IF k \notin D THEN outcome[k]
                                     ELSE IF k \in Queueable THEN "queued" ELSE "unknown"]
        /\ overlay' = [overlay EXCEPT ![c] = Drop(@, over)]
        /\ PutDB(c, new)
        /\ tab' = [tab EXCEPT ![c] =
               [t EXCEPT !.mem = Merged(new, @), !.wake = @ \/ DOMAIN new # {},
                         !.timer = IF E = {} THEN @ ELSE CHOOSE k \in E : TRUE,
                         !.drain = IF E = {} THEN @ ELSE 0]]

\* The timer of a call fires; registered under the same ID, it also removes
\* the handler of a later call.  An answer that can still come may be late.
\* Mutant: only the call that holds the handler is timed.
TimedWithHandler(c, k, w) ==
    /\ w \in waiting[c][k] /\ handler[c][k] = w /\ tab[c].open
    /\ Fault("slow")
    /\ Failed(c, tab[c], {j \in {k} : w = "direct"}, {j \in {k} : w = "drain"})
    /\ UNCHANGED <<base, news, wire, answers, exec, claims, effects, row, refused, swept>>

NoAnswerComes(c, k, w) ==
    handler[c][k] # w \/ ~tab[c].open \/ tab[c].gen <= tab[c].dead
CallTimesOut(c, k, w) ==
    /\ w \in waiting[c][k]
    /\ IF NoAnswerComes(c, k, w) THEN UNCHANGED left ELSE Fault("slow")
    /\ Failed(c, tab[c], {j \in {k} : w = "direct"}, {j \in {k} : w = "drain"})
    /\ UNCHANGED <<base, news, wire, answers, exec, claims, effects, row, refused, swept>>

Open(c) ==
    LET g == tab[c].gen + 1
    IN  /\ ~tab[c].open /\ tab[c].loaded /\ g \in Gen
        /\ tab' = [tab EXCEPT ![c] = [@ EXCEPT !.open = TRUE, !.gen = g, !.unsent = << >>,
                                              !.wake = TRUE]]
        /\ wire' = [wire EXCEPT ![c][g] = tab[c].unsent]
        /\ UNCHANGED <<db, waiting, handler, overlay, base, news, answers, exec, claims, effects,
                       row, outcome, refused, swept, left>>

\* The close handler: answers under way are lost, every registered call is
\* rejected.  The server executes as much as it has received.
Disconnect(c) ==
    /\ tab[c].open
    /\ \E n \in 0 .. Len(wire[c][tab[c].gen]) :
          wire' = [wire EXCEPT ![c][tab[c].gen] = SubSeq(@, 1, n)]
    /\ answers' = [answers EXCEPT ![c] = << >>]
    /\ Failed(c, [tab[c] EXCEPT !.open = FALSE, !.unsent = << >>],
              {k \in Key : handler[c][k] = "direct"}, {k \in Key : handler[c][k] = "drain"})
    /\ UNCHANGED <<base, news, exec, claims, effects, row, refused, swept, left>>

\* A mutation.result arrives.
Accepted(c, k, w) ==
    LET new == [j \in {k} \cap Managed |->
                   IF Entries(c)[j] = "none" THEN "none" ELSE "committed"]
    IN  /\ PutDB(c, new)
        /\ tab' = [tab EXCEPT ![c] = [tab[c] EXCEPT !.mem = Merged(new, @), !.wake = @ \/ DOMAIN new # {},
                     !.settling = IF k \in Managed THEN @ \cup {<<k, w>>} ELSE @]]
        /\ outcome' = IF k \in Managed THEN outcome ELSE [outcome EXCEPT ![k] = "ok"]
        /\ UNCHANGED overlay

\* A mutation.error arrives: the write is taken back and forgotten.
Refused(c, k, w) ==
    LET new == Removed({k} \cap Managed)
    IN  /\ PutDB(c, new)
        /\ tab' = [tab EXCEPT ![c] = [tab[c] EXCEPT !.mem = Merged(new, @), !.wake = @ \/ DOMAIN new # {},
                     !.drain = IF w = "drain" THEN -1 ELSE @]]
        /\ outcome' = IF w = "direct" THEN [outcome EXCEPT ![k] = "rejected"] ELSE outcome
        /\ overlay' = [overlay EXCEPT ![c] = Drop(@, {k})]

Receive(c) ==
    /\ answers[c] # << >>
    /\ LET a == Head(answers[c]) w == handler[c][a.key]
       IN  IF w = "none"
           THEN UNCHANGED <<db, tab, waiting, handler, overlay, outcome>>
           ELSE /\ waiting' = [waiting EXCEPT ![c][a.key] = @ \ {w}]
                /\ handler' = [handler EXCEPT ![c][a.key] = "none"]
                /\ IF a.ok THEN Accepted(c, a.key, w) ELSE Refused(c, a.key, w)
    /\ answers' = [answers EXCEPT ![c] = Tail(@)]
    /\ UNCHANGED <<base, news, wire, exec, claims, effects, row, refused, swept, left>>

\* settleOptimisticMutation, or the acknowledgement of a write without patches.
Settle(c, k, w) ==
    /\ <<k, w>> \in tab[c].settling
    /\ LET t == [tab[c] EXCEPT !.settling = @ \ {<<k, w>>},
                               !.drain = IF w = "drain" THEN -1 ELSE @]
           o == overlay[c]
       IN  IF k \in Optimistic
           THEN Reconcile(c, t, IF o[k].state = "none" THEN o
                                ELSE [o EXCEPT ![k].state = "accepted"], base[c], << >>)
           ELSE Reconcile(c, t, o, base[c], Removed({k}))
    /\ outcome' = IF w = "direct" THEN [outcome EXCEPT ![k] = "ok"] ELSE outcome
    /\ UNCHANGED <<waiting, handler, base, news, wire, answers, exec, claims, effects, row,
                   refused, swept, left>>

-----------------------------------------------------------------------------
(***************************************************************************)
(* The drain loop of a tab.                                                *)
(***************************************************************************)

\* The head of the loop: the entry that is sent next, 0 to leave the loop.
Look(c, t) == [t EXCEPT !.drain = IF t.open THEN FirstReady(Entries(c)) ELSE 0,
                        !.mem = IF t.open THEN Entries(c) ELSE @]

\* drainOutbox is called: nothing happens while it runs or without a socket.
DrainOutbox(c) ==
    /\ tab[c].wake /\ tab[c].loaded
    /\ LET t == [tab[c] EXCEPT !.wake = FALSE]
       IN  tab' = [tab EXCEPT ![c] = IF t.drain = 0 THEN Look(c, t) ELSE t]
    /\ UNCHANGED <<db, waiting, handler, overlay, base, news, wire, answers, exec, claims, effects,
                   row, outcome, refused, swept, left>>

NextReady(c) ==
    /\ tab[c].drain = -1
    /\ tab' = [tab EXCEPT ![c] = Look(c, @)]
    /\ UNCHANGED <<db, waiting, handler, overlay, base, news, wire, answers, exec, claims, effects,
                   row, outcome, refused, swept, left>>

\* markInflight, then the call.
DrainSend(c) ==
    LET k == tab[c].drain new == Moved(c, {k}, "inflight")
    IN  /\ k > 0 /\ "drain" \notin waiting[c][k] /\ <<k, "drain">> \notin tab[c].settling
        /\ PutDB(c, new)
        /\ Send(c, [tab[c] EXCEPT !.mem = Merged(new, @), !.wake = @ \/ DOMAIN new # {}], k)
        /\ Register(c, k, "drain")
        /\ UNCHANGED <<overlay, base, news, answers, exec, claims, effects, row, outcome, refused,
                       swept, left>>

\* The timer was armed for the backoff of one entry.
DrainTimer(c) ==
    /\ tab[c].timer # 0 /\ Entries(c)[tab[c].timer] # "backoff"
    /\ tab' = [tab EXCEPT ![c] = [@ EXCEPT !.timer = 0, !.wake = TRUE]]
    /\ UNCHANGED <<db, waiting, handler, overlay, base, news, wire, answers, exec, claims, effects,
                   row, outcome, refused, swept, left>>

Elapsed(e, k) == IF e[k] = "backoff" THEN [e EXCEPT ![k] = "pending"] ELSE e
BackoffElapses(k) ==
    /\ db[k] = "backoff" \/ \E c \in Client : tab[c].mem[k] = "backoff"
    /\ db' = Elapsed(db, k)
    /\ tab' = [c \in Client |-> [tab[c] EXCEPT !.mem = Elapsed(@, k)]]
    /\ UNCHANGED <<waiting, handler, overlay, base, news, wire, answers, exec, claims, effects, row,
                   outcome, refused, swept, left>>

-----------------------------------------------------------------------------
(***************************************************************************)
(* Pages.                                                                  *)
(***************************************************************************)

\* restoreOutbox: entries in flight are taken for abandoned; committed ones
\* without patches are done.  A timer is armed only if no entry is ready.
RestoreOutbox(c) ==
    /\ ~tab[c].loaded
    /\ LET e == [k \in Key |-> IF db[k] = "inflight" THEN "pending"
                               ELSE IF db[k] = "committed" /\ k \notin Optimistic THEN "none"
                               ELSE db[k]]
           late == {k \in Key : e[k] = "backoff"}
       IN  \E next \in IF late = {} \/ \E k \in Key : e[k] = "pending" THEN {0} ELSE late :
             /\ db' = e
             /\ tab' = [tab EXCEPT ![c] = [@ EXCEPT !.mem = e, !.loaded = TRUE, !.timer = next,
                                                   !.wake = TRUE]]
             /\ overlay' = [overlay EXCEPT ![c] = [k \in Key |->
                   IF k \notin Optimistic \/ e[k] = "none" THEN Hidden
                   ELSE Shown(c, IF e[k] = "committed" THEN "accepted" ELSE "shown")]]
    /\ UNCHANGED <<waiting, handler, base, news, wire, answers, exec, claims, effects, row, outcome,
                   refused, swept, left>>

\* The page is reloaded or the application is killed and started again.
Reload(c) ==
    /\ tab[c].loaded /\ Fault("reload")
    /\ tab' = [tab EXCEPT ![c] = [NewTab EXCEPT !.gen = tab[c].gen, !.dead = tab[c].dead]]
    /\ waiting' = [waiting EXCEPT ![c] = [k \in Key |-> {}]]
    /\ handler' = [handler EXCEPT ![c] = [k \in Key |-> "none"]]
    /\ overlay' = [overlay EXCEPT ![c] = [k \in Key |-> Hidden]]
    /\ news' = [news EXCEPT ![c] = [s \in Source |-> {}]]
    /\ answers' = [answers EXCEPT ![c] = << >>]
    /\ UNCHANGED <<db, base, wire, exec, claims, effects, row, outcome, refused, swept>>

\* A source delivers: acknowledge for the mutation IDs the result carries,
\* acknowledgeMatching for what it shows.  A new source becomes a target of
\* the entries it exposes.
Result == [seen |-> {k \in Key : effects[k] > 0}, row |-> row]
Deliver(c, s) ==
    /\ tab[c].open
    /\ s \in tab[c].live => news[c][s] # {} \/ base[c][s] # Result
    /\ LET b == [base[c] EXCEPT ![s] = Result]
           o == [k \in Key |-> IF overlay[c][k].state = "none" THEN Hidden
                               ELSE [overlay[c][k] EXCEPT !.targets = @ \cup {s},
                                        !.acked = IF k \in news[c][s] THEN @ \cup {s} ELSE @]]
       IN  /\ Reconcile(c, [tab[c] EXCEPT !.live = @ \cup {s}], Matched(o, b), b, << >>)
           /\ base' = [base EXCEPT ![c] = b]
    /\ news' = [news EXCEPT ![c][s] = {}]
    /\ UNCHANGED <<waiting, handler, wire, answers, exec, claims, effects, row, outcome, refused,
                   swept, left>>

\* removeSource: nobody waits for a subscription that has ended.
Unsubscribe(c, s) ==
    /\ s \in tab[c].live
    /\ LET o == [k \in Key |-> [overlay[c][k] EXCEPT !.targets = @ \ {s}, !.acked = @ \ {s}]]
       IN  Reconcile(c, [tab[c] EXCEPT !.live = @ \ {s}], o, base[c], << >>)
    /\ news' = [news EXCEPT ![c][s] = {}]
    /\ UNCHANGED <<waiting, handler, base, wire, answers, exec, claims, effects, row, outcome,
                   refused, swept, left>>

\* degradeToMemory.
StorageBreaks(c) ==
    /\ tab[c].loaded /\ ~tab[c].memoryOnly /\ Fault("break")
    /\ tab' = [tab EXCEPT ![c].memoryOnly = TRUE]
    /\ UNCHANGED <<db, waiting, handler, overlay, base, news, wire, answers, exec, claims, effects,
                   row, outcome, refused, swept>>

-----------------------------------------------------------------------------
(***************************************************************************)
(* The server.  Each connection handles its messages one after another.    *)
(***************************************************************************)

Answer(c, g, k, ok) ==
    /\ exec' = [exec EXCEPT ![c][g] = Idle]
    /\ answers' = IF tab[c].open /\ tab[c].gen = g
                  THEN [answers EXCEPT ![c] = Append(@, [key |-> k, ok |-> ok])] ELSE answers
    /\ refused' = IF ok THEN refused ELSE refused \cup {k}

\* The trigger, or the broadcast after a replay, announces the write.
Announce(k) == news' = [c \in Client |-> [s \in Source |->
                  IF s \in tab[c].live THEN news[c][s] \cup {k} ELSE news[c][s]]]

\* The transaction begins with the claim, which waits for a transaction that
\* holds the key.
Claim(c, g) ==
    /\ exec[c][g] = Idle /\ wire[c][g] # << >> /\ g > tab[c].dead
    /\ LET k == Head(wire[c][g])
       IN  /\ k \in Managed => claims[k] # "held"
           /\ exec' = [exec EXCEPT ![c][g] =
                  [key |-> k, phase |-> IF claims[k] = "committed" THEN "replaying" ELSE "running"]]
           /\ claims' = IF k \in Managed /\ claims[k] = "free"
                        THEN [claims EXCEPT ![k] = "held"] ELSE claims
    /\ wire' = [wire EXCEPT ![c][g] = Tail(@)]
    /\ UNCHANGED <<db, tab, waiting, handler, overlay, base, news, answers, effects, row, outcome,
                   refused, swept, left>>

\* Mutant: the claim is recorded after the transaction, in one of its own.
CommitUnclaimed(c, g, ok) ==
    LET k == exec[c][g].key
    IN  /\ exec[c][g].phase = "running"
        /\ IF ok THEN UNCHANGED left ELSE Fault("failure")
        /\ claims' = IF k \in Managed
                     THEN [claims EXCEPT ![k] = IF ok THEN "committed" ELSE "free"] ELSE claims
        /\ effects' = [effects EXCEPT ![k] = @ + 1]
        /\ row' = IF k \in Optimistic THEN k ELSE row
        /\ Announce(k)
        /\ Answer(c, g, k, ok)
        /\ UNCHANGED <<db, tab, waiting, handler, overlay, base, wire, outcome, swept>>

\* The commit; its acknowledgement may be lost, which reports an error.
CommitTx(c, g, ok) ==
    LET k == exec[c][g].key
    IN  /\ exec[c][g].phase = "running"
        /\ IF ok THEN UNCHANGED left ELSE Fault("failure")
        /\ claims' = IF k \in Managed THEN [claims EXCEPT ![k] = "committed"] ELSE claims
        /\ effects' = [effects EXCEPT ![k] = @ + 1]
        /\ row' = IF k \in Optimistic THEN k ELSE row
        /\ Announce(k)
        /\ Answer(c, g, k, ok)
        /\ UNCHANGED <<db, tab, waiting, handler, overlay, base, wire, outcome, swept>>

\* The handler, or a statement of the transaction, fails.
RollbackTx(c, g) ==
    LET k == exec[c][g].key
    IN  /\ exec[c][g].phase = "running" /\ Fault("failure")
        /\ claims' = IF k \in Managed THEN [claims EXCEPT ![k] = "free"] ELSE claims
        /\ Answer(c, g, k, FALSE)
        /\ UNCHANGED <<db, tab, waiting, handler, overlay, base, news, wire, effects, row, outcome,
                       swept>>

\* The stored result is read after the claim's transaction has ended.
Replay(c, g) ==
    LET k == exec[c][g].key
    IN  /\ exec[c][g].phase = "replaying"
        /\ Answer(c, g, k, claims[k] = "committed")
        /\ IF claims[k] = "committed" THEN Announce(k) ELSE UNCHANGED news
        /\ UNCHANGED <<db, tab, waiting, handler, overlay, base, wire, claims, effects, row, outcome,
                       swept, left>>

\* Claims older than seven days are deleted.
Sweep(k) ==
    /\ claims[k] = "committed" /\ Fault("sweep")
    /\ claims' = [claims EXCEPT ![k] = "free"]
    /\ swept' = swept \cup {k}
    /\ UNCHANGED <<db, tab, waiting, handler, overlay, base, news, wire, answers, exec, effects, row,
                   outcome, refused>>

\* The runtime restarts: transactions roll back, its connections are dead.
Restart ==
    /\ Fault("restart")
    /\ exec' = [c \in Client |-> [g \in Gen |-> Idle]]
    /\ wire' = [c \in Client |-> [g \in Gen |-> << >>]]
    /\ claims' = [k \in Key |-> IF claims[k] = "held" THEN "free" ELSE claims[k]]
    /\ tab' = [c \in Client |-> [tab[c] EXCEPT !.dead = tab[c].gen]]
    /\ UNCHANGED <<db, waiting, handler, overlay, base, news, answers, effects, row, outcome, refused,
                   swept>>

-----------------------------------------------------------------------------
ClientStep(c) ==
    \/ \E k \in Key : Mutate(c, k) \/ \E w \in Who : CallTimesOut(c, k, w) \/ Settle(c, k, w)
    \/ Open(c) \/ Disconnect(c) \/ Receive(c)
    \/ DrainOutbox(c) \/ NextReady(c) \/ DrainSend(c) \/ DrainTimer(c)
    \/ RestoreOutbox(c) \/ Reload(c) \/ StorageBreaks(c)
    \/ \E s \in Source : Deliver(c, s) \/ Unsubscribe(c, s)

ServerStep(c, g) ==
    Claim(c, g) \/ RollbackTx(c, g) \/ Replay(c, g) \/ \E ok \in BOOLEAN : CommitTx(c, g, ok)

Next ==
    \/ \E c \in Client : ClientStep(c) \/ \E g \in Gen : ServerStep(c, g)
    \/ \E k \in Key : BackoffElapses(k) \/ Sweep(k)
    \/ Restart

Spec == Init /\ [][Next]_vars

(***************************************************************************)
(* The event loop runs its callbacks and timers, reconnects (MaxConns      *)
(* permitting), and the server handles what it has received.               *)
(***************************************************************************)
Fairness ==
    /\ \A c \in Client :
          /\ WF_vars(Open(c)) /\ WF_vars(Receive(c)) /\ WF_vars(RestoreOutbox(c))
          /\ WF_vars(DrainOutbox(c)) /\ WF_vars(NextReady(c)) /\ WF_vars(DrainSend(c))
          /\ WF_vars(DrainTimer(c))
          /\ \A k \in Key, w \in Who : WF_vars(CallTimesOut(c, k, w)) /\ WF_vars(Settle(c, k, w))
          /\ \A s \in Source : WF_vars(Deliver(c, s))
          /\ \A g \in Gen : WF_vars(Claim(c, g) \/ Replay(c, g) \/ CommitTx(c, g, TRUE))
    /\ \A k \in Key : WF_vars(BackoffElapses(k))

FairSpec == Spec /\ Fairness

-----------------------------------------------------------------------------
(***************************************************************************)
(* Properties.                                                             *)
(***************************************************************************)

\* A write takes effect a second time only after its claim has aged and was
\* swept, whatever was resent, lost or restarted.
AtMostOnce == \A k \in Key : effects[k] > 1 => k \in swept

\* Success is reported, and an outbox entry is marked committed, only for a
\* write that has taken effect.
OkIsApplied ==
    \A k \in Key : /\ outcome[k] = "ok" => effects[k] > 0
                   /\ db[k] = "committed" => effects[k] > 0
                   /\ \A c \in Client : overlay[c][k].state = "accepted" => effects[k] > 0

\* A write whose caller was told "queued" stays in the outbox database until
\* it has taken effect or the server has refused it.
QueuedIsDurable ==
    \A k \in Key : outcome[k] = "queued" /\ effects[k] = 0 /\ k \notin refused
                      => db[k] # "none"

\* A write that a tab shows, and that has taken effect, stays visible in every
\* live source: the overlay gives it up only to a result that contains it,
\* unless the caller is told that it failed.
Visible(c, s) == {k \in Optimistic : overlay[c][k].state # "none" \/ k \in base[c][s].seen}
NoFlicker ==
    [][\A c \in Client, s \in Source :
          s \in tab[c].live /\ s \in tab'[c].live =>
            \A k \in Visible(c, s) :
              effects[k] > 0 /\ k \notin refused /\ outcome'[k] # "unknown" => k \in Visible(c, s)']_vars

\* Every call of a caller or of the drain loop is answered, refused, or given
\* up: nobody waits for ever, also after a second call took its handler.
CallReturns ==
    \A c \in Client, k \in Key, w \in Who :
        []<>(w \notin waiting[c][k])

\* The server side is an exactly-once register of writes.
Abstract == INSTANCE WriteOnce WITH
    remembered <- {k \in Key : claims[k] = "committed" \/ (k \notin Managed /\ effects[k] > 0)},
    told <- {k \in Key : outcome[k] = "ok"}
ExactlyOnce == Abstract!Spec

\* README.md of the client: "durably accept a transport failure and replay the
\* same idempotency key after reconnect".  A queued write is replayed, unless
\* no tab can connect any more.
QueuedReplayed ==
    \A k \in Key :
        outcome[k] = "queued" ~> \/ effects[k] > 0 \/ k \in refused
                                 \/ \A c \in Client : ~tab[c].open /\ tab[c].gen = MaxConns

\* README.md of the client: "keeps stale query or sync frames from briefly
\* reverting the UI".  Once a source shows the row as the database has it and
\* every pending entry is accepted, the application sees that row.
View(c, s) ==
    LET K == {k \in Optimistic : overlay[c][k].state # "none"}
    IN  IF K = {} THEN base[c][s].row ELSE CHOOSE k \in K : \A j \in K : j <= k
ViewIsCurrent ==
    \A c \in Client : \A s \in tab[c].live :
        /\ base[c][s].row = row
        /\ \A k \in Optimistic : overlay[c][k].state # "shown"
        => View(c, s) = row

\* What a caller was told is true and stays true: success is an effect, "queued"
\* is an entry in the outbox, and nothing resent has an effect twice.
ToldIsTrue == TypeOK /\ AtMostOnce /\ OkIsApplied /\ QueuedIsDurable
=============================================================================
