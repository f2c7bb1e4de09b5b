---------------------------- MODULE RunnerProofs ----------------------------
(***************************************************************************)
(* One runner at a time, and nothing it owes forgotten: the group of a     *)
(* shared subscription and the jobs and crons of the scheduler, two        *)
(* components that share no state.                                         *)
(*                                                                         *)
(* OneRunner and CommitsServed hold for any number of clients, commits,    *)
(* notifications, failures and disconnects.  Their common inductive        *)
(* strengthening is GroupInv: only a group that exists has a runner, only  *)
(* the write phase has unwritten frames, and the commit IDs a group keeps  *)
(* are of commits it has heard of and the database has seen.               *)
(*                                                                         *)
(* ExecutionsFenced and NeverAgain hold for any number of runtimes, old    *)
(* and new, jobs, crons, faults and any horizon.  The argument is          *)
(* SchedulerInv: an execution that has let no lease end still has the      *)
(* claim key, or the completion it left in Valkey, and the row, under a    *)
(* token no one else has; and what the stores do for one runtime takes     *)
(* leases only from the tokens that action works under.                    *)
(***************************************************************************)
EXTENDS SharedSubscription, Scheduler, FiniteSetTheorems, SequenceTheorems, TLAPS

-----------------------------------------------------------------------------
(* The group of a shared subscription.                                      *)

GroupFields ==
    {"exists", "listeners", "awaiting", "starter", "running", "coalescing", "dirty", "stale",
     "requested", "reason", "pend", "act", "done", "revision", "lastResult", "lastHash",
     "lastError", "lastSingle"}
RunnerFields == {"pc", "reason", "value", "at", "to", "msg", "out"}
ClientFields == {"phase", "tail", "cache", "view", "rev", "last", "settled", "want"}
FrameType == {"progress", "result", "patch", "error"}

\* The flags are flags, and who is attached or waits to start the group
\* keeps it in existence.
GroupOk ==
    /\ DOMAIN group = GroupFields
    /\ group.exists \in BOOLEAN /\ group.running \in BOOLEAN /\ group.coalescing \in BOOLEAN
    /\ group.dirty \in BOOLEAN /\ group.requested \in BOOLEAN
    /\ group.listeners # {} => group.exists
    /\ group.starter # "none" => group.exists

\* Unwritten frames exist only in the write phase and are of known types.
RunnerOk ==
    /\ DOMAIN runner = RunnerFields
    /\ ~group.exists => runner.pc = "off"
    /\ runner.pc # "write" => runner.out = {}
    /\ runner.pc = "prepare" => runner.msg.type \in FrameType
    /\ \A m \in runner.out : "type" \in DOMAIN m /\ m.type \in FrameType

\* A connection that attach is busy with, or that is in, is a listener.
ClientOk ==
    /\ DOMAIN client = Listener
    /\ \A l \in Listener :
          /\ DOMAIN client[l] = ClientFields
          /\ client[l].phase \in {"attaching", "in"} => l \in group.listeners

\* Notifications follow commits, the IDs kept follow notifications, and no
\* read saw more than was committed.
CommitOk ==
    /\ DOMAIN db = {"value", "commits"} /\ DOMAIN track = {"heard", "readAt", "skipped"}
    /\ db.commits \in Nat /\ track.readAt \in Nat /\ track.readAt <= db.commits
    /\ notices \in [Commit -> Int]
    /\ \A k \in Commit : notices[k] > 0 => k <= db.commits
    /\ track.heard \subseteq Commit
    /\ \A k \in track.heard : k <= db.commits
    /\ group.pend \subseteq track.heard /\ group.act \subseteq track.heard
    /\ group.done \subseteq track.heard
    /\ runner.pc = "complete" =>
          runner.at \in Nat /\ track.readAt <= runner.at /\ runner.at <= db.commits

GroupInv == GroupOk /\ RunnerOk /\ ClientOk /\ CommitOk /\ OneRunner /\ CommitsServed

-----------------------------------------------------------------------------
\* What a request leaves alone and what it sets.
LEMMA RequestIs ==
    ASSUME NEW g, NEW why, DOMAIN g = GroupFields,
           g.running \in BOOLEAN, g.coalescing \in BOOLEAN, g.dirty \in BOOLEAN
    PROVE  /\ DOMAIN Request(g, why) = GroupFields
           /\ Request(g, why).exists = g.exists /\ Request(g, why).listeners = g.listeners
           /\ Request(g, why).starter = g.starter /\ Request(g, why).coalescing = g.coalescing
           /\ Request(g, why).requested = TRUE /\ Request(g, why).running = TRUE
           /\ Request(g, why).dirty \in BOOLEAN
           /\ Request(g, why).pend = g.pend /\ Request(g, why).act = g.act
           /\ Request(g, why).done = g.done
BY DEF Request, GroupFields

\* Whatever frame a client receives, it stays where it is.
LEMMA ReceiveKeepsPhase ==
    ASSUME NEW c, NEW m, DOMAIN c = ClientFields, m.type \in FrameType
    PROVE  DOMAIN Receive(c, m) = ClientFields /\ Receive(c, m).phase = c.phase
<1>1. DOMAIN AskSnapshot(c) = ClientFields /\ AskSnapshot(c).phase = c.phase
  BY DEF AskSnapshot, ClientFields
<1>2. DOMAIN ReceiveError(c) = ClientFields /\ ReceiveError(c).phase = c.phase
  BY DEF ReceiveError, ClientFields
<1>3. DOMAIN ReceiveResult(c, m) = ClientFields /\ ReceiveResult(c, m).phase = c.phase
  BY DEF ReceiveResult, ClientFields
<1>4. DOMAIN ReceiveProgress(c, m) = ClientFields /\ ReceiveProgress(c, m).phase = c.phase
  BY <1>1 DEF ReceiveProgress, ClientFields
<1>5. DOMAIN ReceivePatch(c, m) = ClientFields /\ ReceivePatch(c, m).phase = c.phase
  BY <1>1 DEF ReceivePatch, ClientFields
<1> QED
  BY <1>2, <1>3, <1>4, <1>5 DEF Receive, FrameType

\* Writing a frame changes neither a client's fields nor its phase.
LEMMA WrittenKeepsPhase ==
    ASSUME NEW c, NEW m, NEW live, DOMAIN c = ClientFields, m.type \in FrameType
    PROVE  DOMAIN Written(c, m, live) = ClientFields /\ Written(c, m, live).phase = c.phase
<1>1. DOMAIN Receive(c, m) = ClientFields /\ Receive(c, m).phase = c.phase
  BY ReceiveKeepsPhase
<1> QED
  BY <1>1 DEF Written, ClientFields

-----------------------------------------------------------------------------
\* A request keeps the invariant, whoever makes it: a read that covers every
\* commit heard of is to come.
LEMMA AskInv ==
    ASSUME GroupInv, group.exists, NEW h, Ask(h),
           DOMAIN h = GroupFields, h.exists = group.exists, h.listeners = group.listeners,
           h.starter \in {group.starter, "none"}, h.coalescing = group.coalescing,
           h.dirty \in BOOLEAN, h.requested = TRUE, h.running = TRUE, h.act = group.act
    PROVE  GroupOk' /\ RunnerOk' /\ OneRunner' /\ CommitsServed'
           /\ (runner'.pc = "complete" => runner' = runner)
<1>1. GroupOk' /\ group' = h
  BY DEF Ask, GroupInv, GroupOk
<1>2. \/ runner' = runner /\ group.running
      \/ /\ ~group.running /\ runner.pc = "off"
         /\ runner' = [Idle EXCEPT !.pc = "start"]
  BY DEF Ask, Started, GroupInv, GroupOk, OneRunner
<1>3. \/ runner' = runner /\ runner.pc # "off"
      \/ /\ DOMAIN runner' = RunnerFields /\ runner'.pc = "start" /\ runner'.out = {}
         /\ runner.pc = "off"
  BY <1>2 DEF Idle, RunnerFields, GroupInv, OneRunner
<1>4. RunnerOk' /\ (runner'.pc = "complete" => runner' = runner)
  BY <1>1, <1>3 DEF GroupInv, RunnerOk
<1>5. OneRunner'
  BY <1>1, <1>3 DEF GroupInv, OneRunner
<1>6. CommitsServed'
  BY <1>1 DEF CommitsServed, Outstanding
<1> QED
  BY <1>1, <1>4, <1>5, <1>6

\* ClientOk says nothing about a request.
LEMMA ClientKept ==
    ASSUME ClientOk, UNCHANGED client, group'.listeners = group.listeners
    PROVE  ClientOk'
BY DEF ClientOk

\* RequestChange keeps the invariant.
LEMMA RequestChangeInv ==
    ASSUME GroupInv, NEW k \in Commit, RequestChange(k)
    PROVE  GroupInv'
<1>1. notices' \in [Commit -> Int] /\ \A i \in Commit : notices'[i] > 0 => notices[i] > 0
  BY DEF GroupInv, CommitOk, RequestChange
<1>2. CASE ~group.exists
  BY <1>1, <1>2 DEF RequestChange, GroupInv, GroupOk, RunnerOk, ClientOk, CommitOk, OneRunner,
                    CommitsServed, Outstanding
<1>3. CASE group.exists
  <2> DEFINE h == RequestCommit(group, k)
  <2>1. Ask(h) /\ track' = [track EXCEPT !.heard = @ \cup {k}] /\ UNCHANGED <<db, client>>
    BY <1>3 DEF RequestChange
  <2>2. /\ DOMAIN track' = {"heard", "readAt", "skipped"} /\ track'.heard = track.heard \cup {k}
        /\ track'.readAt = track.readAt /\ track'.skipped = track.skipped
    BY <2>1 DEF GroupInv, CommitOk
  <2>3. k <= db.commits
    BY DEF RequestChange, GroupInv, CommitOk
  <2>4. CASE k \in group.pend \cup group.act \cup group.done
    <3>1. h = group
      BY <2>4 DEF RequestCommit
    <3>2. UNCHANGED <<group, runner>>
      BY <2>1, <3>1 DEF Ask, Started
    <3>3. track'.heard = track.heard
      BY <2>2, <2>4 DEF GroupInv, CommitOk
    <3>4. GroupOk' /\ RunnerOk' /\ ClientOk' /\ OneRunner'
      BY <2>1, <3>2 DEF GroupInv, GroupOk, RunnerOk, ClientOk, OneRunner
    <3>5. CommitOk'
      BY <1>1, <2>1, <2>2, <3>2, <3>3 DEF GroupInv, CommitOk
    <3>6. CommitsServed'
      BY <2>2, <3>2, <3>3 DEF GroupInv, CommitsServed, Outstanding
    <3> QED
      BY <3>4, <3>5, <3>6 DEF GroupInv
  <2>5. CASE k \notin group.pend \cup group.act \cup group.done
    <3> DEFINE r == Request(group, "invalidate")
    <3>1. h = [r EXCEPT !.pend = @ \cup {k}]
      BY <2>5 DEF RequestCommit
    <3>2. /\ DOMAIN r = GroupFields /\ r.exists = group.exists /\ r.listeners = group.listeners
          /\ r.starter = group.starter /\ r.coalescing = group.coalescing
          /\ r.requested = TRUE /\ r.running = TRUE /\ r.dirty \in BOOLEAN
          /\ r.pend = group.pend /\ r.act = group.act /\ r.done = group.done
      <4>1. /\ DOMAIN group = GroupFields
            /\ group.running \in BOOLEAN /\ group.coalescing \in BOOLEAN /\ group.dirty \in BOOLEAN
        BY DEF GroupInv, GroupOk
      <4> QED
        BY <4>1 DEF Request, GroupFields
    <3> HIDE DEF r
    <3>3. /\ DOMAIN h = GroupFields /\ h.exists = group.exists /\ h.listeners = group.listeners
          /\ h.starter = group.starter /\ h.coalescing = group.coalescing
          /\ h.requested = TRUE /\ h.running = TRUE /\ h.dirty \in BOOLEAN
          /\ h.pend = group.pend \cup {k} /\ h.act = group.act /\ h.done = group.done
      BY <3>1, <3>2 DEF GroupFields
    <3> HIDE DEF h
    <3>4. GroupOk' /\ RunnerOk' /\ OneRunner' /\ CommitsServed'
          /\ (runner'.pc = "complete" => runner' = runner)
      BY <1>3, <2>1, <3>3, AskInv
    <3>5. group' = h
      BY <2>1 DEF Ask
    <3>6. ClientOk'
      BY <2>1, <3>3, <3>5, ClientKept DEF GroupInv
    <3>7. CommitOk'
      BY <1>1, <2>1, <2>2, <2>3, <3>3, <3>4, <3>5 DEF GroupInv, CommitOk
    <3> QED
      BY <3>4, <3>6, <3>7 DEF GroupInv
  <2> QED
    BY <2>4, <2>5
<1> QED
  BY <1>2, <1>3

\* A plain request by a goroutine that leaves clients, track and database
\* alone.
LEMMA PlainRequestInv ==
    ASSUME GroupInv, group.exists, NEW why, NEW h, Ask(h),
           h \in {Request(group, why), [Request(group, why) EXCEPT !.starter = "none"]},
           UNCHANGED <<db, notices, track>>
    PROVE  /\ GroupOk' /\ RunnerOk' /\ OneRunner' /\ CommitsServed' /\ CommitOk'
           /\ group'.listeners = group.listeners
<1> DEFINE r == Request(group, why)
<1>1. /\ DOMAIN r = GroupFields /\ r.exists = group.exists /\ r.listeners = group.listeners
      /\ r.starter = group.starter /\ r.coalescing = group.coalescing
      /\ r.requested = TRUE /\ r.running = TRUE /\ r.dirty \in BOOLEAN
      /\ r.pend = group.pend /\ r.act = group.act /\ r.done = group.done
  <2>1. /\ DOMAIN group = GroupFields
        /\ group.running \in BOOLEAN /\ group.coalescing \in BOOLEAN /\ group.dirty \in BOOLEAN
    BY DEF GroupInv, GroupOk
  <2> QED
    BY <2>1, RequestIs
<1>2. h \in {r, [r EXCEPT !.starter = "none"]}
  OBVIOUS
<1> HIDE DEF r
<1>3. /\ DOMAIN h = GroupFields /\ h.exists = group.exists /\ h.listeners = group.listeners
      /\ h.starter \in {group.starter, "none"} /\ h.coalescing = group.coalescing
      /\ h.requested = TRUE /\ h.running = TRUE /\ h.dirty \in BOOLEAN
      /\ h.pend = group.pend /\ h.act = group.act /\ h.done = group.done
  BY <1>1, <1>2, ZenonT(60) DEF GroupFields
<1>4. GroupOk' /\ RunnerOk' /\ OneRunner' /\ CommitsServed'
      /\ (runner'.pc = "complete" => runner' = runner)
  BY <1>3, AskInv
<1>5. group' = h
  BY DEF Ask
<1>6. CommitOk'
  BY <1>3, <1>4, <1>5 DEF GroupInv, CommitOk
<1> QED
  BY <1>3, <1>4, <1>5, <1>6

-----------------------------------------------------------------------------
(* attach, detach, expire.                                                  *)

\* Attach keeps the invariant.
LEMMA AttachInv ==
    ASSUME GroupInv, NEW l \in Listener, NEW c, DOMAIN c = ClientFields, Attach(l, c)
    PROVE  GroupInv'
<1> DEFINE g == IF group.exists THEN group ELSE NewGroup
           d == client'[l]
<1>1. /\ group' = [g EXCEPT !.listeners = @ \cup {l}]
      /\ track' = IF group.exists THEN track ELSE NewTrack
      /\ UNCHANGED <<db, notices, runner>>
  BY DEF Attach
<1>2. /\ DOMAIN client' = Listener /\ DOMAIN d = ClientFields
      /\ \A i \in Listener \ {l} : client'[i] = client[i]
  BY DEF Attach, GroupInv, ClientOk, ClientFields
<1>3. /\ DOMAIN group' = GroupFields /\ group'.listeners = g.listeners \cup {l}
      /\ group'.exists = g.exists /\ group'.starter = g.starter
      /\ group'.running = g.running /\ group'.coalescing = g.coalescing
      /\ group'.dirty = g.dirty /\ group'.requested = g.requested
      /\ group'.pend = g.pend /\ group'.act = g.act /\ group'.done = g.done
  BY <1>1 DEF GroupInv, GroupOk, GroupFields, NewGroup
<1>4. ClientOk'
  <2>1. ~group.exists => group.listeners = {}
    BY DEF GroupInv, GroupOk
  <2> QED
    BY <1>2, <1>3, <2>1 DEF GroupInv, ClientOk
<1>5. CASE group.exists
  <2>1. g = group /\ track' = track
    BY <1>1, <1>5
  <2>2. GroupOk' /\ RunnerOk' /\ OneRunner'
    BY <1>1, <1>3, <1>5, <2>1 DEF GroupInv, GroupOk, RunnerOk, OneRunner
  <2>3. CommitOk'
    BY <1>1, <1>3, <2>1 DEF GroupInv, CommitOk
  <2>4. CommitsServed'
    BY <1>1, <1>3, <2>1 DEF GroupInv, CommitsServed, Outstanding
  <2> QED
    BY <1>4, <2>2, <2>3, <2>4 DEF GroupInv
<1>6. CASE ~group.exists
  <2>1. g = NewGroup /\ track' = NewTrack /\ runner.pc = "off"
    BY <1>1, <1>6 DEF GroupInv, RunnerOk
  <2>2. /\ g.exists = TRUE /\ g.running = FALSE /\ g.coalescing = FALSE /\ g.dirty = FALSE
        /\ g.requested = FALSE /\ g.pend = {} /\ g.act = {} /\ g.done = {}
    BY <2>1 DEF NewGroup
  <2>3. GroupOk' /\ RunnerOk' /\ OneRunner'
    BY <1>1, <1>3, <2>1, <2>2 DEF GroupInv, GroupOk, RunnerOk, OneRunner
  <2>4. CommitOk' /\ CommitsServed'
    BY <1>1, <1>3, <2>1, <2>2 DEF GroupInv, CommitOk, CommitsServed, NewTrack
  <2> QED
    BY <1>4, <2>3, <2>4 DEF GroupInv
<1> QED
  BY <1>5, <1>6

\* Detaching changes nothing the runner's invariant is about.
LEMMA DetachInv ==
    ASSUME GroupInv, NEW l \in Listener, group' = Detached(group, l),
           DOMAIN runner' = RunnerFields, runner'.pc = runner.pc, runner'.at = runner.at,
           runner'.msg = runner.msg,
           runner.out = {} => runner'.out = {},
           \A m \in runner'.out : "type" \in DOMAIN m /\ m.type \in FrameType,
           DOMAIN client' = Listener, DOMAIN client'[l] = ClientFields,
           client'[l].phase \notin {"attaching", "in"},
           \A i \in Listener \ {l} : client'[i] = client[i],
           UNCHANGED <<db, notices, track>>
    PROVE  GroupInv'
<1>1. /\ DOMAIN group' = GroupFields /\ group'.listeners = group.listeners \ {l}
      /\ group'.exists = group.exists /\ group'.starter = group.starter
      /\ group'.running = group.running /\ group'.coalescing = group.coalescing
      /\ group'.dirty = group.dirty /\ group'.requested = group.requested
      /\ group'.pend = group.pend /\ group'.act = group.act /\ group'.done = group.done
  BY DEF Detached, GroupInv, GroupOk, GroupFields
<1>2. GroupOk' /\ RunnerOk' /\ OneRunner'
  BY <1>1 DEF GroupInv, GroupOk, RunnerOk, OneRunner
<1>3. ClientOk'
  BY <1>1 DEF GroupInv, ClientOk
<1>4. CommitOk' /\ CommitsServed'
  BY <1>1 DEF GroupInv, CommitOk, CommitsServed, Outstanding
<1> QED
  BY <1>2, <1>3, <1>4 DEF GroupInv

\* Leave keeps the invariant.
LEMMA LeaveInv ==
    ASSUME GroupInv, NEW l \in Listener, NEW kept \in BOOLEAN, Leave(l, kept)
    PROVE  GroupInv'
<1>1. /\ DOMAIN runner' = RunnerFields /\ runner'.pc = runner.pc /\ runner'.at = runner.at
      /\ runner'.msg = runner.msg /\ runner'.out \subseteq runner.out
  BY DEF Leave, GroupInv, RunnerOk, RunnerFields
<1>2. /\ DOMAIN client' = Listener /\ DOMAIN client'[l] = ClientFields
      /\ client'[l].phase = "out"
      /\ \A i \in Listener \ {l} : client'[i] = client[i]
  BY DEF Leave, GroupInv, ClientOk, ClientFields, NewClient
<1>3. \A m \in runner'.out : "type" \in DOMAIN m /\ m.type \in FrameType
  BY <1>1 DEF GroupInv, RunnerOk
<1>4. group' = Detached(group, l) /\ UNCHANGED <<db, notices, track>>
  BY DEF Leave
<1> QED
  BY <1>1, <1>2, <1>3, <1>4, DetachInv

\* Resubscribe keeps the invariant.
LEMMA ResubscribeInv ==
    ASSUME GroupInv, NEW l \in Listener, Resubscribe(l)
    PROVE  GroupInv'
<1> DEFINE Dead(m) == IF m.to = l THEN [m EXCEPT !.live = FALSE] ELSE m
<1>1. /\ DOMAIN runner' = RunnerFields /\ runner'.pc = runner.pc /\ runner'.at = runner.at
      /\ runner'.msg = runner.msg /\ runner'.out = {Dead(m) : m \in runner.out}
  BY DEF Resubscribe, GroupInv, RunnerOk, RunnerFields
<1>2. /\ DOMAIN client' = Listener /\ DOMAIN client'[l] = ClientFields
      /\ client'[l].phase = "detached"
      /\ \A i \in Listener \ {l} : client'[i] = client[i]
  BY DEF Resubscribe, GroupInv, ClientOk, ClientFields
<1>3. \A m \in runner'.out : "type" \in DOMAIN m /\ m.type \in FrameType
  <2>1. \A m \in runner.out : "type" \in DOMAIN m /\ m.type \in FrameType
    BY DEF GroupInv, RunnerOk
  <2>2. \A m \in runner.out : "type" \in DOMAIN Dead(m) /\ Dead(m).type = m.type
    BY <2>1
  <2> HIDE DEF Dead
  <2> QED
    BY <1>1, <2>1, <2>2
<1>4. group' = Detached(group, l) /\ UNCHANGED <<db, notices, track>>
  BY DEF Resubscribe
<1>5. runner.out = {} => runner'.out = {}
  BY <1>1
<1> QED
  BY <1>1, <1>2, <1>3, <1>4, <1>5, DetachInv

\* Expire keeps the invariant.
LEMMA ExpireInv ==
    ASSUME GroupInv, Expire
    PROVE  GroupInv'
<1>1. group' = NoGroup /\ runner' = Idle /\ track' = NewTrack /\ UNCHANGED <<db, notices, client>>
  BY DEF Expire
<1>2. /\ DOMAIN group' = GroupFields /\ group'.listeners = {}
      /\ group'.exists = FALSE /\ group'.starter = "none"
      /\ group'.running = FALSE /\ group'.coalescing = FALSE
      /\ group'.dirty = FALSE /\ group'.requested = FALSE
      /\ group'.pend = {} /\ group'.act = {} /\ group'.done = {}
  BY <1>1 DEF NoGroup, NewGroup, GroupFields
<1>3. DOMAIN runner' = RunnerFields /\ runner'.pc = "off" /\ runner'.out = {}
  BY <1>1 DEF Idle, RunnerFields
<1>4. GroupOk' /\ RunnerOk' /\ OneRunner'
  BY <1>2, <1>3 DEF GroupOk, RunnerOk, OneRunner
<1>5. ClientOk'
  BY <1>1, <1>2 DEF Expire, GroupInv, ClientOk
<1>6. CommitOk' /\ CommitsServed'
  BY <1>1, <1>2, <1>3 DEF GroupInv, CommitOk, CommitsServed, NewTrack
<1> QED
  BY <1>4, <1>5, <1>6 DEF GroupInv

\* A step that only shows something to clients: none of them becomes a
\* listener by it.
LEMMA ClientStepInv ==
    ASSUME GroupInv, UNCHANGED <<db, notices, group, runner, track>>,
           DOMAIN client' = Listener,
           \A i \in Listener : DOMAIN client'[i] = ClientFields
                               /\ (client'[i].phase \in {"attaching", "in"}
                                     => client[i].phase \in {"attaching", "in"})
    PROVE  GroupInv'
<1>1. GroupOk' /\ RunnerOk' /\ OneRunner'
  BY DEF GroupInv, GroupOk, RunnerOk, OneRunner
<1>2. ClientOk'
  BY DEF GroupInv, ClientOk
<1>3. CommitOk' /\ CommitsServed'
  BY DEF GroupInv, CommitOk, CommitsServed, Outstanding
<1> QED
  BY <1>1, <1>2, <1>3 DEF GroupInv

\* Connection keeps the invariant.
LEMMA ConnectionInv ==
    ASSUME GroupInv, NEW l \in Listener, Connection(l)
    PROVE  GroupInv'
<1>1. DOMAIN client = Listener /\ \A i \in Listener : DOMAIN client[i] = ClientFields
  BY DEF GroupInv, ClientOk
<1>2. ASSUME NEW cached \in Values \cup {None}, Subscribe(l, cached)
      PROVE  GroupInv'
  <2> DEFINE c == [client[l] EXCEPT !.cache = cached, !.settled = FALSE]
  <2>1. DOMAIN c = ClientFields /\ Attach(l, c)
    BY <1>1, <1>2 DEF Subscribe
  <2> HIDE DEF c
  <2> QED
    BY <2>1, AttachInv
<1>3. CASE AttachSnapshot(l)
  <2> DEFINE c == client[l]
             m == [type |-> IF c.cache = c.tail.value THEN "progress" ELSE "result",
                   value |-> c.tail.value, rev |-> c.tail.rev]
  <2>1. m.type \in FrameType
    BY DEF FrameType
  <2>2. DOMAIN Written(c, m, TRUE) = ClientFields
    <3> HIDE DEF m
    <3> QED
      BY <1>1, <2>1, WrittenKeepsPhase
  <2>3. DOMAIN Attached(Written(c, m, TRUE)) = ClientFields
    BY <2>2 DEF Attached
  <2>4. /\ client' = [client EXCEPT ![l] = Attached(Written(c, m, TRUE))]
        /\ client[l].phase = "attaching" /\ UNCHANGED <<db, notices, group, runner, track>>
    BY <1>3 DEF AttachSnapshot
  <2> HIDE DEF c, m
  <2>5. /\ DOMAIN client' = Listener /\ DOMAIN client'[l] = ClientFields
        /\ \A i \in Listener \ {l} : client'[i] = client[i]
    BY <1>1, <2>3, <2>4
  <2> QED
    BY <1>1, <2>4, <2>5, ClientStepInv
<1>4. CASE AttachError(l)
  <2>1. /\ client[l].phase = "attaching" /\ UNCHANGED <<db, notices, group, runner, track>>
        /\ DOMAIN client' = Listener /\ DOMAIN client'[l] = ClientFields
        /\ \A i \in Listener \ {l} : client'[i] = client[i]
    BY <1>1, <1>4 DEF AttachError, Attached, ReceiveError
  <2> QED
    BY <1>1, <2>1, ClientStepInv
<1>5. CASE AttachRequest(l)
  <2> DEFINE h == Request(group, "initial")
  <2>1. /\ client[l].phase = "attaching" /\ Ask(h)
        /\ UNCHANGED <<db, notices, track>>
    BY <1>5 DEF AttachRequest
  <2>2. /\ DOMAIN client' = Listener /\ DOMAIN client'[l] = ClientFields
        /\ \A i \in Listener \ {l} : client'[i] = client[i]
    BY <1>1, <1>5 DEF AttachRequest, Attached
  <2>3. group.exists
    BY <2>1 DEF GroupInv, GroupOk, ClientOk
  <2>4. h \in {Request(group, "initial"), [Request(group, "initial") EXCEPT !.starter = "none"]}
    OBVIOUS
  <2> HIDE DEF h
  <2>5. /\ GroupOk' /\ RunnerOk' /\ OneRunner' /\ CommitsServed' /\ CommitOk'
        /\ group'.listeners = group.listeners
    BY <2>1, <2>3, <2>4, PlainRequestInv
  <2>6. ClientOk'
    BY <2>1, <2>2, <2>5 DEF GroupInv, ClientOk
  <2> QED
    BY <2>5, <2>6 DEF GroupInv
<1>6. ASSUME NEW kept \in BOOLEAN, Leave(l, kept)
      PROVE  GroupInv'
  BY <1>6, LeaveInv
<1>7. CASE Resubscribe(l)
  BY <1>7, ResubscribeInv
<1>8. CASE Reattach(l)
  BY <1>1, <1>8, AttachInv DEF Reattach
<1> QED
  BY <1>2, <1>3, <1>4, <1>5, <1>6, <1>7, <1>8 DEF Connection

-----------------------------------------------------------------------------
(* The environment and the creator's goroutine.                             *)

\* Environment keeps the invariant.
LEMMA EnvironmentInv ==
    ASSUME GroupInv,
           \/ \E v \in Values : DoCommit(v)
           \/ \E k \in Commit : LoseNotice(k)
           \/ Disconnect
    PROVE  GroupInv'
<1>1. UNCHANGED <<group, runner, client, track>>
  BY DEF DoCommit, LoseNotice, Disconnect
<1>2. GroupOk' /\ RunnerOk' /\ ClientOk' /\ OneRunner' /\ CommitsServed'
  BY <1>1 DEF GroupInv, GroupOk, RunnerOk, ClientOk, OneRunner, CommitsServed, Outstanding
<1> DEFINE Grown == /\ DOMAIN db' = {"value", "commits"} /\ db'.commits \in Nat
                    /\ db.commits <= db'.commits /\ notices' \in [Commit -> Int]
                    /\ \A k \in Commit : notices'[k] > 0 => k <= db'.commits
<1>3. Grown
  <2>1. ASSUME NEW v \in Values, DoCommit(v)
        PROVE  Grown
    <3>1. /\ DOMAIN db' = {"value", "commits"} /\ db'.commits = db.commits + 1
          /\ db.commits \in Nat
      BY <2>1 DEF DoCommit, GroupInv, CommitOk
    <3>2. Notices \in Int
      BY ConstantsAssumption
    <3>3. /\ notices' = [notices EXCEPT ![db.commits + 1] = Notices]
          /\ notices \in [Commit -> Int]
          /\ \A k \in Commit : notices[k] > 0 => k <= db.commits
      BY <2>1 DEF DoCommit, GroupInv, CommitOk
    <3>4. /\ notices' \in [Commit -> Int]
          /\ \A k \in Commit : k # db.commits + 1 => notices'[k] = notices[k]
      BY <3>2, <3>3
    <3> QED
      BY <3>1, <3>3, <3>4 DEF Commit
  <2>2. ASSUME NEW k \in Commit, LoseNotice(k)
        PROVE  Grown
    BY <2>2 DEF LoseNotice, GroupInv, CommitOk
  <2>3. CASE Disconnect
    BY <2>3 DEF Disconnect, GroupInv, CommitOk
  <2> HIDE DEF Grown
  <2> QED
    BY <2>1, <2>2, <2>3
<1>4. CommitOk'
  BY <1>1, <1>3 DEF GroupInv, CommitOk, Commit
<1> QED
  BY <1>2, <1>4 DEF GroupInv

\* Starter keeps the invariant.
LEMMA StarterInv ==
    ASSUME GroupInv, StarterReady \/ StarterRequest \/ RefreshTenant
    PROVE  GroupInv'
<1>1. CASE StarterReady
  <2>1. /\ DOMAIN group' = GroupFields /\ group.exists
        /\ \A f \in GroupFields \ {"starter", "awaiting"} : group'[f] = group[f]
        /\ UNCHANGED <<db, notices, runner, client, track>>
    BY <1>1 DEF StarterReady, GroupInv, GroupOk
  <2>2. /\ group'.exists = group.exists /\ group'.listeners = group.listeners
        /\ group'.running = group.running /\ group'.coalescing = group.coalescing
        /\ group'.dirty = group.dirty /\ group'.requested = group.requested
        /\ group'.pend = group.pend /\ group'.act = group.act /\ group'.done = group.done
    BY <2>1 DEF GroupFields
  <2>3. GroupOk' /\ RunnerOk' /\ OneRunner'
    BY <2>1, <2>2 DEF GroupInv, GroupOk, RunnerOk, OneRunner
  <2>4. ClientOk' /\ CommitOk'
    BY <2>1, <2>2 DEF GroupInv, ClientOk, CommitOk
  <2>5. CommitsServed'
    BY <2>1, <2>2 DEF GroupInv, CommitsServed, Outstanding
  <2> QED
    BY <2>3, <2>4, <2>5 DEF GroupInv
<1>2. CASE StarterRequest
  <2> DEFINE h == [Request(group, "initial") EXCEPT !.starter = "none"]
  <2>1. Ask(h) /\ group.exists /\ UNCHANGED <<db, notices, client, track>>
    BY <1>2 DEF StarterRequest, GroupInv, GroupOk
  <2>2. h \in {Request(group, "initial"), [Request(group, "initial") EXCEPT !.starter = "none"]}
    OBVIOUS
  <2> HIDE DEF h
  <2>3. /\ GroupOk' /\ RunnerOk' /\ OneRunner' /\ CommitsServed' /\ CommitOk'
        /\ group'.listeners = group.listeners
    BY <2>1, <2>2, PlainRequestInv
  <2> QED
    BY <2>1, <2>3, ClientKept DEF GroupInv
<1>3. CASE RefreshTenant /\ group.exists
  <2> DEFINE h == Request(group, "recover")
  <2>1. Ask(h) /\ UNCHANGED <<db, notices, client, track>>
    BY <1>3 DEF RefreshTenant
  <2>2. h \in {Request(group, "recover"), [Request(group, "recover") EXCEPT !.starter = "none"]}
    OBVIOUS
  <2> HIDE DEF h
  <2>3. /\ GroupOk' /\ RunnerOk' /\ OneRunner' /\ CommitsServed' /\ CommitOk'
        /\ group'.listeners = group.listeners
    BY <1>3, <2>1, <2>2, PlainRequestInv
  <2> QED
    BY <2>1, <2>3, ClientKept DEF GroupInv
<1>4. CASE RefreshTenant /\ ~group.exists
  <2>1. UNCHANGED <<db, notices, group, runner, client, track>>
    BY <1>4 DEF RefreshTenant
  <2> QED
    BY <2>1, ClientStepInv DEF GroupInv, ClientOk
<1> QED
  BY <1>1, <1>2, <1>3, <1>4

-----------------------------------------------------------------------------
(* The runner.                                                              *)

\* Between two locked sections: the group is left alone, and the runner goes
\* on without forgetting what it has read.
LEMMA RunnerOnlyInv ==
    ASSUME GroupInv, UNCHANGED <<db, notices, group, track>>,
           DOMAIN client' = Listener,
           \A l \in Listener : DOMAIN client'[l] = ClientFields
                               /\ client'[l].phase = client[l].phase,
           DOMAIN runner' = RunnerFields, runner.pc # "off", runner'.pc \notin {"off", "start"},
           runner'.pc # "write" => runner'.out = {},
           runner'.pc = "prepare" => runner'.msg.type \in FrameType,
           \A m \in runner'.out : "type" \in DOMAIN m /\ m.type \in FrameType,
           runner'.pc = "complete" => runner'.at = db.commits,
           \/ runner'.pc \in {"finish", "execute", "failed"}
           \/ runner.pc = "execute" /\ runner'.pc = "complete"
           \/ runner.pc \notin {"start", "mark", "finish", "authorize", "execute", "failed", "complete"},
           group.coalescing => runner'.pc = "start"
    PROVE  GroupInv'
<1>1. GroupOk' /\ RunnerOk'
  BY DEF GroupInv, GroupOk, RunnerOk
<1>2. OneRunner'
  BY DEF GroupInv, OneRunner
<1>3. ClientOk'
  BY DEF GroupInv, ClientOk
<1>4. CommitOk'
  BY DEF GroupInv, CommitOk
<1>5. CommitsServed'
  BY DEF GroupInv, CommitOk, CommitsServed, Outstanding
<1> QED
  BY <1>1, <1>2, <1>3, <1>4, <1>5 DEF GroupInv

\* The steps of a run between two locks keep the group's invariant.
LEMMA RunnerGoesOn ==
    ASSUME GroupInv,
           \/ \E denied \in SUBSET Listener : RunAuthorize(denied)
           \/ RunExecute \/ RunFail \/ BroadcastError \/ Prepare
           \/ \E l \in Listener : Write(l)
    PROVE  GroupInv'
<1>1. /\ DOMAIN client = Listener /\ \A l \in Listener : DOMAIN client[l] = ClientFields
      /\ DOMAIN runner = RunnerFields
      /\ runner.pc # "write" => runner.out = {}
      /\ runner.pc = "prepare" => runner.msg.type \in FrameType
      /\ \A m \in runner.out : "type" \in DOMAIN m /\ m.type \in FrameType
      /\ runner.pc # "start" => ~group.coalescing
  BY DEF GroupInv, ClientOk, RunnerOk, OneRunner, GroupOk
<1>2. ASSUME NEW denied \in SUBSET Listener, RunAuthorize(denied)
      PROVE  GroupInv'
  <2>1. /\ runner.pc = "authorize" /\ DOMAIN runner' = RunnerFields
        /\ runner'.pc \in {"finish", "execute"} /\ runner'.out = runner.out
        /\ UNCHANGED <<db, notices, group, track>>
    BY <1>1, <1>2 DEF RunAuthorize, RunnerFields
  <2>2. /\ DOMAIN client' = Listener
        /\ \A l \in Listener : DOMAIN client'[l] = ClientFields /\ client'[l].phase = client[l].phase
    BY <1>1, <1>2 DEF RunAuthorize, ReceiveError, ClientFields
  <2> QED
    BY <1>1, <2>1, <2>2, RunnerOnlyInv
<1>3. CASE RunExecute
  <2>1. /\ runner.pc = "execute" /\ DOMAIN runner' = RunnerFields
        /\ runner'.pc = "complete" /\ runner'.out = runner.out /\ runner'.at = db.commits
        /\ UNCHANGED <<db, notices, group, client, track>>
    BY <1>1, <1>3 DEF RunExecute, RunnerFields
  <2> QED
    BY <1>1, <2>1, RunnerOnlyInv
<1>4. CASE RunFail
  <2>1. /\ runner.pc = "execute" /\ DOMAIN runner' = RunnerFields
        /\ runner'.pc = "failed" /\ runner'.out = runner.out
        /\ UNCHANGED <<db, notices, group, client, track>>
    BY <1>1, <1>4 DEF RunFail, RunnerFields
  <2> QED
    BY <1>1, <2>1, RunnerOnlyInv
<1>5. CASE BroadcastError
  <2>1. /\ runner.pc = "report" /\ DOMAIN runner' = RunnerFields /\ runner'.pc = "write"
        /\ runner'.out = {[to |-> l, live |-> TRUE, type |-> "error"] : l \in group.listeners}
        /\ UNCHANGED <<db, notices, group, client, track>>
    BY <1>1, <1>5 DEF BroadcastError, RunnerFields
  <2>2. \A m \in runner'.out : "type" \in DOMAIN m /\ m.type \in FrameType
    BY <2>1 DEF FrameType
  <2> QED
    BY <1>1, <2>1, <2>2, RunnerOnlyInv
<1>6. CASE Prepare
  <2>1. /\ runner.pc = "prepare" /\ DOMAIN runner' = RunnerFields /\ runner'.pc = "write"
        /\ runner'.out = {Frame(l, runner.msg) : l \in runner.to}
        /\ UNCHANGED <<db, notices, group, client, track>>
    BY <1>1, <1>6 DEF Prepare, RunnerFields
  <2>2. \A m \in runner'.out : "type" \in DOMAIN m /\ m.type \in FrameType
    <3>1. \A l \in runner.to : "type" \in DOMAIN Frame(l, runner.msg)
                               /\ Frame(l, runner.msg).type \in FrameType
      BY <1>1, <2>1 DEF Frame, FrameType
    <3> QED
      BY <2>1, <3>1
  <2> QED
    BY <1>1, <2>1, <2>2, RunnerOnlyInv
<1>7. ASSUME NEW l \in Listener, Write(l)
      PROVE  GroupInv'
  <2>1. PICK m \in runner.out :
           /\ runner' = [runner EXCEPT !.out = @ \ {m}]
           /\ client' = [client EXCEPT ![l] = Written(client[l], m, m.live)]
    BY <1>7 DEF Write
  <2>2. /\ runner.pc = "write" /\ DOMAIN runner' = RunnerFields /\ runner'.pc = "write"
        /\ runner'.out \subseteq runner.out
        /\ UNCHANGED <<db, notices, group, track>>
    BY <1>1, <1>7, <2>1 DEF Write, RunnerFields
  <2>3. /\ DOMAIN Written(client[l], m, m.live) = ClientFields
        /\ Written(client[l], m, m.live).phase = client[l].phase
    BY <1>1, WrittenKeepsPhase
  <2>4. /\ DOMAIN client' = Listener
        /\ \A i \in Listener : DOMAIN client'[i] = ClientFields /\ client'[i].phase = client[i].phase
    BY <1>1, <2>1, <2>3
  <2> QED
    BY <1>1, <2>2, <2>4, RunnerOnlyInv
<1> QED
  BY <1>2, <1>3, <1>4, <1>5, <1>6, <1>7

\* A locked section of the runner keeps everything but OneRunner and
\* CommitsServed, which depend on the section.
LEMMA LockedSectionInv ==
    ASSUME GroupInv, runner.pc # "off", UNCHANGED <<db, notices, client>>,
           DOMAIN group' = GroupFields, group'.exists = group.exists,
           group'.listeners = group.listeners, group'.starter = group.starter,
           group'.running \in BOOLEAN, group'.coalescing \in BOOLEAN,
           group'.dirty \in BOOLEAN, group'.requested \in BOOLEAN,
           group'.pend \subseteq track.heard, group'.act \subseteq track.heard,
           group'.done \subseteq track.heard,
           DOMAIN track' = {"heard", "readAt", "skipped"}, track'.heard = track.heard,
           track'.readAt \in Nat, track'.readAt <= db.commits,
           DOMAIN runner' = RunnerFields, runner'.pc # "complete", runner'.out = {},
           runner'.pc = "prepare" => runner'.msg.type \in FrameType
    PROVE  GroupOk' /\ RunnerOk' /\ ClientOk' /\ CommitOk'
<1>1. GroupOk' /\ RunnerOk'
  BY DEF GroupInv, GroupOk, RunnerOk
<1>2. ClientOk'
  BY DEF GroupInv, ClientOk
<1>3. CommitOk'
  BY DEF GroupInv, CommitOk
<1> QED
  BY <1>1, <1>2, <1>3

\* A completed read covers every commit that waited for it; what was asked
\* for meanwhile still has its request.
LEMMA ReadCompletedInv ==
    ASSUME GroupInv, runner.pc = "complete", UNCHANGED <<db, notices, client>>,
           DOMAIN group' = GroupFields, group'.exists = group.exists,
           group'.listeners = group.listeners, group'.starter = group.starter,
           group'.running = group.running, group'.coalescing = group.coalescing,
           group'.dirty = group.dirty, group'.requested = group.requested,
           group'.act = group.act, group'.pend = group.pend, group'.done = group.done,
           DOMAIN runner' = RunnerFields, runner'.pc \in {"settle", "prepare"},
           runner'.out = runner.out, runner'.pc = "prepare" => runner'.msg.type \in FrameType,
           track' = [track EXCEPT !.readAt = runner.at]
    PROVE  GroupInv'
<1>1. /\ DOMAIN track' = {"heard", "readAt", "skipped"} /\ track'.heard = track.heard
      /\ track'.readAt = runner.at /\ track'.skipped = track.skipped
  BY DEF GroupInv, CommitOk
<1>2. /\ runner.at \in Nat /\ track.readAt \in Nat /\ track.readAt <= runner.at
      /\ runner.at <= db.commits /\ track.heard \subseteq Commit
  BY DEF GroupInv, CommitOk
<1>3. /\ group.running \in BOOLEAN /\ group.coalescing \in BOOLEAN
      /\ group.dirty \in BOOLEAN /\ group.requested \in BOOLEAN
      /\ group.pend \subseteq track.heard /\ group.act \subseteq track.heard
      /\ group.done \subseteq track.heard /\ runner.out = {}
  BY DEF GroupInv, GroupOk, RunnerOk, CommitOk
<1>4. GroupOk' /\ RunnerOk' /\ ClientOk' /\ CommitOk'
  BY <1>1, <1>2, <1>3, LockedSectionInv
<1>5. OneRunner'
  BY <1>3 DEF GroupInv, OneRunner
<1>6. CommitsServed'
  <2> SUFFICES ASSUME NEW k \in track.heard \ track.skipped
               PROVE  k <= runner.at \/ (group.requested /\ group.running)
    BY <1>1 DEF CommitsServed, Outstanding
  <2>1. k <= track.readAt \/ Outstanding(k)
    BY DEF GroupInv, CommitsServed
  <2>2. k \in Int
    BY <1>2 DEF Commit
  <2> QED
    BY <1>2, <2>1, <2>2 DEF Outstanding
<1> QED
  BY <1>4, <1>5, <1>6 DEF GroupInv

\* The steps of a run under the group's lock keep its invariant.
LEMMA RunnerLocks ==
    ASSUME GroupInv,
           \/ RunBegin \/ RunMarkStale \/ FinishRun \/ CompleteSuppressed
           \/ \E form \in {"progress", "result", "patch"} : CompletePublished(form)
           \/ CompleteError \/ RunSettle
    PROVE  GroupInv'
<1>1. /\ DOMAIN group = GroupFields /\ DOMAIN runner = RunnerFields
      /\ DOMAIN track = {"heard", "readAt", "skipped"}
      /\ group.running \in BOOLEAN /\ group.coalescing \in BOOLEAN
      /\ group.dirty \in BOOLEAN /\ group.requested \in BOOLEAN
      /\ group.pend \subseteq track.heard /\ group.act \subseteq track.heard
      /\ group.done \subseteq track.heard
      /\ track.readAt \in Nat /\ track.readAt <= db.commits
      /\ runner.pc # "write" => runner.out = {}
      /\ runner.pc # "off" => group.running
      /\ runner.pc # "start" => ~group.coalescing
  BY DEF GroupInv, GroupOk, RunnerOk, CommitOk, OneRunner
<1>2. CASE RunBegin
  <2>1. /\ runner.pc = "start" /\ UNCHANGED <<db, notices, client, track>>
        /\ DOMAIN group' = GroupFields /\ group'.exists = group.exists
        /\ group'.listeners = group.listeners /\ group'.starter = group.starter
        /\ group'.running = group.running /\ group'.coalescing = FALSE
        /\ group'.dirty = FALSE /\ group'.requested = FALSE
        /\ group'.act = group.pend /\ group'.pend = {} /\ group'.done = group.done
    BY <1>1, <1>2 DEF RunBegin, GroupFields
  <2>2. /\ DOMAIN runner' = RunnerFields /\ runner'.pc \in {"authorize", "mark", "finish"}
        /\ runner'.out = runner.out
    BY <1>1, <1>2 DEF RunBegin, RunnerFields
  <2>3. GroupOk' /\ RunnerOk' /\ ClientOk' /\ CommitOk'
    BY <1>1, <2>1, <2>2, LockedSectionInv
  <2>4. OneRunner'
    BY <1>1, <2>1, <2>2 DEF OneRunner
  <2>5. CommitsServed'
    BY <2>2 DEF CommitsServed, Outstanding
  <2> QED
    BY <2>3, <2>4, <2>5 DEF GroupInv
<1>3. CASE RunMarkStale
  <2>1. /\ runner.pc = "mark" /\ UNCHANGED <<db, notices, client, track>>
        /\ DOMAIN group' = GroupFields /\ group'.exists = group.exists
        /\ group'.listeners = group.listeners /\ group'.starter = group.starter
        /\ group'.running = group.running /\ group'.coalescing = group.coalescing
        /\ group'.dirty = group.dirty /\ group'.requested = group.requested
        /\ group'.act = group.act /\ group'.pend = group.pend /\ group'.done = group.done
    BY <1>1, <1>3 DEF RunMarkStale, GroupFields
  <2>2. DOMAIN runner' = RunnerFields /\ runner'.pc = "finish" /\ runner'.out = runner.out
    BY <1>1, <1>3 DEF RunMarkStale, RunnerFields
  <2>3. GroupOk' /\ RunnerOk' /\ ClientOk' /\ CommitOk'
    BY <1>1, <2>1, <2>2, LockedSectionInv
  <2>4. OneRunner'
    BY <1>1, <2>1, <2>2 DEF OneRunner
  <2>5. CommitsServed'
    BY <2>2 DEF CommitsServed, Outstanding
  <2> QED
    BY <2>3, <2>4, <2>5 DEF GroupInv
<1>4. CASE FinishRun
  <2>1. /\ runner.pc = "finish" /\ UNCHANGED <<db, notices, client>>
        /\ DOMAIN group' = GroupFields /\ group'.exists = group.exists
        /\ group'.listeners = group.listeners /\ group'.starter = group.starter
        /\ group'.running = FALSE /\ group'.coalescing = group.coalescing
        /\ group'.dirty = group.dirty /\ group'.requested = group.requested
        /\ group'.act = {} /\ group'.pend = group.pend
        /\ group'.done = group.done \cup group.act
    BY <1>1, <1>4 DEF FinishRun, GroupFields
  <2>2. DOMAIN runner' = RunnerFields /\ runner'.pc = "off" /\ runner'.out = {}
    BY <1>4 DEF FinishRun, Idle, RunnerFields
  <2>3. /\ DOMAIN track' = {"heard", "readAt", "skipped"} /\ track'.heard = track.heard
        /\ track'.readAt = track.readAt /\ track.heard \subseteq track'.skipped
    BY <1>1, <1>4 DEF FinishRun, GaveUp
  <2>4. GroupOk' /\ RunnerOk' /\ ClientOk' /\ CommitOk'
    BY <1>1, <2>1, <2>2, <2>3, LockedSectionInv
  <2>5. OneRunner'
    BY <1>1, <2>1, <2>2 DEF OneRunner
  <2>6. CommitsServed'
    BY <2>3 DEF CommitsServed
  <2> QED
    BY <2>4, <2>5, <2>6 DEF GroupInv
<1>5. CASE CompleteSuppressed
  <2>1. /\ runner.pc = "complete" /\ UNCHANGED <<db, notices, client>>
        /\ DOMAIN group' = GroupFields /\ group'.exists = group.exists
        /\ group'.listeners = group.listeners /\ group'.starter = group.starter
        /\ group'.running = group.running /\ group'.coalescing = group.coalescing
        /\ group'.dirty = group.dirty /\ group'.requested = group.requested
        /\ group'.act = group.act /\ group'.pend = group.pend /\ group'.done = group.done
    BY <1>1, <1>5 DEF CompleteSuppressed, GroupFields
  <2>2. DOMAIN runner' = RunnerFields /\ runner'.pc = "settle" /\ runner'.out = runner.out
    BY <1>1, <1>5 DEF CompleteSuppressed, RunnerFields
  <2>3. track' = [track EXCEPT !.readAt = runner.at]
    BY <1>5 DEF CompleteSuppressed
  <2> QED
    BY <2>1, <2>2, <2>3, ReadCompletedInv
<1>6. ASSUME NEW form \in {"progress", "result", "patch"}, CompletePublished(form)
      PROVE  GroupInv'
  <2>1. /\ runner.pc = "complete" /\ UNCHANGED <<db, notices, client>>
        /\ track' = [track EXCEPT !.readAt = runner.at]
    BY <1>6 DEF CompletePublished
  <2>2. /\ DOMAIN group' = GroupFields /\ group'.exists = group.exists
        /\ group'.listeners = group.listeners /\ group'.starter = group.starter
        /\ group'.running = group.running /\ group'.coalescing = group.coalescing
        /\ group'.dirty = group.dirty /\ group'.requested = group.requested
        /\ group'.act = group.act /\ group'.pend = group.pend /\ group'.done = group.done
    BY <1>1, <1>6 DEF CompletePublished, GroupFields
  <2>3. /\ DOMAIN runner' = RunnerFields /\ runner'.pc = "prepare" /\ runner'.out = runner.out
        /\ runner'.msg.type = form
    BY <1>1, <1>6 DEF CompletePublished, RunnerFields
  <2>4. form \in FrameType
    BY DEF FrameType
  <2> QED
    BY <2>1, <2>2, <2>3, <2>4, ReadCompletedInv
<1>7. CASE CompleteError
  <2>1. /\ runner.pc = "failed" /\ UNCHANGED <<db, notices, client>>
        /\ DOMAIN group' = GroupFields /\ group'.exists = group.exists
        /\ group'.listeners = group.listeners /\ group'.starter = group.starter
        /\ group'.running = group.running /\ group'.coalescing = group.coalescing
        /\ group'.dirty = group.dirty /\ group'.requested = group.requested
        /\ group'.act = group.act /\ group'.pend = group.pend /\ group'.done = group.done
    BY <1>1, <1>7 DEF CompleteError, GroupFields
  <2>2. /\ DOMAIN runner' = RunnerFields /\ runner'.pc \in {"report", "settle"}
        /\ runner'.out = runner.out
    BY <1>1, <1>7 DEF CompleteError, RunnerFields
  <2>3. /\ DOMAIN track' = {"heard", "readAt", "skipped"} /\ track'.heard = track.heard
        /\ track'.readAt = track.readAt /\ track.heard \subseteq track'.skipped
    BY <1>1, <1>7 DEF CompleteError, GaveUp
  <2>4. GroupOk' /\ RunnerOk' /\ ClientOk' /\ CommitOk'
    BY <1>1, <2>1, <2>2, <2>3, LockedSectionInv
  <2>5. OneRunner'
    BY <1>1, <2>1, <2>2 DEF OneRunner
  <2>6. CommitsServed'
    BY <2>3 DEF CommitsServed
  <2> QED
    BY <2>4, <2>5, <2>6 DEF GroupInv
<1>8. CASE RunSettle
  <2> DEFINE again == group.dirty \/ group.requested
  <2>1. /\ runner.pc \in {"settle", "write"} /\ runner.out = {}
        /\ UNCHANGED <<db, notices, client, track>>
    BY <1>1, <1>8 DEF RunSettle
  <2>2. /\ DOMAIN group' = GroupFields /\ group'.exists = group.exists
        /\ group'.listeners = group.listeners /\ group'.starter = group.starter
        /\ group'.running = again /\ group'.coalescing = again
        /\ group'.dirty = group.dirty /\ group'.requested = group.requested
        /\ group'.act = {} /\ group'.pend = group.pend
        /\ group'.done = group.done \cup group.act
    BY <1>1, <1>8 DEF RunSettle, GroupFields
  <2>3. /\ DOMAIN runner' = RunnerFields /\ runner'.out = {}
        /\ runner'.pc = IF again THEN "start" ELSE "off"
    BY <1>8 DEF RunSettle, Idle, RunnerFields
  <2>4. again \in BOOLEAN
    OBVIOUS
  <2>5. GroupOk' /\ RunnerOk' /\ ClientOk' /\ CommitOk'
    BY <1>1, <2>1, <2>2, <2>3, <2>4, LockedSectionInv
  <2>6. OneRunner'
    BY <2>2, <2>3 DEF OneRunner
  <2>7. CommitsServed'
    <3> SUFFICES ASSUME NEW k \in track.heard \ track.skipped
                 PROVE  k <= track.readAt \/ again
      BY <2>1, <2>3 DEF CommitsServed, Outstanding
    <3> QED
      BY <2>1 DEF GroupInv, CommitsServed, Outstanding
  <2> QED
    BY <2>5, <2>6, <2>7 DEF GroupInv
<1> QED
  BY <1>2, <1>3, <1>4, <1>5, <1>6, <1>7, <1>8

-----------------------------------------------------------------------------
\* The group has nothing to serve at the start.
LEMMA InitInv ==
    ASSUME Init
    PROVE  GroupInv
<1>1. /\ DOMAIN group = GroupFields /\ group.listeners = {}
      /\ group.exists = FALSE /\ group.starter = "none"
      /\ group.running = FALSE /\ group.coalescing = FALSE
      /\ group.dirty = FALSE /\ group.requested = FALSE
      /\ group.pend = {} /\ group.act = {} /\ group.done = {}
  BY DEF Init, NoGroup, NewGroup, GroupFields
<1>2. DOMAIN runner = RunnerFields /\ runner.pc = "off" /\ runner.out = {}
  BY DEF Init, Idle, RunnerFields
<1>3. GroupOk /\ RunnerOk /\ OneRunner
  BY <1>1, <1>2 DEF GroupOk, RunnerOk, OneRunner
<1>4. ClientOk
  BY DEF Init, NewClient, ClientOk, ClientFields
<1>5. CommitOk /\ CommitsServed
  <2>1. /\ DOMAIN db = {"value", "commits"} /\ db.commits = 0
        /\ notices = [k \in Commit |-> 0]
        /\ DOMAIN track = {"heard", "readAt", "skipped"} /\ track.heard = {} /\ track.readAt = 0
    BY DEF Init, NewTrack
  <2> QED
    BY <1>1, <1>2, <2>1 DEF CommitOk, CommitsServed
<1> QED
  BY <1>3, <1>4, <1>5 DEF GroupInv

\* Every step keeps the invariant.
LEMMA NextInv ==
    ASSUME GroupInv, [Next]_vars
    PROVE  GroupInv'
<1>1. CASE Next
  <2>1. ASSUME NEW k \in Commit, RequestChange(k) \/ LoseNotice(k)
        PROVE  GroupInv'
    BY <2>1, RequestChangeInv, EnvironmentInv
  <2>2. CASE (\E v \in Values : DoCommit(v)) \/ Disconnect
    BY <2>2, EnvironmentInv
  <2>3. ASSUME NEW l \in Listener, Connection(l)
        PROVE  GroupInv'
    BY <2>3, ConnectionInv
  <2>4. CASE StarterReady \/ StarterRequest \/ RefreshTenant
    BY <2>4, StarterInv
  <2>5. CASE Expire
    BY <2>5, ExpireInv
  <2>6. CASE Runner
    BY <2>6, RunnerLocks, RunnerGoesOn DEF Runner
  <2> QED
    BY <1>1, <2>1, <2>2, <2>3, <2>4, <2>5, <2>6 DEF Next
<1>2. CASE UNCHANGED vars
  <2>1. UNCHANGED <<db, notices, group, runner, client, track>>
    BY <1>2 DEF vars
  <2> QED
    BY <2>1, ClientStepInv DEF GroupInv, ClientOk
<1> QED
  BY <1>1, <1>2

\* In every reachable state of a group, whatever its clients, commits and
\* failures, the strengthened invariant holds.
THEOREM GroupInvariance == Spec => []GroupInv
<1>1. Init => GroupInv
  BY InitInv
<1>2. GroupInv /\ [Next]_vars => GroupInv'
  BY NextInv
<1> QED
  BY <1>1, <1>2, PTL DEF Spec

\* requestForCommitBatch, run and finishRun keep one execution of the query
\* at a time, and the running and coalescing flags say where it is.
THEOREM OneExecution == Spec => []OneRunner
<1>1. GroupInv => OneRunner
  BY DEF GroupInv
<1> QED
  BY <1>1, GroupInvariance, PTL

\* Coalescing and the de-duplication by commit ID lose no notification: a
\* commit the group heard of is in its last read, has a read to come, or was
\* given up by a run that ended without a result.
THEOREM NoNotificationLost == Spec => []CommitsServed
<1>1. GroupInv => CommitsServed
  BY DEF GroupInv
<1> QED
  BY <1>1, GroupInvariance, PTL

-----------------------------------------------------------------------------
(* The scheduler.                                                           *)

\* The types.
RowType == [status : {"absent", "pending", "completed"}, token : Tokens \cup {NoToken}, leased : BOOLEAN]
ExecType == [by : Runtime, job : Job, token : Tokens, ctx : BOOLEAN, lost : BOOLEAN,
             at : {"running", "returned", "half", "interrupted"}]
RunTimes(c) == {k * Interval + Offset[c] : k \in Nat}
StoreTypes ==
    /\ row \in [Job -> RowType] /\ mixed \subseteq payload /\ payload \subseteq Job /\ seen \subseteq Job
    /\ claim \in [Job -> Tokens \cup {NoToken}]
StepTypes ==
    /\ clock \in 0..Horizon /\ up \in [Runtime -> BOOLEAN]
    /\ nextRun \in [Runtime -> [Cron -> Nat]]
    /\ \A r \in Runtime : \A c \in Cron : nextRun[r][c] \in RunTimes(c)
    /\ pc \in [Runtime -> {"idle", "claim", "adopt", "guard"}]
    /\ room \in [Runtime -> 0..MaxConcurrent]
    /\ tx \in [Runtime -> [job : SUBSET OneShot, committed : BOOLEAN]]
    /\ jobFaults \in 0..MaxJobFaults
WantedTypes == batch \in [Runtime -> Seq(Claim)] /\ picked \in [Runtime -> Seq(Claim)]
ExecTypes == exec \subseteq ExecType /\ IsFiniteSet(exec)

\* A lease is one of a row that waits, and a job whose completion Valkey knows
\* has no claim there.
StoresOK ==
    /\ \A j \in Job : row[j].leased => row[j].status = "pending"
    /\ \A j \in Job : claim[j] # NoToken => ~InValkey(j)

\* What an execution holds as long as it has let no lease end.
Holds(e) == ~e.lost =>
    /\ e.at # "half" => claim[e.job] = e.token
    /\ e.by \notin Legacy => row[e.job].token = e.token /\ row[e.job].leased
    /\ e.at = "half" => e.by \notin Legacy /\ InValkey(e.job)

\* Nobody works under the token of another.
Wanted(r) == ToSet(batch[r]) \cup ToSet(picked[r])
Unique ==
    /\ \A e, f \in exec : e.token = f.token => e = f
    /\ \A e \in exec : \A r \in Runtime : \A c \in Wanted(r) : c.token # e.token
    /\ \A r, q \in Runtime : \A c \in Wanted(r) : \A d \in Wanted(q) : c.token = d.token => r = q /\ c = d

\* There is room for what a runtime will start.
Room(r) == IF pc[r] = "idle" THEN 0 ELSE room[r]
RoomOK == \A r \in Runtime : Cardinality(Executing(r)) + Room(r) <= MaxConcurrent

SchedulerInv ==
    /\ StoreTypes /\ StepTypes /\ WantedTypes /\ ExecTypes
    /\ StoresOK /\ Unique /\ RoomOK
    /\ \A e \in exec : Holds(e)

-----------------------------------------------------------------------------
(* Sequences, tokens and picks.                                             *)

\* The elements of a sequence, of its rest, and of it with one more.
LEMMA QueueIs ==
    ASSUME NEW T, NEW s \in Seq(T)
    PROVE  /\ ToSet(s) \subseteq T /\ IsFiniteSet(ToSet(s)) /\ Len(s) \in Nat
           /\ Cardinality(ToSet(s)) <= Len(s)
           /\ \A i \in 1 .. Len(s) : s[i] \in ToSet(s)
           /\ \A x \in ToSet(s) : \E i \in 1 .. Len(s) : s[i] = x
<1>1. Len(s) \in Nat /\ DOMAIN s = 1 .. Len(s) /\ \A i \in 1 .. Len(s) : s[i] \in T
  BY LenProperties, ElementOfSeq
<1>2. /\ ToSet(s) \subseteq T /\ \A i \in 1 .. Len(s) : s[i] \in ToSet(s)
      /\ \A x \in ToSet(s) : \E i \in 1 .. Len(s) : s[i] = x
  BY <1>1 DEF ToSet
<1>3. PICK S : S = ToSet(s)
  OBVIOUS
<1>4. PICK h : h \in Surjection(1 .. Len(s), S)
  <2>1. PICK g : g = [i \in 1 .. Len(s) |-> s[i]]
    OBVIOUS
  <2>2. g \in [1 .. Len(s) -> S]
    BY <1>2, <1>3, <2>1
  <2>3. \A x \in S : \E i \in 1 .. Len(s) : g[i] = x
    BY <1>2, <1>3, <2>1
  <2>4. g \in Surjection(1 .. Len(s), S)
    BY <2>2, <2>3 DEF Surjection
  <2> QED
    BY <2>4
<1>5. IsFiniteSet(1 .. Len(s)) /\ Cardinality(1 .. Len(s)) = Len(s)
  <2>1. PICK n \in Nat : n = Len(s)
    BY <1>1
  <2>2. IsFiniteSet(1 .. n) /\ Cardinality(1 .. n) = n
    BY FS_Interval
  <2> QED
    BY <2>1, <2>2
<1>6. IsFiniteSet(S) /\ Cardinality(S) <= Len(s)
  BY <1>4, <1>5, FS_Surjection
<1> QED
  BY <1>1, <1>2, <1>3, <1>6

\* What a runtime handles next, and what it leaves for later.
LEMMA RestIs ==
    ASSUME NEW T, NEW s \in Seq(T), s # <<>>
    PROVE  /\ Head(s) \in T /\ Head(s) \in ToSet(s)
           /\ Tail(s) \in Seq(T) /\ ToSet(Tail(s)) \subseteq ToSet(s)
<1>1. Len(s) \in Nat /\ Len(s) > 0
  BY EmptySeq, LenProperties
<1>2. /\ Head(s) = s[1] /\ Tail(s) \in Seq(T) /\ Len(Tail(s)) = Len(s) - 1
      /\ \A i \in 1 .. Len(Tail(s)) : Tail(s)[i] = s[i + 1]
  BY HeadTailProperties
<1>3. Head(s) \in T /\ Head(s) \in ToSet(s)
  BY <1>1, <1>2, QueueIs
<1>4. PICK t \in Seq(T) : t = Tail(s)
  BY <1>2
<1>5. ASSUME NEW x \in ToSet(t) PROVE x \in ToSet(s)
  <2>1. PICK i \in 1 .. Len(t) : t[i] = x
    BY QueueIs
  <2>2. i + 1 \in 1 .. Len(s) /\ s[i + 1] = x
    BY <1>1, <1>2, <1>4, <2>1
  <2> QED
    BY <2>2, QueueIs
<1> QED
  BY <1>2, <1>3, <1>4, <1>5

\* A sequence with one more element.
LEMMA OneMoreIs ==
    ASSUME NEW T, NEW s \in Seq(T), NEW x \in T
    PROVE  Append(s, x) \in Seq(T) /\ ToSet(Append(s, x)) = ToSet(s) \cup {x}
<1>1. /\ Append(s, x) \in Seq(T) /\ Len(Append(s, x)) = Len(s) + 1
      /\ Append(s, x)[Len(s) + 1] = x /\ \A i \in 1 .. Len(s) : Append(s, x)[i] = s[i]
  OBVIOUS
<1>2. PICK t \in Seq(T) : t = Append(s, x)
  BY <1>1
<1>3. Len(s) \in Nat
  BY LenProperties
<1>4. ASSUME NEW y \in ToSet(t) PROVE y \in ToSet(s) \cup {x}
  <2>1. PICK i \in 1 .. Len(s) + 1 : t[i] = y
    BY <1>1, <1>2, QueueIs
  <2>2. CASE i = Len(s) + 1
    BY <1>1, <1>2, <2>1, <2>2
  <2>3. CASE i \in 1 .. Len(s)
    BY <1>1, <1>2, <2>1, <2>3, QueueIs
  <2> QED
    BY <1>3, <2>1, <2>2, <2>3
<1>5. x \in ToSet(t)
  <2>1. Len(s) + 1 \in 1 .. Len(t) /\ t[Len(s) + 1] = x
    BY <1>1, <1>2, <1>3
  <2> QED
    BY <2>1, QueueIs
<1>6. ASSUME NEW y \in ToSet(s) PROVE y \in ToSet(t)
  <2>1. PICK i \in 1 .. Len(s) : s[i] = y
    BY QueueIs
  <2>2. i \in 1 .. Len(t) /\ t[i] = y
    BY <1>1, <1>2, <1>3, <2>1
  <2> QED
    BY <2>2, QueueIs
<1> QED
  BY <1>1, <1>2, <1>4, <1>5, <1>6

\* A runtime with an empty batch wants nothing.
LEMMA NothingWanted == ToSet(<<>>) = {} /\ <<>> \in Seq(Claim)
BY DEF ToSet

\* There are finitely many jobs: the occurrences within the horizon.
LEMMA JobsFinite == IsFiniteSet(Job)
<1>1. IsFiniteSet(0..Horizon)
  BY FS_Interval, BoundsAssumption
<1>2. IsFiniteSet(Boundary \cap 0..Horizon)
  BY <1>1, FS_Intersection
<1>3. IsFiniteSet(Cron \X (Boundary \cap 0..Horizon))
  BY <1>2, FS_Product, BoundsAssumption
<1> QED
  BY <1>3, FS_Union, BoundsAssumption DEF Job

\* The image of a finite set under a function.
LEMMA ImageIs ==
    ASSUME NEW S, IsFiniteSet(S), NEW f, DOMAIN f = S, f = [x \in S |-> f[x]]
    PROVE  IsFiniteSet({f[x] : x \in S}) /\ Cardinality({f[x] : x \in S}) <= Cardinality(S)
<1>1. f \in Surjection(S, {f[x] : x \in S})
  BY DEF Surjection
<1> QED
  BY <1>1, FS_Surjection

-----------------------------------------------------------------------------
(* Tokens.                                                                  *)

\* There are finitely many tokens in use.
LEMMA LiveIsFinite ==
    ASSUME StoreTypes, WantedTypes, ExecTypes
    PROVE  IsFiniteSet(LiveTokens)
<1>1. IsFiniteSet({row[j].token : j \in Job})
  <2>1. PICK f : f = [j \in Job |-> row[j].token]
    OBVIOUS
  <2>2. IsFiniteSet({f[j] : j \in Job})
    BY <2>1, JobsFinite, ImageIs
  <2> QED
    BY <2>1, <2>2
<1>2. IsFiniteSet({claim[j] : j \in Job})
  BY JobsFinite, ImageIs DEF StoreTypes
<1>3. IsFiniteSet({e.token : e \in exec})
  <2>1. PICK f : f = [e \in exec |-> e.token]
    OBVIOUS
  <2>2. IsFiniteSet({f[e] : e \in exec})
    BY <2>1, ImageIs DEF ExecTypes
  <2> QED
    BY <2>1, <2>2
<1>4. ASSUME NEW s \in Seq(Claim) PROVE IsFiniteSet({s[i].token : i \in DOMAIN s})
  <2>1. PICK f : f = [i \in DOMAIN s |-> s[i].token]
    OBVIOUS
  <2>2. IsFiniteSet(DOMAIN s)
    BY LenProperties, FS_Interval
  <2>3. IsFiniteSet({f[i] : i \in DOMAIN s})
    BY <2>1, <2>2, ImageIs
  <2> QED
    BY <2>1, <2>3
<1>5. PICK g : g = [r \in Runtime |-> {batch[r][i].token : i \in DOMAIN batch[r]}
                                      \cup {picked[r][i].token : i \in DOMAIN picked[r]}]
  OBVIOUS
<1>6. ASSUME NEW r \in Runtime PROVE IsFiniteSet(g[r])
  <2>1. batch[r] \in Seq(Claim) /\ picked[r] \in Seq(Claim)
    BY DEF WantedTypes
  <2>2. PICK S : S = {batch[r][i].token : i \in DOMAIN batch[r]}
    OBVIOUS
  <2>3. PICK T : T = {picked[r][i].token : i \in DOMAIN picked[r]}
    OBVIOUS
  <2>4. g[r] = S \cup T
    BY <1>5, <2>2, <2>3
  <2>5. IsFiniteSet(S)
    BY <1>4, <2>1, <2>2
  <2>6. IsFiniteSet(T)
    BY <1>4, <2>1, <2>3
  <2> QED
    BY <2>4, <2>5, <2>6, FS_Union
<1>7. IsFiniteSet({g[r] : r \in Runtime})
  <2>1. IsFiniteSet(Runtime) /\ DOMAIN g = Runtime /\ g = [r \in Runtime |-> g[r]]
    BY <1>5, BoundsAssumption
  <2> QED
    BY <2>1, ImageIs
<1>8. IsFiniteSet(UNION {g[r] : r \in Runtime})
  BY <1>6, <1>7, FS_UNION
<1>9. UNION {g[r] : r \in Runtime} =
        UNION {{batch[r][i].token : i \in DOMAIN batch[r]}
                    \cup {picked[r][i].token : i \in DOMAIN picked[r]} : r \in Runtime}
  BY <1>5
<1> QED
  BY <1>1, <1>2, <1>3, <1>8, <1>9, FS_Union DEF LiveTokens

\* The tokens of the stores, of executions and of claims at work are live.
LEMMA LiveAre ==
    ASSUME StoreTypes, WantedTypes, ExecTypes
    PROVE  /\ \A j \in Job : row[j].token \in LiveTokens /\ claim[j] \in LiveTokens
           /\ \A e \in exec : e.token \in LiveTokens
           /\ \A r \in Runtime : \A c \in Wanted(r) : c.token \in LiveTokens
<1>1. ASSUME NEW r \in Runtime, NEW c \in Wanted(r) PROVE c.token \in LiveTokens
  BY DEF Wanted, ToSet, LiveTokens
<1> QED
  BY <1>1 DEF LiveTokens

\* Fresh finds as many tokens as it is asked for, no two of them equal and none
\* of them in use.
LEMMA FreshIs ==
    ASSUME StoreTypes, WantedTypes, ExecTypes, NEW r \in Runtime, NEW k \in Nat
    PROVE  /\ \A i \in 1 .. k : Fresh(r, k)[i] \in Tokens \ LiveTokens
           /\ \A i, j \in 1 .. k : Fresh(r, k)[i] = Fresh(r, k)[j] => i = j
<1>1. PICK mine : mine = {u \in LiveTokens : u # NoToken /\ u[1] = r}
  OBVIOUS
<1>2. PICK used : used = {t[2] : t \in mine}
  OBVIOUS
<1>3. IsFiniteSet(used)
  <2>1. IsFiniteSet(mine)
    BY <1>1, LiveIsFinite, FS_Subset
  <2>2. PICK f : f = [t \in mine |-> t[2]]
    OBVIOUS
  <2>3. IsFiniteSet({f[t] : t \in mine})
    BY <2>1, <2>2, ImageIs
  <2> QED
    BY <1>2, <2>2, <2>3
<1>4. PICK n \in Nat : n = Cardinality(used)
  BY <1>3, FS_CardinalityType
<1>5. PICK m \in Nat : m = n + k
  OBVIOUS
<1>6. PICK free : free = {i \in 1..m : i \notin used}
  OBVIOUS
<1>7. IsFiniteSet(free) /\ Cardinality(free) >= k /\ Cardinality(free) \in Nat
  <2>1. IsFiniteSet(1..m) /\ Cardinality(1..m) = m
    BY <1>5, FS_Interval
  <2>2. PICK taken : taken = used \cap (1..m)
    OBVIOUS
  <2>3. free = (1..m) \ used /\ taken = (1..m) \cap used
    BY <1>6, <2>2
  <2>4. Cardinality(free) = Cardinality(1..m) - Cardinality(taken) /\ IsFiniteSet(free)
    BY <2>1, <2>3, FS_Difference
  <2>5. Cardinality(taken) <= n /\ IsFiniteSet(taken)
    BY <1>3, <1>4, <2>2, FS_Intersection
  <2>6. Cardinality(taken) \in Nat
    BY <2>5, FS_CardinalityType
  <2>7. Cardinality(free) \in Nat
    BY <2>4, FS_CardinalityType
  <2>8. PICK x \in Nat : x = Cardinality(taken)
    BY <2>6
  <2>9. PICK y \in Nat : y = Cardinality(free)
    BY <2>7
  <2>10. y = m - x
    BY <2>1, <2>4, <2>8, <2>9
  <2>11. x <= n
    BY <2>5, <2>8
  <2>12. y >= k
    BY <1>5, <2>10, <2>11
  <2> QED
    BY <2>4, <2>7, <2>9, <2>12
<1>8. PICK b : b \in Bijection(1..Cardinality(free), free)
  BY <1>7, FS_CardinalityType DEF ExistsBijection
<1>9. b \in [1..Cardinality(free) -> free] /\ \A i, j \in 1..Cardinality(free) : b[i] = b[j] => i = j
  BY <1>8 DEF Bijection, Injection, IsInjective
<1>10. PICK s : s = [i \in 1..k |-> <<r, b[i]>>]
  OBVIOUS
<1>11. \A i \in 1..k : i \in 1..Cardinality(free)
  BY <1>7
<1>12. s \in [1..k -> {r} \X free] /\ IsInjective(s)
  BY <1>9, <1>10, <1>11 DEF IsInjective
<1>13. Fresh(r, k) = CHOOSE q \in [1..k -> {r} \X free] : IsInjective(q)
  BY <1>1, <1>2, <1>4, <1>5, <1>6 DEF Fresh
<1>14. Fresh(r, k) \in [1..k -> {r} \X free] /\ IsInjective(Fresh(r, k))
  BY <1>12, <1>13
<1>15. ASSUME NEW t \in {r} \X free PROVE t \in Tokens \ LiveTokens
  <2>1. t[1] = r /\ t[2] \in free /\ t \in Runtime \X free
    BY <1>15
  <2>2. free \subseteq Nat \ {0}
    BY <1>6
  <2>3. t \in Tokens
    BY <1>15, <2>2 DEF Tokens
  <2>4. t # NoToken
    BY <2>3, BoundsAssumption
  <2>5. t \in LiveTokens => t[2] \in used
    BY <1>1, <1>2, <2>1, <2>4
  <2> QED
    BY <1>6, <2>1, <2>3, <2>5
<1> QED
  BY <1>14, <1>15 DEF IsInjective

\* What a claiming call makes of the jobs it picked.
LEMMA ClaimsAre ==
    ASSUME StoreTypes, WantedTypes, ExecTypes, NEW r \in Runtime, NEW s \in Seq(Job)
    PROVE  /\ AsClaims(r, s) \in Seq(Claim) /\ Len(AsClaims(r, s)) = Len(s)
           /\ \A i \in 1 .. Len(s) : /\ AsClaims(r, s)[i].job = s[i]
                                     /\ AsClaims(r, s)[i].token \in Tokens \ LiveTokens
           /\ \A i, j \in 1 .. Len(s) : AsClaims(r, s)[i].token = AsClaims(r, s)[j].token => i = j
<1>1. PICK n \in Nat : n = Len(s)
  BY LenProperties
<1>2. DOMAIN s = 1 .. n /\ \A i \in 1 .. n : s[i] \in Job
  BY <1>1, LenProperties, ElementOfSeq
<1>3. PICK tokens : tokens = Fresh(r, n)
  OBVIOUS
<1>4. /\ \A i \in 1 .. n : tokens[i] \in Tokens \ LiveTokens
      /\ \A i, j \in 1 .. n : tokens[i] = tokens[j] => i = j
  BY <1>3, FreshIs
<1>5. PICK claims : claims = [i \in 1 .. n |-> [job |-> s[i], token |-> tokens[i]]]
  OBVIOUS
<1>6. AsClaims(r, s) = claims
  BY <1>1, <1>2, <1>3, <1>5 DEF AsClaims
<1>7. \A i \in 1 .. n : claims[i].job = s[i] /\ claims[i].token = tokens[i] /\ claims[i] \in Claim
  BY <1>2, <1>4, <1>5 DEF Claim
<1>8. claims \in [1 .. n -> Claim]
  BY <1>5, <1>7
<1>9. claims \in Seq(Claim) /\ Len(claims) = n
  BY <1>8
<1> QED
  BY <1>1, <1>4, <1>6, <1>7, <1>9

\* TokenIn is the token of a claim on the job.
LEMMA TokenIs ==
    ASSUME NEW claims \in Seq(Claim), NEW j \in JobsIn(claims)
    PROVE  \E i \in 1 .. Len(claims) : claims[i].job = j /\ claims[i].token = TokenIn(claims, j)
<1>1. PICK S : S = ToSet(claims)
  OBVIOUS
<1>2. PICK d \in S : d.job = j
  BY <1>1 DEF JobsIn
<1>3. PICK c : c = CHOOSE x \in S : x.job = j
  OBVIOUS
<1>4. c \in S /\ c.job = j
  BY <1>2, <1>3
<1>5. TokenIn(claims, j) = c.token
  BY <1>1, <1>3 DEF TokenIn
<1> QED
  BY <1>1, <1>4, <1>5, QueueIs

\* An order of a set of jobs lists them without repetition.
LEMMA OrdersAre ==
    ASSUME NEW S, S \subseteq Job, NEW s \in Orders(S, RunAt)
    PROVE  /\ s \in Seq(S) /\ s \in Seq(Job) /\ Len(s) \in Nat
           /\ \A i \in 1 .. Len(s) : s[i] \in S
           /\ \A i, j \in 1 .. Len(s) : s[i] = s[j] => i = j
<1>1. s \in SetToSeqs(S)
  BY DEF Orders
<1>2. IsFiniteSet(S)
  BY JobsFinite, FS_Subset
<1>3. PICK n \in Nat : n = Cardinality(S)
  BY <1>2, FS_CardinalityType
<1>4. s \in [1 .. n -> S] /\ \A i, j \in 1 .. n : i # j => s[i] # s[j]
  BY <1>1, <1>3 DEF SetToSeqs
<1>5. s \in Seq(S) /\ Len(s) = n
  BY <1>4
<1> QED
  BY <1>4, <1>5, SeqMonotonic

\* The first of them, as many as the limit allows.
LEMMA FirstOnes ==
    ASSUME NEW s \in Seq(Job), NEW limit \in Nat
    PROVE  LET q == SubSeq(s, 1, Less(limit, Len(s))) IN
           /\ q \in Seq(Job) /\ Len(q) <= limit /\ Len(q) <= Len(s) /\ Len(q) \in Nat
           /\ \A i \in 1 .. Len(q) : q[i] = s[i]
<1>1. PICK n \in Nat : n = Len(s)
  BY LenProperties
<1>2. PICK m \in Nat : m = Less(limit, n) /\ m <= limit /\ m <= n
  BY DEF Less
<1>3. \A i \in 1 .. m : s[i] \in Job
  BY <1>1, <1>2, ElementOfSeq
<1>4. PICK q : q = SubSeq(s, 1, m)
  OBVIOUS
<1>5. q \in Seq(Job) /\ Len(q) = m /\ \A i \in 1 .. m : q[i] = s[i]
  <2>1. /\ q \in Seq(Job) /\ Len(q) = (IF 1 <= m THEN m - 1 + 1 ELSE 0)
        /\ \A i \in 1 .. m - 1 + 1 : q[i] = s[1 + i - 1]
    BY <1>3, <1>4, SubSeqProperties
  <2>2. Len(q) = m
    BY <2>1
  <2>3. ASSUME NEW i \in 1 .. m PROVE q[i] = s[i]
    <3>1. i \in 1 .. m - 1 + 1 /\ 1 + i - 1 = i
      OBVIOUS
    <3> QED
      BY <2>1, <3>1
  <2> QED
    BY <2>1, <2>2, <2>3
<1> QED
  BY <1>1, <1>2, <1>4, <1>5

\* What claimDue of the Postgres store selects: no job twice, no more than the
\* limit, and no row under a running lease.
LEMMA PostgresPicksAre ==
    ASSUME NEW limit \in Nat, NEW s \in PostgresPicks(limit)
    PROVE  /\ s \in Seq(Job)
           /\ \A i \in 1 .. Len(s) : row[s[i]].token = NoToken \/ ~row[s[i]].leased
<1>1. PICK open : open = {j \in Job : /\ row[j].status = "pending" /\ RunAt(j) <= clock
                                      /\ (row[j].token = NoToken \/ ~row[j].leased)}
  OBVIOUS
<1>2. PICK q \in Orders(open, RunAt) : s = SubSeq(q, 1, Less(limit, Len(q)))
  BY <1>1 DEF PostgresPicks
<1>3. open \subseteq Job
  BY <1>1
<1>4. q \in Seq(Job) /\ Len(q) \in Nat /\ \A i \in 1 .. Len(q) : q[i] \in open
  BY <1>2, <1>3, OrdersAre
<1>5. /\ s \in Seq(Job) /\ Len(s) \in Nat /\ Len(s) <= Len(q)
      /\ \A i \in 1 .. Len(s) : s[i] = q[i]
  BY <1>2, <1>4, FirstOnes
<1>6. \A i \in 1 .. Len(s) : s[i] \in open
  BY <1>4, <1>5
<1> QED
  BY <1>1, <1>5, <1>6

\* The claiming script picks jobs with a payload and no claim, each once, and
\* moves entries of the mixed queue.
LEMMA ValkeyPicksAre ==
    ASSUME StoreTypes, NEW limit \in Nat, NEW M \in Moves(limit), NEW s \in ValkeyPicks(limit, M)
    PROVE  /\ s \in Seq(Job) /\ Len(s) <= limit
           /\ \A i \in 1 .. Len(s) : s[i] \in payload /\ claim[s[i]] = NoToken
           /\ \A i, j \in 1 .. Len(s) : s[i] = s[j] => i = j
<1>1. M \subseteq mixed
  BY DEF Moves, Migrated, MixedDue
<1> DEFINE once == Claimable({j \in payload : ~IsCron(j) /\ j \notin mixed})
           more == Claimable({j \in M : ~IsCron(j)})
           cron == IF MixedDue \subseteq M
                   THEN Claimable({j \in payload : IsCron(j) /\ (j \notin mixed \/ j \in M)}) ELSE {}
<1>2. PICK w \in InTurn(Orders(once, RunAt), Orders(more, RunAt), Orders(cron, RunAt)) :
          s = SubSeq(w, 1, Less(limit, Len(w)))
  BY DEF ValkeyPicks
<1>3. PICK A, B, C : A = Orders(once, RunAt) /\ B = Orders(more, RunAt) /\ C = Orders(cron, RunAt)
  OBVIOUS
<1>4. w \in InTurn(A, B, C)
  BY <1>2, <1>3
<1>5. PICK a \in A, b \in B, c \in C : w = a \o b \o c
  BY <1>4 DEF InTurn
<1>6. /\ once \subseteq Job /\ more \subseteq Job /\ cron \subseteq Job
      /\ \A j \in once \cup more \cup cron : j \in payload /\ claim[j] = NoToken
      /\ \A j \in once : ~IsCron(j) /\ j \notin mixed
      /\ \A j \in more : ~IsCron(j) /\ j \in mixed
      /\ \A j \in cron : IsCron(j)
  BY <1>1 DEF Claimable, StoreTypes
<1> HIDE DEF once, more, cron
<1>7. /\ a \in Seq(Job) /\ Len(a) \in Nat /\ \A i \in 1 .. Len(a) : a[i] \in once
      /\ \A i, j \in 1 .. Len(a) : a[i] = a[j] => i = j
  BY <1>3, <1>5, <1>6, OrdersAre
<1>8. /\ b \in Seq(Job) /\ Len(b) \in Nat /\ \A i \in 1 .. Len(b) : b[i] \in more
      /\ \A i, j \in 1 .. Len(b) : b[i] = b[j] => i = j
  BY <1>3, <1>5, <1>6, OrdersAre
<1>9. /\ c \in Seq(Job) /\ Len(c) \in Nat /\ \A i \in 1 .. Len(c) : c[i] \in cron
      /\ \A i, j \in 1 .. Len(c) : c[i] = c[j] => i = j
  BY <1>3, <1>5, <1>6, OrdersAre
<1>10. PICK ab : ab = a \o b
  OBVIOUS
<1>11. /\ ab \in Seq(Job) /\ Len(ab) = Len(a) + Len(b)
       /\ \A i \in 1 .. Len(a) + Len(b) : ab[i] = IF i <= Len(a) THEN a[i] ELSE b[i - Len(a)]
  BY <1>7, <1>8, <1>10, ConcatProperties
<1>12. PICK q : q = ab \o c
  OBVIOUS
<1>13. /\ q \in Seq(Job) /\ Len(q) = Len(ab) + Len(c)
       /\ \A i \in 1 .. Len(ab) + Len(c) : q[i] = IF i <= Len(ab) THEN ab[i] ELSE c[i - Len(ab)]
  <2>1. ab \in Seq(Job) /\ c \in Seq(Job)
    BY <1>9, <1>11
  <2> QED
    BY <1>12, <2>1, ConcatProperties
<1>14. ASSUME NEW i \in 1 .. Len(ab)
       PROVE  \/ i \in 1 .. Len(a) /\ ab[i] = a[i] /\ ab[i] \in once
              \/ i - Len(a) \in 1 .. Len(b) /\ ab[i] = b[i - Len(a)] /\ ab[i] \in more
  BY <1>7, <1>8, <1>11
<1>15. ASSUME NEW i \in 1 .. Len(ab), NEW j \in 1 .. Len(ab), ab[i] = ab[j] PROVE i = j
  <2>1. CASE i \in 1 .. Len(a) /\ ab[i] = a[i] /\ ab[i] \in once
    BY <1>6, <1>7, <1>14, <1>15, <2>1
  <2>2. CASE i - Len(a) \in 1 .. Len(b) /\ ab[i] = b[i - Len(a)] /\ ab[i] \in more
    <3>1. j - Len(a) \in 1 .. Len(b) /\ ab[j] = b[j - Len(a)]
      BY <1>6, <1>14, <1>15, <2>2
    <3>2. i - Len(a) = j - Len(a)
      BY <1>8, <1>15, <2>2, <3>1
    <3> QED
      BY <1>7, <1>8, <1>11, <3>2
  <2> QED
    BY <1>14, <2>1, <2>2
<1>16. ASSUME NEW i \in 1 .. Len(q)
       PROVE  \/ i \in 1 .. Len(ab) /\ q[i] = ab[i] /\ q[i] \in once \cup more
              \/ i - Len(ab) \in 1 .. Len(c) /\ q[i] = c[i - Len(ab)] /\ q[i] \in cron
  BY <1>7, <1>8, <1>9, <1>11, <1>13, <1>14
<1>17. ASSUME NEW i \in 1 .. Len(q), NEW j \in 1 .. Len(q), q[i] = q[j] PROVE i = j
  <2>1. CASE i \in 1 .. Len(ab) /\ q[i] = ab[i] /\ q[i] \in once \cup more
    BY <1>6, <1>15, <1>16, <1>17, <2>1
  <2>2. CASE i - Len(ab) \in 1 .. Len(c) /\ q[i] = c[i - Len(ab)] /\ q[i] \in cron
    <3>1. j - Len(ab) \in 1 .. Len(c) /\ q[j] = c[j - Len(ab)]
      BY <1>6, <1>16, <1>17, <2>2
    <3>2. i - Len(ab) = j - Len(ab)
      BY <1>9, <1>17, <2>2, <3>1
    <3> QED
      BY <1>7, <1>8, <1>9, <1>11, <1>13, <3>2
  <2> QED
    BY <1>16, <2>1, <2>2
<1>18. s = SubSeq(q, 1, Less(limit, Len(q)))
  BY <1>2, <1>5, <1>10, <1>12
<1>19. Len(q) \in Nat
  BY <1>13, LenProperties
<1>20. /\ s \in Seq(Job) /\ Len(s) <= limit /\ Len(s) <= Len(q) /\ Len(s) \in Nat
       /\ \A i \in 1 .. Len(s) : s[i] = q[i]
  BY <1>13, <1>18, FirstOnes
<1>21. \A i \in 1 .. Len(s) : i \in 1 .. Len(q)
  BY <1>19, <1>20
<1>22. \A i \in 1 .. Len(s) : s[i] \in payload /\ claim[s[i]] = NoToken
  BY <1>6, <1>16, <1>20, <1>21
<1>23. ASSUME NEW i \in 1 .. Len(s), NEW j \in 1 .. Len(s), s[i] = s[j] PROVE i = j
  BY <1>17, <1>20, <1>21, <1>23
<1> QED
  BY <1>20, <1>22, <1>23

-----------------------------------------------------------------------------
(* What a step does to the stores.                                          *)

\* A step only takes leases from those that work under a token of T.
Spares(T) == \A j \in Job :
    /\ claim[j] \in Tokens \ T => claim'[j] = claim[j]
    /\ row[j].leased /\ row[j].token \in Tokens \ T => row'[j] = row[j]
    /\ InValkey(j) => InValkey(j)'
StoreStep(T) == StoreTypes' /\ StoresOK' /\ Spares(T)

\* What spares the tokens outside T spares those outside a larger set.
LEMMA SparesMore ==
    ASSUME NEW T, NEW U, T \subseteq U, StoreStep(T)
    PROVE  StoreStep(U)
BY DEF StoreStep, Spares

\* An execution whose token a step spares holds what it held.
LEMMA HoldsOn ==
    ASSUME NEW T, StoreStep(T), NEW e \in ExecType, Holds(e), e.token \notin T
    PROVE  Holds(e)'
<1>1. e.job \in Job /\ e.token \in Tokens
  BY DEF ExecType
<1> QED
  BY <1>1 DEF StoreStep, Spares, Holds

\* A step that leaves the stores alone.
LEMMA StoresRest ==
    ASSUME StoreTypes, StoresOK, UNCHANGED stores
    PROVE  StoreStep({})
BY DEF StoreTypes, StoresOK, StoreStep, Spares, InValkey, stores

\* Enqueueing writes an absent row or a payload, and no lease.
LEMMA EnqueueStep ==
    ASSUME StoreTypes, StoresOK, NEW r \in Runtime, NEW J, J \subseteq Job, EnqueueJobs(r, J)
    PROVE  StoreStep({})
<1>1. CASE r \in Legacy
  <2>1. EnqueueValkey(J)
    BY <1>1 DEF EnqueueJobs
  <2>2. StoreTypes'
    BY <2>1 DEF EnqueueValkey, StoreTypes
  <2>3. \A j \in Job : InValkey(j) <=> InValkey(j)'
    BY <2>1 DEF EnqueueValkey, InValkey
  <2> QED
    BY <2>1, <2>2, <2>3 DEF EnqueueValkey, StoresOK, StoreStep, Spares
<1>2. CASE r \notin Legacy
  <2>1. EnqueuePostgres(J)
    BY <1>2 DEF EnqueueJobs
  <2>2. PICK fresh : fresh = [NoRow EXCEPT !.status = "pending"]
    OBVIOUS
  <2>3. fresh = [status |-> "pending", token |-> NoToken, leased |-> FALSE]
    BY <2>2 DEF NoRow
  <2>4. fresh \in RowType /\ fresh.status = "pending" /\ ~fresh.leased
    BY <2>3 DEF RowType
  <2>5. row' = [j \in Job |-> IF j \in J /\ row[j].status = "absent" THEN fresh ELSE row[j]]
    BY <2>1, <2>2 DEF EnqueuePostgres
  <2>6. StoreTypes'
    BY <2>1, <2>4, <2>5 DEF EnqueuePostgres, StoreTypes
  <2>7. \A j \in Job : InValkey(j) <=> InValkey(j)'
    BY <2>1 DEF EnqueuePostgres, InValkey
  <2>8. StoresOK'
    BY <2>1, <2>4, <2>5, <2>7 DEF EnqueuePostgres, StoresOK
  <2>9. \A j \in Job : row[j].leased => row'[j] = row[j]
    BY <2>5 DEF StoresOK
  <2> QED
    BY <2>1, <2>6, <2>7, <2>8, <2>9 DEF EnqueuePostgres, StoreStep, Spares
<1> QED
  BY <1>1, <1>2

\* Completing a job in Valkey frees its claim key only of the token it is under.
LEMMA CompleteValkeyStep ==
    ASSUME StoreTypes, StoresOK, NEW j \in Job, NEW t \in Tokens, CompleteValkey(j, t), row' = row
    PROVE  StoreStep({t}) /\ (ValkeyAccepts(j, t) /\ claim[j] = t => InValkey(j)')
<1>1. CASE claim[j] = t
  <2>1. /\ payload' = payload \ {j} /\ mixed' = mixed \ {j}
        /\ claim' = [claim EXCEPT ![j] = NoToken] /\ seen' = seen \cup {j}
    BY <1>1 DEF CompleteValkey
  <2>2. StoreTypes'
    BY <2>1 DEF StoreTypes
  <2>3. \A i \in Job : InValkey(i)' <=> i = j \/ InValkey(i)
    BY <2>1 DEF InValkey
  <2>4. \A i \in Job : claim'[i] = IF i = j THEN NoToken ELSE claim[i]
    BY <2>1 DEF StoreTypes
  <2> QED
    BY <1>1, <2>2, <2>3, <2>4 DEF StoresOK, StoreStep, Spares
<1>2. CASE claim[j] # t
  <2>1. UNCHANGED stores
    BY <1>2 DEF CompleteValkey, stores
  <2>2. StoreStep({})
    BY <2>1, StoresRest
  <2> QED
    BY <1>2, <2>2, SparesMore
<1> QED
  BY <1>1, <1>2

\* Completing a job in Postgres ends only the lease of the token it is under.
LEMMA CompletePostgresStep ==
    ASSUME StoreTypes, StoresOK, NEW j \in Job, NEW t \in Tokens, CompletePostgres(j, t),
           UNCHANGED <<payload, mixed, claim, seen>>
    PROVE  StoreStep({t})
<1>1. PICK done : done = [status |-> "completed", token |-> NoToken, leased |-> FALSE]
  OBVIOUS
<1>2. done \in RowType /\ ~done.leased
  BY <1>1 DEF RowType
<1>3. CASE row[j].status = "pending" /\ row[j].token = t
  <2>1. row' = [row EXCEPT ![j] = done]
    BY <1>1, <1>3 DEF CompletePostgres
  <2>2. StoreTypes'
    BY <1>2, <2>1 DEF StoreTypes
  <2>3. \A i \in Job : row'[i] = IF i = j THEN done ELSE row[i]
    BY <2>1 DEF StoreTypes
  <2> QED
    BY <1>2, <1>3, <2>2, <2>3 DEF StoresOK, StoreStep, Spares, InValkey
<1>4. CASE ~(row[j].status = "pending" /\ row[j].token = t)
  <2>1. UNCHANGED stores
    BY <1>4 DEF CompletePostgres, stores
  <2>2. StoreStep({})
    BY <2>1, StoresRest
  <2> QED
    BY <2>2, SparesMore
<1> QED
  BY <1>3, <1>4

\* Only what the claims of C and D hold is given back.
LEMMA ReleaseStep ==
    ASSUME StoreTypes, StoresOK, NEW C, NEW D, NEW T,
           \A c \in C \cup D : c.token \in T,
           row' = row \/ row' = ReleasePostgres(row, C),
           claim' = claim \/ claim' = ReleaseValkey(claim, D),
           UNCHANGED <<payload, mixed, seen>>
    PROVE  StoreStep(T)
<1>1. ASSUME NEW j \in Job
      PROVE  /\ claim'[j] = claim[j] \/ (claim'[j] = NoToken /\ claim[j] \in T)
             /\ claim'[j] \in Tokens \cup {NoToken}
  <2>1. CASE claim' = claim
    BY <2>1 DEF StoreTypes
  <2>2. CASE claim' = ReleaseValkey(claim, D)
    <3>1. claim'[j] = IF [job |-> j, token |-> claim[j]] \in D THEN NoToken ELSE claim[j]
      BY <2>2 DEF ReleaseValkey
    <3>2. PICK c : c = [job |-> j, token |-> claim[j]]
      OBVIOUS
    <3>3. c.token = claim[j] /\ claim'[j] = IF c \in D THEN NoToken ELSE claim[j]
      BY <3>1, <3>2
    <3> QED
      BY <3>3 DEF StoreTypes
  <2> QED
    BY <2>1, <2>2
<1>2. claim' = [j \in Job |-> claim'[j]]
  BY DEF StoreTypes, ReleaseValkey
<1>3. ASSUME NEW j \in Job
      PROVE  /\ row'[j] \in RowType
             /\ row'[j] = row[j] \/ (~row'[j].leased /\ row[j].token \in T)
  <2>1. CASE row' = row
    BY <2>1 DEF StoreTypes
  <2>2. CASE row' = ReleasePostgres(row, C)
    <3>1. row'[j] = IF row[j].status = "pending" /\ [job |-> j, token |-> row[j].token] \in C
                    THEN [row[j] EXCEPT !.token = NoToken, !.leased = FALSE] ELSE row[j]
      BY <2>2 DEF ReleasePostgres
    <3>2. PICK c : c = [job |-> j, token |-> row[j].token]
      OBVIOUS
    <3>3. PICK d : d = [row[j] EXCEPT !.token = NoToken, !.leased = FALSE]
      OBVIOUS
    <3>4. row[j] \in RowType
      BY DEF StoreTypes
    <3>5. d \in RowType
      BY <3>3, <3>4 DEF RowType
    <3>6. ~d.leased
      BY <3>3, <3>4 DEF RowType
    <3>7. c.token = row[j].token
      BY <3>2
    <3>8. row'[j] = IF row[j].status = "pending" /\ c \in C THEN d ELSE row[j]
      BY <3>1, <3>2, <3>3
    <3> QED
      BY <3>4, <3>5, <3>6, <3>7, <3>8
  <2> QED
    BY <2>1, <2>2
<1>4. row' = [j \in Job |-> row'[j]]
  BY DEF StoreTypes, ReleasePostgres
<1>5. StoreTypes'
  <2>1. row' \in [Job -> RowType]
    BY <1>3, <1>4
  <2>2. claim' \in [Job -> Tokens \cup {NoToken}]
    BY <1>1, <1>2
  <2> QED
    BY <2>1, <2>2 DEF StoreTypes
<1>6. StoresOK'
  BY <1>1, <1>3 DEF StoresOK, InValkey
<1>7. Spares(T)
  BY <1>1, <1>3 DEF Spares, InValkey
<1> QED
  BY <1>5, <1>6, <1>7 DEF StoreStep

\* adoptClaim takes the row of a job that no other lease is running on.
LEMMA AdoptStep ==
    ASSUME StoreTypes, StoresOK, NEW c \in Claim, Adoptable(c),
           row' = [row EXCEPT ![c.job] = [status |-> "pending", token |-> c.token, leased |-> TRUE]],
           UNCHANGED <<payload, mixed, claim, seen>>
    PROVE  StoreStep({c.token})
<1>1. c.job \in Job /\ c.token \in Tokens
  BY DEF Claim
<1>2. PICK taken : taken = [status |-> "pending", token |-> c.token, leased |-> TRUE]
  OBVIOUS
<1>3. taken \in RowType /\ taken.status = "pending"
  BY <1>1, <1>2 DEF RowType
<1>4. row' \in [Job -> RowType] /\ \A j \in Job : row'[j] = IF j = c.job THEN taken ELSE row[j]
  BY <1>1, <1>2, <1>3 DEF StoreTypes
<1>5. ~(row[c.job].leased /\ row[c.job].token \in Tokens \ {c.token})
  BY <1>1, BoundsAssumption DEF Adoptable, StoresOK
<1> QED
  BY <1>1, <1>3, <1>4, <1>5 DEF StoreTypes, StoresOK, StoreStep, Spares, InValkey

\* guard sets the claim key of a job nobody has claimed and nobody completed.
LEMMA GuardStep ==
    ASSUME StoreTypes, StoresOK, NEW c \in Claim, c.job \notin seen, claim[c.job] \in {NoToken, c.token},
           claim' = [claim EXCEPT ![c.job] = c.token],
           UNCHANGED <<row, payload, mixed, seen>>
    PROVE  StoreStep({c.token})
<1>1. c.job \in Job /\ c.token \in Tokens
  BY DEF Claim
<1>2. /\ claim' \in [Job -> Tokens \cup {NoToken}]
      /\ \A j \in Job : claim'[j] = IF j = c.job THEN c.token ELSE claim[j]
  BY <1>1 DEF StoreTypes
<1> QED
  BY <1>1, <1>2, BoundsAssumption DEF StoreTypes, StoresOK, StoreStep, Spares, InValkey

\* claimDue of the Postgres store takes rows without a running lease.
LEMMA ClaimRows ==
    ASSUME StoreTypes, StoresOK, NEW claims \in Seq(Claim),
           \A i \in 1 .. Len(claims) : row[claims[i].job].token = NoToken \/ ~row[claims[i].job].leased,
           row' = [j \in Job |-> IF j \in JobsIn(claims)
                    THEN [status |-> "pending", token |-> TokenIn(claims, j), leased |-> TRUE] ELSE row[j]],
           UNCHANGED <<payload, mixed, claim, seen>>
    PROVE  StoreStep({})
<1>1. ASSUME NEW j \in Job
      PROVE  /\ row'[j] \in RowType
             /\ row'[j].leased => row'[j].status = "pending"
             /\ row[j].leased /\ row[j].token \in Tokens => row'[j] = row[j]
  <2>1. CASE j \notin JobsIn(claims)
    BY <2>1 DEF StoreTypes, StoresOK
  <2>2. CASE j \in JobsIn(claims)
    <3>1. PICK t : t = TokenIn(claims, j)
      OBVIOUS
    <3>2. PICK i \in 1 .. Len(claims) : claims[i].job = j /\ claims[i].token = t
      BY <2>2, <3>1, TokenIs
    <3>3. t \in Tokens
      <4>1. claims[i] \in Claim
        BY ElementOfSeq
      <4> QED
        BY <3>2, <4>1 DEF Claim
    <3>4. PICK taken : taken = [status |-> "pending", token |-> t, leased |-> TRUE]
      OBVIOUS
    <3>5. row'[j] = taken
      BY <2>2, <3>1, <3>4
    <3>6. row'[j].status = "pending"
      BY <3>4, <3>5
    <3>7. taken \in RowType
      BY <3>3, <3>4 DEF RowType
    <3>8. row'[j] \in RowType
      BY <3>5, <3>7
    <3>9. ~(row[j].leased /\ row[j].token \in Tokens)
      BY <3>2, BoundsAssumption
    <3> QED
      BY <3>6, <3>8, <3>9
  <2> QED
    BY <2>1, <2>2
<1>2. row' \in [Job -> RowType]
  BY <1>1
<1> QED
  BY <1>1, <1>2 DEF StoreTypes, StoresOK, StoreStep, Spares, InValkey

\* The claim keys are set, each to the token of the claim on its job.
LEMMA ClaimKeys ==
    ASSUME StoreTypes, StoresOK, NEW claims \in Seq(Claim),
           \A i \in 1 .. Len(claims) : claims[i].job \in payload /\ claim[claims[i].job] = NoToken,
           \A i, j \in 1 .. Len(claims) : claims[i].job = claims[j].job => i = j,
           NEW M, mixed' = mixed \ M,
           claim' = [j \in Job |-> IF j \in JobsIn(claims) THEN TokenIn(claims, j) ELSE claim[j]],
           UNCHANGED <<row, payload, seen>>
    PROVE  StoreStep({}) /\ \A i \in 1 .. Len(claims) : claim'[claims[i].job] = claims[i].token
<1>1. ASSUME NEW j \in Job
      PROVE  /\ claim'[j] \in Tokens \cup {NoToken}
             /\ claim'[j] = claim[j] \/ (j \in payload /\ claim[j] = NoToken)
  <2>1. CASE j \notin JobsIn(claims)
    BY <2>1 DEF StoreTypes
  <2>2. CASE j \in JobsIn(claims)
    <3>1. PICK t : t = TokenIn(claims, j)
      OBVIOUS
    <3>2. PICK i \in 1 .. Len(claims) : claims[i].job = j /\ claims[i].token = t
      BY <2>2, <3>1, TokenIs
    <3>3. t \in Tokens
      <4>1. claims[i] \in Claim
        BY ElementOfSeq
      <4> QED
        BY <3>2, <4>1 DEF Claim
    <3> QED
      BY <2>2, <3>1, <3>2, <3>3
  <2> QED
    BY <2>1, <2>2
<1>2. claim' \in [Job -> Tokens \cup {NoToken}]
  BY <1>1
<1>3. ASSUME NEW i \in 1 .. Len(claims) PROVE claim'[claims[i].job] = claims[i].token
  <2>1. PICK j : j = claims[i].job
    OBVIOUS
  <2>2. j \in Job
    <3>1. claims[i] \in Claim
      BY ElementOfSeq
    <3> QED
      BY <2>1, <3>1 DEF Claim
  <2>3. claims[i] \in ToSet(claims)
    BY QueueIs
  <2>4. j \in JobsIn(claims)
    BY <2>1, <2>3 DEF JobsIn
  <2>5. PICK t : t = TokenIn(claims, j)
    OBVIOUS
  <2>6. PICK k \in 1 .. Len(claims) : claims[k].job = j /\ claims[k].token = t
    BY <2>4, <2>5, TokenIs
  <2>7. k = i
    BY <2>1, <2>6
  <2> QED
    BY <2>1, <2>2, <2>4, <2>5, <2>6, <2>7
<1>4. StoreStep({})
  BY <1>1, <1>2, BoundsAssumption DEF StoreTypes, StoresOK, StoreStep, Spares, InValkey
<1> QED
  BY <1>3, <1>4

\* The lease of a row is marked.
LEMMA MarkRow ==
    ASSUME StoreTypes, StoresOK, NEW j \in Job, NEW b \in BOOLEAN, NEW T,
           b => row[j].status = "pending",
           ~b => row[j].token \in T,
           row' = [row EXCEPT ![j].leased = b], UNCHANGED <<payload, mixed, claim, seen>>
    PROVE  /\ StoreStep(T)
           /\ row'[j].token = row[j].token /\ row'[j].leased = b
<1>1. PICK marked : marked = [row[j] EXCEPT !.leased = b]
  OBVIOUS
<1>2. row[j] \in RowType
  BY DEF StoreTypes
<1>3. marked \in RowType
  BY <1>1, <1>2 DEF RowType
<1>4. marked.status = row[j].status /\ marked.token = row[j].token /\ marked.leased = b
  BY <1>1, <1>2 DEF RowType
<1>5. row[j].leased /\ b => marked = row[j]
  BY <1>1, <1>2 DEF RowType
<1>6. row' \in [Job -> RowType] /\ \A i \in Job : row'[i] = IF i = j THEN marked ELSE row[i]
  BY <1>1, <1>3 DEF StoreTypes
<1>7. StoreTypes' /\ StoresOK'
  BY <1>4, <1>6 DEF StoreTypes, StoresOK, InValkey
<1>8. Spares(T)
  BY <1>5, <1>6 DEF Spares, InValkey
<1> QED
  BY <1>4, <1>6, <1>7, <1>8 DEF StoreStep

\* A claim key that expires takes a lease from its own token only.
LEMMA ClaimLapseStep ==
    ASSUME StoreTypes, StoresOK, NEW j \in Job, claim' = [claim EXCEPT ![j] = NoToken],
           UNCHANGED <<row, payload, mixed, seen>>
    PROVE  StoreStep({claim[j]})
<1>1. /\ claim' \in [Job -> Tokens \cup {NoToken}]
      /\ \A i \in Job : claim'[i] = IF i = j THEN NoToken ELSE claim[i]
  BY DEF StoreTypes
<1> QED
  BY <1>1 DEF StoreTypes, StoresOK, StoreStep, Spares, InValkey

-----------------------------------------------------------------------------
(* What a step does to the executions.                                      *)

\* Two states of one execution.
Matches(e, d) == e.by = d.by /\ e.job = d.job /\ e.token = d.token

\* The step of NeverAgain, and the invariant after a step.
NoRestart == \A e \in exec' : KnownCompleted(e.by, e.job) /\ ~e.lost =>
                \E f \in exec : f.job = e.job /\ f.token = e.token
GoodStep == SchedulerInv' /\ NoRestart

\* Executions that change, or end.
LEMMA Remapped ==
    ASSUME ExecTypes, NEW f, f \in [exec -> ExecType], \A e \in exec : Matches(f[e], e),
           exec' \subseteq {f[e] : e \in exec}
    PROVE  /\ ExecTypes' /\ NoRestart
           /\ \A r \in Runtime : /\ Cardinality(Executing(r)) \in Nat /\ Cardinality(Executing(r)') \in Nat
                                 /\ Cardinality(Executing(r)') <= Cardinality(Executing(r))
           /\ \A e \in exec' : \E d \in exec : e = f[d] /\ Matches(e, d)
<1>1. \A e \in exec' : \E d \in exec : e = f[d] /\ Matches(e, d)
  OBVIOUS
<1>2. PICK image : image = {f[e] : e \in exec}
  OBVIOUS
<1>3. IsFiniteSet(image)
  BY <1>2, ImageIs DEF ExecTypes
<1>4. ExecTypes'
  <2>1. image \subseteq ExecType /\ exec' \subseteq image
    BY <1>2
  <2>2. IsFiniteSet(exec')
    BY <1>3, <2>1, FS_Subset
  <2> QED
    BY <2>1, <2>2 DEF ExecTypes, ExecType
<1>5. ASSUME NEW r \in Runtime
      PROVE  /\ Cardinality(Executing(r)) \in Nat /\ Cardinality(Executing(r)') \in Nat
             /\ Cardinality(Executing(r)') <= Cardinality(Executing(r))
  <2>1. PICK mine : mine = {e \in exec : e.by = r}
    OBVIOUS
  <2>2. PICK g : g = [e \in mine |-> f[e]]
    OBVIOUS
  <2>3. IsFiniteSet(mine)
    BY <2>1, FS_Subset DEF ExecTypes
  <2>4. PICK still : still = {g[e] : e \in mine}
    OBVIOUS
  <2>5. IsFiniteSet(still) /\ Cardinality(still) <= Cardinality(mine)
    BY <2>2, <2>3, <2>4, ImageIs
  <2>6. PICK now : now = {e \in exec' : e.by = r}
    OBVIOUS
  <2>7. now \subseteq still
    BY <1>1, <2>1, <2>2, <2>4, <2>6 DEF Matches
  <2>8. IsFiniteSet(now) /\ Cardinality(now) <= Cardinality(still)
    BY <2>5, <2>7, FS_Subset
  <2>9. Cardinality(now) \in Nat /\ Cardinality(still) \in Nat /\ Cardinality(mine) \in Nat
    BY <2>3, <2>5, <2>8, FS_CardinalityType
  <2>10. Executing(r) = mine /\ Executing(r)' = now
    BY <2>1, <2>6 DEF Executing
  <2> QED
    BY <2>5, <2>8, <2>9, <2>10
<1>6. NoRestart
  BY <1>1 DEF NoRestart, Matches
<1> QED
  BY <1>1, <1>4, <1>5, <1>6

\* The room a runtime has is between none and all its workers.
LEMMA RoomIs ==
    ASSUME StepTypes, NEW r \in Runtime
    PROVE  Room(r) \in 0 .. MaxConcurrent
BY BoundsAssumption DEF StepTypes, Room

\* A step that starts nothing and claims nothing.
LEMMA Ordinary ==
    ASSUME SchedulerInv, StepTypes', WantedTypes', NEW T, StoreStep(T),
           NEW f, f \in [exec -> ExecType], \A e \in exec : Matches(f[e], e),
           exec' \subseteq {f[e] : e \in exec},
           \A e \in exec : f[e] \in exec' => Holds(f[e])',
           \A r \in Runtime : Wanted(r)' \subseteq Wanted(r) /\ Room(r)' <= Room(r)
    PROVE  GoodStep
<1>1. /\ ExecTypes' /\ NoRestart
      /\ \A r \in Runtime : /\ Cardinality(Executing(r)) \in Nat /\ Cardinality(Executing(r)') \in Nat
                            /\ Cardinality(Executing(r)') <= Cardinality(Executing(r))
      /\ \A e \in exec' : \E d \in exec : e = f[d] /\ Matches(e, d)
  BY Remapped DEF SchedulerInv
<1>2. \A e \in exec' : Holds(e)'
  BY <1>1
<1>3. Unique'
  <2>1. ASSUME NEW e \in exec', NEW d \in exec', e.token = d.token PROVE e = d
    <3>1. PICK e1 \in exec : e = f[e1] /\ Matches(e, e1)
      BY <1>1
    <3>2. PICK d1 \in exec : d = f[d1] /\ Matches(d, d1)
      BY <1>1
    <3>3. e1 = d1
      BY <2>1, <3>1, <3>2 DEF SchedulerInv, Unique, Matches
    <3> QED
      BY <3>1, <3>2, <3>3
  <2>2. ASSUME NEW e \in exec', NEW r \in Runtime, NEW c \in Wanted(r)' PROVE c.token # e.token
    <3>1. PICK e1 \in exec : Matches(e, e1)
      BY <1>1
    <3>2. c \in Wanted(r)
      OBVIOUS
    <3> QED
      BY <3>1, <3>2 DEF SchedulerInv, Unique, Matches
  <2>3. ASSUME NEW r \in Runtime, NEW q \in Runtime, NEW c \in Wanted(r)', NEW d \in Wanted(q)',
               c.token = d.token
        PROVE  r = q /\ c = d
    BY <2>3 DEF SchedulerInv, Unique
  <2> QED
    BY <2>1, <2>2, <2>3 DEF Unique
<1>4. RoomOK'
  <2>1. ASSUME NEW r \in Runtime PROVE Cardinality(Executing(r)') + Room(r)' <= MaxConcurrent
    <3>1. Room(r) \in 0 .. MaxConcurrent /\ Room(r)' \in 0 .. MaxConcurrent
      BY RoomIs, BoundsAssumption DEF SchedulerInv, StepTypes, Room
    <3>2. Cardinality(Executing(r)) + Room(r) <= MaxConcurrent
      BY DEF SchedulerInv, RoomOK
    <3>3. Room(r)' <= Room(r)
      OBVIOUS
    <3>4. PICK a \in Nat, b \in Nat : a = Cardinality(Executing(r)) /\ b = Cardinality(Executing(r)')
      BY <1>1
    <3>5. b <= a
      BY <1>1, <3>4
    <3> QED
      BY <3>1, <3>2, <3>3, <3>4, <3>5, BoundsAssumption
  <2> QED
    BY <2>1 DEF RoomOK
<1> QED
  BY <1>1, <1>2, <1>3, <1>4 DEF GoodStep, SchedulerInv, StoreStep

\* A step after which the same executions go on, or fewer.
LEMMA NoneChanges ==
    ASSUME SchedulerInv, StepTypes', WantedTypes', NEW T, StoreStep(T), exec' \subseteq exec,
           \A e \in exec' : e.token \notin T,
           \A r \in Runtime : Wanted(r)' \subseteq Wanted(r) /\ Room(r)' <= Room(r)
    PROVE  GoodStep
<1>1. PICK f : f = [e \in exec |-> e]
  OBVIOUS
<1>2. f \in [exec -> ExecType] /\ \A e \in exec : f[e] = e /\ Matches(f[e], e)
  BY <1>1 DEF SchedulerInv, ExecTypes, Matches
<1>3. exec' \subseteq {f[e] : e \in exec}
  BY <1>2
<1>4. ASSUME NEW e \in exec, f[e] \in exec' PROVE Holds(f[e])'
  <2>1. f[e] = e /\ e.token \notin T /\ Holds(e) /\ e \in ExecType
    BY <1>2, <1>4 DEF SchedulerInv, ExecTypes
  <2>2. Holds(e)'
    BY <2>1, HoldsOn
  <2> QED
    BY <2>1, <2>2
<1> QED
  BY <1>2, <1>3, <1>4, Ordinary

\* A step of one execution, which becomes g.
LEMMA OneChanges ==
    ASSUME SchedulerInv, StepTypes', WantedTypes', NEW e \in exec, StoreStep({e.token}),
           NEW g \in ExecType, Matches(g, e), Holds(g)', ReplaceExec(e, g),
           \A r \in Runtime : Wanted(r)' \subseteq Wanted(r) /\ Room(r)' <= Room(r)
    PROVE  GoodStep
<1>1. PICK f : f = [d \in exec |-> IF d = e THEN g ELSE d]
  OBVIOUS
<1>2. f \in [exec -> ExecType] /\ \A d \in exec : Matches(f[d], d)
  BY <1>1 DEF SchedulerInv, ExecTypes, Matches
<1>3. exec' \subseteq {f[d] : d \in exec}
  BY <1>1 DEF ReplaceExec
<1>4. ASSUME NEW d \in exec PROVE Holds(f[d])'
  <2>1. CASE d = e
    BY <1>1, <2>1
  <2>2. CASE d # e
    <3>1. f[d] = d /\ d.token \notin {e.token} /\ Holds(d) /\ d \in ExecType
      BY <1>1, <2>2 DEF SchedulerInv, ExecTypes, Unique
    <3>2. Holds(d)'
      BY <3>1, HoldsOn
    <3> QED
      BY <3>1, <3>2
  <2> QED
    BY <2>1, <2>2
<1>5. \A d \in exec : f[d] \in exec' => Holds(f[d])'
  BY <1>4
<1> QED
  BY <1>2, <1>3, <1>5, Ordinary

\* A runtime starts executions, each under a token nobody else works under.
LEMMA SomeStart ==
    ASSUME SchedulerInv, StepTypes', WantedTypes', NEW T, StoreStep(T), \A e \in exec : e.token \notin T,
           NEW r \in Runtime, NEW N, N \subseteq ExecType, exec' = exec \cup N,
           IsFiniteSet(N), Cardinality(N) <= Room(r),
           \A e \in N : e.by = r /\ Holds(e)' /\ (~e.lost => ~KnownCompleted(e.by, e.job)),
           \A e, d \in N : e.token = d.token => e = d,
           \A e \in N, d \in exec : e.token # d.token,
           \A e \in N : \A q \in Runtime : \A c \in Wanted(q)' : c.token # e.token,
           \A q \in Runtime : Wanted(q)' \subseteq Wanted(q) /\ Room(q)' <= Room(q),
           Room(r)' = 0
    PROVE  GoodStep
<1>1. ExecTypes'
  <2>1. IsFiniteSet(exec) /\ exec \subseteq ExecType
    BY DEF SchedulerInv, ExecTypes
  <2>2. IsFiniteSet(exec \cup N) /\ exec \cup N \subseteq ExecType
    BY <2>1, FS_Union
  <2> QED
    BY <2>2 DEF ExecTypes, ExecType
<1>2. \A e \in exec' : Holds(e)'
  <2>1. ASSUME NEW e \in exec PROVE Holds(e)'
    <3>1. e.token \notin T /\ Holds(e) /\ e \in ExecType
      BY DEF SchedulerInv, ExecTypes
    <3> QED
      BY <3>1, HoldsOn
  <2> QED
    BY <2>1
<1>3. NoRestart
  BY DEF NoRestart
<1>4. Unique'
  <2>1. ASSUME NEW e \in exec', NEW d \in exec', e.token = d.token PROVE e = d
    <3>1. e \in exec \cup N /\ d \in exec \cup N
      OBVIOUS
    <3>2. \A x, y \in exec : x.token = y.token => x = y
      BY DEF SchedulerInv, Unique
    <3> QED
      BY <2>1, <3>1, <3>2
  <2>2. ASSUME NEW e \in exec', NEW q \in Runtime, NEW c \in Wanted(q)' PROVE c.token # e.token
    <3>1. c \in Wanted(q)
      OBVIOUS
    <3> QED
      BY <3>1 DEF SchedulerInv, Unique
  <2>3. ASSUME NEW p \in Runtime, NEW q \in Runtime, NEW c \in Wanted(p)', NEW d \in Wanted(q)',
               c.token = d.token
        PROVE  p = q /\ c = d
    BY <2>3 DEF SchedulerInv, Unique
  <2> QED
    BY <2>1, <2>2, <2>3 DEF Unique
<1>5. RoomOK'
  <2>1. ASSUME NEW q \in Runtime PROVE Cardinality(Executing(q)') + Room(q)' <= MaxConcurrent
    <3>1. Room(q) \in 0 .. MaxConcurrent /\ Room(q)' \in 0 .. MaxConcurrent
      BY RoomIs, BoundsAssumption DEF SchedulerInv, StepTypes, Room
    <3>2. Cardinality(Executing(q)) + Room(q) <= MaxConcurrent
      BY DEF SchedulerInv, RoomOK
    <3>3. PICK mine : mine = {e \in exec : e.by = q}
      OBVIOUS
    <3>4. PICK now : now = {e \in exec' : e.by = q}
      OBVIOUS
    <3>5. IsFiniteSet(mine)
      BY <3>3, FS_Subset DEF SchedulerInv, ExecTypes
    <3>6. Cardinality(mine) \in Nat /\ Cardinality(N) \in Nat
      BY <3>5, FS_CardinalityType
    <3>7. Executing(q) = mine /\ Executing(q)' = now
      BY <3>3, <3>4 DEF Executing
    <3>8. CASE q # r
      <4>1. now = mine
        BY <3>3, <3>4, <3>8
      <4> QED
        BY <3>1, <3>2, <3>6, <3>7, <4>1, BoundsAssumption
    <3>9. CASE q = r
      <4>1. now = mine \cup N
        BY <3>3, <3>4, <3>9
      <4>2. mine \cap N = {}
        BY <3>3
      <4>3. Cardinality(mine \cap N) = 0
        BY <4>2, FS_EmptySet
      <4>4. Cardinality(now) = Cardinality(mine) + Cardinality(N) - Cardinality(mine \cap N)
        BY <3>5, <4>1, FS_Union
      <4>5. PICK a \in Nat, b \in Nat : a = Cardinality(mine) /\ b = Cardinality(N)
        BY <3>6
      <4>6. Cardinality(now) = a + b
        BY <4>3, <4>4, <4>5
      <4>7. b <= Room(q) /\ Room(q)' = 0 /\ a + Room(q) <= MaxConcurrent
        BY <3>2, <3>7, <3>9, <4>5
      <4> QED
        BY <3>1, <3>7, <4>6, <4>7, BoundsAssumption
    <3> QED
      BY <3>8, <3>9
  <2> QED
    BY <2>1 DEF RoomOK
<1> QED
  BY <1>1, <1>2, <1>3, <1>4, <1>5 DEF GoodStep, SchedulerInv, StoreStep

\* A runtime claims under new tokens.
LEMMA SomeClaimed ==
    ASSUME SchedulerInv, StepTypes', WantedTypes', StoreStep({}), exec' = exec,
           NEW r \in Runtime, NEW C, C \subseteq Claim,
           \A c \in C : c.token \notin LiveTokens,
           \A c, d \in C : c.token = d.token => c = d,
           \A q \in Runtime : /\ Wanted(q)' \subseteq Wanted(q) \cup (IF q = r THEN C ELSE {})
                              /\ Room(q)' <= Room(q)
    PROVE  GoodStep
<1>1. ExecTypes' /\ NoRestart
  BY DEF SchedulerInv, ExecTypes, ExecType, NoRestart
<1>2. ASSUME NEW e \in exec' PROVE Holds(e)'
  <2>1. e.token \notin {} /\ Holds(e) /\ e \in ExecType
    BY DEF SchedulerInv, ExecTypes
  <2> QED
    BY <2>1, HoldsOn
<1>3. Unique'
  <2>1. StoreTypes /\ WantedTypes /\ ExecTypes /\ Unique
    BY DEF SchedulerInv
  <2>2. /\ \A e \in exec : e.token \in LiveTokens
        /\ \A q \in Runtime : \A c \in Wanted(q) : c.token \in LiveTokens
    BY <2>1, LiveAre
  <2>3. ASSUME NEW q \in Runtime, NEW c \in Wanted(q)'
        PROVE  c \in Wanted(q) \/ (q = r /\ c \in C)
    OBVIOUS
  <2>4. ASSUME NEW e \in exec', NEW q \in Runtime, NEW c \in Wanted(q)' PROVE c.token # e.token
    BY <2>1, <2>2, <2>3 DEF Unique
  <2>5. ASSUME NEW p \in Runtime, NEW q \in Runtime, NEW c \in Wanted(p)', NEW d \in Wanted(q)',
               c.token = d.token
        PROVE  p = q /\ c = d
    <3>1. CASE c \in Wanted(p) /\ d \in Wanted(q)
      BY <2>1, <2>5, <3>1 DEF Unique
    <3>2. CASE p = r /\ q = r /\ c \in C /\ d \in C
      BY <2>5, <3>2
    <3>3. CASE c \in Wanted(p) /\ d \in C
      BY <2>2, <2>5, <3>3
    <3>4. CASE c \in C /\ d \in Wanted(q)
      BY <2>2, <2>5, <3>4
    <3> QED
      BY <2>3, <3>1, <3>2, <3>3, <3>4
  <2> QED
    BY <2>1, <2>4, <2>5 DEF Unique
<1>4. RoomOK'
  <2>1. ASSUME NEW q \in Runtime PROVE Cardinality(Executing(q)') + Room(q)' <= MaxConcurrent
    <3>1. Room(q) \in 0 .. MaxConcurrent /\ Room(q)' \in 0 .. MaxConcurrent
      BY RoomIs, BoundsAssumption DEF SchedulerInv, StepTypes, Room
    <3>2. Cardinality(Executing(q)) + Room(q) <= MaxConcurrent /\ Room(q)' <= Room(q)
      BY DEF SchedulerInv, RoomOK
    <3>3. PICK mine : mine = {e \in exec : e.by = q}
      OBVIOUS
    <3>4. Executing(q) = mine /\ Executing(q)' = mine
      BY <3>3 DEF Executing
    <3>5. IsFiniteSet(mine)
      BY <3>3, FS_Subset DEF SchedulerInv, ExecTypes
    <3>6. PICK a \in Nat : a = Cardinality(mine)
      BY <3>5, FS_CardinalityType
    <3> QED
      BY <3>1, <3>2, <3>4, <3>6, BoundsAssumption
  <2> QED
    BY <2>1 DEF RoomOK
<1> QED
  BY <1>1, <1>2, <1>3, <1>4 DEF GoodStep, SchedulerInv, StoreStep

-----------------------------------------------------------------------------
(* The steps.                                                               *)

\* The next occurrence of a cron is at the boundary of an interval, and its
\* stagger after it.
LEMMA NextIs ==
    ASSUME NEW c \in Cron, NEW t \in Nat
    PROVE  Next1(c, t) \in Nat /\ Next1(c, t) \in RunTimes(c)
<1>1. PICK n \in Nat : n = Interval /\ n > 0
  BY BoundsAssumption
<1>2. PICK o \in Nat : o = Offset[c] /\ o <= n - 1
  BY <1>1, BoundsAssumption
<1>3. PICK d \in Int : d = (t - o) \div n
  BY <1>1, <1>2
<1>4. d >= 0 - 1
  <2>1. t - o = n * d + ((t - o) % n) /\ (t - o) % n \in 0 .. n - 1
    BY <1>1, <1>2, <1>3
  <2>2. t - o >= 0 - (n - 1)
    BY <1>1, <1>2
  <2>3. d + 1 >= 0
    <3>1. CASE d + 1 < 0
      <4>1. n * d <= n * (0 - 2)
        BY <1>1, <1>3, <3>1
      <4>2. (t - o) % n <= n - 1 /\ (t - o) % n \in Int
        BY <1>1, <2>1
      <4> QED
        BY <1>1, <1>2, <1>3, <2>1, <2>2, <4>1, <4>2
    <3> QED
      BY <1>3, <3>1
  <2> QED
    BY <1>3, <2>3
<1>5. PICK k \in Nat : k = d + 1
  BY <1>3, <1>4
<1>6. Next1(c, t) = k * Interval + Offset[c]
  BY <1>1, <1>2, <1>3, <1>5 DEF Next1
<1>7. k * n \in Nat
  BY <1>1, <1>5
<1>8. k * n + o \in Nat
  BY <1>2, <1>7
<1> QED
  BY <1>1, <1>2, <1>5, <1>6, <1>8 DEF RunTimes

\* The occurrence of a run time within the horizon.
LEMMA CronJobIs ==
    ASSUME NEW c \in Cron, NEW at \in RunTimes(c), at <= Horizon
    PROVE  CronJob(c, at) \in Job
<1>1. PICK k \in Nat : at = k * Interval + Offset[c]
  BY DEF RunTimes
<1>2. PICK n \in Nat : n = Interval /\ n > 0
  BY BoundsAssumption
<1>3. PICK o \in Nat : o = Offset[c]
  BY BoundsAssumption
<1>4. PICK m \in Nat : m = k * n
  BY <1>1, <1>2
<1>5. k <= m
  BY <1>1, <1>2, <1>4
<1>6. m + o <= Horizon /\ Horizon \in Nat
  BY <1>1, <1>2, <1>3, <1>4, BoundsAssumption
<1>7. m <= Horizon /\ k <= Horizon
  BY <1>3, <1>4, <1>5, <1>6
<1>8. at - Offset[c] = m
  BY <1>1, <1>2, <1>3, <1>4
<1>9. m \in Boundary \cap 0..Horizon
  BY <1>2, <1>4, <1>6, <1>7 DEF Boundary
<1> QED
  BY <1>8, <1>9 DEF CronJob, Job

\* The faults stay within their bound.
LEMMA FaultIs ==
    ASSUME StepTypes, jobFaults' = jobFaults \/ \E kind : JobFault(kind)
    PROVE  jobFaults' \in 0 .. MaxJobFaults
BY BoundsAssumption DEF StepTypes, JobFault

\* A step that leaves the loop of the runtimes alone.
LEMMA StepRest ==
    ASSUME StepTypes, UNCHANGED <<clock, up, nextRun, pc, room, tx>>,
           jobFaults' = jobFaults \/ \E kind : JobFault(kind)
    PROVE  StepTypes' /\ \A r \in Runtime : Room(r)' <= Room(r)
<1>1. jobFaults' \in 0 .. MaxJobFaults
  BY FaultIs
<1>2. \A r \in Runtime : Room(r) \in 0 .. MaxConcurrent /\ Room(r)' = Room(r)
  BY RoomIs DEF Room
<1> QED
  BY <1>1, <1>2, BoundsAssumption DEF StepTypes

\* A step that leaves the batches alone.
LEMMA WantedRest ==
    ASSUME WantedTypes, UNCHANGED <<batch, picked>>
    PROVE  WantedTypes' /\ \A r \in Runtime : Wanted(r)' \subseteq Wanted(r)
BY DEF WantedTypes, Wanted

\* renew extends the leases of an execution, or cancels it.
LEMMA RenewStep ==
    ASSUME SchedulerInv, NEW e \in exec, Renew(e)
    PROVE  GoodStep
<1>1. e \in ExecType /\ e.job \in Job /\ e.token \in Tokens /\ Holds(e)
  BY DEF SchedulerInv, ExecTypes, ExecType
<1>2. /\ StepTypes' /\ \A r \in Runtime : Room(r)' <= Room(r)
      /\ WantedTypes' /\ \A r \in Runtime : Wanted(r)' \subseteq Wanted(r)
  BY StepRest, WantedRest DEF SchedulerInv, Renew
<1>3. PICK alive \in BOOLEAN : ReplaceExec(e, [e EXCEPT !.ctx = alive])
  BY DEF Renew
<1>4. PICK g : g = [e EXCEPT !.ctx = alive]
  OBVIOUS
<1>5. g \in ExecType
  BY <1>1, <1>4 DEF ExecType
<1>6. g.by = e.by /\ g.job = e.job /\ g.token = e.token /\ g.at = e.at /\ g.lost = e.lost
  BY <1>1, <1>4 DEF ExecType
<1>7. StoreStep({})
  <2>1. UNCHANGED <<payload, mixed, claim, seen>>
    BY DEF Renew
  <2>2. CASE row' = row
    BY <2>1, <2>2, StoresRest DEF SchedulerInv, stores
  <2>3. CASE row' = [row EXCEPT ![e.job].leased = TRUE] /\ row[e.job].status = "pending"
    <3>1. StoreTypes /\ StoresOK /\ TRUE \in BOOLEAN
      BY DEF SchedulerInv
    <3> QED
      BY <1>1, <2>1, <2>3, <3>1, MarkRow
  <2> QED
    BY <2>2, <2>3 DEF Renew
<1>8. Holds(e)'
  BY <1>1, <1>7, HoldsOn
<1>9. Holds(g)'
  BY <1>6, <1>8 DEF Holds
<1>10. StoreStep({e.token})
  BY <1>7, SparesMore
<1>11. Matches(g, e) /\ ReplaceExec(e, g)
  BY <1>3, <1>4, <1>6 DEF Matches
<1> QED
  BY <1>2, <1>5, <1>9, <1>10, <1>11, OneChanges

\* The execution goes on, or fails, without a call of the stores.
LEMMA QuietStep ==
    ASSUME SchedulerInv, NEW e \in exec, RenewFails(e) \/ Return(e) \/ InterruptJob(e)
    PROVE  GoodStep
<1>1. e \in ExecType /\ Holds(e) /\ e.at = "running"
  BY DEF SchedulerInv, ExecTypes, RenewFails, Return, InterruptJob
<1>2. /\ UNCHANGED <<clock, up, nextRun, pc, room, tx, batch, picked, stores>>
      /\ jobFaults' = jobFaults \/ \E kind : JobFault(kind)
  BY DEF RenewFails, Return, InterruptJob
<1>3. /\ StepTypes' /\ \A r \in Runtime : Room(r)' <= Room(r)
      /\ WantedTypes' /\ \A r \in Runtime : Wanted(r)' \subseteq Wanted(r)
  BY <1>2, StepRest, WantedRest DEF SchedulerInv
<1>4. StoreStep({})
  BY <1>2, StoresRest DEF SchedulerInv
<1>5. PICK g : /\ ReplaceExec(e, g)
               /\ \/ g = [e EXCEPT !.ctx = FALSE]
                  \/ g = [e EXCEPT !.at = "returned"]
                  \/ g = [e EXCEPT !.at = "interrupted"]
  BY DEF RenewFails, Return, InterruptJob
<1>6. g \in ExecType
  BY <1>1, <1>5 DEF ExecType
<1>7. g.by = e.by /\ g.job = e.job /\ g.token = e.token /\ g.lost = e.lost /\ g.at # "half"
  BY <1>1, <1>5 DEF ExecType
<1>8. Holds(e)'
  BY <1>1, <1>4, HoldsOn
<1>9. Holds(g)'
  BY <1>1, <1>7, <1>8 DEF Holds
<1>10. StoreStep({e.token})
  BY <1>4, SparesMore
<1>11. Matches(g, e)
  BY <1>7 DEF Matches
<1> QED
  BY <1>3, <1>5, <1>6, <1>9, <1>10, <1>11, OneChanges

\* An execution ends.
LEMMA OneEnds ==
    ASSUME SchedulerInv, NEW e \in exec, StoreStep({e.token}), exec' = exec \ {e},
           UNCHANGED <<clock, up, nextRun, pc, room, tx, batch, picked>>,
           jobFaults' = jobFaults \/ \E kind : JobFault(kind)
    PROVE  GoodStep
<1>1. /\ StepTypes' /\ \A r \in Runtime : Room(r)' <= Room(r)
      /\ WantedTypes' /\ \A r \in Runtime : Wanted(r)' \subseteq Wanted(r)
  BY StepRest, WantedRest DEF SchedulerInv
<1>2. \A d \in exec' : d \in exec /\ d.token \notin {e.token}
  BY DEF SchedulerInv, Unique
<1>3. exec' \subseteq exec
  OBVIOUS
<1> QED
  BY <1>1, <1>2, <1>3, NoneChanges

\* The first half of complete: from the claim key to the completion in Valkey.
LEMMA CompleteInValkeyStep ==
    ASSUME SchedulerInv, NEW e \in exec, CompleteInValkey(e)
    PROVE  GoodStep
<1>1. e \in ExecType /\ e.job \in Job /\ e.token \in Tokens /\ Holds(e) /\ e.at = "returned"
  BY DEF SchedulerInv, ExecTypes, ExecType, CompleteInValkey
<1>2. StoreStep({e.token}) /\ (claim[e.job] = e.token => InValkey(e.job)')
  BY <1>1, CompleteValkeyStep DEF SchedulerInv, CompleteInValkey
<1>3. /\ UNCHANGED <<clock, up, nextRun, pc, room, tx, batch, picked, row>>
      /\ jobFaults' = jobFaults
  BY DEF CompleteInValkey
<1>4. CASE e.by \in Legacy
  <2>1. exec' = exec \ {e}
    BY <1>4 DEF CompleteInValkey
  <2> QED
    BY <1>2, <1>3, <2>1, OneEnds
<1>5. CASE e.by \notin Legacy
  <2>1. /\ StepTypes' /\ \A r \in Runtime : Room(r)' <= Room(r)
        /\ WantedTypes' /\ \A r \in Runtime : Wanted(r)' \subseteq Wanted(r)
    BY <1>3, StepRest, WantedRest DEF SchedulerInv
  <2>2. PICK g : g = [e EXCEPT !.at = "half"]
    OBVIOUS
  <2>3. ReplaceExec(e, g)
    BY <1>5, <2>2 DEF CompleteInValkey
  <2>4. g \in ExecType
    BY <1>1, <2>2 DEF ExecType
  <2>5. g.by = e.by /\ g.job = e.job /\ g.token = e.token /\ g.lost = e.lost /\ g.at = "half"
    BY <1>1, <2>2 DEF ExecType
  <2>6. Holds(g)'
    BY <1>1, <1>2, <1>3, <1>5, <2>5 DEF Holds
  <2>7. Matches(g, e)
    BY <2>5 DEF Matches
  <2> QED
    BY <1>2, <2>1, <2>3, <2>4, <2>6, <2>7, OneChanges
<1> QED
  BY <1>4, <1>5

\* An execution ends: completed, given up or released.
LEMMA LastStep ==
    ASSUME SchedulerInv, NEW e \in exec, CompleteInPostgres(e) \/ CompleteGivesUp(e) \/ ReleaseJob(e)
    PROVE  GoodStep
<1>1. e.job \in Job /\ e.token \in Tokens /\ StoreTypes /\ StoresOK
  BY DEF SchedulerInv, ExecTypes, ExecType
<1>2. StoreStep({e.token})
  <2>1. CASE CompleteInPostgres(e)
    BY <1>1, <2>1, CompletePostgresStep DEF CompleteInPostgres
  <2>2. CASE CompleteGivesUp(e)
    <3>1. StoreStep({})
      BY <1>1, <2>2, StoresRest DEF CompleteGivesUp
    <3> QED
      BY <3>1, SparesMore
  <2>3. CASE ReleaseJob(e)
    <3>1. PICK c : c = [job |-> e.job, token |-> e.token]
      OBVIOUS
    <3>2. /\ row' = row \/ row' = ReleasePostgres(row, {c})
          /\ claim' = claim \/ claim' = ReleaseValkey(claim, {c})
          /\ UNCHANGED <<payload, mixed, seen>>
      BY <2>3, <3>1 DEF ReleaseJob
    <3>3. \A d \in {c} \cup {c} : d.token \in {e.token}
      BY <3>1
    <3> QED
      BY <1>1, <3>2, <3>3, ReleaseStep
  <2> QED
    BY <2>1, <2>2, <2>3
<1>3. exec' = exec \ {e}
  BY DEF CompleteInPostgres, CompleteGivesUp, ReleaseJob
<1>4. /\ UNCHANGED <<clock, up, nextRun, pc, room, tx, batch, picked>>
      /\ jobFaults' = jobFaults \/ \E kind : JobFault(kind)
  BY DEF CompleteInPostgres, CompleteGivesUp, ReleaseJob
<1> QED
  BY <1>2, <1>3, <1>4, OneEnds

\* Registrations that move on to the first run time after the clock.
LEMMA RunsAre ==
    ASSUME StepTypes, NEW r \in Runtime, NEW D,
           nextRun' = [nextRun EXCEPT ![r] = [c \in Cron |-> IF c \in D THEN Next1(c, clock) ELSE nextRun[r][c]]]
    PROVE  /\ nextRun' \in [Runtime -> [Cron -> Nat]]
           /\ \A q \in Runtime : \A c \in Cron : nextRun'[q][c] \in RunTimes(c)
<1>1. clock \in Nat
  BY BoundsAssumption DEF StepTypes
<1>2. PICK runs : runs = [c \in Cron |-> IF c \in D THEN Next1(c, clock) ELSE nextRun[r][c]]
  OBVIOUS
<1>3. \A c \in Cron : runs[c] \in Nat /\ runs[c] \in RunTimes(c)
  BY <1>1, <1>2, NextIs DEF StepTypes
<1>4. runs \in [Cron -> Nat]
  BY <1>2, <1>3
<1>5. nextRun \in [Runtime -> [Cron -> Nat]] /\ nextRun' = [nextRun EXCEPT ![r] = runs]
  BY <1>2 DEF StepTypes
<1>6. nextRun' \in [Runtime -> [Cron -> Nat]] /\ \A q \in Runtime : nextRun'[q] = IF q = r THEN runs ELSE nextRun[q]
  BY <1>4, <1>5
<1> QED
  BY <1>3, <1>6 DEF StepTypes

\* A runtime computes the next occurrence of its crons anew.
LEMMA RunsAgain ==
    ASSUME StepTypes, NEW r \in Runtime, nextRun' = [nextRun EXCEPT ![r] = [c \in Cron |-> Next1(c, clock)]]
    PROVE  /\ nextRun' \in [Runtime -> [Cron -> Nat]]
           /\ \A q \in Runtime : \A c \in Cron : nextRun'[q][c] \in RunTimes(c)
<1>1. [c \in Cron |-> Next1(c, clock)] = [c \in Cron |-> IF c \in Cron THEN Next1(c, clock) ELSE nextRun[r][c]]
  OBVIOUS
<1>2. nextRun' = [nextRun EXCEPT ![r] = [c \in Cron |-> IF c \in Cron THEN Next1(c, clock) ELSE nextRun[r][c]]]
  BY <1>1
<1> QED
  BY <1>2, RunsAre

\* A mutation schedules jobs, commits or is rolled back.
LEMMA TxStep ==
    ASSUME SchedulerInv, NEW r \in Runtime,
           CommitJobs(r) \/ Rollback(r) \/ \E j \in OneShot : Schedule(r, j) \/ PublishJobs(r, j)
    PROVE  GoodStep
<1>1. /\ UNCHANGED <<clock, up, nextRun, pc, room, batch, picked, exec>>
      /\ jobFaults' = jobFaults \/ \E kind : JobFault(kind)
  BY DEF CommitJobs, Rollback, Schedule, PublishJobs
<1>2. StoreStep({})
  <2>1. CASE UNCHANGED stores
    BY <2>1, StoresRest DEF SchedulerInv
  <2>2. CASE \E j \in OneShot : EnqueueJobs(r, {j})
    <3>1. PICK j \in OneShot : EnqueueJobs(r, {j})
      BY <2>2
    <3>2. {j} \subseteq Job
      BY DEF Job
    <3> QED
      BY <3>1, <3>2, EnqueueStep DEF SchedulerInv
  <2>3. UNCHANGED stores \/ \E j \in OneShot : EnqueueJobs(r, {j})
    BY DEF CommitJobs, Rollback, Schedule, PublishJobs
  <2> QED
    BY <2>1, <2>2, <2>3
<1>3. tx' \in [Runtime -> [job : SUBSET OneShot, committed : BOOLEAN]]
  <2>1. tx \in [Runtime -> [job : SUBSET OneShot, committed : BOOLEAN]]
    BY DEF SchedulerInv, StepTypes
  <2>2. Blank \in [job : SUBSET OneShot, committed : BOOLEAN]
    BY DEF Blank
  <2>3. CASE CommitJobs(r)
    BY <2>1, <2>3 DEF CommitJobs
  <2>4. CASE Rollback(r)
    BY <2>1, <2>2, <2>4 DEF Rollback
  <2>5. CASE \E j \in OneShot : Schedule(r, j)
    BY <2>1, <2>5 DEF Schedule
  <2>6. CASE \E j \in OneShot : PublishJobs(r, j)
    <3>1. PICK j \in OneShot : PublishJobs(r, j)
      BY <2>6
    <3>2. tx' = [tx EXCEPT ![r] = IF tx[r].job = {j} THEN Blank
                                  ELSE [tx[r] EXCEPT !.job = tx[r].job \ {j}]]
      BY <3>1, Zenon DEF PublishJobs
    <3>3. PICK left : left = [tx[r] EXCEPT !.job = tx[r].job \ {j}]
      OBVIOUS
    <3>4. left \in [job : SUBSET OneShot, committed : BOOLEAN]
      BY <2>1, <3>3
    <3>5. PICK new : new = IF tx[r].job = {j} THEN Blank ELSE left
      OBVIOUS
    <3>6. new \in [job : SUBSET OneShot, committed : BOOLEAN] /\ tx' = [tx EXCEPT ![r] = new]
      BY <2>2, <3>2, <3>3, <3>4, <3>5
    <3> QED
      BY <2>1, <3>6
  <2> QED
    BY <2>3, <2>4, <2>5, <2>6
<1>4. jobFaults' \in 0 .. MaxJobFaults
  BY <1>1, FaultIs DEF SchedulerInv
<1>5. StepTypes'
  BY <1>1, <1>3, <1>4 DEF SchedulerInv, StepTypes
<1>6. WantedTypes' /\ \A q \in Runtime : Wanted(q)' \subseteq Wanted(q)
  BY <1>1, WantedRest DEF SchedulerInv
<1>7. \A q \in Runtime : Room(q)' <= Room(q)
  <2>1. ASSUME NEW q \in Runtime PROVE Room(q)' <= Room(q)
    <3>1. Room(q)' = Room(q) /\ Room(q) \in 0 .. MaxConcurrent
      BY <1>1, RoomIs DEF SchedulerInv, Room
    <3> QED
      BY <3>1, BoundsAssumption
  <2> QED
    BY <2>1
<1>8. exec' \subseteq exec /\ \A e \in exec' : e.token \notin {}
  BY <1>1
<1> QED
  BY <1>2, <1>5, <1>6, <1>7, <1>8, NoneChanges

\* Time passes.
LEMMA TickStep ==
    ASSUME SchedulerInv, Tick
    PROVE  GoodStep
<1>1. StoreStep({})
  BY StoresRest DEF SchedulerInv, Tick
<1>2. StepTypes'
  BY BoundsAssumption DEF SchedulerInv, StepTypes, Tick
<1>3. WantedTypes' /\ \A q \in Runtime : Wanted(q)' \subseteq Wanted(q)
  BY WantedRest DEF SchedulerInv, Tick
<1>4. \A q \in Runtime : Room(q)' <= Room(q)
  <2>1. ASSUME NEW q \in Runtime PROVE Room(q)' <= Room(q)
    <3>1. Room(q)' = Room(q) /\ Room(q) \in 0 .. MaxConcurrent
      BY RoomIs DEF SchedulerInv, Room, Tick
    <3> QED
      BY <3>1, BoundsAssumption
  <2> QED
    BY <2>1
<1>5. exec' \subseteq exec /\ \A e \in exec' : e.token \notin {}
  BY DEF Tick
<1> QED
  BY <1>1, <1>2, <1>3, <1>4, <1>5, NoneChanges

\* A process registers its crons, and one that has ended does it anew.
LEMMA RegisterStep ==
    ASSUME SchedulerInv, NEW r \in Runtime, SyncCrons(r) \/ Restart(r)
    PROVE  GoodStep
<1>1. /\ UNCHANGED <<clock, pc, room, batch, picked, exec, stores, tx, jobFaults>>
      /\ up' \in [Runtime -> BOOLEAN]
      /\ nextRun' = [nextRun EXCEPT ![r] = [c \in Cron |-> Next1(c, clock)]]
  BY DEF SchedulerInv, StepTypes, SyncCrons, Restart
<1>2. StoreStep({})
  BY <1>1, StoresRest DEF SchedulerInv
<1>3. /\ nextRun' \in [Runtime -> [Cron -> Nat]]
      /\ \A q \in Runtime : \A c \in Cron : nextRun'[q][c] \in RunTimes(c)
  BY <1>1, RunsAgain DEF SchedulerInv
<1>4. StepTypes'
  BY <1>1, <1>3 DEF SchedulerInv, StepTypes
<1>5. WantedTypes' /\ \A q \in Runtime : Wanted(q)' \subseteq Wanted(q)
  BY <1>1, WantedRest DEF SchedulerInv
<1>6. \A q \in Runtime : Room(q)' <= Room(q)
  <2>1. ASSUME NEW q \in Runtime PROVE Room(q)' <= Room(q)
    <3>1. Room(q)' = Room(q) /\ Room(q) \in 0 .. MaxConcurrent
      BY <1>1, RoomIs DEF SchedulerInv, Room
    <3> QED
      BY <3>1, BoundsAssumption
  <2> QED
    BY <2>1
<1>7. exec' \subseteq exec /\ \A e \in exec' : e.token \notin {}
  BY <1>1
<1> QED
  BY <1>2, <1>4, <1>5, <1>6, <1>7, NoneChanges

\* The step of a process is given up.
LEMMA ForgetIs ==
    ASSUME SchedulerInv, NEW r \in Runtime, Forget(r), room' = room
    PROVE  /\ WantedTypes' /\ pc' \in [Runtime -> {"idle", "claim", "adopt", "guard"}]
           /\ \A q \in Runtime : Wanted(q)' \subseteq Wanted(q) /\ Room(q)' <= Room(q)
<1>1. /\ batch \in [Runtime -> Seq(Claim)] /\ picked \in [Runtime -> Seq(Claim)]
      /\ pc \in [Runtime -> {"idle", "claim", "adopt", "guard"}]
  BY DEF SchedulerInv, WantedTypes, StepTypes
<1>2. /\ batch' \in [Runtime -> Seq(Claim)] /\ picked' \in [Runtime -> Seq(Claim)]
      /\ pc' \in [Runtime -> {"idle", "claim", "adopt", "guard"}]
  BY <1>1, NothingWanted DEF Forget
<1>3. ASSUME NEW q \in Runtime PROVE Wanted(q)' \subseteq Wanted(q) /\ Room(q)' <= Room(q)
  <2>1. Room(q) \in 0 .. MaxConcurrent
    BY RoomIs DEF SchedulerInv
  <2>2. CASE q = r
    <3>1. batch'[q] = <<>> /\ picked'[q] = <<>> /\ pc'[q] = "idle"
      BY <1>1, <2>2 DEF Forget
    <3>2. Wanted(q)' = {} /\ Room(q)' = 0
      BY <3>1, NothingWanted DEF Wanted, Room
    <3> QED
      BY <2>1, <3>2, BoundsAssumption
  <2>3. CASE q # r
    <3>1. batch'[q] = batch[q] /\ picked'[q] = picked[q] /\ pc'[q] = pc[q]
      BY <1>1, <2>3 DEF Forget
    <3>2. Wanted(q)' = Wanted(q) /\ Room(q)' = Room(q)
      BY <3>1 DEF Wanted, Room
    <3> QED
      BY <2>1, <3>2, BoundsAssumption
  <2> QED
    BY <2>2, <2>3
<1> QED
  BY <1>2, <1>3 DEF WantedTypes

\* A crash leaves the leases of a runtime behind, and nobody to use them.
LEMMA CrashStep ==
    ASSUME SchedulerInv, NEW r \in Runtime, CrashRuntime(r)
    PROVE  GoodStep
<1>1. StoreStep({})
  BY StoresRest DEF SchedulerInv, CrashRuntime
<1>2. /\ WantedTypes' /\ pc' \in [Runtime -> {"idle", "claim", "adopt", "guard"}]
      /\ \A q \in Runtime : Wanted(q)' \subseteq Wanted(q) /\ Room(q)' <= Room(q)
  BY ForgetIs DEF CrashRuntime
<1>3. StepTypes'
  <2>1. StepTypes
    BY DEF SchedulerInv
  <2>2. jobFaults' \in 0 .. MaxJobFaults
    BY <2>1, FaultIs DEF CrashRuntime
  <2>3. /\ nextRun' \in [Runtime -> [Cron -> Nat]]
        /\ \A q \in Runtime : \A c \in Cron : nextRun'[q][c] \in RunTimes(c)
    BY <2>1, RunsAgain DEF CrashRuntime
  <2>4. tx' \in [Runtime -> [job : SUBSET OneShot, committed : BOOLEAN]]
    <3>1. Blank \in [job : SUBSET OneShot, committed : BOOLEAN]
      BY DEF Blank
    <3> QED
      BY <2>1, <3>1 DEF StepTypes, CrashRuntime
  <2>5. up' \in [Runtime -> BOOLEAN]
    BY <2>1 DEF StepTypes, CrashRuntime
  <2> QED
    BY <1>2, <2>1, <2>2, <2>3, <2>4, <2>5 DEF StepTypes, CrashRuntime
<1>4. exec' \subseteq exec /\ \A e \in exec' : e.token \notin {}
  BY DEF CrashRuntime
<1> QED
  BY <1>1, <1>2, <1>3, <1>4, NoneChanges

\* A stop interrupts the executions of a runtime and forgets its batch.
LEMMA StopStep ==
    ASSUME SchedulerInv, NEW r \in Runtime, StopRuntime(r)
    PROVE  GoodStep
<1>1. StoreStep({})
  BY StoresRest DEF SchedulerInv, StopRuntime
<1>2. /\ WantedTypes' /\ pc' \in [Runtime -> {"idle", "claim", "adopt", "guard"}]
      /\ \A q \in Runtime : Wanted(q)' \subseteq Wanted(q) /\ Room(q)' <= Room(q)
  BY ForgetIs DEF StopRuntime
<1>3. StepTypes'
  <2>1. StepTypes
    BY DEF SchedulerInv
  <2>2. jobFaults' \in 0 .. MaxJobFaults
    BY <2>1, FaultIs DEF StopRuntime
  <2>3. up' \in [Runtime -> BOOLEAN]
    BY <2>1 DEF StepTypes, StopRuntime
  <2> QED
    BY <1>2, <2>1, <2>2, <2>3 DEF StepTypes, StopRuntime
<1>4. PICK f : f = [e \in exec |-> IF e.by = r /\ e.at = "running" THEN [e EXCEPT !.ctx = FALSE] ELSE e]
  OBVIOUS
<1>5. exec' = {f[e] : e \in exec}
  BY <1>4 DEF StopRuntime
<1>6. ASSUME NEW e \in exec
      PROVE  /\ f[e] \in ExecType /\ f[e].by = e.by /\ f[e].job = e.job /\ f[e].token = e.token
             /\ f[e].lost = e.lost /\ f[e].at = e.at
  <2>1. e \in ExecType /\ f[e] \in {e, [e EXCEPT !.ctx = FALSE]}
    BY <1>4 DEF SchedulerInv, ExecTypes
  <2>2. CASE f[e] = e
    BY <2>1, <2>2
  <2>3. CASE f[e] = [e EXCEPT !.ctx = FALSE]
    <3>1. [e EXCEPT !.ctx = FALSE] \in ExecType
      BY <2>1 DEF ExecType
    <3> QED
      BY <2>1, <2>3, <3>1 DEF ExecType
  <2> QED
    BY <2>1, <2>2, <2>3
<1>7. f \in [exec -> ExecType] /\ \A e \in exec : Matches(f[e], e)
  BY <1>4, <1>6 DEF Matches
<1>8. ASSUME NEW e \in exec PROVE Holds(f[e])'
  <2>1. e \in ExecType /\ Holds(e) /\ e.token \notin {}
    BY DEF SchedulerInv, ExecTypes
  <2>2. Holds(e)'
    BY <1>1, <2>1, HoldsOn
  <2>3. PICK g : g = f[e]
    OBVIOUS
  <2>4. g.by = e.by /\ g.job = e.job /\ g.token = e.token /\ g.lost = e.lost /\ g.at = e.at
    BY <1>6, <2>3
  <2>5. Holds(g)'
    BY <2>2, <2>4 DEF Holds
  <2> QED
    BY <2>3, <2>5
<1>9. \A e \in exec : f[e] \in exec' => Holds(f[e])'
  BY <1>8
<1>10. exec' \subseteq {f[e] : e \in exec}
  BY <1>5
<1> QED
  BY <1>1, <1>2, <1>3, <1>7, <1>9, <1>10, Ordinary

\* A lease of the token t ends, and who works under it is told.
LEMMA LapseIs ==
    ASSUME SchedulerInv, NEW t, Lapse(t), StoreStep({t}),
           UNCHANGED <<clock, up, nextRun, pc, room, batch, picked, tx>>
    PROVE  GoodStep
<1>1. jobFaults' = jobFaults \/ \E kind : JobFault(kind)
  BY DEF Lapse
<1>2. /\ StepTypes' /\ \A r \in Runtime : Room(r)' <= Room(r)
      /\ WantedTypes' /\ \A r \in Runtime : Wanted(r)' \subseteq Wanted(r)
  BY <1>1, StepRest, WantedRest DEF SchedulerInv
<1>3. PICK f : f = [e \in exec |-> [e EXCEPT !.lost = e.lost \/ e.token = t]]
  OBVIOUS
<1>4. exec' = {f[e] : e \in exec}
  BY <1>3 DEF Lapse
<1>5. ASSUME NEW e \in exec
      PROVE  /\ f[e] \in ExecType /\ f[e].by = e.by /\ f[e].job = e.job /\ f[e].token = e.token
             /\ f[e].at = e.at /\ f[e].lost = (e.lost \/ e.token = t)
  <2>1. e \in ExecType
    BY DEF SchedulerInv, ExecTypes
  <2>2. PICK b \in BOOLEAN : b = (e.lost \/ e.token = t)
    OBVIOUS
  <2>3. f[e] = [e EXCEPT !.lost = b]
    BY <1>3, <2>2
  <2>4. [e EXCEPT !.lost = b] \in ExecType
    BY <2>1 DEF ExecType
  <2>5. f[e].lost = b
    BY <2>1, <2>3 DEF ExecType
  <2> QED
    BY <2>1, <2>2, <2>3, <2>4, <2>5 DEF ExecType
<1>6. f \in [exec -> ExecType] /\ \A e \in exec : Matches(f[e], e)
  BY <1>3, <1>5 DEF Matches
<1>7. ASSUME NEW e \in exec PROVE Holds(f[e])'
  <2>1. e \in ExecType /\ Holds(e)
    BY DEF SchedulerInv, ExecTypes
  <2>2. CASE e.token = t
    <3>1. f[e].lost
      BY <1>5, <2>2
    <3> QED
      BY <3>1 DEF Holds
  <2>3. CASE e.token # t
    <3>1. e.token \notin {t}
      BY <2>3
    <3>2. Holds(e)'
      BY <2>1, <3>1, HoldsOn
    <3>3. PICK g : g = f[e]
      OBVIOUS
    <3>4. /\ g.by = e.by /\ g.job = e.job /\ g.token = e.token /\ g.at = e.at
          /\ ~g.lost => ~e.lost
      BY <1>5, <2>3, <3>3
    <3>5. Holds(g)'
      BY <3>2, <3>4 DEF Holds
    <3> QED
      BY <3>3, <3>5
  <2> QED
    BY <2>2, <2>3
<1>8. \A e \in exec : f[e] \in exec' => Holds(f[e])'
  BY <1>7
<1>9. exec' \subseteq {f[e] : e \in exec}
  BY <1>4
<1> QED
  BY <1>2, <1>6, <1>8, <1>9, Ordinary

\* A lease that ends while it is needed marks the execution that needed it.
LEMMA LapsesStep ==
    ASSUME SchedulerInv, NEW j \in Job, RowLapses(j) \/ ClaimLapses(j)
    PROVE  GoodStep
<1>1. StoreTypes /\ StoresOK
  BY DEF SchedulerInv
<1>2. CASE RowLapses(j)
  <2>1. PICK t : t = row[j].token
    OBVIOUS
  <2>2. /\ Lapse(t) /\ row' = [row EXCEPT ![j].leased = FALSE] /\ UNCHANGED <<payload, mixed, claim, seen>>
        /\ UNCHANGED <<clock, up, nextRun, pc, room, batch, picked, tx>>
    BY <1>2, <2>1 DEF RowLapses
  <2>3. FALSE \in BOOLEAN /\ row[j].token \in {t}
    BY <2>1
  <2>4. StoreStep({t})
    BY <1>1, <2>2, <2>3, MarkRow
  <2> QED
    BY <2>2, <2>4, LapseIs
<1>3. CASE ClaimLapses(j)
  <2>1. PICK t : t = claim[j]
    OBVIOUS
  <2>2. /\ Lapse(t) /\ claim' = [claim EXCEPT ![j] = NoToken] /\ UNCHANGED <<row, payload, mixed, seen>>
        /\ UNCHANGED <<clock, up, nextRun, pc, room, batch, picked, tx>>
    BY <1>3, <2>1 DEF ClaimLapses
  <2>3. StoreStep({t})
    BY <1>1, <2>1, <2>2, ClaimLapseStep
  <2> QED
    BY <2>2, <2>3, LapseIs
<1> QED
  BY <1>2, <1>3

\* Due occurrences are persisted, and the room for new executions is counted.
LEMMA DispatchIs ==
    ASSUME SchedulerInv, NEW r \in Runtime, Dispatch(r)
    PROVE  GoodStep
<1>1. /\ StoreTypes /\ StoresOK /\ StepTypes /\ WantedTypes /\ ExecTypes /\ RoomOK
      /\ \A e \in exec : Holds(e)
  BY DEF SchedulerInv
<1>2. /\ pc[r] = "idle"
      /\ room' = [room EXCEPT ![r] = MaxConcurrent - Cardinality(Executing(r))]
      /\ pc' = [pc EXCEPT ![r] = IF room'[r] > 0 THEN "claim" ELSE "idle"]
      /\ UNCHANGED <<clock, up, batch, picked, exec, tx>>
  BY DEF Dispatch
<1>3. PICK F \in SUBSET DueCrons(r) :
        /\ IF F = {} THEN UNCHANGED jobFaults ELSE JobFault("error")
        /\ EnqueueJobs(r, {CronJob(c, nextRun[r][c]) : c \in DueCrons(r) \ F})
        /\ nextRun' = [nextRun EXCEPT ![r] = [c \in Cron |->
                          IF c \in DueCrons(r) \ F THEN Next1(c, clock) ELSE nextRun[r][c]]]
  BY DEF Dispatch
<1>4. StoreStep({})
  <2>1. PICK J : J = {CronJob(c, nextRun[r][c]) : c \in DueCrons(r) \ F}
    OBVIOUS
  <2>2. ASSUME NEW c \in DueCrons(r) PROVE CronJob(c, nextRun[r][c]) \in Job
    <3>1. c \in Cron /\ nextRun[r][c] <= clock
      BY DEF DueCrons
    <3>2. nextRun[r][c] \in RunTimes(c) /\ nextRun[r][c] \in Nat
      BY <1>1, <3>1 DEF StepTypes
    <3>3. nextRun[r][c] <= Horizon
      BY <1>1, <3>1, <3>2, BoundsAssumption DEF StepTypes
    <3> QED
      BY <3>1, <3>2, <3>3, CronJobIs
  <2>3. J \subseteq Job
    BY <2>1, <2>2
  <2> QED
    BY <1>1, <1>3, <2>1, <2>3, EnqueueStep
<1>5. PICK mine : mine = {e \in exec : e.by = r}
  OBVIOUS
<1>6. Executing(r) = mine /\ IsFiniteSet(mine)
  BY <1>1, <1>5, FS_Subset DEF Executing, ExecTypes
<1>7. PICK n \in Nat : n = Cardinality(Executing(r))
  BY <1>6, FS_CardinalityType
<1>8. n <= MaxConcurrent
  BY <1>1, <1>2, <1>7, BoundsAssumption DEF RoomOK, Room
<1>9. PICK left \in 0 .. MaxConcurrent : left = MaxConcurrent - n
  BY <1>8, BoundsAssumption
<1>10. room' \in [Runtime -> 0 .. MaxConcurrent] /\ \A q \in Runtime : room'[q] = IF q = r THEN left ELSE room[q]
  BY <1>1, <1>2, <1>7, <1>9 DEF StepTypes
<1>11. PICK step \in {"claim", "idle"} : pc' = [pc EXCEPT ![r] = step]
  BY <1>2
<1>12. /\ pc' \in [Runtime -> {"idle", "claim", "adopt", "guard"}]
       /\ \A q \in Runtime : pc'[q] = IF q = r THEN step ELSE pc[q]
  BY <1>1, <1>11 DEF StepTypes
<1>13. StepTypes'
  <2>1. jobFaults' \in 0 .. MaxJobFaults
    BY <1>1, <1>3, FaultIs
  <2>2. /\ nextRun' \in [Runtime -> [Cron -> Nat]]
        /\ \A q \in Runtime : \A c \in Cron : nextRun'[q][c] \in RunTimes(c)
    BY <1>1, <1>3, RunsAre
  <2> QED
    BY <1>1, <1>2, <1>10, <1>12, <2>1, <2>2 DEF StepTypes
<1>14. WantedTypes' /\ ExecTypes' /\ NoRestart
  BY <1>1, <1>2 DEF WantedTypes, ExecTypes, ExecType, NoRestart
<1>15. Unique'
  BY <1>2 DEF SchedulerInv, Unique, Wanted
<1>16. ASSUME NEW e \in exec' PROVE Holds(e)'
  <2>1. e \in ExecType /\ Holds(e) /\ e.token \notin {}
    BY <1>1, <1>2 DEF ExecTypes
  <2> QED
    BY <1>4, <2>1, HoldsOn
<1>17. RoomOK'
  <2>1. ASSUME NEW q \in Runtime PROVE Cardinality(Executing(q)') + Room(q)' <= MaxConcurrent
    <3>1. Executing(q)' = Executing(q)
      BY <1>2 DEF Executing
    <3>2. CASE q = r
      <4>1. Room(q)' \in {0, left}
        BY <1>10, <3>2 DEF Room
      <4> QED
        BY <1>7, <1>8, <1>9, <3>1, <3>2, <4>1, BoundsAssumption
    <3>3. CASE q # r
      <4>1. Room(q)' = Room(q)
        BY <1>10, <1>12, <3>3 DEF Room
      <4> QED
        BY <1>1, <3>1, <4>1 DEF RoomOK
    <3> QED
      BY <3>2, <3>3
  <2> QED
    BY <2>1 DEF RoomOK
<1> QED
  BY <1>4, <1>13, <1>14, <1>15, <1>16, <1>17 DEF GoodStep, SchedulerInv, StoreStep

\* The tokens of what a runtime wants are tokens of no execution.
LEMMA WantedIs ==
    ASSUME SchedulerInv, NEW r \in Runtime
    PROVE  /\ batch[r] \in Seq(Claim) /\ picked[r] \in Seq(Claim)
           /\ Wanted(r) \subseteq Claim /\ IsFiniteSet(Wanted(r))
           /\ \A c \in Wanted(r) : c.job \in Job /\ c.token \in Tokens
           /\ \A e \in exec : \A c \in Wanted(r) : e.token # c.token
<1>1. batch[r] \in Seq(Claim) /\ picked[r] \in Seq(Claim)
  BY DEF SchedulerInv, WantedTypes
<1>2. /\ ToSet(batch[r]) \subseteq Claim /\ IsFiniteSet(ToSet(batch[r]))
      /\ ToSet(picked[r]) \subseteq Claim /\ IsFiniteSet(ToSet(picked[r]))
  BY <1>1, QueueIs
<1>3. Wanted(r) \subseteq Claim /\ IsFiniteSet(Wanted(r))
  BY <1>2, FS_Union DEF Wanted
<1> QED
  BY <1>1, <1>3 DEF Claim, SchedulerInv, Unique

\* A claim that fails releases what it holds, or leaves it to expire.
LEMMA ClaimFailsStep ==
    ASSUME SchedulerInv, NEW r \in Runtime, ClaimFails(r)
    PROVE  GoodStep
<1>1. PICK T : T = {c.token : c \in Wanted(r)}
  OBVIOUS
<1>2. StoreStep(T)
  <2>1. PICK C, D :
          /\ C \subseteq Wanted(r) /\ D \subseteq Wanted(r)
          /\ row' = row \/ row' = ReleasePostgres(row, C)
          /\ claim' = claim \/ claim' = ReleaseValkey(claim, D)
    BY DEF ClaimFails, Wanted
  <2>2. \A c \in C \cup D : c.token \in T
    BY <1>1, <2>1
  <2>3. UNCHANGED <<payload, mixed, seen>>
    BY DEF ClaimFails
  <2> QED
    BY <2>1, <2>2, <2>3, ReleaseStep DEF SchedulerInv
<1>3. Forget(r) /\ room' = room
  BY DEF ClaimFails, Forget
<1>4. /\ WantedTypes' /\ pc' \in [Runtime -> {"idle", "claim", "adopt", "guard"}]
      /\ \A q \in Runtime : Wanted(q)' \subseteq Wanted(q) /\ Room(q)' <= Room(q)
  BY <1>3, ForgetIs
<1>5. jobFaults' \in 0 .. MaxJobFaults
  BY FaultIs DEF SchedulerInv, ClaimFails
<1>6. StepTypes'
  BY <1>4, <1>5 DEF SchedulerInv, StepTypes, ClaimFails
<1>7. exec' = exec /\ \A e \in exec : e.token \notin T
  BY <1>1, WantedIs DEF ClaimFails
<1>8. exec' \subseteq exec /\ \A e \in exec' : e.token \notin T
  BY <1>7
<1> QED
  BY <1>2, <1>4, <1>6, <1>8, NoneChanges

\* The next claim of a batch is looked at, and picked or not.
LEMMA DrawnIs ==
    ASSUME SchedulerInv, NEW r \in Runtime, batch[r] # <<>>,
           batch' = [batch EXCEPT ![r] = Tail(batch[r])],
           picked' = picked \/ picked' = [picked EXCEPT ![r] = Append(picked[r], Head(batch[r]))]
    PROVE  /\ Head(batch[r]) \in Claim /\ Head(batch[r]) \in Wanted(r)
           /\ WantedTypes' /\ \A q \in Runtime : Wanted(q)' \subseteq Wanted(q)
<1>1. /\ batch \in [Runtime -> Seq(Claim)] /\ picked \in [Runtime -> Seq(Claim)]
      /\ batch[r] \in Seq(Claim) /\ picked[r] \in Seq(Claim)
  BY DEF SchedulerInv, WantedTypes
<1>2. PICK h : h = Head(batch[r])
  OBVIOUS
<1>3. PICK tail : tail = Tail(batch[r])
  OBVIOUS
<1>4. /\ h \in Claim /\ h \in ToSet(batch[r]) /\ tail \in Seq(Claim)
      /\ ToSet(tail) \subseteq ToSet(batch[r])
  BY <1>1, <1>2, <1>3, RestIs
<1>5. PICK more : more = Append(picked[r], h)
  OBVIOUS
<1>6. more \in Seq(Claim) /\ ToSet(more) = ToSet(picked[r]) \cup {h}
  BY <1>1, <1>4, <1>5, OneMoreIs
<1>7. /\ batch' \in [Runtime -> Seq(Claim)]
      /\ \A q \in Runtime : batch'[q] = IF q = r THEN tail ELSE batch[q]
  BY <1>1, <1>3, <1>4
<1>8. /\ picked' \in [Runtime -> Seq(Claim)]
      /\ \A q \in Runtime : picked'[q] = picked[q] \/ (q = r /\ picked'[q] = more)
  BY <1>1, <1>2, <1>5, <1>6
<1>9. ASSUME NEW q \in Runtime PROVE Wanted(q)' \subseteq Wanted(q)
  <2>1. CASE q # r
    BY <1>7, <1>8, <2>1 DEF Wanted
  <2>2. CASE q = r
    <3>1. ToSet(batch'[q]) \subseteq ToSet(batch[q])
      BY <1>4, <1>7, <2>2
    <3>2. ToSet(picked'[q]) \subseteq ToSet(picked[q]) \cup ToSet(batch[q])
      BY <1>4, <1>6, <1>8, <2>2
    <3> QED
      BY <3>1, <3>2 DEF Wanted
  <2> QED
    BY <2>1, <2>2
<1> QED
  BY <1>2, <1>4, <1>7, <1>8, <1>9 DEF WantedTypes, Wanted

\* A new runtime moves one claim of Valkey into the rows, or drops it.
LEMMA AdoptIs ==
    ASSUME SchedulerInv, NEW r \in Runtime, Adopt(r)
    PROVE  GoodStep
<1>1. StoreTypes /\ StoresOK
  BY DEF SchedulerInv
<1>2. PICK c : c = Head(batch[r])
  OBVIOUS
<1>3. /\ batch[r] # <<>> /\ batch' = [batch EXCEPT ![r] = Tail(batch[r])]
      /\ picked' = picked \/ picked' = [picked EXCEPT ![r] = Append(picked[r], Head(batch[r]))]
  BY DEF Adopt
<1>4. c \in Claim /\ c \in Wanted(r) /\ WantedTypes' /\ \A q \in Runtime : Wanted(q)' \subseteq Wanted(q)
  BY <1>2, <1>3, DrawnIs
<1>5. c.job \in Job /\ c.token \in Tokens
  BY <1>4 DEF Claim
<1>6. StoreStep({c.token})
  <2>1. CASE /\ Adoptable(c) /\ UNCHANGED <<payload, mixed, claim, seen>>
             /\ row' = [row EXCEPT ![c.job] = [status |-> "pending", token |-> c.token, leased |-> TRUE]]
    BY <1>1, <1>4, <2>1, AdoptStep
  <2>2. CASE CompleteValkey(c.job, c.token) /\ row' = row
    BY <1>1, <1>5, <2>2, CompleteValkeyStep
  <2>3. CASE claim' = ReleaseValkey(claim, {c}) /\ UNCHANGED <<row, payload, mixed, seen>>
    <3>1. \A d \in {c} \cup {c} : d.token \in {c.token}
      OBVIOUS
    <3> QED
      BY <1>1, <2>3, <3>1, ReleaseStep
  <2> QED
    BY <1>2, <2>1, <2>2, <2>3 DEF Adopt
<1>7. StepTypes' /\ \A q \in Runtime : Room(q)' <= Room(q)
  BY StepRest DEF SchedulerInv, Adopt
<1>8. exec' \subseteq exec /\ \A e \in exec' : e.token \notin {c.token}
  BY <1>4, WantedIs DEF Adopt
<1> QED
  BY <1>4, <1>6, <1>7, <1>8, NoneChanges

\* A new runtime guards one claim, or releases its row.
LEMMA GuardIs ==
    ASSUME SchedulerInv, NEW r \in Runtime, Guard(r)
    PROVE  GoodStep
<1>1. StoreTypes /\ StoresOK
  BY DEF SchedulerInv
<1>2. PICK c : c = Head(batch[r])
  OBVIOUS
<1>3. /\ batch[r] # <<>> /\ batch' = [batch EXCEPT ![r] = Tail(batch[r])]
      /\ picked' = picked \/ picked' = [picked EXCEPT ![r] = Append(picked[r], Head(batch[r]))]
  BY DEF Guard
<1>4. c \in Claim /\ c \in Wanted(r) /\ WantedTypes' /\ \A q \in Runtime : Wanted(q)' \subseteq Wanted(q)
  BY <1>2, <1>3, DrawnIs
<1>5. c.job \in Job /\ c.token \in Tokens
  BY <1>4 DEF Claim
<1>6. UNCHANGED <<payload, mixed, seen>>
  BY DEF Guard
<1>7. StoreStep({c.token})
  <2>1. CASE row' = ReleasePostgres(row, {c}) /\ claim' = claim
    <3>1. \A d \in {c} \cup {c} : d.token \in {c.token}
      OBVIOUS
    <3> QED
      BY <1>1, <1>6, <2>1, <3>1, ReleaseStep
  <2>2. CASE CompletePostgres(c.job, c.token) /\ claim' = claim
    BY <1>1, <1>5, <1>6, <2>2, CompletePostgresStep
  <2>3. CASE /\ c.job \notin seen /\ claim[c.job] \in {NoToken, c.token}
             /\ claim' = [claim EXCEPT ![c.job] = c.token] /\ row' = row
    BY <1>1, <1>4, <1>6, <2>3, GuardStep
  <2> QED
    BY <1>2, <2>1, <2>2, <2>3 DEF Guard
<1>8. StepTypes' /\ \A q \in Runtime : Room(q)' <= Room(q)
  BY StepRest DEF SchedulerInv, Guard
<1>9. exec' \subseteq exec /\ \A e \in exec' : e.token \notin {c.token}
  BY <1>4, WantedIs DEF Guard
<1> QED
  BY <1>4, <1>7, <1>8, <1>9, NoneChanges

\* A batch of new claims.
LEMMA BatchIs ==
    ASSUME SchedulerInv, NEW r \in Runtime, NEW claims \in Seq(Claim), NEW step \in {"adopt", "guard"},
           \A i \in 1 .. Len(claims) : claims[i].token \in Tokens \ LiveTokens,
           \A i, j \in 1 .. Len(claims) : claims[i].token = claims[j].token => i = j,
           pc[r] # "idle", pc' = [pc EXCEPT ![r] = step],
           batch' = [batch EXCEPT ![r] = claims],
           UNCHANGED <<clock, up, nextRun, room, picked, exec, tx, jobFaults>>, StoreStep({})
    PROVE  GoodStep
<1>1. /\ batch \in [Runtime -> Seq(Claim)] /\ picked \in [Runtime -> Seq(Claim)]
      /\ pc \in [Runtime -> {"idle", "claim", "adopt", "guard"}] /\ StepTypes
  BY DEF SchedulerInv, WantedTypes, StepTypes
<1>2. PICK C : C = ToSet(claims)
  OBVIOUS
<1>3. C \subseteq Claim /\ \A c \in C : \E i \in 1 .. Len(claims) : claims[i] = c
  BY <1>2, QueueIs
<1>4. \A c \in C : c.token \notin LiveTokens
  BY <1>3
<1>5. \A c, d \in C : c.token = d.token => c = d
  BY <1>3
<1>6. /\ pc' \in [Runtime -> {"idle", "claim", "adopt", "guard"}]
      /\ \A q \in Runtime : pc'[q] = IF q = r THEN step ELSE pc[q]
  BY <1>1
<1>7. /\ batch' \in [Runtime -> Seq(Claim)]
      /\ \A q \in Runtime : batch'[q] = IF q = r THEN claims ELSE batch[q]
  BY <1>1
<1>8. StepTypes' /\ WantedTypes'
  BY <1>1, <1>6, <1>7 DEF StepTypes, WantedTypes
<1>9. ASSUME NEW q \in Runtime
      PROVE  Wanted(q)' \subseteq Wanted(q) \cup (IF q = r THEN C ELSE {}) /\ Room(q)' <= Room(q)
  <2>1. Room(q) \in 0 .. MaxConcurrent
    BY <1>1, RoomIs
  <2>2. Room(q)' = Room(q)
    BY <1>6 DEF Room
  <2>3. Wanted(q)' \subseteq Wanted(q) \cup (IF q = r THEN C ELSE {})
    BY <1>2, <1>7 DEF Wanted
  <2> QED
    BY <2>1, <2>2, <2>3, BoundsAssumption
<1> QED
  BY <1>3, <1>4, <1>5, <1>8, <1>9, SomeClaimed

\* A new runtime asks the rows for as many jobs as it had room for.
LEMMA ClaimPostgresIs ==
    ASSUME SchedulerInv, NEW r \in Runtime, ClaimPostgres(r)
    PROVE  GoodStep
<1>1. StoreTypes /\ StoresOK /\ WantedTypes /\ ExecTypes
  BY DEF SchedulerInv
<1>2. room[r] \in Nat
  BY BoundsAssumption DEF SchedulerInv, StepTypes
<1>3. PICK s \in PostgresPicks(room[r]) :
        /\ row' = [j \in Job |-> IF j \in JobsIn(AsClaims(r, s))
                                 THEN [status |-> "pending", token |-> TokenIn(AsClaims(r, s), j), leased |-> TRUE]
                                 ELSE row[j]]
        /\ batch' = [batch EXCEPT ![r] = AsClaims(r, s)]
  BY DEF ClaimPostgres
<1>4. PICK claims : claims = AsClaims(r, s)
  OBVIOUS
<1>5. /\ s \in Seq(Job)
      /\ \A i \in 1 .. Len(s) : row[s[i]].token = NoToken \/ ~row[s[i]].leased
  BY <1>2, PostgresPicksAre
<1>6. /\ claims \in Seq(Claim) /\ Len(claims) = Len(s)
      /\ \A i \in 1 .. Len(s) : claims[i].job = s[i] /\ claims[i].token \in Tokens \ LiveTokens
      /\ \A i, j \in 1 .. Len(s) : claims[i].token = claims[j].token => i = j
  BY <1>1, <1>4, <1>5, ClaimsAre
<1>7. \A i \in 1 .. Len(claims) : row[claims[i].job].token = NoToken \/ ~row[claims[i].job].leased
  BY <1>5, <1>6
<1>8. row' = [j \in Job |-> IF j \in JobsIn(claims)
                            THEN [status |-> "pending", token |-> TokenIn(claims, j), leased |-> TRUE] ELSE row[j]]
  BY <1>3, <1>4
<1>9. UNCHANGED <<payload, mixed, claim, seen>>
  BY DEF ClaimPostgres
<1>10. StoreStep({})
  BY <1>1, <1>6, <1>7, <1>8, <1>9, ClaimRows
<1>11. /\ UNCHANGED <<clock, up, nextRun, room, picked, exec, tx, jobFaults>>
       /\ pc[r] # "idle" /\ pc' = [pc EXCEPT ![r] = "guard"]
  BY DEF ClaimPostgres
<1>12. /\ batch' = [batch EXCEPT ![r] = claims]
       /\ \A i \in 1 .. Len(claims) : claims[i].token \in Tokens \ LiveTokens
       /\ \A i, j \in 1 .. Len(claims) : claims[i].token = claims[j].token => i = j
  BY <1>3, <1>4, <1>6
<1> QED
  BY <1>6, <1>10, <1>11, <1>12, BatchIs

\* The new execution of a claim.
LEMMA ExecutionIs ==
    ASSUME NEW r \in Runtime, NEW c \in Claim, NEW lost \in BOOLEAN
    PROVE  LET e == Execution(r, c, lost) IN
           /\ e \in ExecType /\ e.by = r /\ e.job = c.job /\ e.token = c.token
           /\ e.at = "running" /\ e.lost = lost
<1>1. c.job \in Job /\ c.token \in Tokens
  BY DEF Claim
<1>2. PICK e : e = [by |-> r, job |-> c.job, token |-> c.token, at |-> "running", ctx |-> TRUE, lost |-> lost]
  OBVIOUS
<1>3. e \in ExecType
  BY <1>1, <1>2 DEF ExecType
<1> QED
  BY <1>2, <1>3 DEF Execution

\* Executions of the claims of a set.
Executions(r, K, lost) == {Execution(r, c, lost[c]) : c \in K}

\* Each is of one of the claims, so there are no more executions than claims.
LEMMA ExecutionsAre ==
    ASSUME NEW r \in Runtime, NEW K, K \subseteq Claim, IsFiniteSet(K),
           NEW lost \in [K -> BOOLEAN], NEW N, N = Executions(r, K, lost)
    PROVE  /\ N \subseteq ExecType /\ IsFiniteSet(N) /\ Cardinality(N) <= Cardinality(K)
           /\ \A e \in N : \E c \in K : /\ e = Execution(r, c, lost[c]) /\ e.by = r
                                        /\ e.job = c.job /\ e.token = c.token
                                        /\ e.at = "running" /\ e.lost = lost[c]
<1>1. PICK f : f = [c \in K |-> Execution(r, c, lost[c])]
  OBVIOUS
<1>2. DOMAIN f = K /\ f = [c \in K |-> f[c]] /\ N = {f[c] : c \in K}
  BY <1>1 DEF Executions
<1>3. IsFiniteSet({f[c] : c \in K}) /\ Cardinality({f[c] : c \in K}) <= Cardinality(K)
  BY <1>2, ImageIs
<1>4. IsFiniteSet(N) /\ Cardinality(N) <= Cardinality(K)
  BY <1>2, <1>3
<1>5. ASSUME NEW e \in N
      PROVE  e \in ExecType /\ \E c \in K : /\ e = Execution(r, c, lost[c]) /\ e.by = r
                                            /\ e.job = c.job /\ e.token = c.token
                                            /\ e.at = "running" /\ e.lost = lost[c]
  <2>1. PICK c \in K : e = Execution(r, c, lost[c])
    BY DEF Executions
  <2>2. c \in Claim /\ lost[c] \in BOOLEAN
    OBVIOUS
  <2> QED
    BY <2>1, <2>2, ExecutionIs
<1> QED
  BY <1>4, <1>5

\* The claim script of Valkey: the runtime gets fresh tokens for jobs nobody has
\* claimed; an old runtime starts them, a new one goes on to adopt them.
LEMMA ClaimValkeyIs ==
    ASSUME SchedulerInv, NEW r \in Runtime, ClaimValkey(r)
    PROVE  GoodStep
<1>1. StoreTypes /\ StoresOK /\ WantedTypes /\ ExecTypes /\ StepTypes /\ Unique
  BY DEF SchedulerInv
<1>2. room[r] \in Nat /\ pc[r] = "claim" /\ Room(r) = room[r]
  BY BoundsAssumption DEF SchedulerInv, StepTypes, ClaimValkey, Room
<1>3. PICK M \in Moves(room[r]) : \E s \in ValkeyPicks(room[r], M) :
        LET claims == AsClaims(r, s) IN
        /\ mixed' = mixed \ M
        /\ claim' = [j \in Job |-> IF j \in JobsIn(claims) THEN TokenIn(claims, j) ELSE claim[j]]
        /\ IF r \in Legacy
           THEN /\ exec' = exec \cup {Execution(r, c, FALSE) : c \in ToSet(claims)}
                /\ pc' = [pc EXCEPT ![r] = "idle"]
                /\ UNCHANGED batch
           ELSE /\ batch' = [batch EXCEPT ![r] = claims]
                /\ pc' = [pc EXCEPT ![r] = "adopt"]
                /\ UNCHANGED exec
  BY DEF ClaimValkey
<1>4. PICK s \in ValkeyPicks(room[r], M) :
        LET claims == AsClaims(r, s) IN
        /\ mixed' = mixed \ M
        /\ claim' = [j \in Job |-> IF j \in JobsIn(claims) THEN TokenIn(claims, j) ELSE claim[j]]
        /\ IF r \in Legacy
           THEN /\ exec' = exec \cup {Execution(r, c, FALSE) : c \in ToSet(claims)}
                /\ pc' = [pc EXCEPT ![r] = "idle"]
                /\ UNCHANGED batch
           ELSE /\ batch' = [batch EXCEPT ![r] = claims]
                /\ pc' = [pc EXCEPT ![r] = "adopt"]
                /\ UNCHANGED exec
  BY <1>3
<1>5. PICK claims : claims = AsClaims(r, s)
  OBVIOUS
<1>6. /\ s \in Seq(Job) /\ Len(s) <= room[r]
      /\ \A i \in 1 .. Len(s) : s[i] \in payload /\ claim[s[i]] = NoToken
      /\ \A i, j \in 1 .. Len(s) : s[i] = s[j] => i = j
  BY <1>1, <1>2, ValkeyPicksAre
<1>7. /\ claims \in Seq(Claim) /\ Len(claims) = Len(s)
      /\ \A i \in 1 .. Len(s) : claims[i].job = s[i] /\ claims[i].token \in Tokens \ LiveTokens
      /\ \A i, j \in 1 .. Len(s) : claims[i].token = claims[j].token => i = j
  BY <1>1, <1>5, <1>6, ClaimsAre
<1>8. /\ \A i \in 1 .. Len(claims) : claims[i].job \in payload /\ claim[claims[i].job] = NoToken
      /\ \A i, j \in 1 .. Len(claims) : claims[i].job = claims[j].job => i = j
  BY <1>6, <1>7
<1>9. /\ mixed' = mixed \ M
      /\ claim' = [j \in Job |-> IF j \in JobsIn(claims) THEN TokenIn(claims, j) ELSE claim[j]]
  BY <1>4, <1>5
<1>10. /\ UNCHANGED <<row, payload, seen>>
      /\ UNCHANGED <<clock, up, nextRun, room, picked, tx, jobFaults>>
  BY DEF ClaimValkey
<1>11. StoreStep({}) /\ \A i \in 1 .. Len(claims) : claim'[claims[i].job] = claims[i].token
  BY <1>1, <1>7, <1>8, <1>9, <1>10, ClaimKeys
<1>12. CASE r \notin Legacy
  <2>1. /\ batch' = [batch EXCEPT ![r] = claims] /\ pc' = [pc EXCEPT ![r] = "adopt"]
        /\ exec' = exec /\ pc[r] # "idle"
    BY <1>2, <1>4, <1>5, <1>12
  <2>2. /\ \A i \in 1 .. Len(claims) : claims[i].token \in Tokens \ LiveTokens
        /\ \A i, j \in 1 .. Len(claims) : claims[i].token = claims[j].token => i = j
    BY <1>7
  <2> QED
    BY <1>7, <1>10, <1>11, <2>1, <2>2, BatchIs
<1>13. CASE r \in Legacy
  <2>1. PICK K : K = ToSet(claims)
    OBVIOUS
  <2>2. /\ exec' = exec \cup {Execution(r, c, FALSE) : c \in K}
        /\ pc' = [pc EXCEPT ![r] = "idle"] /\ batch' = batch
    BY <1>4, <1>5, <1>13, <2>1
  <2>3. /\ K \subseteq Claim /\ IsFiniteSet(K) /\ Len(claims) \in Nat /\ Cardinality(K) <= Len(claims)
        /\ \A c \in K : \E i \in 1 .. Len(claims) : claims[i] = c
    BY <1>7, <2>1, QueueIs
  <2>4. PICK lost : lost = [c \in K |-> FALSE]
    OBVIOUS
  <2>5. PICK N : N = Executions(r, K, lost)
    OBVIOUS
  <2>6. lost \in [K -> BOOLEAN] /\ exec' = exec \cup N
    BY <2>2, <2>4, <2>5 DEF Executions
  <2>7. /\ N \subseteq ExecType /\ IsFiniteSet(N) /\ Cardinality(N) <= Cardinality(K)
        /\ \A e \in N : \E c \in K : /\ e = Execution(r, c, lost[c]) /\ e.by = r
                                     /\ e.job = c.job /\ e.token = c.token
                                     /\ e.at = "running" /\ e.lost = lost[c]
    BY <2>3, <2>5, <2>6, ExecutionsAre
  <2>8. \A e \in N : \E i \in 1 .. Len(claims) : e = Execution(r, claims[i], FALSE) /\ e.by = r
            /\ e.job = claims[i].job /\ e.token = claims[i].token /\ e.at = "running" /\ ~e.lost
    <3>1. ASSUME NEW e \in N
          PROVE  \E i \in 1 .. Len(claims) : e = Execution(r, claims[i], FALSE) /\ e.by = r
                   /\ e.job = claims[i].job /\ e.token = claims[i].token /\ e.at = "running" /\ ~e.lost
      <4>1. PICK c \in K : /\ e = Execution(r, c, lost[c]) /\ e.by = r
                           /\ e.job = c.job /\ e.token = c.token
                           /\ e.at = "running" /\ e.lost = lost[c]
        BY <2>7
      <4>2. lost[c] = FALSE
        BY <2>4
      <4>3. PICK i \in 1 .. Len(claims) : claims[i] = c
        BY <2>3
      <4> QED
        BY <4>1, <4>2, <4>3
    <3> QED
      BY <3>1
  <2>9. \A e \in N : e.by = r /\ Holds(e)' /\ (~e.lost => ~KnownCompleted(e.by, e.job))
    <3>1. ASSUME NEW e \in N PROVE e.by = r /\ Holds(e)' /\ ~KnownCompleted(e.by, e.job)
      <4>1. PICK i \in 1 .. Len(claims) : /\ e.by = r /\ e.job = claims[i].job
                                          /\ e.token = claims[i].token /\ e.at = "running" /\ ~e.lost
        BY <2>8
      <4>2. claim'[e.job] = e.token /\ e.job \in payload
        BY <1>8, <1>11, <4>1
      <4>3. Holds(e)'
        BY <1>13, <4>1, <4>2 DEF Holds
      <4>4. ~KnownCompleted(e.by, e.job)
        BY <1>13, <4>1, <4>2 DEF KnownCompleted, InValkey
      <4> QED
        BY <4>1, <4>3, <4>4
    <3> QED
      BY <3>1
  <2>10. \A e, d \in N : e.token = d.token => e = d
    <3>1. ASSUME NEW e \in N, NEW d \in N, e.token = d.token PROVE e = d
      <4>1. PICK i \in 1 .. Len(claims) : e = Execution(r, claims[i], FALSE) /\ e.token = claims[i].token
        BY <2>8
      <4>2. PICK j \in 1 .. Len(claims) : d = Execution(r, claims[j], FALSE) /\ d.token = claims[j].token
        BY <2>8
      <4>3. i = j
        BY <1>7, <3>1, <4>1, <4>2
      <4> QED
        BY <4>1, <4>2, <4>3
    <3> QED
      BY <3>1
  <2>11. \A e \in N : e.token \notin LiveTokens
    BY <1>7, <2>8
  <2>12. /\ \A e \in exec : e.token \in LiveTokens
         /\ \A q \in Runtime : \A c \in Wanted(q) : c.token \in LiveTokens
    BY <1>1, LiveAre
  <2>13. \A q \in Runtime : Wanted(q)' = Wanted(q)
    BY <1>10, <2>2 DEF Wanted
  <2>14. \A e \in N, d \in exec : e.token # d.token
    BY <2>11, <2>12
  <2>15. \A e \in N : \A q \in Runtime : \A c \in Wanted(q)' : c.token # e.token
    BY <2>11, <2>12, <2>13
  <2>16. /\ pc' \in [Runtime -> {"idle", "claim", "adopt", "guard"}]
         /\ \A q \in Runtime : pc'[q] = IF q = r THEN "idle" ELSE pc[q]
    BY <1>1, <2>2 DEF StepTypes
  <2>17. StepTypes' /\ WantedTypes'
    BY <1>1, <1>10, <2>2, <2>16 DEF StepTypes, WantedTypes
  <2>18. Room(r)' = 0
    BY <2>16 DEF Room
  <2>19. \A q \in Runtime : Wanted(q)' \subseteq Wanted(q) /\ Room(q)' <= Room(q)
    <3>1. ASSUME NEW q \in Runtime PROVE Room(q)' <= Room(q)
      <4>1. Room(q) \in 0 .. MaxConcurrent
        BY <1>1, RoomIs
      <4>2. Room(q)' \in {0, Room(q)}
        BY <1>10, <2>16 DEF Room
      <4> QED
        BY <4>1, <4>2, BoundsAssumption
    <3> QED
      BY <2>13, <3>1
  <2>20. Cardinality(N) <= Room(r)
    <3>1. Cardinality(N) \in Nat /\ Cardinality(K) \in Nat
      BY <2>3, <2>7, FS_CardinalityType
    <3> QED
      BY <1>2, <1>6, <1>7, <2>3, <2>7, <3>1
  <2>21. \A e \in exec : e.token \notin {}
    OBVIOUS
  <2> QED
    BY <1>11, <2>6, <2>7, <2>9, <2>10, <2>14, <2>15, <2>17, <2>18, <2>19, <2>20, <2>21, SomeStart
<1> QED
  BY <1>12, <1>13

\* Of what was picked, as many as there is room for are started, and the rest
\* is given back.
LEMMA KeptAre ==
    ASSUME SchedulerInv, NEW r \in Runtime, NEW s \in ByOccurrence(r),
           NEW K, K = {s[i] : i \in 1..Less(room[r], Len(s))}
    PROVE  /\ K \subseteq Wanted(r) /\ ToSet(s) \subseteq Wanted(r)
           /\ IsFiniteSet(K) /\ Cardinality(K) <= room[r]
<1>1. PICK P : P = ToSet(picked[r])
  OBVIOUS
<1>2. P \subseteq Wanted(r) /\ IsFiniteSet(P)
  BY <1>1, WantedIs, QueueIs DEF Wanted
<1>3. PICK n \in Nat : n = Cardinality(P)
  BY <1>2, FS_CardinalityType
<1>4. s \in [1 .. n -> P]
  BY <1>1, <1>3 DEF ByOccurrence, SetToSeqs
<1>5. s \in Seq(P) /\ Len(s) = n
  BY <1>4
<1>6. ToSet(s) \subseteq P
  BY <1>5, QueueIs
<1>7. room[r] \in Nat
  BY BoundsAssumption DEF SchedulerInv, StepTypes
<1>8. PICK m \in Nat : m = Less(room[r], n) /\ m <= room[r] /\ m <= n
  BY <1>7 DEF Less
<1>9. PICK g : g = [i \in 1 .. m |-> s[i]]
  OBVIOUS
<1>10. IsFiniteSet(1 .. m) /\ Cardinality(1 .. m) = m
  BY FS_Interval
<1>11. DOMAIN g = 1 .. m /\ g = [i \in 1 .. m |-> g[i]]
  BY <1>9
<1>12. IsFiniteSet({g[i] : i \in 1 .. m}) /\ Cardinality({g[i] : i \in 1 .. m}) <= Cardinality(1 .. m)
  BY <1>10, <1>11, ImageIs
<1>13. K = {s[i] : i \in 1 .. m}
  BY <1>5, <1>8
<1>14. K = {g[i] : i \in 1 .. m}
  BY <1>9, <1>13
<1>15. IsFiniteSet(K) /\ Cardinality(K) <= m
  BY <1>10, <1>12, <1>14
<1>16. K \subseteq P
  <2>1. \A i \in 1 .. m : s[i] \in P
    BY <1>4, <1>8
  <2> QED
    BY <1>13, <2>1
<1>17. Cardinality(K) <= room[r]
  <2>1. Cardinality(K) \in Nat
    BY <1>15, FS_CardinalityType
  <2> QED
    BY <1>7, <1>8, <1>15, <2>1
<1> QED
  BY <1>2, <1>6, <1>15, <1>16, <1>17

\* A new runtime starts what it has picked, each job once, within its room.
LEMMA StartIs ==
    ASSUME SchedulerInv, NEW r \in Runtime, Start(r)
    PROVE  GoodStep
<1>1. StoreTypes /\ StoresOK /\ WantedTypes /\ ExecTypes /\ StepTypes /\ Unique
  BY DEF SchedulerInv
<1>2. /\ pc[r] = "guard" /\ batch[r] = <<>>
      /\ picked' = [picked EXCEPT ![r] = <<>>] /\ pc' = [pc EXCEPT ![r] = "idle"]
      /\ UNCHANGED <<clock, up, nextRun, room, batch, payload, mixed, seen, tx, jobFaults>>
  BY DEF Start
<1>3. PICK s \in ByOccurrence(r) :
        LET kept == {s[i] : i \in 1..Less(room[r], Len(s))}
            rest == ToSet(s) \ kept IN
        /\ exec' = exec \cup {Execution(r, c, ~Leased(c)) : c \in kept}
        /\ row' = ReleasePostgres(row, rest)
        /\ claim' = ReleaseValkey(claim, rest)
  BY DEF Start
<1>4. PICK K : K = {s[i] : i \in 1..Less(room[r], Len(s))}
  OBVIOUS
<1>5. PICK rest : rest = ToSet(s) \ K
  OBVIOUS
<1>6. /\ exec' = exec \cup {Execution(r, c, ~Leased(c)) : c \in K}
      /\ row' = ReleasePostgres(row, rest) /\ claim' = ReleaseValkey(claim, rest)
  BY <1>3, <1>4, <1>5
<1>7. K \subseteq Wanted(r) /\ rest \subseteq Wanted(r) /\ IsFiniteSet(K) /\ Cardinality(K) <= room[r]
  BY <1>4, <1>5, KeptAre
<1>8. /\ Wanted(r) \subseteq Claim /\ \A c \in Wanted(r) : c.job \in Job /\ c.token \in Tokens
      /\ \A e \in exec : \A c \in Wanted(r) : e.token # c.token
  BY WantedIs
<1>9. PICK lost : lost = [c \in K |-> ~Leased(c)]
  OBVIOUS
<1>10. lost \in [K -> BOOLEAN]
  BY <1>9
<1>11. PICK N : N = Executions(r, K, lost)
  OBVIOUS
<1>12. exec' = exec \cup N
  BY <1>6, <1>9, <1>11 DEF Executions
<1>13. K \subseteq Claim
  BY <1>7, <1>8
<1>14. /\ N \subseteq ExecType /\ IsFiniteSet(N) /\ Cardinality(N) <= Cardinality(K)
       /\ \A e \in N : \E c \in K : /\ e = Execution(r, c, lost[c]) /\ e.by = r
                                    /\ e.job = c.job /\ e.token = c.token
                                    /\ e.at = "running" /\ e.lost = lost[c]
  BY <1>7, <1>10, <1>11, <1>13, ExecutionsAre
<1>15. PICK T : T = {c.token : c \in rest}
  OBVIOUS
<1>16. StoreStep(T)
  <2>1. \A c \in rest \cup rest : c.token \in T
    BY <1>15
  <2> QED
    BY <1>1, <1>2, <1>6, <2>1, ReleaseStep
<1>17. \A e \in exec : e.token \notin T
  BY <1>7, <1>8, <1>15
<1>18. ASSUME NEW e \in N
       PROVE  e.by = r /\ Holds(e)' /\ (~e.lost => ~KnownCompleted(e.by, e.job))
  <2>1. PICK c \in K : /\ e.by = r /\ e.job = c.job /\ e.token = c.token
                       /\ e.at = "running" /\ e.lost = lost[c]
    BY <1>14
  <2>2. CASE Leased(c)
    <3>1. /\ claim[c.job] = c.token /\ row[c.job].token = c.token /\ row[c.job].leased
          /\ c.job \in Job /\ c.token \in Tokens /\ c \in Claim
      BY <1>7, <1>8, <1>13, <2>2 DEF Leased
    <3>2. row[c.job].status = "pending" /\ ~InValkey(c.job)
      BY <1>1, <3>1, BoundsAssumption DEF StoresOK
    <3>3. ~KnownCompleted(e.by, e.job)
      BY <2>1, <3>2 DEF KnownCompleted, Completed
    <3>4. [job |-> c.job, token |-> c.token] = c
      BY <3>1 DEF Claim
    <3>5. c \notin rest
      BY <1>5
    <3>6. claim'[c.job] = claim[c.job]
      BY <1>6, <3>1, <3>4, <3>5 DEF ReleaseValkey
    <3>7. row'[c.job] = row[c.job]
      BY <1>6, <3>1, <3>4, <3>5 DEF ReleasePostgres
    <3>8. Holds(e)'
      BY <2>1, <3>1, <3>6, <3>7 DEF Holds
    <3> QED
      BY <2>1, <3>3, <3>8
  <2>3. CASE ~Leased(c)
    <3>1. e.lost
      BY <1>9, <2>1, <2>3
    <3> QED
      BY <2>1, <3>1 DEF Holds
  <2> QED
    BY <2>2, <2>3
<1>19. \A c, d \in Wanted(r) : c.token = d.token => c = d
  BY <1>1 DEF Unique
<1>20. ASSUME NEW e \in N, NEW d \in N, e.token = d.token PROVE e = d
  <2>1. PICK c \in K : e = Execution(r, c, lost[c]) /\ e.token = c.token
    BY <1>14
  <2>2. PICK b \in K : d = Execution(r, b, lost[b]) /\ d.token = b.token
    BY <1>14
  <2>3. b = c
    BY <1>7, <1>19, <1>20, <2>1, <2>2
  <2> QED
    BY <2>1, <2>2, <2>3
<1>21. \A e \in N, d \in exec : e.token # d.token
  BY <1>7, <1>8, <1>14
<1>22. /\ picked' \in [Runtime -> Seq(Claim)]
       /\ \A q \in Runtime : picked'[q] = IF q = r THEN <<>> ELSE picked[q]
  BY <1>1, <1>2, NothingWanted DEF WantedTypes
<1>23. /\ pc' \in [Runtime -> {"idle", "claim", "adopt", "guard"}]
       /\ \A q \in Runtime : pc'[q] = IF q = r THEN "idle" ELSE pc[q]
  BY <1>1, <1>2 DEF StepTypes
<1>24. StepTypes' /\ WantedTypes'
  BY <1>1, <1>2, <1>22, <1>23 DEF StepTypes, WantedTypes
<1>25. \A q \in Runtime : Wanted(q)' = IF q = r THEN {} ELSE Wanted(q)
  BY <1>2, <1>22, NothingWanted DEF Wanted
<1>26. ASSUME NEW e \in N, NEW q \in Runtime, NEW c \in Wanted(q)' PROVE c.token # e.token
  <2>1. q # r /\ c \in Wanted(q)
    BY <1>25
  <2>2. PICK b \in K : e.token = b.token
    BY <1>14
  <2> QED
    BY <1>1, <1>7, <2>1, <2>2 DEF Unique
<1>27. ASSUME NEW q \in Runtime PROVE Wanted(q)' \subseteq Wanted(q) /\ Room(q)' <= Room(q)
  <2>1. Room(q) \in 0 .. MaxConcurrent
    BY <1>1, RoomIs
  <2>2. Room(q)' \in {0, Room(q)}
    BY <1>2, <1>23 DEF Room
  <2>3. Wanted(q)' \subseteq Wanted(q)
    BY <1>25
  <2> QED
    BY <2>1, <2>2, <2>3, BoundsAssumption
<1>28. Room(r)' = 0
  BY <1>23 DEF Room
<1>29. Cardinality(N) <= Room(r)
  <2>1. Cardinality(N) \in Nat /\ Cardinality(K) \in Nat
    BY <1>7, <1>14, FS_CardinalityType
  <2>2. Room(r) = room[r] /\ room[r] \in Nat
    BY <1>1, <1>2, BoundsAssumption DEF Room, StepTypes
  <2> QED
    BY <1>7, <1>14, <2>1, <2>2
<1> QED
  BY <1>12, <1>14, <1>16, <1>17, <1>18, <1>20, <1>21, <1>24, <1>26, <1>27, <1>28, <1>29, SomeStart

-----------------------------------------------------------------------------
(* The theorems.                                                            *)

\* The stores are empty at the start, but for the jobs of an old release.
LEMMA SchedulerStarts == JobsInit => SchedulerInv
<1> SUFFICES ASSUME JobsInit PROVE SchedulerInv
  OBVIOUS
<1>1. NoRow \in RowType /\ ~NoRow.leased
  BY DEF NoRow, RowType
<1>2. StoreTypes /\ StoresOK
  BY <1>1, BoundsAssumption DEF JobsInit, StoreTypes, StoresOK
<1>3. StepTypes
  <2>1. \A c \in Cron : Next1(c, 0) \in Nat /\ Next1(c, 0) \in RunTimes(c)
    BY NextIs
  <2>2. /\ nextRun \in [Runtime -> [Cron -> Nat]]
        /\ \A r \in Runtime : \A c \in Cron : nextRun[r][c] \in RunTimes(c)
    BY <2>1 DEF JobsInit
  <2>3. tx \in [Runtime -> [job : SUBSET OneShot, committed : BOOLEAN]]
    BY DEF JobsInit, Blank
  <2> QED
    BY <2>2, <2>3, BoundsAssumption DEF JobsInit, StepTypes
<1>4. WantedTypes /\ \A r \in Runtime : Wanted(r) = {}
  BY NothingWanted DEF JobsInit, WantedTypes, Wanted
<1>5. ExecTypes /\ Unique /\ \A e \in exec : Holds(e)
  BY <1>4, FS_EmptySet DEF JobsInit, ExecTypes, Unique
<1>6. RoomOK
  <2>1. ASSUME NEW r \in Runtime PROVE Cardinality(Executing(r)) + Room(r) <= MaxConcurrent
    <3>1. Executing(r) = {} /\ Room(r) = 0
      BY DEF JobsInit, Executing, Room
    <3> QED
      BY <3>1, FS_EmptySet, BoundsAssumption
  <2> QED
    BY <2>1 DEF RoomOK
<1> QED
  BY <1>2, <1>3, <1>4, <1>5, <1>6 DEF SchedulerInv

\* Every action keeps the invariant, and starts no job that is done.
LEMMA SchedulerSteps ==
    ASSUME SchedulerInv, JobsNext
    PROVE  GoodStep
<1>1. ASSUME NEW r \in Runtime,
             \/ Dispatch(r) \/ ClaimValkey(r) \/ Adopt(r) \/ ClaimPostgres(r) \/ Guard(r) \/ Start(r)
             \/ ClaimFails(r) \/ SyncCrons(r) \/ CrashRuntime(r) \/ StopRuntime(r) \/ Restart(r)
             \/ CommitJobs(r) \/ Rollback(r) \/ \E j \in OneShot : Schedule(r, j) \/ PublishJobs(r, j)
      PROVE  GoodStep
  BY <1>1, DispatchIs, ClaimValkeyIs, AdoptIs, ClaimPostgresIs, GuardIs, StartIs, ClaimFailsStep,
     RegisterStep, CrashStep, StopStep, TxStep
<1>2. ASSUME NEW e \in exec,
             \/ Renew(e) \/ RenewFails(e) \/ Return(e) \/ InterruptJob(e) \/ ReleaseJob(e)
             \/ CompleteInValkey(e) \/ CompleteInPostgres(e) \/ CompleteGivesUp(e)
      PROVE  GoodStep
  BY <1>2, RenewStep, QuietStep, CompleteInValkeyStep, LastStep
<1>3. ASSUME NEW j \in Job, RowLapses(j) \/ ClaimLapses(j) PROVE GoodStep
  BY <1>3, LapsesStep
<1> QED
  BY <1>1, <1>2, <1>3, TickStep DEF JobsNext

\* So does a step in which nothing of the scheduler changes.
LEMMA SchedulerRests ==
    ASSUME SchedulerInv, UNCHANGED jobVars
    PROVE  SchedulerInv' /\ (NoRestart \/ UNCHANGED jobVars)
BY DEF SchedulerInv, StoreTypes, StepTypes, WantedTypes, ExecTypes, StoresOK, InValkey, Unique, Wanted,
       RoomOK, Room, Executing, Holds, jobVars, stores, ExecType, RowType

\* Nobody has let a lease end: the claim key or the completion in Valkey, and
\* the row, name one execution of a job.
LEMMA SchedulerIsFenced == SchedulerInv => ExecutionsFenced
<1> SUFFICES ASSUME SchedulerInv PROVE ExecutionsFenced
  OBVIOUS
<1>1. JobsOK
  <2>1. ASSUME NEW r \in Runtime PROVE ToSet(batch[r]) \cup ToSet(picked[r]) \subseteq Claim
    BY WantedIs DEF Wanted
  <2> QED
    BY <2>1 DEF SchedulerInv, JobsOK, StoreTypes, StepTypes, ExecTypes, ExecType, RowType
<1>2. Exclusive
  <2>1. ASSUME NEW e \in exec, NEW f \in exec, e.job = f.job, ~e.lost, ~f.lost PROVE e = f
    <3>1. /\ Holds(e) /\ Holds(f) /\ StoresOK /\ Unique
          /\ e.job \in Job /\ e.token \in Tokens /\ f.token \in Tokens
      BY DEF SchedulerInv, ExecTypes, ExecType
    <3>2. CASE e.at # "half" /\ f.at # "half"
      BY <2>1, <3>1, <3>2 DEF Holds, Unique
    <3>3. CASE e.at = "half" /\ f.at = "half"
      BY <2>1, <3>1, <3>3 DEF Holds, Unique
    <3>4. CASE e.at = "half" /\ f.at # "half"
      BY <2>1, <3>1, <3>4, BoundsAssumption DEF Holds, StoresOK
    <3>5. CASE e.at # "half" /\ f.at = "half"
      BY <2>1, <3>1, <3>5, BoundsAssumption DEF Holds, StoresOK
    <3> QED
      BY <3>2, <3>3, <3>4, <3>5
  <2> QED
    BY <2>1 DEF Exclusive
<1>3. WithinWorkers
  <2>1. ASSUME NEW r \in Runtime PROVE Cardinality(Executing(r)) <= MaxConcurrent
    <3>1. PICK mine : mine = {e \in exec : e.by = r}
      OBVIOUS
    <3>2. Executing(r) = mine /\ IsFiniteSet(mine)
      BY <3>1, FS_Subset DEF SchedulerInv, ExecTypes, Executing
    <3>3. PICK n \in Nat : n = Cardinality(Executing(r))
      BY <3>2, FS_CardinalityType
    <3>4. Room(r) \in 0 .. MaxConcurrent /\ Cardinality(Executing(r)) + Room(r) <= MaxConcurrent
      BY RoomIs DEF SchedulerInv, RoomOK
    <3> QED
      BY <3>3, <3>4, BoundsAssumption
  <2> QED
    BY <2>1 DEF WithinWorkers
<1> QED
  BY <1>1, <1>2, <1>3 DEF ExecutionsFenced

\* Executions of one job are fenced against each other by the claims of the two
\* stores, whichever release the runtimes are of, and a runtime takes no more of
\* them than it has workers for.
THEOREM JobsAreFenced == JobsInit /\ [][JobsNext]_jobVars => []ExecutionsFenced
<1>1. SchedulerInv /\ [JobsNext]_jobVars => SchedulerInv'
  BY SchedulerSteps, SchedulerRests DEF GoodStep
<1> QED
  BY <1>1, SchedulerStarts, SchedulerIsFenced, PTL

\* A job whose completion a runtime can see is not started again by a runtime
\* that holds its leases.
THEOREM JobsRunOnce == JobsInit /\ [][JobsNext]_jobVars => NeverAgain
<1>1. SchedulerInv /\ [JobsNext]_jobVars => SchedulerInv' /\ [NoRestart]_jobVars
  BY SchedulerSteps, SchedulerRests DEF GoodStep
<1> QED
  BY <1>1, SchedulerStarts, PTL DEF NeverAgain, NoRestart

=============================================================================
