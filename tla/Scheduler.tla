------------------------------ MODULE Scheduler ------------------------------
(***************************************************************************)
(* Scheduled work: one-shot jobs published by committed mutations and the  *)
(* occurrences of registered crons, queued in Postgres, in Valkey or, while *)
(* old and new containers overlap, in both, and executed by any runtime.   *)
(*                                                                         *)
(* A runtime in Legacy has only the Valkey store                           *)
(* (valkeyScheduledJobStore); the others have the store that writes to     *)
(* Postgres and uses Valkey as a fence (migratingScheduledJobStore).  A    *)
(* Lua script and a SQL statement are one step; between two of them any    *)
(* other runtime may act, so claimDue of the migrating store is one step   *)
(* per call it makes.  A claim token is written afresh by every claim      *)
(* (owner ":" counter): a token here is the runtime and a number that no   *)
(* live reference carries, which is what the counters provide.             *)
(***************************************************************************)
EXTENDS Integers, Sequences, FiniteSets, SequencesExt

CONSTANTS
    Runtime,        \* runtime processes
    Legacy,         \* those of the previous, Valkey-only release
    OneShot,        \* jobs a mutation schedules with RunAfter or RunAt
    Cron,           \* registered crons
    Interval,       \* their interval
    Offset,         \* [Cron -> Nat], the stagger of a tenant cron
    Due,            \* [OneShot -> Nat], RunAt of the one-shots
    Mixed0,         \* jobs left in the mixed queue of an older release
    BatchLimit,     \* scheduledLegacyBatchLimit
    MaxConcurrent,  \* schedulerMaxConcurrent
    Horizon,        \* bound on the clock
    FaultKinds,     \* what may go wrong: "crash", "stop" (a shutdown), "stall" (a
                    \* lease ends although its holder lives), "error" (a store call)
    MaxJobFaults,   \* bound on how often
    NoToken         \* no claim token

\* The boundaries of the crons' interval, and the tokens of a runtime.
Boundary == {k * Interval : k \in 0..Horizon}
Job == OneShot \cup (Cron \X (Boundary \cap 0..Horizon))
Tokens == Runtime \X (Nat \ {0})

\* The stagger of a cron is taken modulo its interval (staggerTenantCronSchedule).
ASSUME BoundsAssumption ==
    /\ IsFiniteSet(Runtime) /\ IsFiniteSet(OneShot) /\ IsFiniteSet(Cron)
    /\ Legacy \subseteq Runtime /\ Mixed0 \subseteq Job /\ NoToken \notin Tokens
    /\ Interval \in Nat \ {0} /\ Horizon \in Nat /\ Offset \in [Cron -> 0..Interval - 1]
    /\ MaxConcurrent \in Nat \ {0} /\ BatchLimit \in Nat \ {0} /\ MaxJobFaults \in Nat

VARIABLES
    clock,
    up,         \* [Runtime -> BOOLEAN]
    nextRun,    \* NextRun of each runtime's registrations
    pc,         \* the step of a runtime's dispatchDue
    room,       \* the executions it may still start
    batch,      \* the claims that step has yet to look at
    picked,     \* the claims it has decided to run
    exec,       \* the executions in progress, of all runtimes
    row,        \* gonvex_scheduled_jobs, one record a job
    payload,    \* jobs with a payload in Valkey
    mixed,      \* those still in the mixed queue
    claim,      \* the claim key of each job in Valkey
    seen,       \* jobs with a dedupe marker in Valkey
    tx,         \* one-shots buffered by each runtime's mutation, and its state
    jobFaults   \* how much has gone wrong so far

stores == <<row, payload, mixed, claim, seen>>
jobVars == <<clock, up, nextRun, pc, room, batch, picked, exec, stores, tx,
          jobFaults>>
-----------------------------------------------------------------------------
IsCron(j) == j \notin OneShot
ScheduledFor(j) == IF IsCron(j) THEN j[2] ELSE Due[j]
RunAt(j) == IF IsCron(j) THEN j[2] + Offset[j[1]] ELSE Due[j]

Claim == [job: Job, token: Tokens]
NoRow == [status |-> "absent", token |-> NoToken, leased |-> FALSE]

\* offsetCronSchedule over intervalSchedule: the first boundary after t.
Next1(c, t) == (((t - Offset[c]) \div Interval) + 1) * Interval + Offset[c]

\* deterministicCronJobID: every runtime derives this ID for an occurrence.
CronJob(c, at) == <<c, at - Offset[c]>>

\* Every token some process or store still refers to.
LiveTokens == {row[j].token : j \in Job} \cup {claim[j] : j \in Job}
        \cup {e.token : e \in exec}
        \cup UNION {{batch[r][i].token : i \in DOMAIN batch[r]}
                    \cup {picked[r][i].token : i \in DOMAIN picked[r]} : r \in Runtime}

\* k new tokens of runtime r.
Fresh(r, k) ==
    LET used == {t[2] : t \in {u \in LiveTokens : u # NoToken /\ u[1] = r}}
        free == {n \in 1..Cardinality(used) + k : n \notin used}
    IN  CHOOSE s \in [1..k -> {r} \X free] : IsInjective(s)

\* One-shots first, then by the time t(j).
Earlier(i, j, t(_)) ==
    \/ ~IsCron(i) /\ IsCron(j)
    \/ IsCron(i) = IsCron(j) /\ t(i) < t(j)

\* The sequences that list the set S in claiming order.
Orders(S, t(_)) ==
    {s \in SetToSeqs(S) : \A m, n \in DOMAIN s : m < n => ~Earlier(s[n], s[m], t)}

Executing(r) == {e \in exec : e.by = r}
Blank == [job |-> {}, committed |-> FALSE]
Less(a, b) == IF a < b THEN a ELSE b
-----------------------------------------------------------------------------
JobsInit ==
    /\ clock = 0
    /\ up = [r \in Runtime |-> TRUE]
    /\ nextRun = [r \in Runtime |-> [c \in Cron |-> Next1(c, 0)]]
    /\ pc = [r \in Runtime |-> "idle"]
    /\ room = [r \in Runtime |-> 0]
    /\ batch = [r \in Runtime |-> <<>>]
    /\ picked = [r \in Runtime |-> <<>>]
    /\ exec = {}
    /\ row = [j \in Job |-> NoRow]
    /\ payload = Mixed0 /\ mixed = Mixed0 /\ seen = Mixed0
    /\ claim = [j \in Job |-> NoToken]
    /\ tx = [r \in Runtime |-> Blank]
    /\ jobFaults = 0

JobFault(kind) ==
    /\ kind \in FaultKinds /\ jobFaults < MaxJobFaults
    /\ jobFaults' = jobFaults + 1
-----------------------------------------------------------------------------
(***************************************************************************)
(* The stores: what one call leaves behind.                                *)
(***************************************************************************)
\* INSERT ... ON CONFLICT (id) DO NOTHING.
EnqueuePostgres(J) ==
    /\ row' = [j \in Job |-> IF j \in J /\ row[j].status = "absent"
                            THEN [NoRow EXCEPT !.status = "pending"] ELSE row[j]]
    /\ UNCHANGED <<payload, mixed, claim, seen>>

\* enqueueScheduledJobScript: nothing if the dedupe marker is there.
EnqueueValkey(J) ==
    /\ payload' = payload \cup (J \ seen)
    /\ seen' = seen \cup J
    /\ UNCHANGED <<row, mixed, claim>>

EnqueueJobs(r, J) == IF r \in Legacy THEN EnqueueValkey(J) ELSE EnqueuePostgres(J)

\* Mutant: the key is deleted whoever holds it.
ReleaseAnyKey(claims, C) ==
    [j \in Job |-> IF \E c \in C : c.job = j THEN NoToken ELSE claims[j]]

\* releaseScheduledJobScript and the UPDATE of release: only the own token.
ReleaseValkey(claims, C) ==
    [j \in Job |-> IF [job |-> j, token |-> claims[j]] \in C THEN NoToken ELSE claims[j]]
ReleasePostgres(rows, C) ==
    [j \in Job |-> IF rows[j].status = "pending" /\ [job |-> j, token |-> rows[j].token] \in C
                   THEN [rows[j] EXCEPT !.token = NoToken, !.leased = FALSE] ELSE rows[j]]

\* claimScheduledJobsScript: the one-shot index, then a batch of the mixed
\* queue, then the cron index unless a due mixed entry is left.
Claimable(J) == {j \in J : RunAt(j) <= clock /\ claim[j] = NoToken}
MixedDue == {j \in mixed : RunAt(j) <= clock}
Migrated == IF Cardinality(MixedDue) <= BatchLimit THEN {MixedDue}
            ELSE {M \in SUBSET MixedDue : Cardinality(M) = BatchLimit}

\* A sequence of each of three sets, one after the other.
InTurn(A, B, C) == {s \o t \o u : s \in A, t \in B, u \in C}

\* The sequences of at most limit jobs the script may claim when it moves M.
ValkeyPicks(limit, M) ==
    LET once == Claimable({j \in payload : ~IsCron(j) /\ j \notin mixed})
        more == Claimable({j \in M : ~IsCron(j)})
        cron == IF MixedDue \subseteq M
                THEN Claimable({j \in payload : IsCron(j) /\ (j \notin mixed \/ j \in M)}) ELSE {}
    IN  {SubSeq(q, 1, Less(limit, Len(q))) :
            q \in InTurn(Orders(once, RunAt), Orders(more, RunAt), Orders(cron, RunAt))}

\* The mixed queue is only looked at when the one-shots leave room.
Moves(limit) ==
    IF Cardinality(Claimable({j \in payload : ~IsCron(j) /\ j \notin mixed})) >= limit
    THEN {{}} ELSE Migrated

AsClaims(r, s) ==
    LET tokens == Fresh(r, Len(s)) IN [i \in DOMAIN s |-> [job |-> s[i], token |-> tokens[i]]]
TokenIn(s, j) == (CHOOSE c \in ToSet(s) : c.job = j).token
JobsIn(s) == {c.job : c \in ToSet(s)}

\* Mutant: a lease that ended is not looked at.
UnclaimedPicks(limit) ==
    LET open == {j \in Job : /\ row[j].status = "pending" /\ RunAt(j) <= clock
                             /\ row[j].token = NoToken}
    IN  {SubSeq(s, 1, Less(limit, Len(s))) : s \in Orders(open, RunAt)}

\* SELECT ... FOR UPDATE SKIP LOCKED of claimDue.
PostgresPicks(limit) ==
    LET open == {j \in Job : /\ row[j].status = "pending" /\ RunAt(j) <= clock
                             /\ (row[j].token = NoToken \/ ~row[j].leased)}
    IN  {SubSeq(s, 1, Less(limit, Len(s))) : s \in Orders(open, RunAt)}

\* What completeScheduledJobScript answers for a token: it is the claim's, or
\* nothing of the job is left.
ValkeyAccepts(j, token) ==
    \/ claim[j] = token
    \/ claim[j] = NoToken /\ j \notin payload

\* The state after an accepted completion.
CompleteValkey(j, token) ==
    IF claim[j] = token
    THEN /\ payload' = payload \ {j} /\ mixed' = mixed \ {j}
         /\ claim' = [claim EXCEPT ![j] = NoToken] /\ seen' = seen \cup {j}
    ELSE UNCHANGED <<payload, mixed, claim, seen>>

CompletePostgres(j, token) ==
    row' = IF row[j].status = "pending" /\ row[j].token = token
           THEN [row EXCEPT ![j] = [status |-> "completed", token |-> NoToken, leased |-> FALSE]]
           ELSE row
PostgresAccepts(j, token) ==
    \/ row[j].status = "pending" /\ row[j].token = token
    \/ row[j].status = "completed"
-----------------------------------------------------------------------------
(***************************************************************************)
(* dispatchDue.                                                            *)
(***************************************************************************)
DueCrons(r) == {c \in Cron : nextRun[r][c] <= clock}

\* Persist the due occurrences and move their registrations on; a failed
\* enqueue leaves the registration for the next tick.
Dispatch(r) ==
    /\ up[r] /\ pc[r] = "idle"
    /\ \E F \in SUBSET DueCrons(r) :
        /\ IF F = {} THEN UNCHANGED jobFaults ELSE JobFault("error")
        /\ EnqueueJobs(r, {CronJob(c, nextRun[r][c]) : c \in DueCrons(r) \ F})
        /\ nextRun' = [nextRun EXCEPT ![r] = [c \in Cron |->
                          IF c \in DueCrons(r) \ F THEN Next1(c, clock) ELSE @[c]]]
    /\ room' = [room EXCEPT ![r] = MaxConcurrent - Cardinality(Executing(r))]
    /\ pc' = [pc EXCEPT ![r] = IF room'[r] > 0 THEN "claim" ELSE "idle"]
    /\ UNCHANGED <<clock, up, batch, picked, exec, tx>>

\* A lease may have ended during claimDue: "lost" says that the holder let one
\* of its leases end, before or after the start.
Execution(r, c, lost) ==
    [by |-> r, job |-> c.job, token |-> c.token, at |-> "running", ctx |-> TRUE, lost |-> lost]
Leased(c) ==
    /\ claim[c.job] = c.token
    /\ row[c.job].token = c.token /\ row[c.job].leased

\* claimDue of the Valkey store.
ClaimValkey(r) ==
    /\ up[r] /\ pc[r] = "claim"
    /\ \E M \in Moves(room[r]) : \E s \in ValkeyPicks(room[r], M) :
        LET claims == AsClaims(r, s) IN
        /\ mixed' = mixed \ M
        /\ claim' = [j \in Job |-> IF j \in JobsIn(claims) THEN TokenIn(claims, j) ELSE claim[j]]
        /\ IF r \in Legacy
           THEN /\ exec' = exec \cup {Execution(r, c, FALSE) : c \in ToSet(claims)}
                /\ pc' = [pc EXCEPT ![r] = "idle"]
                /\ UNCHANGED batch
           ELSE /\ batch' = [batch EXCEPT ![r] = claims]
                /\ pc' = [pc EXCEPT ![r] = "adopt"]
                /\ UNCHANGED exec
    /\ UNCHANGED <<clock, up, nextRun, room, picked, row, payload, seen, tx, jobFaults>>

Adoptable(c) ==
    \/ row[c.job].status = "absent"
    \/ row[c.job].status = "pending" /\ (row[c.job].token \in {NoToken, c.token} \/ ~row[c.job].leased)

\* adoptClaim of the next legacy claim, and what claimDue does with the answer.
Adopt(r) ==
    /\ up[r] /\ pc[r] = "adopt" /\ batch[r] # <<>>
    /\ LET c == Head(batch[r]) IN
        \/ /\ Adoptable(c)
           /\ row' = [row EXCEPT ![c.job] =
                         [status |-> "pending", token |-> c.token, leased |-> TRUE]]
           /\ picked' = [picked EXCEPT ![r] = Append(@, c)]
           /\ UNCHANGED <<payload, mixed, claim, seen>>
        \/ /\ row[c.job].status = "completed" /\ ValkeyAccepts(c.job, c.token)
           /\ CompleteValkey(c.job, c.token)
           /\ UNCHANGED <<row, picked>>
        \/ /\ row[c.job].status = "pending" /\ ~Adoptable(c)
           /\ claim' = ReleaseValkey(claim, {c})
           /\ UNCHANGED <<row, picked, payload, mixed, seen>>
    /\ batch' = [batch EXCEPT ![r] = Tail(@)]
    /\ UNCHANGED <<clock, up, nextRun, pc, room, exec, tx, jobFaults>>

\* claimDue of the Postgres store.
ClaimPostgres(r) ==
    /\ up[r] /\ pc[r] = "adopt" /\ batch[r] = <<>>
    /\ \E s \in PostgresPicks(room[r]) :
        LET claims == AsClaims(r, s) IN
        /\ row' = [j \in Job |-> IF j \in JobsIn(claims)
                                THEN [status |-> "pending", token |-> TokenIn(claims, j), leased |-> TRUE]
                                ELSE row[j]]
        /\ batch' = [batch EXCEPT ![r] = claims]
    /\ pc' = [pc EXCEPT ![r] = "guard"]
    /\ UNCHANGED <<clock, up, nextRun, room, picked, exec, payload, mixed, claim, seen, tx, jobFaults>>

\* Mutant: the guard does not look at the dedupe marker.
GuardForgetsSeen(r) ==
    /\ up[r] /\ pc[r] = "guard" /\ batch[r] # <<>>
    /\ LET c == Head(batch[r])
           free == claim[c.job] \in {NoToken, c.token} IN
        \/ /\ c.job \in payload \/ ~free
           /\ row' = ReleasePostgres(row, {c})
           /\ UNCHANGED <<claim, picked>>
        \/ /\ c.job \notin payload /\ free
           /\ claim' = [claim EXCEPT ![c.job] = c.token]
           /\ picked' = [picked EXCEPT ![r] = Append(@, c)]
           /\ UNCHANGED row
    /\ batch' = [batch EXCEPT ![r] = Tail(@)]
    /\ UNCHANGED <<clock, up, nextRun, pc, room, exec, payload, mixed, seen, tx, jobFaults>>

\* guardScheduledJobScript for the next Postgres claim.
Guard(r) ==
    /\ up[r] /\ pc[r] = "guard" /\ batch[r] # <<>>
    /\ LET c == Head(batch[r])
           free == claim[c.job] \in {NoToken, c.token} IN
        \/ /\ c.job \in payload \/ (c.job \notin seen /\ ~free)
           /\ row' = ReleasePostgres(row, {c})
           /\ UNCHANGED <<claim, picked>>
        \/ /\ c.job \notin payload /\ c.job \in seen
           /\ PostgresAccepts(c.job, c.token)
           /\ CompletePostgres(c.job, c.token)
           /\ UNCHANGED <<claim, picked>>
        \/ /\ c.job \notin payload /\ c.job \notin seen /\ free
           /\ claim' = [claim EXCEPT ![c.job] = c.token]
           /\ picked' = [picked EXCEPT ![r] = Append(@, c)]
           /\ UNCHANGED row
    /\ batch' = [batch EXCEPT ![r] = Tail(@)]
    /\ UNCHANGED <<clock, up, nextRun, pc, room, exec, payload, mixed, seen, tx, jobFaults>>

ByOccurrence(r) ==
    {s \in SetToSeqs(ToSet(picked[r])) :
        \A m, n \in DOMAIN s : m < n => ~Earlier(s[n].job, s[m].job, ScheduledFor)}

\* Keep the first claims that fit, give the others back, execute.
Start(r) ==
    /\ up[r] /\ pc[r] = "guard" /\ batch[r] = <<>>
    /\ \E s \in ByOccurrence(r) :
        LET kept == {s[i] : i \in 1..Less(room[r], Len(s))}
            rest == ToSet(s) \ kept IN
        /\ exec' = exec \cup {Execution(r, c, ~Leased(c)) : c \in kept}
        /\ row' = ReleasePostgres(row, rest)
        /\ claim' = ReleaseValkey(claim, rest)
    /\ picked' = [picked EXCEPT ![r] = <<>>]
    /\ pc' = [pc EXCEPT ![r] = "idle"]
    /\ UNCHANGED <<clock, up, nextRun, room, batch, payload, mixed, seen, tx, jobFaults>>

\* A call of claimDue fails, or an answer is refused: what was claimed is
\* released, unless the store is not reachable for that either.
ClaimFails(r) ==
    /\ up[r] /\ pc[r] \in {"adopt", "guard"}
    /\ JobFault("error")
    /\ LET mine == ToSet(picked[r]) \cup ToSet(batch[r])
           rows == IF pc[r] = "guard" THEN mine ELSE ToSet(picked[r]) IN
        \/ row' = ReleasePostgres(row, rows) /\ claim' = ReleaseValkey(claim, mine)
        \/ UNCHANGED <<row, claim>>
    /\ batch' = [batch EXCEPT ![r] = <<>>] /\ picked' = [picked EXCEPT ![r] = <<>>]
    /\ pc' = [pc EXCEPT ![r] = "idle"]
    /\ UNCHANGED <<clock, up, nextRun, room, exec, payload, mixed, seen, tx>>
-----------------------------------------------------------------------------
(***************************************************************************)
(* execute.                                                                *)
(***************************************************************************)
ReplaceExec(e, f) == exec' = (exec \ {e}) \cup {f}

\* The renewal of a third of the lease finds its token replaced: the context of
\* the job is cancelled.  A lapsed but unclaimed Postgres lease is taken up again.
Renew(e) ==
    /\ e.at = "running" /\ e.ctx
    /\ LET current == row[e.job].status = "pending" /\ row[e.job].token = e.token
           alive == /\ e.by \in Legacy \/ current
                    /\ claim[e.job] = e.token IN
        /\ ~alive \/ (e.by \notin Legacy /\ ~row[e.job].leased)
        /\ row' = IF e.by \notin Legacy /\ current THEN [row EXCEPT ![e.job].leased = TRUE] ELSE row
        /\ ReplaceExec(e, [e EXCEPT !.ctx = alive])
    /\ UNCHANGED <<clock, up, nextRun, pc, room, batch, picked, payload, mixed, claim, seen, tx, jobFaults>>

RenewFails(e) ==
    /\ e.at = "running" /\ e.ctx
    /\ JobFault("error")
    /\ ReplaceExec(e, [e EXCEPT !.ctx = FALSE])
    /\ UNCHANGED <<clock, up, nextRun, pc, room, batch, picked, stores, tx>>

\* The function returns a result or an error of its own: both are final.
Return(e) ==
    /\ e.at = "running"
    /\ ReplaceExec(e, [e EXCEPT !.at = "returned"])
    /\ UNCHANGED <<clock, up, nextRun, pc, room, batch, picked, stores, tx, jobFaults>>

\* The function returns the error of its cancelled context.
InterruptJob(e) ==
    /\ e.at = "running" /\ ~e.ctx
    /\ ReplaceExec(e, [e EXCEPT !.at = "interrupted"])
    /\ UNCHANGED <<clock, up, nextRun, pc, room, batch, picked, stores, tx, jobFaults>>

\* complete: the Valkey side first.
CompleteInValkey(e) ==
    /\ e.at = "returned"
    /\ ValkeyAccepts(e.job, e.token)
    /\ CompleteValkey(e.job, e.token)
    /\ IF e.by \in Legacy THEN exec' = exec \ {e} ELSE ReplaceExec(e, [e EXCEPT !.at = "half"])
    /\ UNCHANGED <<clock, up, nextRun, pc, room, batch, picked, row, tx, jobFaults>>

CompleteInPostgres(e) ==
    /\ e.at = "half"
    /\ PostgresAccepts(e.job, e.token)
    /\ CompletePostgres(e.job, e.token)
    /\ exec' = exec \ {e}
    /\ UNCHANGED <<clock, up, nextRun, pc, room, batch, picked, payload, mixed, claim, seen, tx, jobFaults>>

\* The third attempt is refused too, or fails: the execution is over, the
\* claims stay for their leases to end.
CompleteGivesUp(e) ==
    /\ \/ e.at = "returned" /\ ~ValkeyAccepts(e.job, e.token) /\ UNCHANGED jobFaults
       \/ e.at = "half" /\ ~PostgresAccepts(e.job, e.token) /\ UNCHANGED jobFaults
       \/ e.at \in {"returned", "half"} /\ JobFault("error")
    /\ exec' = exec \ {e}
    /\ UNCHANGED <<clock, up, nextRun, pc, room, batch, picked, stores, tx>>

ReleaseJob(e) ==
    /\ e.at = "interrupted"
    /\ LET c == [job |-> e.job, token |-> e.token] IN
        \/ /\ row' = IF e.by \in Legacy THEN row ELSE ReleasePostgres(row, {c})
           /\ claim' = ReleaseValkey(claim, {c})
           /\ UNCHANGED jobFaults
        \/ JobFault("error") /\ UNCHANGED <<row, claim>>
    /\ exec' = exec \ {e}
    /\ UNCHANGED <<clock, up, nextRun, pc, room, batch, picked, payload, mixed, seen, tx>>
-----------------------------------------------------------------------------
(***************************************************************************)
(* deferredScheduler: jobs of a mutation are published after its commit.   *)
(***************************************************************************)
Unscheduled(j) ==
    /\ \A r \in Runtime : j \notin tx[r].job
    /\ row[j].status = "absent" /\ j \notin seen

Schedule(r, j) ==
    /\ up[r] /\ ~tx[r].committed /\ Unscheduled(j)
    /\ tx' = [tx EXCEPT ![r].job = @ \cup {j}]
    /\ UNCHANGED <<clock, up, nextRun, pc, room, batch, picked, exec, stores, jobFaults>>

CommitJobs(r) ==
    /\ tx[r].job # {} /\ ~tx[r].committed
    /\ tx' = [tx EXCEPT ![r].committed = TRUE]
    /\ UNCHANGED <<clock, up, nextRun, pc, room, batch, picked, exec, stores, jobFaults>>

Rollback(r) ==
    /\ tx[r].job # {} /\ ~tx[r].committed
    /\ tx' = [tx EXCEPT ![r] = Blank]
    /\ UNCHANGED <<clock, up, nextRun, pc, room, batch, picked, exec, stores, jobFaults>>

\* flush: one RunAt a job; an error is logged and the job is gone.
PublishJobs(r, j) ==
    /\ tx[r].committed /\ j \in tx[r].job
    /\ \/ EnqueueJobs(r, {j}) /\ UNCHANGED jobFaults
       \/ JobFault("error") /\ UNCHANGED stores
    /\ tx' = [tx EXCEPT ![r] = IF tx[r].job = {j} THEN Blank
                               ELSE [tx[r] EXCEPT !.job = tx[r].job \ {j}]]
    /\ UNCHANGED <<clock, up, nextRun, pc, room, batch, picked, exec>>
-----------------------------------------------------------------------------
(***************************************************************************)
(* Time and faults.                                                        *)
(***************************************************************************)
Tick ==
    /\ clock < Horizon
    /\ clock' = clock + 1
    /\ UNCHANGED <<up, nextRun, pc, room, batch, picked, exec, stores, tx, jobFaults>>

\* syncCrons: a manifest is loaded again; NextRun is computed from now.
SyncCrons(r) ==
    /\ up[r]
    /\ nextRun' = [nextRun EXCEPT ![r] = [c \in Cron |-> Next1(c, clock)]]
    /\ nextRun' # nextRun
    /\ UNCHANGED <<clock, up, pc, room, batch, picked, exec, stores, tx, jobFaults>>

\* A live process still works under the token.
TokenHeld(token) ==
    \/ \E e \in exec : e.token = token
    \/ \E r \in Runtime : \E c \in ToSet(batch[r]) \cup ToSet(picked[r]) : c.token = token

Lapse(token) ==
    /\ IF TokenHeld(token) THEN JobFault("stall") ELSE UNCHANGED jobFaults
    /\ exec' = {[e EXCEPT !.lost = @ \/ e.token = token] : e \in exec}

\* Five minutes without a renewal.
RowLapses(j) ==
    /\ row[j].leased
    /\ Lapse(row[j].token)
    /\ row' = [row EXCEPT ![j].leased = FALSE]
    /\ UNCHANGED <<clock, up, nextRun, pc, room, batch, picked, payload, mixed, claim, seen, tx>>

ClaimLapses(j) ==
    /\ claim[j] # NoToken
    /\ Lapse(claim[j])
    /\ claim' = [claim EXCEPT ![j] = NoToken]
    /\ UNCHANGED <<clock, up, nextRun, pc, room, batch, picked, row, payload, mixed, seen, tx>>

Forget(r) ==
    /\ pc' = [pc EXCEPT ![r] = "idle"]
    /\ batch' = [batch EXCEPT ![r] = <<>>] /\ picked' = [picked EXCEPT ![r] = <<>>]

\* The process dies and another takes its place.
CrashRuntime(r) ==
    /\ JobFault("crash")
    /\ Forget(r)
    /\ exec' = exec \ Executing(r)
    /\ tx' = [tx EXCEPT ![r] = Blank]
    /\ up' = [up EXCEPT ![r] = TRUE]
    /\ nextRun' = [nextRun EXCEPT ![r] = [c \in Cron |-> Next1(c, clock)]]
    /\ UNCHANGED <<clock, room, stores>>

\* The server context ends: no dispatch any more, every job is cancelled, and
\* calls in progress fail together with the releases that would follow them.
StopRuntime(r) ==
    /\ up[r] /\ JobFault("stop")
    /\ Forget(r)
    /\ exec' = {IF e.by = r /\ e.at = "running" THEN [e EXCEPT !.ctx = FALSE] ELSE e : e \in exec}
    /\ up' = [up EXCEPT ![r] = FALSE]
    /\ UNCHANGED <<clock, nextRun, room, stores, tx>>

Restart(r) ==
    /\ ~up[r] /\ Executing(r) = {} /\ tx[r] = Blank
    /\ up' = [up EXCEPT ![r] = TRUE]
    /\ nextRun' = [nextRun EXCEPT ![r] = [c \in Cron |-> Next1(c, clock)]]
    /\ UNCHANGED <<clock, pc, room, batch, picked, exec, stores, tx, jobFaults>>
-----------------------------------------------------------------------------
JobsNext ==
    \/ \E r \in Runtime :
        \/ Dispatch(r) \/ ClaimValkey(r) \/ Adopt(r) \/ ClaimPostgres(r) \/ Guard(r) \/ Start(r)
        \/ ClaimFails(r) \/ SyncCrons(r) \/ CrashRuntime(r) \/ StopRuntime(r) \/ Restart(r)
        \/ CommitJobs(r) \/ Rollback(r) \/ \E j \in OneShot : Schedule(r, j) \/ PublishJobs(r, j)
    \/ \E e \in exec : \/ Renew(e) \/ RenewFails(e) \/ Return(e) \/ InterruptJob(e) \/ ReleaseJob(e)
                       \/ CompleteInValkey(e) \/ CompleteInPostgres(e) \/ CompleteGivesUp(e)
    \/ \E j \in Job : RowLapses(j) \/ ClaimLapses(j)
    \/ Tick

-----------------------------------------------------------------------------
(***************************************************************************)
(* Properties.                                                             *)
(***************************************************************************)
\* Every variable has its type: the stores name known jobs and tokens, and the
\* steps of dispatchDue carry claims.
JobsOK ==
    /\ clock \in 0..Horizon /\ up \in [Runtime -> BOOLEAN]
    /\ nextRun \in [Runtime -> [Cron -> Nat]]
    /\ pc \in [Runtime -> {"idle", "claim", "adopt", "guard"}]
    /\ room \in [Runtime -> 0..MaxConcurrent]
    /\ \A r \in Runtime : ToSet(batch[r]) \cup ToSet(picked[r]) \subseteq Claim
    /\ exec \subseteq [by: Runtime, job: Job, token: Tokens, ctx: BOOLEAN, lost: BOOLEAN,
                       at: {"running", "returned", "half", "interrupted"}]
    /\ row \in [Job -> [status: {"absent", "pending", "completed"},
                        token: Tokens \cup {NoToken}, leased: BOOLEAN]]
    /\ mixed \subseteq payload /\ payload \subseteq Job /\ seen \subseteq Job
    /\ claim \in [Job -> Tokens \cup {NoToken}]
    /\ tx \in [Runtime -> [job: SUBSET OneShot, committed: BOOLEAN]]
    /\ jobFaults \in 0..MaxJobFaults

\* The completion of a job is on record.
InValkey(j) == j \in seen /\ j \notin payload
Completed(j) == row[j].status = "completed" \/ InValkey(j)
KnownCompleted(r, j) == IF r \in Legacy THEN InValkey(j) ELSE Completed(j)

\* Two executions of one job overlap only when one of them has let its lease
\* end: the two stores' claims, adopted and guarded one call at a time, fence
\* old and new runtimes against each other (scheduler_migrating_store.go:24-29).
Exclusive ==
    \A e, f \in exec : e # f /\ e.job = f.job => e.lost \/ f.lost

\* A job whose completion is on record, in Valkey for an old runtime and in
\* either store for a new one, is not started again by a runtime that holds its
\* leases, wherever it finds the job and wherever the completing process stopped (scheduler_migrating_store.go:166-175).
NeverAgain ==
    [][\A e \in exec' : KnownCompleted(e.by, e.job) /\ ~e.lost =>
          \E f \in exec : f.job = e.job /\ f.token = e.token]_jobVars

\* A runtime never runs more jobs than it has workers for, although the room is
\* computed before the stores are asked and both are asked for that many.
WithinWorkers == \A r \in Runtime : Cardinality(Executing(r)) <= MaxConcurrent

\* A job that a store has taken is executed to its end, whatever crashes, stops
\* and lapses on the way: in the end no queued job is without its completion.
Queued(j) == row[j].status = "pending" \/ j \in payload
JobsDone == \A j \in Job : Queued(j) => Completed(j)
\* The loops of the processes go on, functions return, renewals and completions
\* are called, and time passes: an abandoned lease ends.
DispatchStep(r) ==
    \/ Dispatch(r) \/ ClaimValkey(r) \/ Adopt(r) \/ ClaimPostgres(r) \/ Guard(r) \/ Start(r)
ExecuteStep(e) ==
    \/ Return(e) \/ InterruptJob(e) \/ ReleaseJob(e)
    \/ CompleteInValkey(e) \/ CompleteInPostgres(e) \/ CompleteGivesUp(e)
AbandonedLapses ==
    \E j \in Job : \/ row[j].leased /\ ~TokenHeld(row[j].token) /\ RowLapses(j)
                   \/ claim[j] # NoToken /\ ~TokenHeld(claim[j]) /\ ClaimLapses(j)

\* Executions of one job are fenced against each other, and a runtime takes no
\* more of them than it has workers for.
ExecutionsFenced == JobsOK /\ Exclusive /\ WithinWorkers
=============================================================================
