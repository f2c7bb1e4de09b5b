--------------------------- MODULE QueryAdmission ---------------------------
(***************************************************************************)
(* The admission controller in front of every database-backed query        *)
(* execution (server/internal/server/query_admission.go): one global cap,  *)
(* a reserved share for bootstrap hydration that may borrow idle capacity, *)
(* aging of foreground work, and round-robin over tenants inside a class.  *)
(*                                                                         *)
(* Every method runs under queryAdmission.mu.  The dispatch loop is the    *)
(* only critical section with more than one iteration: "dispatching" is    *)
(* TRUE while a caller holds mu inside dispatchLocked, and nothing else    *)
(* can happen until the loop returns.                                      *)
(***************************************************************************)
EXTENDS Integers, Sequences, FiniteSets

CONSTANTS
    Proc,                \* goroutines that call acquire, again and again
    Tenant,              \* "project/tenant" keys
    Offered,             \* the classes the goroutines ask for
    TotalPermits,        \* GONVEX_SUBSCRIPTION_RERUN_CONCURRENCY
    BootstrapConfigured, \* GONVEX_QUERY_BOOTSTRAP_CONCURRENCY, <= 0: default
    AgingThreshold,      \* foregroundAgingThreshold, in clock ticks
    MaxQueue,            \* bound of the model: entries of one tenant's queue
    None                 \* a cancelled queue entry; an idle goroutine's request

Class == {"reactive", "foreground", "bootstrap"}

\* newQueryAdmission: the default share is a quarter of the cap, at least
\* one, and a configured share is clipped to the cap.
BootstrapPermits ==
    LET wanted == IF BootstrapConfigured > 0 THEN BootstrapConfigured
                  ELSE IF TotalPermits \div 4 > 1 THEN TotalPermits \div 4 ELSE 1
    IN  IF wanted > TotalPermits THEN TotalPermits ELSE wanted

\* totalPermits <= 0 makes newQueryAdmission return nil, which admits all.
ASSUME PermitsAssumption ==
    /\ TotalPermits \in Nat \ {0}
    /\ BootstrapConfigured \in Int
    /\ AgingThreshold \in Nat
    /\ MaxQueue \in Nat
ASSUME OfferedAssumption == Offered \subseteq Class
ASSUME ProcAssumption == IsFiniteSet(Proc) /\ None \notin Proc \cup Class \cup Tenant

VARIABLES
    pc,              \* where each goroutine is in acquire ... release
    cls,             \* class of its current acquire
    ten,             \* tenant of its current acquire
    age,             \* ticks since a foreground waiter was queued
    queue,           \* admissionQueue.byTenant: FIFO of waiters
    order,           \* admissionQueue.order: tenants in round-robin order
    cursor,          \* admissionQueue.cursor, an index from 0
    waiting,         \* admissionQueue.waiting, the count kept by the code
    active,          \* permits handed out
    bootstrapActive, \* permits handed out to bootstrap work
    dispatching      \* mu is held inside dispatchLocked

vars == <<pc, cls, ten, age, queue, order, cursor, waiting, active,
          bootstrapActive, dispatching>>
queueVars == <<queue, order, cursor, waiting>>

MaxAge == AgingThreshold + 1

\* A goroutine holds a permit from the moment it is granted, even if it has
\* not run since the grant ("granted": ready is closed, select not resumed).
Holding == {p \in Proc : pc[p] \in {"granted", "executing"}}
Waiters(c) == {p \in Proc : pc[p] = "waiting" /\ cls[p] = c}

\* The variables have their types.
TypeOK ==
    /\ pc \in [Proc -> {"idle", "waiting", "granted", "executing"}]
    /\ cls \in [Proc -> Class \cup {None}]
    /\ ten \in [Proc -> Tenant \cup {None}]
    /\ \A p \in Proc : pc[p] # "idle" => cls[p] \in Class /\ ten[p] \in Tenant
    /\ age \in [Proc -> 0..MaxAge]
    /\ queue \in [Class -> [Tenant -> Seq(Proc \cup {None})]]
    /\ order \in [Class -> Seq(Tenant)]
    /\ cursor \in [Class -> Nat]
    /\ waiting \in [Class -> Int]
    /\ active \in Int
    /\ bootstrapActive \in Int
    /\ dispatching \in BOOLEAN

Init ==
    /\ pc = [p \in Proc |-> "idle"]
    /\ cls = [p \in Proc |-> None]
    /\ ten = [p \in Proc |-> None]
    /\ age = [p \in Proc |-> 0]
    /\ queue = [c \in Class |-> [t \in Tenant |-> <<>>]]
    /\ order = [c \in Class |-> <<>>]
    /\ cursor = [c \in Class |-> 0]
    /\ waiting = [c \in Class |-> 0]
    /\ active = 0
    /\ bootstrapActive = 0
    /\ dispatching = FALSE

-----------------------------------------------------------------------------
\* The queues.

Live(c, t) == {i \in DOMAIN queue[c][t] : queue[c][t][i] # None}

\* The positions of order[c] whose tenant still has a waiter.
LiveAt(c) == {i \in DOMAIN order[c] : Live(c, order[c][i]) # {}}

Start(c) == IF cursor[c] >= Len(order[c]) THEN 0 ELSE cursor[c]

\* How many tenants pop looks at before it reaches position i.
Distance(c, i) == IF i > Start(c) THEN i - Start(c) ELSE i + Len(order[c]) - Start(c)

NextAt(c) == CHOOSE i \in LiveAt(c) :
                 \A j \in LiveAt(c) : Distance(c, i) <= Distance(c, j)

\* Mutant: the newest waiter of a tenant goes first.
FirstLiveNewest(c, t) == CHOOSE i \in Live(c, t) : \A j \in Live(c, t) : i >= j

FirstLive(c, t) == CHOOSE i \in Live(c, t) : \A j \in Live(c, t) : i <= j

\* The waiter that pop returns, when there is one.
NextTenant(c) == order[c][NextAt(c)]
Chosen(c) == queue[c][NextTenant(c)][FirstLive(c, NextTenant(c))]

\* Mutant: the tenant that is served drops out of the rotation.
PoppedOrderDropsServed(c) ==
    LET i == NextAt(c)
        s == Start(c)
    IN  IF i > s THEN SubSeq(order[c], 1, s) \o SubSeq(order[c], i + 1, Len(order[c]))
        ELSE SubSeq(order[c], i + 1, s)

\* pop deletes every tenant it looks at and finds without waiters.  When it
\* has to wrap around, what is left of order starts at the tenant it serves.
PoppedOrder(c) ==
    LET i == NextAt(c)
        s == Start(c)
    IN  IF i > s THEN SubSeq(order[c], 1, s) \o SubSeq(order[c], i, Len(order[c]))
        ELSE SubSeq(order[c], i, s)

\* Mutant: the cursor stays on the tenant that was served.
PoppedCursorStays(c) == IF NextAt(c) > Start(c) THEN Start(c) ELSE 0

PoppedCursor(c) == IF NextAt(c) > Start(c) THEN Start(c) + 1 ELSE 1

PoppedQueue(c) ==
    [t \in Tenant |->
        IF t = NextTenant(c)
        THEN SubSeq(queue[c][t], FirstLive(c, t) + 1, Len(queue[c][t]))
        ELSE IF \E i \in DOMAIN PoppedOrder(c) : PoppedOrder(c)[i] = t
        THEN queue[c][t]
        ELSE <<>>]

\* dispatchLocked pops the classes of "vain" without finding a waiter, which
\* deletes all their tenants, and then pops one from class c.
Pop(c, vain) ==
    /\ queue' = [k \in Class |-> IF k = c THEN PoppedQueue(c)
                                 ELSE IF k \in vain THEN [t \in Tenant |-> <<>>]
                                 ELSE queue[k]]
    /\ order' = [k \in Class |-> IF k = c THEN PoppedOrder(c)
                                 ELSE IF k \in vain THEN <<>> ELSE order[k]]
    /\ cursor' = [k \in Class |-> IF k = c THEN PoppedCursor(c)
                                  ELSE IF k \in vain /\ order[k] # <<>> THEN 0
                                  ELSE cursor[k]]
    /\ waiting' = [waiting EXCEPT ![c] = @ - 1]

PopVain(vain) ==
    /\ queue' = [k \in Class |-> IF k \in vain THEN [t \in Tenant |-> <<>>] ELSE queue[k]]
    /\ order' = [k \in Class |-> IF k \in vain THEN <<>> ELSE order[k]]
    /\ cursor' = [k \in Class |-> IF k \in vain /\ order[k] # <<>> THEN 0 ELSE cursor[k]]
    /\ UNCHANGED waiting

Push(p, c, t) ==
    /\ queue' = [queue EXCEPT ![c][t] = Append(@, p)]
    /\ order' = [order EXCEPT ![c] = IF \E i \in DOMAIN @ : @[i] = t
                                     THEN @ ELSE Append(@, t)]
    /\ waiting' = [waiting EXCEPT ![c] = @ + 1]
    /\ UNCHANGED cursor

\* waiter.removed = true; the entry stays until a pop compacts it.
Discard(p) ==
    LET c == cls[p]
    IN  /\ queue' = [queue EXCEPT ![c][ten[p]] =
                        [i \in DOMAIN @ |-> IF @[i] = p THEN None ELSE @[i]]]
        /\ waiting' = [waiting EXCEPT ![c] = @ - 1]
        /\ UNCHANGED <<order, cursor>>

\* Mutant: no aging.
ForegroundNeverAges == FALSE

\* oldestWait looks at the first live waiter of each tenant.
ForegroundAged ==
    \E t \in Tenant :
        /\ Live("foreground", t) # {}
        /\ age[queue["foreground"][t][FirstLive("foreground", t)]] > AgingThreshold

-----------------------------------------------------------------------------
\* acquire and release.

NoneAhead == waiting["reactive"] = 0 /\ waiting["foreground"] = 0

\* Mutant: one permit too many.
AdmissibleOffByOne(c) ==
    /\ active <= TotalPermits
    /\ \/ c # "bootstrap"
       \/ bootstrapActive < BootstrapPermits
       \/ NoneAhead

Admissible(c) ==
    /\ active < TotalPermits
    /\ \/ c # "bootstrap"
       \/ bootstrapActive < BootstrapPermits
       \/ NoneAhead

Grant(c) ==
    /\ active' = active + 1
    /\ bootstrapActive' = IF c = "bootstrap" THEN bootstrapActive + 1 ELSE bootstrapActive

\* acquire that is admitted at once.
AcquireNow(p, c, t) ==
    /\ ~dispatching
    /\ pc[p] = "idle"
    /\ Admissible(c)
    /\ Grant(c)
    /\ pc' = [pc EXCEPT ![p] = "executing"]
    /\ cls' = [cls EXCEPT ![p] = c]
    /\ ten' = [ten EXCEPT ![p] = t]
    /\ UNCHANGED <<age, queueVars, dispatching>>

\* acquire that has to queue.
AcquireWait(p, c, t) ==
    /\ ~dispatching
    /\ pc[p] = "idle"
    /\ ~Admissible(c)
    /\ Len(queue[c][t]) < MaxQueue
    /\ Push(p, c, t)
    /\ pc' = [pc EXCEPT ![p] = "waiting"]
    /\ cls' = [cls EXCEPT ![p] = c]
    /\ ten' = [ten EXCEPT ![p] = t]
    /\ age' = [age EXCEPT ![p] = 0]
    /\ UNCHANGED <<active, bootstrapActive, dispatching>>

\* The select takes "case <-waiter.ready".
Resume(p) ==
    /\ ~dispatching
    /\ pc[p] = "granted"
    /\ pc' = [pc EXCEPT ![p] = "executing"]
    /\ UNCHANGED <<cls, ten, age, queueVars, active, bootstrapActive, dispatching>>

\* The goroutine's waiter and its request are garbage.
Return(p) ==
    /\ pc' = [pc EXCEPT ![p] = "idle"]
    /\ cls' = [cls EXCEPT ![p] = None]
    /\ ten' = [ten EXCEPT ![p] = None]

\* Mutant: release does not dispatch.
GiveBackWithoutDispatch(p) ==
    /\ active' = active - 1
    /\ bootstrapActive' = IF cls[p] = "bootstrap" THEN bootstrapActive - 1 ELSE bootstrapActive
    /\ Return(p)
    /\ UNCHANGED <<age, queueVars, dispatching>>

\* releaseLocked up to its call of dispatchLocked.
GiveBack(p) ==
    /\ active' = active - 1
    /\ bootstrapActive' = IF cls[p] = "bootstrap" THEN bootstrapActive - 1 ELSE bootstrapActive
    /\ dispatching' = TRUE
    /\ Return(p)
    /\ UNCHANGED <<age, queueVars>>

\* Mutant: the permit of a waiter that was granted while it was cancelled is
\* not handed back.
CancelGrantedLeaks(p) ==
    /\ ~dispatching
    /\ pc[p] = "granted"
    /\ Return(p)
    /\ UNCHANGED <<age, queueVars, active, bootstrapActive, dispatching>>

\* "case <-ctx.Done()" when the dispatcher granted concurrently.
CancelGranted(p) ==
    /\ ~dispatching
    /\ pc[p] = "granted"
    /\ GiveBack(p)

\* "case <-ctx.Done()" of a waiter that is still queued.
CancelWaiting(p) ==
    /\ ~dispatching
    /\ pc[p] = "waiting"
    /\ Discard(p)
    /\ dispatching' = TRUE
    /\ Return(p)
    /\ age' = [age EXCEPT ![p] = 0]
    /\ UNCHANGED <<active, bootstrapActive>>

\* The release function, called when the execution has finished.
Release(p) ==
    /\ ~dispatching
    /\ pc[p] = "executing"
    /\ GiveBack(p)

-----------------------------------------------------------------------------
\* dispatchLocked, one iteration of its loop at a time.

ShareFree == bootstrapActive < BootstrapPermits
TriedShare == IF ShareFree THEN {"bootstrap"} ELSE {}

Hand(c, vain) ==
    LET p == Chosen(c)
    IN  /\ Pop(c, vain)
        /\ Grant(c)
        /\ pc' = [pc EXCEPT ![p] = "granted"]
        /\ age' = [age EXCEPT ![p] = 0]
        /\ UNCHANGED <<cls, ten, dispatching>>

InLoop == dispatching /\ active < TotalPermits

BootstrapWanted == ShareFree /\ LiveAt("bootstrap") # {}

DispatchBootstrapShare ==
    /\ InLoop
    /\ BootstrapWanted
    /\ Hand("bootstrap", {})

DispatchAgedForeground ==
    /\ InLoop
    /\ ~BootstrapWanted
    /\ ForegroundAged
    /\ Hand("foreground", TriedShare)

DispatchReactive ==
    /\ InLoop
    /\ ~BootstrapWanted
    /\ ~ForegroundAged
    /\ LiveAt("reactive") # {}
    /\ Hand("reactive", TriedShare)

DispatchForeground ==
    /\ InLoop
    /\ ~BootstrapWanted
    /\ ~ForegroundAged
    /\ LiveAt("reactive") = {}
    /\ LiveAt("foreground") # {}
    /\ Hand("foreground", TriedShare \cup {"reactive"})

NothingQueuedAhead ==
    /\ ~BootstrapWanted
    /\ LiveAt("reactive") = {}
    /\ LiveAt("foreground") = {}

DispatchBorrow ==
    /\ InLoop
    /\ NothingQueuedAhead
    /\ NoneAhead
    /\ LiveAt("bootstrap") # {}
    /\ Hand("bootstrap", {"reactive", "foreground"})

DispatchDone ==
    /\ dispatching
    /\ \/ /\ active >= TotalPermits
          /\ UNCHANGED queueVars
       \/ /\ InLoop
          /\ NothingQueuedAhead
          /\ ~(NoneAhead /\ LiveAt("bootstrap") # {})
          /\ PopVain(IF NoneAhead THEN Class ELSE TriedShare \cup {"reactive", "foreground"})
    /\ dispatching' = FALSE
    /\ UNCHANGED <<pc, cls, ten, age, active, bootstrapActive>>

Dispatch ==
    \/ DispatchBootstrapShare
    \/ DispatchAgedForeground
    \/ DispatchReactive
    \/ DispatchForeground
    \/ DispatchBorrow
    \/ DispatchDone

\* The clock.  Only oldestWait of the foreground queue reads it.
Tick ==
    /\ ~dispatching
    /\ \E p \in Waiters("foreground") : age[p] < MaxAge
    /\ age' = [p \in Proc |-> IF p \in Waiters("foreground") /\ age[p] < MaxAge
                              THEN age[p] + 1 ELSE age[p]]
    /\ UNCHANGED <<pc, cls, ten, queueVars, active, bootstrapActive, dispatching>>

Next ==
    \/ \E p \in Proc : \/ \E c \in Offered, t \in Tenant : AcquireNow(p, c, t) \/ AcquireWait(p, c, t)
                       \/ Resume(p)
                       \/ CancelGranted(p)
                       \/ CancelWaiting(p)
                       \/ Release(p)
    \/ Dispatch
    \/ Tick

Spec == Init /\ [][Next]_vars

\* An execution runs under a deadline and its caller releases on every path,
\* a closed "ready" wakes its select, and time passes.  They are blocked while
\* another goroutine dispatches, again and again, but sync.Mutex lets a
\* goroutine that keeps asking for mu have it: strong fairness.
Fairness ==
    /\ WF_vars(Dispatch)
    /\ SF_vars(Tick)
    /\ \A p \in Proc : SF_vars(Resume(p) \/ Release(p))

FairSpec == Spec /\ Fairness

-----------------------------------------------------------------------------
\* Properties.

\* Every permit the counters say is handed out is held by exactly one
\* goroutine, so none leaks when a grant races a cancellation (acquire's
\* "hand the permit straight back"), and the cap is never exceeded.
PermitAccounting ==
    /\ active = Cardinality(Holding)
    /\ bootstrapActive = Cardinality({p \in Holding : cls[p] = "bootstrap"})
    /\ active <= TotalPermits

\* A queued goroutine is found by pop: it stands exactly once in the queue of
\* its class and tenant, the tenant is in the rotation, and nobody who left
\* (granted, cancelled) still stands there.  In particular compaction and the
\* rotation's deletions never drop a live waiter.
QueueCoherent ==
    /\ \A p \in Proc :
          pc[p] = "waiting" =>
              /\ \E i \in DOMAIN queue[cls[p]][ten[p]] : queue[cls[p]][ten[p]][i] = p
              /\ \E i \in DOMAIN order[cls[p]] : order[cls[p]][i] = ten[p]
    /\ \A c \in Class, t \in Tenant :
          \A i \in DOMAIN queue[c][t] :
              LET p == queue[c][t][i]
              IN  p # None =>
                  /\ pc[p] = "waiting" /\ cls[p] = c /\ ten[p] = t
                  /\ \A j \in DOMAIN queue[c][t] : queue[c][t][j] = p => j = i

\* The rotation names no tenant twice, and a tenant outside it has no queue.
RotationCoherent ==
    \A c \in Class :
        /\ \A i, j \in DOMAIN order[c] : order[c][i] = order[c][j] => i = j
        /\ \A t \in Tenant : queue[c][t] # <<>> => \E i \in DOMAIN order[c] : order[c][i] = t

\* The count that borrowing looks at is the number of goroutines that wait,
\* however grants and cancellations interleave.
CountsCoherent == \A c \in Class : waiting[c] = Cardinality(Waiters(c))

\* No permit is idle while somebody waits: whenever mu is free, either the
\* cap is reached or every queue is empty.  A cancellation that removes the
\* last contention re-dispatches for this reason.
WorkConserving ==
    ~dispatching /\ active < TotalPermits => \A p \in Proc : pc[p] # "waiting"

\* A caller that was not queued is only admitted when nobody is queued: no
\* newcomer overtakes a waiter of any class.
NoOvertaking ==
    [][\A p \in Proc : pc[p] = "idle" /\ pc'[p] = "executing"
           => \A q \in Proc : pc[q] # "waiting"]_vars

\* "Bootstrap always drains up to its reserved share first": other queued
\* work gets a permit while hydration waits only if hydration has its share.
ShareReserved ==
    [][\A p \in Proc : pc[p] = "waiting" /\ pc'[p] = "granted" /\ cls[p] # "bootstrap"
           => Waiters("bootstrap") = {} \/ bootstrapActive >= BootstrapPermits]_vars

\* "Hydration may exceed its share only while no reactive or foreground work
\* is waiting for a slot", for a newcomer and for a queued waiter.
BorrowOnlyIdle ==
    [][bootstrapActive' > bootstrapActive /\ bootstrapActive >= BootstrapPermits
           => Waiters("reactive") = {} /\ Waiters("foreground") = {}]_vars

\* Sustained reactive load cannot starve interactive or hydration work: a
\* waiting goroutine of those classes is eventually granted or gives up.
ForegroundServed(p) == []<>(p \notin Waiters("foreground"))
BootstrapServed(p) == []<>(p \notin Waiters("bootstrap"))

\* The rules between the classes: a newcomer waits behind whoever waits, and
\* hydration has its share and more than that only from idle permits (acquire,
\* dispatch).
ClassRules == NoOvertaking /\ ShareReserved /\ BorrowOnlyIdle
=============================================================================
