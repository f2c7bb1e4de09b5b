---------------------------- MODULE RuntimeProofs ----------------------------
(***************************************************************************)
(* What MCRuntime checks of the parts of a runtime process on a few        *)
(* callers, pools, tenants and workers, for any number of them: the        *)
(* connection budget, the pools of tenant databases, the LISTEN            *)
(* connections, and the supervisor that stops one worker after another.    *)
(***************************************************************************)
EXTENDS ConnectionBudget, TenantStores, TenantListeners, WorkerSupervision, FiniteSetTheorems, TLAPS

-----------------------------------------------------------------------------
(* The connection budget.                                                  *)

\* The types.
CallType == [at : {"ready", "acquire", "select", "woken", "again", "dial", "using", "end"},
             has : Nat]

CallsOK == slots \in Int /\ waiters \in Int /\ call \in [Caller -> CallType]

\* The callers finishWaitLocked counts.
Counts(c) == call[c].at \in {"select", "woken", "again"}
Counted == {c \in Caller : Counts(c)}

BudgetInv ==
    /\ CallsOK /\ BudgetSound
    /\ IsFiniteSet(idle) /\ IsFiniteSet(Connections) /\ IsFiniteSet(Counted)

\* Nobody holds a share at the start.
LEMMA BudgetInitial == BudgetInit => BudgetInv
<1> SUFFICES ASSUME BudgetInit PROVE BudgetInv
  OBVIOUS
<1>1. CallsOK
  BY DEF BudgetInit, CallsOK, CallType, NotAsked
<1>2. Connections = {} /\ Counted = {} /\ Waiting = {}
  BY DEF BudgetInit, Connections, Count, Counted, Counts, Waiting, NotAsked
<1>3. IsFiniteSet({}) /\ Cardinality({}) = 0
  BY FS_EmptySet
<1>4. BudgetExact /\ NoLostWakeup
  BY <1>2, <1>3, ConnectionBudgetAssumption DEF BudgetInit, BudgetExact, NoLostWakeup, Open
<1>5. WaitersExact
  BY <1>2, <1>3 DEF BudgetInit, WaitersExact, Counted, Counts
<1> QED
  BY <1>1, <1>2, <1>3, <1>4, <1>5 DEF BudgetInit, BudgetInv, BudgetSound

\* Sets without a common element are counted one by one.
LEMMA DisjointUnion ==
    ASSUME NEW S, NEW T, IsFiniteSet(S), IsFiniteSet(T), S \cap T = {}
    PROVE  /\ IsFiniteSet(S \cup T)
           /\ Cardinality(S) \in Nat /\ Cardinality(T) \in Nat
           /\ Cardinality(S \cup T) = Cardinality(S) + Cardinality(T)
<1>1. Cardinality(S) \in Nat /\ Cardinality(T) \in Nat
  BY FS_CardinalityType
<1>2. Cardinality({}) = 0
  BY FS_EmptySet
<1>3. /\ IsFiniteSet(S \cup T)
      /\ Cardinality(S \cup T) = Cardinality(S) + Cardinality(T) - Cardinality(S \cap T)
  BY FS_Union
<1>4. Cardinality(S \cup T) = Cardinality(S) + Cardinality(T) - Cardinality({})
  BY <1>3
<1> QED
  BY <1>1, <1>2, <1>3, <1>4

\* The connections of one call, counted.
LEMMA PairsCounted ==
    ASSUME NEW c, NEW n \in Nat
    PROVE  /\ IsFiniteSet({<<c, i>> : i \in 1 .. n})
           /\ Cardinality({<<c, i>> : i \in 1 .. n}) = n
<1> DEFINE T == {<<c, i>> : i \in 1 .. n}
           f == [i \in 1 .. n |-> <<c, i>>]
<1>1. f \in Bijection(1 .. n, T)
  <2>1. f \in [1 .. n -> T]
    OBVIOUS
  <2>2. \A i, j \in 1 .. n : f[i] = f[j] => i = j
    OBVIOUS
  <2>3. \A x \in T : \E i \in 1 .. n : f[i] = x
    OBVIOUS
  <2> QED
    BY <2>1, <2>2, <2>3 DEF Bijection, Injection, IsInjective, Surjection
<1>2. IsFiniteSet(1 .. n) /\ Cardinality(1 .. n) = n
  BY FS_Interval
<1> QED
  BY <1>1, <1>2, FS_Bijection DEF ExistsBijection

\* What a step of one call changes in the number of connections and of those
\* who are counted as waiting: releases wake the others, no more.
LEMMA OneCall ==
    ASSUME BudgetInv, NEW c \in Caller, call' \in [Caller -> CallType],
           \A d \in Caller \ {c} : /\ call'[d].has = call[d].has
                                   /\ Counts(d)' <=> Counts(d)
                                   /\ call'[d].at = "dial" <=> call[d].at = "dial"
    PROVE  /\ IsFiniteSet(Connections') /\ IsFiniteSet(Counted')
           /\ Count(c) \in Nat /\ Count(c)' \in Nat
           /\ Cardinality(Connections') = Cardinality(Connections) - Count(c) + Count(c)'
           /\ Counted' = IF Counts(c)' THEN Counted \cup {c} ELSE Counted \ {c}
<1> DEFINE Mine == {<<c, i>> : i \in 1 .. Count(c)}
           New == {<<c, i>> : i \in 1 .. Count(c)'}
           Rest == UNION {{<<d, i>> : i \in 1 .. Count(d)} : d \in Caller \ {c}}
<1>1. \A d \in Caller : Count(d) \in Nat /\ Count(d)' \in Nat
  BY DEF Count, BudgetInv, CallsOK, CallType
<1>2. \A d \in Caller \ {c} : Count(d)' = Count(d)
  BY DEF Count
<1>3. Connections = Rest \cup Mine /\ Connections' = Rest \cup New
  BY <1>2 DEF Connections
<1>4. Rest \cap Mine = {} /\ Rest \cap New = {}
  OBVIOUS
<1>5. /\ IsFiniteSet(Mine) /\ Cardinality(Mine) = Count(c)
      /\ IsFiniteSet(New) /\ Cardinality(New) = Count(c)'
  BY <1>1, PairsCounted
<1>6. IsFiniteSet(Rest)
  <2>1. Rest \subseteq Connections
    BY <1>3
  <2> QED
    BY <2>1, FS_Subset DEF BudgetInv
<1>7. /\ IsFiniteSet(Connections')
      /\ Cardinality(Connections') = Cardinality(Connections) - Count(c) + Count(c)'
  <2> HIDE DEF Rest, Mine, New
  <2>1. Cardinality(Rest) \in Nat /\ Cardinality(Connections) = Cardinality(Rest) + Count(c)
    BY <1>3, <1>4, <1>5, <1>6, DisjointUnion
  <2>2. /\ IsFiniteSet(Connections')
        /\ Cardinality(Connections') = Cardinality(Rest) + Count(c)'
    BY <1>3, <1>4, <1>5, <1>6, DisjointUnion
  <2> QED
    BY <1>1, <2>1, <2>2
<1>8. Counted' = IF Counts(c)' THEN Counted \cup {c} ELSE Counted \ {c}
  BY DEF Counted
<1>9. IsFiniteSet(Counted')
  <2>1. IsFiniteSet(Counted \cup {c}) /\ IsFiniteSet(Counted \ {c})
    BY FS_AddElement, FS_RemoveElement DEF BudgetInv
  <2> QED
    BY <1>8, <2>1
<1> QED
  BY <1>1, <1>7, <1>8, <1>9

\* BudgetInv after a step that changes at most one idle connection and one call.
LEMMA BudgetStep ==
    ASSUME BudgetInv, NEW c \in Caller, CallsOK', IsFiniteSet(idle'),
           \A d \in Caller \ {c} : /\ call'[d].has = call[d].has
                                   /\ Counts(d)' <=> Counts(d)
                                   /\ call'[d].at = "dial" <=> call[d].at = "dial",
           slots' - slots = Cardinality(idle') - Cardinality(idle) + Count(c)' - Count(c),
           (Counts(c) <=> Counts(c)') => waiters' = waiters,
           Counts(c) /\ ~Counts(c)' => waiters' = waiters - 1,
           ~Counts(c) /\ Counts(c)' => waiters' = waiters + 1,
           slots' <= Limit, NoLostWakeup'
    PROVE  BudgetInv'
<1>1. /\ IsFiniteSet(Connections') /\ IsFiniteSet(Counted')
      /\ Count(c) \in Nat /\ Count(c)' \in Nat
      /\ Cardinality(Connections') = Cardinality(Connections) - Count(c) + Count(c)'
      /\ Counted' = IF Counts(c)' THEN Counted \cup {c} ELSE Counted \ {c}
  BY OneCall DEF CallsOK
<1>2. /\ Cardinality(idle) \in Nat /\ Cardinality(idle') \in Nat
      /\ Cardinality(Connections) \in Nat /\ Cardinality(Counted) \in Nat
  BY FS_CardinalityType DEF BudgetInv
<1>3. BudgetExact'
  <2>1. slots = Cardinality(idle) + Cardinality(Connections) /\ slots \in Int /\ slots' \in Int
    BY DEF BudgetInv, BudgetSound, BudgetExact, Open, CallsOK
  <2>2. /\ Cardinality(Connections') = Cardinality(Connections) - Count(c) + Count(c)'
        /\ Count(c) \in Nat /\ Count(c)' \in Nat
    BY <1>1
  <2>3. slots' = Cardinality(idle') + Cardinality(Connections')
    BY <1>2, <2>1, <2>2
  <2> QED
    BY <2>3 DEF BudgetExact, Open
<1>4. WaitersExact'
  <2>1. /\ c \in Counted => /\ Cardinality(Counted \cup {c}) = Cardinality(Counted)
                            /\ Cardinality(Counted \ {c}) = Cardinality(Counted) - 1
        /\ c \notin Counted => /\ Cardinality(Counted \cup {c}) = Cardinality(Counted) + 1
                               /\ Cardinality(Counted \ {c}) = Cardinality(Counted)
    BY <1>2, FS_AddElement, FS_RemoveElement DEF BudgetInv
  <2>2. waiters = Cardinality(Counted)
    BY DEF BudgetInv, BudgetSound, WaitersExact, Counted, Counts
  <2>3. waiters' = Cardinality(Counted')
    <3>1. c \in Counted <=> Counts(c)
      BY DEF Counted
    <3> QED
      BY <1>1, <1>2, <2>1, <2>2, <3>1
  <2> QED
    BY <2>3 DEF WaitersExact, Counted, Counts
<1> QED
  BY <1>1, <1>3, <1>4 DEF BudgetInv, BudgetSound

\* Reuse and Dialled: the call gets one more connection.
LEMMA GetsInv ==
    ASSUME BudgetInv, NEW c \in Caller, Reuse(c) \/ Dialled(c)
    PROVE  BudgetInv'
<1>0. /\ call \in [Caller -> CallType] /\ slots \in Int /\ waiters \in Int /\ slots <= Limit
      /\ Cardinality(idle) \in Nat /\ IsFiniteSet(idle)
  BY FS_CardinalityType DEF BudgetInv, CallsOK, BudgetSound, BudgetExact
<1>1. call[c].at \in {"ready", "dial"} /\ Gets(c) /\ UNCHANGED <<slots, waiters>>
  BY DEF Reuse, Dialled
<1>2. PICK at \in {"using", "ready"} :
         call' = [call EXCEPT ![c] = [at |-> at, has |-> call[c].has + 1]]
  <2> DEFINE w == IF call[c].has + 1 = Len(Needs[c]) THEN "using" ELSE "ready"
  <2>1. w \in {"using", "ready"} /\ call' = [call EXCEPT ![c] = [at |-> w, has |-> call[c].has + 1]]
    BY <1>1 DEF Gets
  <2> QED
    BY <2>1
<1>3. /\ CallsOK' /\ ~Counts(c) /\ ~Counts(c)'
      /\ \A d \in Caller \ {c} : call'[d] = call[d] /\ (Counts(d)' <=> Counts(d))
  <2>1. [at |-> at, has |-> call[c].has + 1] \in CallType
    BY <1>0 DEF CallType
  <2> QED
    BY <1>0, <1>1, <1>2, <2>1 DEF CallsOK, Counts
<1>4. IsFiniteSet(idle') /\ Cardinality(idle') - Cardinality(idle) + Count(c)' - Count(c) = 0
  <2>1. CASE Reuse(c)
    <3>1. IsFiniteSet(idle') /\ Cardinality(idle') = Cardinality(idle) - 1
      BY <1>0, <2>1, FS_RemoveElement DEF Reuse
    <3>2. Count(c) = call[c].has /\ Count(c)' = call[c].has + 1 /\ call[c].has \in Nat
      BY <1>0, <1>2, <2>1 DEF Reuse, Count, CallType
    <3> QED
      BY <1>0, <3>1, <3>2
  <2>2. CASE Dialled(c)
    <3>1. Count(c) = call[c].has + 1 /\ Count(c)' = call[c].has + 1 /\ call[c].has \in Nat
      BY <1>0, <1>2, <2>2 DEF Dialled, Count, CallType
    <3> QED
      BY <1>0, <2>2, <3>1 DEF Dialled
  <2> QED
    BY <2>1, <2>2
<1>5. NoLostWakeup'
  BY <1>1, <1>2 DEF BudgetInv, BudgetSound, NoLostWakeup, Waiting
<1> QED
  BY <1>0, <1>1, <1>2, <1>3, <1>4, <1>5, BudgetStep

\* Connect, Take, Await and Wake: the loop of acquire.
LEMMA AcquireInv ==
    ASSUME BudgetInv, NEW c \in Caller, Connect(c) \/ Take(c) \/ Await(c) \/ Wake(c)
    PROVE  BudgetInv'
<1>0. /\ call \in [Caller -> CallType] /\ slots \in Int /\ waiters \in Int /\ slots <= Limit
      /\ Cardinality(idle) \in Nat /\ IsFiniteSet(idle) /\ idle' = idle /\ call[c].has \in Nat
  BY FS_CardinalityType
     DEF BudgetInv, CallsOK, CallType, BudgetSound, BudgetExact, Connect, Take, Await, Wake
<1>1. PICK at \in {"acquire", "again", "dial", "select"} :
         call' = [call EXCEPT ![c] = [at |-> at, has |-> call[c].has]]
  BY <1>0 DEF Connect, Take, Await, Wake, Move, CallType
<1>2. /\ call' \in [Caller -> CallType] /\ call'[c] = [at |-> at, has |-> call[c].has]
      /\ \A d \in Caller \ {c} : call'[d] = call[d] /\ (Counts(d)' <=> Counts(d))
  <2>1. [at |-> at, has |-> call[c].has] \in CallType
    BY <1>0 DEF CallType
  <2> QED
    BY <1>0, <1>1, <2>1 DEF Counts
<1>3. CASE Connect(c) \/ Wake(c)
  <2>1. /\ at \in {"acquire", "again"} /\ call[c].at # "dial" /\ UNCHANGED <<slots, waiters>>
        /\ Counts(c)' <=> Counts(c)
    BY <1>0, <1>2, <1>3 DEF Connect, Wake, Move, Counts
  <2>2. CallsOK' /\ NoLostWakeup'
    BY <1>0, <1>2, <2>1 DEF CallsOK, BudgetInv, BudgetSound, NoLostWakeup, Waiting
  <2>3. Count(c)' = Count(c) /\ Count(c) \in Nat
    BY <1>0, <1>2, <2>1 DEF Count
  <2> QED
    BY <1>0, <1>2, <2>1, <2>2, <2>3, BudgetStep
<1>4. CASE Take(c)
  <2>1. /\ at = "dial" /\ call[c].at \in {"acquire", "again"}
        /\ slots < Limit /\ slots' = slots + 1 /\ slots' <= Limit /\ ~Counts(c)'
        /\ waiters' = IF Counts(c) THEN waiters - 1 ELSE waiters
    BY <1>0, <1>2, <1>4, ConnectionBudgetAssumption DEF Take, Move, Counts
  <2>2. CallsOK' /\ NoLostWakeup'
    BY <1>0, <1>2, <2>1 DEF CallsOK, BudgetInv, BudgetSound, NoLostWakeup, Waiting
  <2>3. Count(c)' = Count(c) + 1 /\ Count(c) \in Nat
    BY <1>0, <1>2, <2>1 DEF Count
  <2> QED
    BY <1>0, <1>2, <2>1, <2>2, <2>3, BudgetStep
<1>5. CASE Await(c)
  <2>1. /\ at = "select" /\ call[c].at \in {"acquire", "again"}
        /\ slots = Limit /\ slots' = slots /\ Counts(c)'
        /\ waiters' = IF Counts(c) THEN waiters ELSE waiters + 1
    BY <1>0, <1>2, <1>5, ConnectionBudgetAssumption DEF Await, Move, Counts
  <2>2. CallsOK' /\ NoLostWakeup'
    BY <1>0, <1>2, <2>1 DEF CallsOK, NoLostWakeup
  <2>3. Count(c)' = Count(c) /\ Count(c) \in Nat
    BY <1>0, <1>2, <2>1 DEF Count
  <2> QED
    BY <1>0, <1>2, <2>1, <2>2, <2>3, BudgetStep
<1> QED
  BY <1>3, <1>4, <1>5

\* What a call gives back: at most one idle connection for each it holds.
LEMMA PoolsCounted ==
    ASSUME CallsOK, IsFiniteSet(idle), NEW c \in Caller
    PROVE  /\ IsFiniteSet(PoolsOf(c) \ idle)
           /\ Cardinality(PoolsOf(c) \ idle) \in 0 .. call[c].has
<1> DEFINE f == [i \in 1 .. call[c].has |-> Needs[c][i]]
<1>1. call[c].has \in Nat
  BY DEF CallsOK, CallType
<1>2. IsFiniteSet(1 .. call[c].has) /\ Cardinality(1 .. call[c].has) = call[c].has
  <2> DEFINE n == call[c].has
  <2> HIDE DEF n
  <2>1. n \in Nat => IsFiniteSet(1 .. n) /\ Cardinality(1 .. n) = n
    BY FS_Interval
  <2> QED
    BY <1>1, <2>1 DEF n
<1>3. f \in Surjection(1 .. call[c].has, PoolsOf(c))
  BY DEF Surjection, PoolsOf
<1>4. IsFiniteSet(PoolsOf(c)) /\ Cardinality(PoolsOf(c)) <= call[c].has
  BY <1>2, <1>3, FS_Surjection
<1>5. /\ IsFiniteSet(PoolsOf(c) \ idle)
      /\ Cardinality(PoolsOf(c) \ idle) <= Cardinality(PoolsOf(c))
  BY <1>4, FS_Subset
<1> QED
  BY <1>1, <1>4, <1>5, FS_CardinalityType

\* Done, Cancel and DialFails: a call ends. What it closes is free at once,
\* and then everyone who sleeps is woken.
LEMMA EndsInv ==
    ASSUME BudgetInv, NEW c \in Caller, Done(c) \/ Cancel(c) \/ DialFails(c)
    PROVE  BudgetInv'
<1> DEFINE stays == PoolsOf(c) \ idle
           also == IF call[c].at = "dial" THEN 1 ELSE 0
           closed == call[c].has - Cardinality(stays) + also
<1>0. /\ call \in [Caller -> CallType] /\ slots \in Int /\ waiters \in Int /\ slots <= Limit
      /\ Cardinality(idle) \in Nat /\ IsFiniteSet(idle) /\ call[c].has \in Nat /\ Limit \in Nat
  BY FS_CardinalityType, ConnectionBudgetAssumption
     DEF BudgetInv, CallsOK, CallType, BudgetSound, BudgetExact
<1>1. IsFiniteSet(stays) /\ Cardinality(stays) \in 0 .. call[c].has
  BY PoolsCounted DEF BudgetInv
<1>2. /\ GiveBack(c, also)
      /\ waiters' = IF Counts(c) THEN waiters - 1 ELSE waiters
  BY DEF Done, Cancel, DialFails, Counts
<1>3. PICK cs \in {WakeUps, call} :
         /\ slots' = slots - closed /\ idle' = idle \cup stays
         /\ call' = [cs EXCEPT ![c] = [at |-> "end", has |-> 0]]
         /\ cs = IF closed > 0 THEN WakeUps ELSE call
  <2>1. CASE closed > 0
    BY <1>2, <2>1 DEF GiveBack, Ends
  <2>2. CASE ~(closed > 0)
    BY <1>2, <2>2 DEF GiveBack, Ends
  <2> QED
    BY <2>1, <2>2
<1>4. /\ cs \in [Caller -> CallType]
      /\ \A d \in Caller : /\ cs[d].has = call[d].has
                           /\ cs[d].at \in {"select", "woken", "again"} <=> Counts(d)
                           /\ cs[d].at = "dial" <=> call[d].at = "dial"
                           /\ cs[d].at = "select" => call[d].at = "select" /\ ~(closed > 0)
  <2>1. CASE ~(closed > 0)
    BY <1>0, <1>3, <2>1 DEF Counts
  <2>2. CASE closed > 0
    <3>1. WakeUps \in [Caller -> CallType]
      BY <1>0 DEF WakeUps, CallType
    <3>2. \A d \in Caller : /\ WakeUps[d].has = call[d].has
                            /\ WakeUps[d].at = IF call[d].at = "select" THEN "woken" ELSE call[d].at
      BY <1>0 DEF WakeUps, CallType
    <3> QED
      BY <1>3, <2>2, <3>1, <3>2 DEF Counts
  <2> QED
    BY <2>1, <2>2
<1>5. /\ CallsOK' /\ call'[c] = [at |-> "end", has |-> 0] /\ ~Counts(c)'
      /\ \A d \in Caller \ {c} : call'[d] = cs[d]
  <2>1. [at |-> "end", has |-> 0] \in CallType
    BY DEF CallType
  <2>2. slots' \in Int /\ waiters' \in Int
    BY <1>0, <1>1, <1>2, <1>3
  <2> QED
    BY <1>3, <1>4, <2>1, <2>2 DEF CallsOK, Counts
<1>6. /\ IsFiniteSet(idle')
      /\ Cardinality(idle') = Cardinality(idle) + Cardinality(stays)
  BY <1>0, <1>1, <1>3, DisjointUnion
<1>7. /\ Count(c) = call[c].has + also /\ Count(c)' = 0 /\ closed \in Nat
      /\ also \in 0 .. 1
  BY <1>0, <1>1, <1>5 DEF Count
<1>8. /\ slots' <= Limit
      /\ slots' - slots = Cardinality(idle') - Cardinality(idle) + Count(c)' - Count(c)
  BY <1>0, <1>1, <1>3, <1>6, <1>7
<1>9. NoLostWakeup'
  <2> SUFFICES ASSUME NEW d \in Waiting' PROVE slots' = Limit
    BY DEF NoLostWakeup
  <2>1. d # c /\ d \in Caller /\ cs[d].at = "select"
    BY <1>5 DEF Waiting
  <2>2. d \in Waiting /\ ~(closed > 0)
    BY <1>4, <2>1 DEF Waiting
  <2>3. closed = 0
    BY <1>7, <2>2
  <2> QED
    BY <1>0, <1>3, <2>2, <2>3 DEF BudgetInv, BudgetSound, NoLostWakeup
<1>10. \A d \in Caller \ {c} : /\ call'[d].has = call[d].has
                               /\ Counts(d)' <=> Counts(d)
                               /\ call'[d].at = "dial" <=> call[d].at = "dial"
  BY <1>4, <1>5 DEF Counts
<1> QED
  BY <1>2, <1>5, <1>6, <1>8, <1>9, <1>10, BudgetStep

\* IdleExpires: a pool closes its idle connection.
LEMMA IdleInv ==
    ASSUME BudgetInv, NEW p \in Pool, IdleExpires(p)
    PROVE  BudgetInv'
<1>0. /\ call \in [Caller -> CallType] /\ slots \in Int /\ slots <= Limit /\ Limit \in Nat
      /\ IsFiniteSet(idle) /\ p \in idle
  BY ConnectionBudgetAssumption DEF IdleExpires, BudgetInv, CallsOK, BudgetSound, BudgetExact
<1>1. slots' = slots - 1 /\ waiters' = waiters /\ idle' = idle \ {p} /\ call' = WakeUps
  BY DEF IdleExpires
<1>2. /\ call' \in [Caller -> CallType]
      /\ \A d \in Caller : /\ call'[d].has = call[d].has
                           /\ call'[d].at = IF call[d].at = "select" THEN "woken" ELSE call[d].at
  BY <1>0, <1>1 DEF WakeUps, CallType
<1>3. CallsOK' /\ Waiting' = {}
  BY <1>0, <1>1, <1>2 DEF CallsOK, BudgetInv, Waiting
<1>4. Connections' = Connections /\ Counted' = Counted
  <2>1. \A d \in Caller : Count(d)' = Count(d) /\ (Counts(d)' <=> Counts(d))
    BY <1>2 DEF Count, Counts
  <2> QED
    BY <2>1 DEF Connections, Counted
<1>5. BudgetExact'
  <2>1. IsFiniteSet(idle') /\ Cardinality(idle') = Cardinality(idle) - 1
    BY <1>0, <1>1, FS_RemoveElement
  <2>2. Cardinality(idle) \in Nat /\ Cardinality(Connections) \in Nat
    BY <1>0, FS_CardinalityType DEF BudgetInv
  <2>3. slots = Cardinality(idle) + Cardinality(Connections)
    BY DEF BudgetInv, BudgetSound, BudgetExact, Open
  <2> QED
    BY <1>0, <1>1, <1>4, <2>1, <2>2, <2>3 DEF BudgetExact, Open
<1>6. WaitersExact'
  <2>1. waiters = Cardinality(Counted)
    BY DEF BudgetInv, BudgetSound, WaitersExact, Counted, Counts
  <2> QED
    BY <1>1, <1>4, <2>1 DEF WaitersExact, Counted, Counts
<1>7. IsFiniteSet(idle')
  BY <1>0, <1>1, FS_RemoveElement
<1> QED
  BY <1>3, <1>4, <1>5, <1>6, <1>7 DEF BudgetInv, BudgetSound, NoLostWakeup

\* Every connection has one slot of the budget and no slot is free while a
\* caller sleeps, for any number of callers, pools, nested calls and slots
\* (dbpool/open.go).
THEOREM BudgetKept == BudgetSpec => []BudgetSound
<1>1. BudgetInv /\ [BudgetNext]_budgetVars => BudgetInv'
  <2> SUFFICES ASSUME BudgetInv, [BudgetNext]_budgetVars PROVE BudgetInv'
    OBVIOUS
  <2>1. ASSUME NEW c \in Caller, CallStep(c) \/ Cancel(c) \/ DialFails(c) PROVE BudgetInv'
    BY <2>1, GetsInv, AcquireInv, EndsInv DEF CallStep
  <2>2. ASSUME NEW p \in Pool, IdleExpires(p) PROVE BudgetInv'
    BY <2>2, IdleInv
  <2>3. CASE UNCHANGED budgetVars
    BY <2>3 DEF budgetVars, BudgetInv, CallsOK, BudgetSound, BudgetExact, NoLostWakeup, WaitersExact,
                Open, Connections, Count, Counted, Counts, Waiting
  <2> QED
    BY <2>1, <2>2, <2>3 DEF BudgetNext, BudgetProgress
<1>2. BudgetInv => BudgetSound
  BY DEF BudgetInv
<1> QED
  BY <1>1, <1>2, BudgetInitial, PTL DEF BudgetSpec

-----------------------------------------------------------------------------
(* The pools of a tenant.                                                  *)

PoolType == [url : Url, open : BOOLEAN]
AskerType == [at : {"idle", "asking", "joined", "opening", "got", "failed"},
              url : Url \cup {""}, pool : Nat]

StoresOK ==
    /\ routed \in Url /\ store \in Opened \cup {NoPool}
    /\ asker \in [Asker -> AskerType]
    /\ \E n \in Nat : pools \in [1 .. n -> PoolType]
    /\ \A a \in Asker : asker[a].at \notin {"idle"} => asker[a].url \in Url

\* Only the caller that is named initializes, for a URL the pool does not serve.
OneOpening ==
    \A a \in Asker : asker[a].at = "opening" =>
        pending = [by |-> a, url |-> asker[a].url] /\ ~Serves(store, asker[a].url)

GotOpened == \A a \in Asker : asker[a].at = "got" => asker[a].pool \in Opened

StoresInv == StoresOK /\ OneOpening /\ GotOpened /\ PoolsSound

\* No store is open at the start.
LEMMA StoresInitial == StoresInit => StoresInv
<1> SUFFICES ASSUME StoresInit PROVE StoresInv
  OBVIOUS
<1>1. Opened = {} /\ pools \in [{} -> PoolType]
  BY DEF StoresInit, Opened
<1> DEFINE n == 0
<1>2. n \in Nat /\ 1 .. n = {}
  OBVIOUS
<1>3. \E m \in Nat : pools \in [1 .. m -> PoolType]
  <2> HIDE DEF n
  <2> QED
    BY <1>1, <1>2
<1>4. StoresOK
  BY <1>1, <1>3 DEF StoresInit, StoresOK, AskerType, NoPool
<1> QED
  BY <1>1, <1>4 DEF StoresInit, StoresInv, OneOpening, GotOpened, PoolsSound, NoPoolLost, RightDatabase

\* A caller's step that opens and closes nothing.
LEMMA AskerInv ==
    ASSUME StoresInv, NEW a \in Asker, AskStore(a) \/ Find(a) \/ Join(a) \/ Initialize(a)
    PROVE  StoresInv'
<1>0. /\ UNCHANGED <<routed, store, pools, fails>> /\ asker \in [Asker -> AskerType]
      /\ asker[a].at \in {"idle", "asking"} /\ routed \in Url
  BY DEF AskStore, Find, Join, Initialize, StoresInv, StoresOK
<1>1. PICK new \in AskerType :
         /\ asker' = [asker EXCEPT ![a] = new] /\ new.url \in Url
         /\ new.at = "got" => new.pool \in Opened /\ pools[new.pool].url = new.url
         /\ IF new.at = "opening"
            THEN ~Serves(store, new.url) /\ pending = NoOne /\ pending' = [by |-> a, url |-> new.url]
            ELSE pending' = pending
  <2>1. CASE AskStore(a)
    <3> DEFINE new == [at |-> "asking", url |-> routed, pool |-> NoPool]
    <3>1. new \in AskerType
      BY <1>0 DEF AskerType, NoPool
    <3> QED
      BY <1>0, <2>1, <3>1 DEF AskStore
  <2>2. CASE Find(a)
    <3> DEFINE new == [at |-> "got", url |-> asker[a].url, pool |-> store]
    <3>1. store \in Nat /\ store \in Opened /\ pools[store].url = asker[a].url
      BY <2>2 DEF Find, Serves, StoresInv, StoresOK, Opened, NoPool
    <3>2. new \in AskerType /\ new.url \in Url
      BY <1>0, <2>2, <3>1 DEF AskerType, Find, StoresInv, StoresOK
    <3>3. asker' = [asker EXCEPT ![a] = new]
      BY <1>0, <2>2 DEF Find, Answer, Told
    <3> QED
      BY <2>2, <3>1, <3>2, <3>3 DEF Find
  <2>3. CASE Join(a)
    <3> DEFINE new == [asker[a] EXCEPT !.at = "joined"]
    <3>1. new \in AskerType /\ new.url \in Url /\ new.at = "joined"
      BY <1>0, <2>3 DEF AskerType, Join, StoresInv, StoresOK
    <3> QED
      BY <1>0, <2>3, <3>1 DEF Join
  <2>4. CASE Initialize(a)
    <3> DEFINE new == [asker[a] EXCEPT !.at = "opening"]
    <3>1. new \in AskerType /\ new.url \in Url /\ new.at = "opening" /\ new.url = asker[a].url
      BY <1>0, <2>4 DEF AskerType, Initialize, StoresInv, StoresOK
    <3> QED
      BY <1>0, <2>4, <3>1 DEF Initialize
  <2> QED
    BY <2>1, <2>2, <2>3, <2>4
<1>2. /\ asker' \in [Asker -> AskerType] /\ asker'[a] = new
      /\ \A b \in Asker \ {a} : asker'[b] = asker[b]
  BY <1>0, <1>1
<1>3. StoresOK'
  BY <1>0, <1>1, <1>2 DEF StoresInv, StoresOK, Opened
<1>4. OneOpening'
  <2> SUFFICES ASSUME NEW b \in Asker, asker'[b].at = "opening"
               PROVE  /\ pending' = [by |-> b, url |-> asker'[b].url]
                      /\ ~(store # NoPool /\ pools[store].url = asker'[b].url)
    BY <1>0 DEF OneOpening, Serves
  <2>1. CASE b = a
    BY <1>0, <1>1, <1>2, <2>1 DEF Serves
  <2>2. CASE b # a
    <3>1. pending = [by |-> b, url |-> asker[b].url] /\ ~Serves(store, asker[b].url)
      BY <1>2, <2>2 DEF StoresInv, OneOpening
    <3>2. pending # NoOne
      BY <3>1, TenantStoresAssumption DEF NoOne
    <3> QED
      BY <1>0, <1>1, <1>2, <2>2, <3>1, <3>2 DEF Serves
  <2> QED
    BY <2>1, <2>2
<1>5. GotOpened' /\ RightDatabase'
  BY <1>0, <1>1, <1>2 DEF StoresInv, GotOpened, PoolsSound, RightDatabase, Opened
<1>6. NoPoolLost'
  BY <1>0 DEF StoresInv, PoolsSound, NoPoolLost, Opened
<1> QED
  BY <1>3, <1>4, <1>5, <1>6 DEF StoresInv, PoolsSound

\* A pool is opened: the only open one, of the URL of all who get it.
LEMMA OpensInv ==
    ASSUME StoresInv, NEW a \in Asker, Opens(a)
    PROVE  StoresInv'
<1> DEFINE p == Cardinality(Opened) + 1
<1>0. PICK n \in Nat : pools \in [1 .. n -> PoolType]
  BY DEF StoresInv, StoresOK
<1>1. Opened = 1 .. n /\ p = n + 1
  <2>1. Opened = 1 .. n
    BY <1>0 DEF Opened
  <2>2. Cardinality(1 .. n) = n
    <3> DEFINE lo == 1
    <3>1. lo \in Int /\ n \in Int
      OBVIOUS
    <3> HIDE DEF lo
    <3>2. Cardinality(lo .. n) = IF lo > n THEN 0 ELSE n - lo + 1
      BY <3>1, FS_Interval
    <3> QED
      BY <3>2 DEF lo
  <2> QED
    BY <2>1, <2>2
<1>2. /\ asker \in [Asker -> AskerType] /\ asker[a].at = "opening" /\ asker[a].url \in Url
      /\ pending.by = a /\ ~Serves(store, asker[a].url) /\ routed \in Url
  <2>1. asker \in [Asker -> AskerType] /\ routed \in Url /\ asker[a].at = "opening"
    BY DEF Opens, OpensFor, StoresInv, StoresOK
  <2>2. asker[a].url \in Url
    BY <2>1 DEF StoresInv, StoresOK
  <2>3. pending = [by |-> a, url |-> asker[a].url] /\ ~Serves(store, asker[a].url)
    BY <2>1 DEF StoresInv, OneOpening
  <2> QED
    BY <2>1, <2>2, <2>3
<1>3. /\ p \in Nat \ {0} /\ p \notin Opened /\ Opened \cup {p} = 1 .. n + 1 /\ n + 1 \in Nat
  BY <1>1
<1>4. /\ DOMAIN pools' = Opened \cup {p} /\ pools'[p] = [url |-> asker[a].url, open |-> TRUE]
      /\ \A q \in Opened : /\ pools'[q] \in PoolType /\ pools'[q].url = pools[q].url
                           /\ pools'[q].open => pools[q].open
                           /\ q = store /\ pools[q].url # asker[a].url => ~pools'[q].open
  <2>1. pools' = [q \in Opened \cup {p} |->
                    IF q = p THEN [url |-> asker[a].url, open |-> TRUE]
                    ELSE IF q = store /\ pools[q].url # asker[a].url
                    THEN [pools[q] EXCEPT !.open = FALSE] ELSE pools[q]]
    BY DEF Opens, OpensFor
  <2>2. \A q \in Opened : pools[q] \in PoolType
    BY <1>0, <1>1
  <2>3. DOMAIN pools' = Opened \cup {p} /\ pools'[p] = [url |-> asker[a].url, open |-> TRUE]
    BY <2>1
  <2>4. ASSUME NEW q \in Opened
        PROVE  pools'[q] = IF q = store /\ pools[q].url # asker[a].url
                           THEN [pools[q] EXCEPT !.open = FALSE] ELSE pools[q]
    BY <1>3, <2>1
  <2>5. ASSUME NEW q \in Opened
        PROVE  /\ pools'[q] \in PoolType /\ pools'[q].url = pools[q].url
               /\ pools'[q].open => pools[q].open
               /\ q = store /\ pools[q].url # asker[a].url => ~pools'[q].open
    <3>1. CASE q = store /\ pools[q].url # asker[a].url
      BY <2>2, <2>4, <3>1 DEF PoolType
    <3>2. CASE ~(q = store /\ pools[q].url # asker[a].url)
      BY <2>2, <2>4, <3>2
    <3> QED
      BY <3>1, <3>2
  <2> QED
    BY <2>3, <2>5
<1>5. store' = p /\ pending' = NoOne /\ routed' = routed
  BY DEF Opens, OpensFor
<1>6. /\ asker' \in [Asker -> AskerType]
      /\ asker'[a] = Told(a, "got", p)
      /\ \A b \in Asker \ {a} :
            IF asker[b].at = "joined"
            THEN asker'[b] = IF asker[b].url = asker[a].url THEN Told(b, "got", p) ELSE Told(b, "asking", NoPool)
            ELSE asker'[b] = asker[b]
  <2> DEFINE settled(b) == IF asker[b].url = asker[a].url THEN Told(b, "got", p)
                           ELSE Told(b, "asking", NoPool)
             others == [b \in Asker |-> IF b \in Joined THEN settled(b) ELSE asker[b]]
  <2>1. asker' = [others EXCEPT ![a] = Told(a, "got", p)] /\ p \in PoolId
    BY DEF Opens, OpensFor, Answer, JoinersOf
  <2>2. \A b \in Asker : settled(b) \in AskerType /\ Told(b, "got", p) \in AskerType
    BY <1>2, <1>3 DEF AskerType, Told, NoPool
  <2> HIDE DEF settled
  <2>4. others \in [Asker -> AskerType]
    BY <1>2, <2>2
  <2>6. asker' \in [Asker -> AskerType] /\ asker'[a] = Told(a, "got", p)
    BY <2>1, <2>2, <2>4
  <2>7. \A b \in Asker \ {a} : asker'[b] = IF asker[b].at = "joined" THEN settled(b) ELSE asker[b]
    BY <2>1 DEF Joined
  <2> QED
    BY <2>6, <2>7 DEF settled
<1> HIDE DEF p
<1>7. StoresOK'
  <2>1. pools' \in [1 .. n + 1 -> PoolType]
    <3>1. [url |-> asker[a].url, open |-> TRUE] \in PoolType
      BY <1>2 DEF PoolType
    <3>2. pools' = [q \in Opened \cup {p} |-> pools'[q]]
      BY <1>4 DEF Opens, OpensFor
    <3> QED
      BY <1>3, <1>4, <3>1, <3>2
  <2>2. \A b \in Asker : asker'[b].at \notin {"idle"} => asker'[b].url \in Url
    BY <1>2, <1>6 DEF StoresInv, StoresOK, Told
  <2>3. store' \in Opened' \cup {NoPool}
    BY <1>4, <1>5 DEF Opened
  <2>4. \E m \in Nat : pools' \in [1 .. m -> PoolType]
    BY <1>3, <2>1
  <2> QED
    BY <1>2, <1>5, <1>6, <2>2, <2>3, <2>4 DEF StoresOK
<1>8. \A b \in Asker : asker'[b].at # "opening"
  <2> SUFFICES ASSUME NEW b \in Asker \ {a}, asker[b].at = "opening" PROVE FALSE
    BY <1>6 DEF Told
  <2>1. pending = [by |-> b, url |-> asker[b].url]
    BY DEF StoresInv, OneOpening
  <2> QED
    BY <1>2, <2>1
<1>9. GotOpened' /\ RightDatabase'
  <2> SUFFICES ASSUME NEW b \in Asker, asker'[b].at = "got"
               PROVE  asker'[b].pool \in Opened \cup {p} /\ pools'[asker'[b].pool].url = asker'[b].url
    BY <1>4 DEF GotOpened, RightDatabase, Opened
  <2>1. CASE asker'[b].pool = p /\ asker'[b].url = asker[a].url
    BY <1>4, <2>1
  <2>2. CASE ~(asker'[b].pool = p /\ asker'[b].url = asker[a].url)
    <3>1. asker'[b] = asker[b] /\ asker[b].at = "got"
      BY <1>6, <2>2 DEF Told
    <3>2. asker[b].pool \in Opened /\ pools[asker[b].pool].url = asker[b].url
      BY <3>1 DEF StoresInv, GotOpened, PoolsSound, RightDatabase
    <3> QED
      BY <1>4, <3>1, <3>2
  <2> QED
    BY <2>1, <2>2
<1>10. NoPoolLost'
  <2> SUFFICES ASSUME NEW q \in Opened, pools'[q].open PROVE FALSE
    BY <1>4, <1>5 DEF NoPoolLost, Opened
  <2>1. q = store /\ q # NoPool
    BY <1>1, <1>4 DEF StoresInv, PoolsSound, NoPoolLost, NoPool
  <2> QED
    BY <1>2, <1>4, <2>1 DEF Serves
<1> QED
  BY <1>7, <1>8, <1>9, <1>10 DEF StoresInv, OneOpening, PoolsSound

\* OpenFails keeps the invariant.
LEMMA OpenFailsInv ==
    ASSUME StoresInv, NEW a \in Asker, OpenFails(a)
    PROVE  StoresInv'
<1>1. UNCHANGED <<routed, store, pools>> /\ pending' = NoOne
  BY DEF OpenFails
<1>2. /\ asker \in [Asker -> AskerType] /\ asker[a].at = "opening" /\ asker[a].url \in Url
      /\ pending.by = a
  BY DEF OpenFails, StoresInv, StoresOK, OneOpening
<1>3. /\ asker' \in [Asker -> AskerType]
      /\ \A b \in Asker : /\ asker'[b].url = asker[b].url
                          /\ \/ asker'[b].at = "failed" /\ asker[b].at # "idle"
                             \/ b # a /\ asker'[b] = asker[b]
  <2> DEFINE others == [b \in Asker |-> IF b \in Joined THEN [asker[b] EXCEPT !.at = "failed"] ELSE asker[b]]
             new == [at |-> "failed", url |-> asker[a].url, pool |-> NoPool]
  <2>1. asker' = [others EXCEPT ![a] = new]
    BY DEF OpenFails, Answer, Told
  <2>2. new \in AskerType
    BY <1>2 DEF AskerType, NoPool
  <2>3. others \in [Asker -> AskerType]
    BY <1>2 DEF AskerType
  <2>4. \A b \in Asker \ {a} : asker'[b] = others[b]
    BY <2>1
  <2>5. \A b \in Asker : (others[b].url = asker[b].url)
                         /\ ((others[b].at = "failed" /\ asker[b].at # "idle") \/ others[b] = asker[b])
    BY <1>2 DEF AskerType, Joined
  <2>6. asker' \in [Asker -> AskerType] /\ asker'[a] = new
    BY <2>1, <2>2, <2>3
  <2> HIDE DEF others
  <2> QED
    BY <1>2, <2>4, <2>5, <2>6
<1>4. StoresOK'
  BY <1>1, <1>2, <1>3 DEF StoresInv, StoresOK, Opened
<1>5. \A b \in Asker : asker'[b].at # "opening"
  <2> SUFFICES ASSUME NEW b \in Asker \ {a}, asker[b].at = "opening" PROVE FALSE
    BY <1>3
  <2>1. pending = [by |-> b, url |-> asker[b].url]
    BY DEF StoresInv, OneOpening
  <2> QED
    BY <1>2, <2>1
<1>6. GotOpened' /\ RightDatabase' /\ NoPoolLost'
  BY <1>1, <1>3 DEF StoresInv, GotOpened, PoolsSound, RightDatabase, NoPoolLost, Opened
<1> QED
  BY <1>4, <1>5, <1>6 DEF StoresInv, OneOpening, PoolsSound

\* Every step of the stores keeps their invariant.
LEMMA StoresStep == StoresInv /\ [StoresNext]_storeVars => StoresInv'
<1> SUFFICES ASSUME StoresInv, [StoresNext]_storeVars PROVE StoresInv'
  OBVIOUS
<1>1. ASSUME NEW a \in Asker, AskStore(a) \/ Find(a) \/ Join(a) \/ Initialize(a) PROVE StoresInv'
  BY <1>1, AskerInv
<1>2. ASSUME NEW a \in Asker, Opens(a) PROVE StoresInv'
  BY <1>2, OpensInv
<1>3. ASSUME NEW a \in Asker, OpenFails(a) PROVE StoresInv'
  BY <1>3, OpenFailsInv
<1>4. CASE Reroute
  BY <1>4 DEF Reroute, StoresInv, StoresOK, OneOpening, GotOpened, PoolsSound, NoPoolLost, RightDatabase,
     Opened, Serves
<1>5. CASE UNCHANGED storeVars
  BY <1>5 DEF storeVars, StoresInv, StoresOK, OneOpening, GotOpened, PoolsSound, NoPoolLost, RightDatabase,
     Opened, Serves
<1> QED
  BY <1>1, <1>2, <1>3, <1>4, <1>5 DEF StoresNext, StoresProgress, AskerStep

\* Whatever URLs a tenant is routed to while callers initialize, join and fail,
\* one pool at most is open, and a caller has one of the URL it asked for (Store
\* in tenant_store.go).
THEOREM PoolsKept == StoresSpec => []PoolsSound
<1>1. StoresInv => PoolsSound
  BY DEF StoresInv
<1> QED
  BY <1>1, StoresInitial, StoresStep, PTL DEF StoresSpec

-----------------------------------------------------------------------------
(* The LISTEN connections of tenants.                                      *)

ListenerType == [t : ListenTenant, route : Route, refs : Nat,
                 timer : {"none", "armed", "fired"}, connected : BOOLEAN,
                 runner : {"connecting", "listening", "lost", "ended"}]
HolderType == [at : {"out", "waiting", "held", "refused"}, on : Nat]

ListenersOK ==
    /\ route \in [ListenTenant -> Route] /\ current \in [ListenTenant -> Nat]
    /\ strays \in [ListenTenant -> Nat] /\ holder \in [Holder -> HolderType]
    /\ \E n \in Nat : listener \in [1 .. n -> ListenerType]

\* The current listener of a tenant is one of its own.
CurrentOwn == \A t \in Active : current[t] \in Made /\ listener[current[t]].t = t

\* What ConnectedIsListening says of every listener, and what WithinLimit says
\* of the goroutines.
Goroutines ==
    \A id \in Made : LET l == listener[id] IN
        /\ l.connected => l.runner \in {"listening", "lost"}
        /\ l.runner # "ended" => current[l.t] = id

ActiveBound == Cardinality(Active) <= ListenerLimit

ListenersInv == ListenersOK /\ CurrentOwn /\ Goroutines /\ KeptWhileHeld /\ ActiveBound

\* The invariant says what ListenersKept promises.
LEMMA ListenersInvIsKept == ListenersInv => ListenersKept
<1> SUFFICES ASSUME ListenersInv PROVE ListenersKept
  OBVIOUS
<1>1. ConnectedIsListening
  BY DEF ListenersInv, CurrentOwn, Goroutines, ConnectedIsListening
<1>2. WithinLimit
  BY DEF ListenersInv, Goroutines, ActiveBound, WithinLimit
<1> QED
  BY <1>1, <1>2 DEF ListenersInv, ListenersKept

\* No listener is held at the start.
LEMMA ListenersInitial == ListenersInit => ListenersInv
<1> SUFFICES ASSUME ListenersInit PROVE ListenersInv
  OBVIOUS
<1>1. Made = {} /\ listener \in [{} -> ListenerType] /\ Active = {}
  BY DEF ListenersInit, Made, Active
<1>2. \A t \in ListenTenant : Holders(t) = {}
  BY DEF ListenersInit, Holders
<1>3. Cardinality({}) = 0
  BY FS_EmptySet
<1> DEFINE n == 0
<1>4. n \in Nat /\ 1 .. n = {}
  OBVIOUS
<1>5. \E m \in Nat : listener \in [1 .. m -> ListenerType]
  <2> HIDE DEF n
  <2> QED
    BY <1>1, <1>4
<1>6. ListenersOK
  <2>1. holder \in [Holder -> HolderType]
    BY DEF ListenersInit, HolderType
  <2>2. current \in [ListenTenant -> Nat] /\ strays \in [ListenTenant -> Nat]
    BY DEF ListenersInit
  <2> QED
    BY <1>5, <2>1, <2>2 DEF ListenersInit, ListenersOK
<1>7. KeptWhileHeld
  <2>1. \A t \in ListenTenant : Cardinality(Holders(t)) = 0 /\ strays[t] = 0
    BY <1>2, <1>3 DEF ListenersInit
  <2> QED
    BY <2>1 DEF KeptWhileHeld
<1>8. ActiveBound
  BY <1>1, <1>3, TenantListenersAssumption DEF ActiveBound
<1> QED
  BY <1>1, <1>6, <1>7, <1>8 DEF ListenersInv, CurrentOwn, Goroutines

\* A seat holds a listener.
Seated(at) == IF at \in {"waiting", "held"} THEN 1 ELSE 0

\* One holder changes its seat: its own tenant's count moves by it.
LEMMA SeatsCounted ==
    ASSUME IsFiniteSet(Holder), holder \in [Holder -> HolderType], NEW h \in Holder,
           NEW new \in HolderType, holder' = [holder EXCEPT ![h] = new],
           NEW t \in ListenTenant
    PROVE  /\ Cardinality(Holders(t)) \in Nat /\ Cardinality(Holders(t)') \in Nat
           /\ Cardinality(Holders(t)') =
                 IF t = TenantOf[h] THEN Cardinality(Holders(t)) - Seated(holder[h].at) + Seated(new.at)
                 ELSE Cardinality(Holders(t))
<1> DEFINE others == Holders(t) \ {h}
<1>1. IsFiniteSet(Holders(t)) /\ IsFiniteSet(others) /\ IsFiniteSet(Holders(t)')
  <2>1. Holders(t) \in SUBSET Holder /\ others \in SUBSET Holder /\ Holders(t)' \in SUBSET Holder
    BY DEF Holders
  <2> QED
    BY <2>1, FS_Subset
<1>2. Holders(t)' \ {h} = others
  BY DEF Holders
<1>3. /\ Cardinality(Holders(t)) \in Nat /\ Cardinality(Holders(t)') \in Nat
      /\ Cardinality(others) \in Nat
  BY <1>1, FS_CardinalityType
<1>4. /\ h \in Holders(t) <=> t = TenantOf[h] /\ Seated(holder[h].at) = 1
      /\ h \in Holders(t)' <=> t = TenantOf[h] /\ Seated(new.at) = 1
      /\ Seated(holder[h].at) \in {0, 1} /\ Seated(new.at) \in {0, 1}
  BY DEF Holders, Seated
<1>5. /\ Cardinality(others) = IF h \in Holders(t) THEN Cardinality(Holders(t)) - 1 ELSE Cardinality(Holders(t))
      /\ Cardinality(Holders(t)' \ {h}) =
            IF h \in Holders(t)' THEN Cardinality(Holders(t)') - 1 ELSE Cardinality(Holders(t)')
  BY <1>1, FS_RemoveElement
<1> DEFINE before == Cardinality(Holders(t))
           after == Cardinality(Holders(t)')
           rest == Cardinality(others)
<1>6. /\ before = IF h \in Holders(t) THEN rest + 1 ELSE rest
      /\ after = IF h \in Holders(t)' THEN rest + 1 ELSE rest
  <2>1. /\ rest = IF h \in Holders(t) THEN before - 1 ELSE before
        /\ rest = IF h \in Holders(t)' THEN after - 1 ELSE after
    BY <1>2, <1>5
  <2>2. before \in Nat /\ after \in Nat /\ rest \in Nat
    BY <1>3
  <2> HIDE DEF before, after, rest
  <2> QED
    BY <2>1, <2>2
<1>7. before \in Nat /\ after \in Nat /\ rest \in Nat
  BY <1>3
<1> HIDE DEF before, after, rest
<1>8. after = IF t = TenantOf[h] THEN before - Seated(holder[h].at) + Seated(new.at) ELSE before
  <2>1. CASE t = TenantOf[h]
    <3>1. before = rest + Seated(holder[h].at) /\ after = rest + Seated(new.at)
      BY <1>4, <1>6, <1>7, <2>1
    <3> QED
      BY <1>4, <1>7, <2>1, <3>1
  <2>2. CASE t # TenantOf[h]
    BY <1>4, <1>6, <2>2
  <2> QED
    BY <2>1, <2>2
<1> QED
  BY <1>7, <1>8 DEF before, after

\* One listener changes, and stays the goroutine it was or could become.
LEMMA OneListener ==
    ASSUME ListenersInv, NEW id \in Made, NEW l \in ListenerType, Change(id, l),
           current' = current, l.t = listener[id].t,
           l.connected => l.runner \in {"listening", "lost"},
           l.runner # "ended" => current[l.t] = id
    PROVE  /\ \E n \in Nat : listener' \in [1 .. n -> ListenerType]
           /\ CurrentOwn' /\ Goroutines' /\ ActiveBound'
           /\ listener'[id] = l /\ \A i \in Made \ {id} : listener'[i] = listener[i]
<1>1. PICK n \in Nat : listener \in [1 .. n -> ListenerType]
  BY DEF ListenersInv, ListenersOK
<1>2. /\ Made = 1 .. n /\ Made' = Made /\ listener' \in [1 .. n -> ListenerType]
      /\ listener'[id] = l /\ \A i \in Made \ {id} : listener'[i] = listener[i]
  BY <1>1 DEF Made, Change
<1>3. CurrentOwn'
  BY <1>2 DEF ListenersInv, CurrentOwn, Active
<1>4. Goroutines'
  BY <1>2 DEF ListenersInv, Goroutines
<1>5. ActiveBound'
  BY DEF ListenersInv, ActiveBound, Active
<1> QED
  BY <1>2, <1>3, <1>4, <1>5

\* A new listener: the current one of its tenant.
LEMMA NewGoroutine ==
    ASSUME ListenersInv, NEW t \in ListenTenant, NEW refs \in Nat,
           NEW new, new = Cardinality(Made) + 1,
           current' = [current EXCEPT ![t] = new],
           IF current[t] = 0 THEN listener' = With(new, NewListener(t, refs))
           ELSE listener' = [With(new, NewListener(t, refs)) EXCEPT ![current[t]] = Ended(listener[current[t]])]
    PROVE  /\ \E n \in Nat : listener' \in [1 .. n -> ListenerType]
           /\ current' \in [ListenTenant -> Nat] /\ new # 0
           /\ CurrentOwn' /\ Goroutines' /\ Active' = Active \cup {t}
           /\ listener'[new].refs = refs
           /\ \A u \in ListenTenant \ {t} : current'[u] = current[u]
                 /\ (u \in Active => listener'[current[u]] = listener[current[u]])
<1>1. PICK n \in Nat : listener \in [1 .. n -> ListenerType]
  BY DEF ListenersInv, ListenersOK
<1>2. Made = 1 .. n /\ new = n + 1
  <2>1. Made = 1 .. n
    BY <1>1 DEF Made
  <2>2. Cardinality(1 .. n) = n
    <3> DEFINE lo == 1
    <3>1. lo \in Int /\ n \in Int
      OBVIOUS
    <3> HIDE DEF lo
    <3>2. Cardinality(lo .. n) = IF lo > n THEN 0 ELSE n - lo + 1
      BY <3>1, FS_Interval
    <3> QED
      BY <3>2 DEF lo
  <2> QED
    BY <2>1, <2>2
<1>3. /\ new \in Nat \ {0} /\ new \notin Made /\ Made \cup {new} = 1 .. n + 1 /\ n + 1 \in Nat
  BY <1>2
<1>4. /\ current \in [ListenTenant -> Nat] /\ route \in [ListenTenant -> Route]
  BY DEF ListenersInv, ListenersOK
<1>5. /\ NewListener(t, refs) \in ListenerType /\ NewListener(t, refs).t = t
      /\ NewListener(t, refs).refs = refs /\ ~NewListener(t, refs).connected
  BY <1>4 DEF NewListener, ListenerType
<1>6. ASSUME current[t] # 0
      PROVE  /\ current[t] \in Made /\ current[t] # new
             /\ Ended(listener[current[t]]) \in ListenerType
             /\ Ended(listener[current[t]]).runner = "ended" /\ ~Ended(listener[current[t]]).connected
             /\ Ended(listener[current[t]]).t = t /\ listener[current[t]].t = t
  <2>1. current[t] \in Made /\ listener[current[t]].t = t
    BY <1>4, <1>6 DEF ListenersInv, CurrentOwn, Active
  <2>2. listener[current[t]] \in ListenerType
    BY <1>1, <1>2, <2>1
  <2> QED
    BY <1>3, <2>1, <2>2 DEF Ended, ListenerType
<1>7. /\ DOMAIN listener' = Made \cup {new} /\ listener'[new] = NewListener(t, refs)
      /\ \A i \in Made : IF i = current[t] THEN listener'[i] = Ended(listener[i])
                         ELSE listener'[i] = listener[i]
  <2> DEFINE w == With(new, NewListener(t, refs))
  <2>1. /\ DOMAIN w = Made \cup {new} /\ w[new] = NewListener(t, refs)
        /\ \A i \in Made : w[i] = listener[i]
    BY <1>3 DEF With
  <2> HIDE DEF w
  <2>2. CASE current[t] = 0
    <3>1. listener' = w /\ 0 \notin Made
      BY <1>2, <2>2 DEF w
    <3> QED
      BY <2>1, <2>2, <3>1
  <2>3. CASE current[t] # 0
    <3>1. listener' = [w EXCEPT ![current[t]] = Ended(listener[current[t]])]
      BY <2>3 DEF w
    <3> QED
      BY <1>6, <2>1, <2>3, <3>1
  <2> QED
    BY <2>2, <2>3
<1>8. listener' \in [1 .. n + 1 -> ListenerType]
  <2>1. listener' = [i \in Made \cup {new} |-> listener'[i]]
    BY DEF With
  <2>2. \A i \in Made \cup {new} : listener'[i] \in ListenerType
    BY <1>1, <1>2, <1>5, <1>6, <1>7
  <2> QED
    BY <1>3, <2>1, <2>2
<1>9. Made' = Made \cup {new} /\ current' \in [ListenTenant -> Nat] /\ current'[t] = new
      /\ \A u \in ListenTenant \ {t} : current'[u] = current[u]
  BY <1>3, <1>4, <1>7 DEF Made
<1>10. \A u \in ListenTenant \ {t} : u \in Active => current[u] \in Made /\ current[u] # current[t]
  <2> SUFFICES ASSUME NEW u \in ListenTenant \ {t}, u \in Active
               PROVE  current[u] \in Made /\ current[u] # current[t]
    OBVIOUS
  <2>1. current[u] \in Made /\ listener[current[u]].t = u
    BY DEF ListenersInv, CurrentOwn
  <2>2. current[t] # 0 => listener[current[t]].t = t
    BY <1>6
  <2> QED
    BY <2>1, <2>2 DEF Active
<1>11. CurrentOwn'
  <2> SUFFICES ASSUME NEW u \in ListenTenant, current'[u] # 0
               PROVE  current'[u] \in Made' /\ listener'[current'[u]].t = u
    BY DEF CurrentOwn, Active
  <2>1. CASE u = t
    BY <1>5, <1>7, <1>9, <2>1
  <2>2. CASE u # t
    <3>1. current'[u] = current[u] /\ u \in Active
      BY <1>9, <2>2 DEF Active
    <3>2. current[u] \in Made /\ listener[current[u]].t = u /\ current[u] # current[t]
      BY <1>10, <2>2, <3>1 DEF ListenersInv, CurrentOwn
    <3> QED
      BY <1>7, <1>9, <3>1, <3>2
  <2> QED
    BY <2>1, <2>2
<1>12. Goroutines'
  <2> SUFFICES ASSUME NEW i \in Made \cup {new}
               PROVE  /\ listener'[i].connected => listener'[i].runner \in {"listening", "lost"}
                      /\ listener'[i].runner # "ended" => current'[listener'[i].t] = i
    BY <1>9 DEF Goroutines
  <2>1. CASE i = new
    BY <1>5, <1>7, <1>9, <2>1
  <2>2. CASE i \in Made /\ i = current[t]
    <3>1. current[t] # 0
      BY <1>2, <2>2
    <3> QED
      BY <1>6, <1>7, <2>2, <3>1
  <2>3. CASE i \in Made /\ i # current[t]
    <3>1. listener'[i] = listener[i] /\ listener[i] \in ListenerType
      BY <1>1, <1>2, <1>7, <2>3
    <3>2. /\ listener[i].connected => listener[i].runner \in {"listening", "lost"}
          /\ listener[i].runner # "ended" => current[listener[i].t] = i
      BY <2>3 DEF ListenersInv, Goroutines
    <3>3. listener[i].runner # "ended" => listener[i].t # t /\ listener[i].t \in ListenTenant
      BY <2>3, <3>1, <3>2 DEF ListenerType
    <3> QED
      BY <1>9, <3>1, <3>2, <3>3
  <2> QED
    BY <2>1, <2>2, <2>3
<1>13. Active' = Active \cup {t}
  BY <1>3, <1>9 DEF Active
<1>14. \A u \in ListenTenant \ {t} : u \in Active => listener'[current[u]] = listener[current[u]]
  BY <1>7, <1>10
<1> QED
  BY <1>3, <1>5, <1>7, <1>8, <1>9, <1>11, <1>12, <1>13, <1>14

\* What KeptWhileHeld asks of a tenant with c holders.
Enough(c, t) ==
    c > strays[t] => current[t] # 0 /\ listener[current[t]].refs >= c - strays[t]

\* Tenants have listeners of their own.
LEMMA ListenersApart ==
    ASSUME ListenersInv, NEW t \in Active, NEW u \in Active \ {t}
    PROVE  /\ current[t] \in Made /\ current[u] \in Made /\ current[u] # current[t]
           /\ listener[current[t]] \in ListenerType /\ listener[current[u]] \in ListenerType
<1>1. current[t] \in Made /\ listener[current[t]].t = t /\ current[u] \in Made /\ listener[current[u]].t = u
  BY DEF ListenersInv, CurrentOwn
<1>2. PICK n \in Nat : listener \in [1 .. n -> ListenerType]
  BY DEF ListenersInv, ListenersOK
<1>3. Made = 1 .. n
  BY <1>2 DEF Made
<1> QED
  BY <1>1, <1>2, <1>3

\* A holder changes its seat, and its tenant's listener goes along.
LEMMA SeatsKept ==
    ASSUME ListenersInv, IsFiniteSet(Holder),
           NEW h \in Holder, NEW new \in HolderType, holder' = [holder EXCEPT ![h] = new],
           \A u \in ListenTenant \ {TenantOf[h]} :
              /\ current'[u] = current[u] /\ strays'[u] = strays[u]
              /\ u \in Active => listener'[current[u]].refs = listener[current[u]].refs,
           \A c, d \in Nat : /\ d = c - Seated(holder[h].at) + Seated(new.at)
                             /\ Enough(c, TenantOf[h])
                             => Enough(d, TenantOf[h])'
    PROVE  KeptWhileHeld'
<1> SUFFICES ASSUME NEW u \in ListenTenant PROVE Enough(Cardinality(Holders(u)), u)'
  BY DEF KeptWhileHeld, Enough
<1>1. Enough(Cardinality(Holders(u)), u)
  BY DEF ListenersInv, KeptWhileHeld, Enough
<1>2. /\ Cardinality(Holders(u)) \in Nat /\ Cardinality(Holders(u)') \in Nat
      /\ Cardinality(Holders(u)') =
            IF u = TenantOf[h] THEN Cardinality(Holders(u)) - Seated(holder[h].at) + Seated(new.at)
            ELSE Cardinality(Holders(u))
  <2>1. holder \in [Holder -> HolderType]
    BY DEF ListenersInv, ListenersOK
  <2> QED
    BY <2>1, SeatsCounted
<1>3. CASE u = TenantOf[h]
  <2>1. PICK c \in Nat, d \in Nat : c = Cardinality(Holders(u)) /\ d = Cardinality(Holders(u)')
    BY <1>2
  <2>2. d = c - Seated(holder[h].at) + Seated(new.at)
    BY <1>2, <1>3, <2>1
  <2>3. Enough(c, TenantOf[h])
    BY <1>1, <1>3, <2>1
  <2>4. Enough(d, TenantOf[h])'
    BY <2>2, <2>3
  <2> QED
    BY <1>3, <2>1, <2>4 DEF Enough
<1>4. CASE u # TenantOf[h]
  <2>1. Cardinality(Holders(u)') = Cardinality(Holders(u))
    BY <1>2, <1>4
  <2>2. u \in Active <=> current[u] # 0
    BY DEF Active
  <2>3. /\ current'[u] = current[u] /\ strays'[u] = strays[u]
        /\ current[u] # 0 => listener'[current[u]].refs = listener[current[u]].refs
    BY <1>4, <2>2
  <2> QED
    BY <1>1, <2>1, <2>3 DEF Enough
<1> QED
  BY <1>3, <1>4

\* References and timer change.
LEMMA RefsAndTimer ==
    ASSUME NEW x \in ListenerType, NEW refs \in Nat, NEW timer \in {"none", "armed", "fired"}
    PROVE  LET l == [x EXCEPT !.refs = refs, !.timer = timer] IN
           /\ l \in ListenerType /\ l.t = x.t /\ l.refs = refs
           /\ l.connected = x.connected /\ l.runner = x.runner
<1> DEFINE l == [x EXCEPT !.refs = refs, !.timer = timer]
<1>1. l \in ListenerType
  BY DEF ListenerType
<1>2. l.t = x.t /\ l.refs = refs /\ l.connected = x.connected /\ l.runner = x.runner
  BY DEF ListenerType
<1> QED
  BY <1>1, <1>2

\* release by name.
LEMMA GivenUp ==
    ASSUME ListenersInv, NEW t \in ListenTenant, GiveUp(t), current' = current
    PROVE  /\ \E n \in Nat : listener' \in [1 .. n -> ListenerType]
           /\ CurrentOwn' /\ Goroutines' /\ ActiveBound'
           /\ \A u \in Active : /\ listener[current[u]].refs \in Nat
                                /\ listener'[current[u]].refs =
                                      IF u = t THEN OneFewer(listener[current[u]].refs)
                                      ELSE listener[current[u]].refs
<1>1. CASE current[t] = 0
  <2>1. listener' = listener /\ t \notin Active
    BY <1>1 DEF GiveUp, Active
  <2>2. CurrentOwn' /\ Goroutines' /\ ActiveBound' /\ \E n \in Nat : listener' \in [1 .. n -> ListenerType]
    BY <2>1 DEF ListenersInv, ListenersOK, CurrentOwn, Goroutines, ActiveBound, Active, Made
  <2>3. \A u \in Active : listener[current[u]].refs \in Nat
    BY DEF ListenersInv, ListenersOK, CurrentOwn, Made, ListenerType
  <2> QED
    BY <2>1, <2>2, <2>3
<1>2. CASE current[t] # 0
  <2> DEFINE id == current[t]
             l == Released(listener[id])
  <2>1. id \in Made /\ listener[id].t = t /\ t \in Active
    BY <1>2 DEF ListenersInv, CurrentOwn, Active
  <2>2. \A i \in Made : listener[i] \in ListenerType
    BY DEF ListenersInv, ListenersOK, Made
  <2>3. listener[id] \in ListenerType
    BY <2>1, <2>2
  <2>4. /\ l \in ListenerType /\ l.t = t /\ l.refs = OneFewer(listener[id].refs)
        /\ l.connected = listener[id].connected /\ l.runner = listener[id].runner
    <3>1. PICK refs \in Nat, timer \in {"none", "armed", "fired"} :
             refs = OneFewer(listener[id].refs) /\ l = [listener[id] EXCEPT !.refs = refs, !.timer = timer]
      <4>1. OneFewer(listener[id].refs) \in Nat /\ listener[id].timer \in {"none", "armed", "fired"}
        BY <2>3 DEF ListenerType, OneFewer
      <4> QED
        BY <4>1 DEF Released
    <3>2. PICK x \in ListenerType : x = listener[id]
      BY <2>3
    <3> DEFINE k == [x EXCEPT !.refs = refs, !.timer = timer]
    <3>3. /\ k \in ListenerType /\ k.t = x.t /\ k.refs = refs
          /\ k.connected = x.connected /\ k.runner = x.runner
      BY RefsAndTimer, ZenonT(60)
    <3>4. l = k
      BY <3>1, <3>2
    <3> HIDE DEF l, k
    <3> QED
      BY <2>1, <3>1, <3>2, <3>3, <3>4
  <2>5. Change(id, l)
    BY <1>2 DEF GiveUp
  <2>6. /\ l.connected => l.runner \in {"listening", "lost"}
        /\ l.runner # "ended" => current[t] = id
    BY <2>1, <2>4 DEF ListenersInv, Goroutines
  <2> HIDE DEF id, l
  <2>7. /\ \E n \in Nat : listener' \in [1 .. n -> ListenerType]
        /\ CurrentOwn' /\ Goroutines' /\ ActiveBound'
        /\ listener'[id] = l /\ \A i \in Made \ {id} : listener'[i] = listener[i]
    BY <2>1, <2>4, <2>5, <2>6, OneListener
  <2>8. \A u \in Active : /\ listener[current[u]].refs \in Nat
                          /\ u # t => current[u] \in Made \ {id}
    <3> SUFFICES ASSUME NEW u \in Active
                 PROVE  listener[current[u]].refs \in Nat /\ (u # t => current[u] \in Made \ {id})
      OBVIOUS
    <3>1. current[u] \in Made /\ (u # t => current[u] # id)
      BY <2>1, ListenersApart DEF ListenersInv, CurrentOwn, id
    <3> QED
      BY <2>2, <3>1 DEF ListenerType
  <2> QED
    BY <2>4, <2>7, <2>8 DEF id
<1> QED
  BY <1>1, <1>2

\* acquire: an existing listener, the one that replaces it, or the first.
LEMMA ArriveInv ==
    ASSUME ListenersInv, IsFiniteSet(Holder), IsFiniteSet(ListenTenant),
           NEW h \in Holder, Share(h) \/ Replace(h) \/ Create(h)
    PROVE  ListenersInv'
<1> DEFINE t == TenantOf[h]
<1>0. /\ t \in ListenTenant /\ holder \in [Holder -> HolderType] /\ holder[h].at = "out"
      /\ current \in [ListenTenant -> Nat] /\ strays \in [ListenTenant -> Nat]
      /\ UNCHANGED <<route, strays>>
  BY TenantListenersAssumption DEF ListenersInv, ListenersOK, Share, Replace, Create
<1>1. \A u \in Active : current[u] \in Made /\ listener[current[u]] \in ListenerType
  BY DEF ListenersInv, ListenersOK, CurrentOwn, Made
<1>2. t \in Active <=> current[t] # 0
  BY <1>0 DEF Active
<1>3. PICK on \in Nat : holder' = [holder EXCEPT ![h] = [at |-> "waiting", on |-> on]]
  <2>1. CASE Share(h)
    BY <1>0, <2>1 DEF Share, Sit
  <2>2. CASE Replace(h) \/ Create(h)
    <3>1. IsFiniteSet(Made)
      <4>1. PICK n \in Nat : listener \in [1 .. n -> ListenerType]
        BY DEF ListenersInv, ListenersOK
      <4> QED
        BY <4>1, FS_Interval DEF Made
    <3>2. Cardinality(Made) + 1 \in Nat
      BY <3>1, FS_CardinalityType
    <3> QED
      BY <2>2, <3>2 DEF Replace, Create, Sit
  <2> QED
    BY <2>1, <2>2
<1> DEFINE seat == [at |-> "waiting", on |-> on]
<1>4. seat \in HolderType /\ Seated(seat.at) = 1 /\ Seated(holder[h].at) = 0
  BY <1>0 DEF HolderType, Seated
<1>5. /\ \E n \in Nat : listener' \in [1 .. n -> ListenerType]
      /\ current' \in [ListenTenant -> Nat] /\ current'[t] # 0
      /\ CurrentOwn' /\ Goroutines' /\ ActiveBound'
      /\ IF current[t] = 0 THEN listener'[current'[t]].refs = 1
         ELSE listener'[current'[t]].refs = listener[current[t]].refs + 1
      /\ \A u \in ListenTenant \ {t} : current'[u] = current[u]
            /\ (u \in Active => listener'[current[u]].refs = listener[current[u]].refs)
  <2>1. CASE Share(h)
    <3> DEFINE id == current[t]
               l == [listener[id] EXCEPT !.refs = @ + 1, !.timer = "none"]
    <3>1. id # 0 /\ current' = current /\ Change(id, l)
      BY <2>1 DEF Share
    <3>2. id \in Made /\ listener[id] \in ListenerType /\ listener[id].t = t
      BY <1>1, <1>2, <3>1 DEF ListenersInv, CurrentOwn
    <3>3. /\ l \in ListenerType /\ l.t = t /\ l.refs = listener[id].refs + 1
          /\ l.connected = listener[id].connected /\ l.runner = listener[id].runner
      <4>1. listener[id].refs + 1 \in Nat
        BY <3>2 DEF ListenerType
      <4> HIDE DEF id
      <4> QED
        BY <3>2, <4>1, RefsAndTimer DEF id
    <3>4. /\ l.connected => l.runner \in {"listening", "lost"}
          /\ l.runner # "ended" => current[t] = id
      BY <3>2, <3>3 DEF ListenersInv, Goroutines
    <3> HIDE DEF id, l
    <3>5. /\ \E n \in Nat : listener' \in [1 .. n -> ListenerType]
          /\ CurrentOwn' /\ Goroutines' /\ ActiveBound'
          /\ listener'[id] = l /\ \A i \in Made \ {id} : listener'[i] = listener[i]
      BY <3>1, <3>2, <3>3, <3>4, OneListener
    <3>6. \A u \in Active \ {t} : current[u] \in Made \ {id}
      BY <1>2, <3>1, ListenersApart DEF id
    <3> QED
      BY <1>0, <3>1, <3>3, <3>5, <3>6 DEF id
  <2>2. CASE Replace(h)
    <3> DEFINE refs == listener[current[t]].refs + 1
               new == Cardinality(Made) + 1
    <3>1. current[t] # 0 /\ current' = [current EXCEPT ![t] = new]
          /\ listener' = [With(new, NewListener(t, refs)) EXCEPT ![current[t]] = Ended(listener[current[t]])]
      BY <2>2 DEF Replace
    <3>2. refs \in Nat
      BY <1>1, <1>2, <3>1 DEF ListenerType
    <3> HIDE DEF refs
    <3>3. /\ \E n \in Nat : listener' \in [1 .. n -> ListenerType]
          /\ current' \in [ListenTenant -> Nat] /\ new # 0
          /\ CurrentOwn' /\ Goroutines' /\ Active' = Active \cup {t}
          /\ listener'[new].refs = refs
          /\ \A u \in ListenTenant \ {t} : current'[u] = current[u]
                /\ (u \in Active => listener'[current[u]] = listener[current[u]])
      BY <1>0, <3>1, <3>2, NewGoroutine
    <3>4. current'[t] = new
      BY <1>0, <3>1
    <3>5. ActiveBound'
      <4>1. t \in Active
        BY <1>2, <3>1 DEF Active
      <4>2. Active' = Active
        BY <3>3, <4>1
      <4>3. ActiveBound
        BY DEF ListenersInv
      <4> QED
        BY <4>2, <4>3 DEF ActiveBound
    <3> QED
      BY <3>1, <3>3, <3>4, <3>5 DEF refs
  <2>3. CASE Create(h)
    <3> DEFINE new == Cardinality(Made) + 1
    <3>1. /\ current[t] = 0 /\ current' = [current EXCEPT ![t] = new]
          /\ listener' = With(new, NewListener(t, 1)) /\ Cardinality(Active) < ListenerLimit
      BY <2>3 DEF Create
    <3>2. /\ \E n \in Nat : listener' \in [1 .. n -> ListenerType]
          /\ current' \in [ListenTenant -> Nat] /\ new # 0
          /\ CurrentOwn' /\ Goroutines' /\ Active' = Active \cup {t}
          /\ listener'[new].refs = 1
          /\ \A u \in ListenTenant \ {t} : current'[u] = current[u]
                /\ (u \in Active => listener'[current[u]] = listener[current[u]])
      BY <1>0, <3>1, NewGoroutine, ZenonT(60)
    <3>3. current'[t] = new
      BY <1>0, <3>1
    <3>4. IsFiniteSet(Active)
      <4>1. Active \in SUBSET ListenTenant
        BY DEF Active
      <4> QED
        BY <4>1, FS_Subset
    <3>5. /\ Cardinality(Active \cup {t}) = Cardinality(Active) + 1
          /\ Cardinality(Active) \in Nat
      BY <1>2, <3>1, <3>4, FS_AddElement, FS_CardinalityType
    <3>6. ActiveBound'
      BY <3>1, <3>2, <3>5, TenantListenersAssumption DEF ActiveBound
    <3> QED
      BY <3>1, <3>2, <3>3, <3>6
  <2> QED
    BY <2>1, <2>2, <2>3
<1>6. \A c, d \in Nat : /\ d = c - Seated(holder[h].at) + Seated(seat.at)
                        /\ Enough(c, t)
                        => Enough(d, t)'
  <2> SUFFICES ASSUME NEW c \in Nat, NEW d \in Nat, Enough(c, t),
                      d = c - Seated(holder[h].at) + Seated(seat.at)
               PROVE  Enough(d, t)'
    OBVIOUS
  <2>1. d = c + 1 /\ strays[t] \in Nat
    BY <1>0, <1>4
  <2>2. d > strays[t] => listener'[current'[t]].refs >= d - strays[t]
    <3>1. CASE current[t] = 0
      BY <1>5, <2>1, <3>1 DEF Enough
    <3>2. CASE current[t] # 0
      <4>1. listener[current[t]].refs \in Nat
        BY <1>1, <1>2, <3>2 DEF ListenerType
      <4> QED
        BY <1>5, <2>1, <3>2, <4>1, SMTT(30) DEF Enough
    <3> QED
      BY <3>1, <3>2
  <2>3. strays'[t] = strays[t] /\ current'[t] # 0
    BY <1>0, <1>5
  <2> QED
    BY <2>2, <2>3 DEF Enough
<1>7. KeptWhileHeld'
  <2> HIDE DEF t, seat
  <2>1. /\ \A u \in ListenTenant \ {TenantOf[h]} :
              /\ current'[u] = current[u] /\ strays'[u] = strays[u]
              /\ u \in Active => listener'[current[u]].refs = listener[current[u]].refs
        /\ holder' = [holder EXCEPT ![h] = seat]
    BY <1>0, <1>3, <1>5 DEF t, seat
  <2>2. \A c, d \in Nat : /\ d = c - Seated(holder[h].at) + Seated(seat.at)
                          /\ Enough(c, TenantOf[h])
                          => Enough(d, TenantOf[h])'
    BY <1>6 DEF t
  <2> QED
    BY <1>4, <2>1, <2>2, SeatsKept
<1>8. ListenersOK'
  BY <1>0, <1>3, <1>4, <1>5 DEF ListenersInv, ListenersOK
<1> QED
  BY <1>5, <1>7, <1>8 DEF ListenersInv

\* A seat is changed and no listener: ready, refused, or a group that waits no
\* longer.
LEMMA SeatInv ==
    ASSUME ListenersInv, IsFiniteSet(Holder),
           NEW h \in Holder, IsReady(h) \/ Refuse(h) \/ (TimesOut(h) /\ h \in Group)
    PROVE  ListenersInv'
<1> DEFINE t == TenantOf[h]
<1>0. /\ t \in ListenTenant /\ holder \in [Holder -> HolderType] /\ strays \in [ListenTenant -> Nat]
      /\ current \in [ListenTenant -> Nat]
      /\ UNCHANGED <<route, current, listener, strays>>
  BY TenantListenersAssumption DEF ListenersInv, ListenersOK, IsReady, Refuse, TimesOut
<1>1. PICK new \in HolderType :
         /\ holder' = [holder EXCEPT ![h] = new]
         /\ \/ Seated(new.at) = Seated(holder[h].at)
            \/ current[t] = 0 /\ Seated(new.at) = 0 /\ Seated(holder[h].at) = 1
  <2>1. CASE IsReady(h)
    <3>1. holder[h].at = "waiting" /\ current[t] \in Nat
      BY <1>0, <2>1 DEF IsReady
    <3>2. CASE h \in Group \/ (current[t] # 0 /\ listener[current[t]].connected)
      <4> DEFINE new == [at |-> "held", on |-> 0]
      <4>1. holder' = [holder EXCEPT ![h] = new]
        BY <2>1, <3>2 DEF IsReady, Sit
      <4>2. new \in HolderType /\ Seated(new.at) = 1 /\ Seated(holder[h].at) = 1
        BY <3>1 DEF HolderType, Seated
      <4> QED
        BY <4>1, <4>2
    <3>3. CASE ~(h \in Group \/ (current[t] # 0 /\ listener[current[t]].connected)) /\ current[t] = 0
      <4>1. holder' = [holder EXCEPT ![h] = [at |-> "out", on |-> current[t]]]
        BY <2>1, <3>3 DEF IsReady, Sit
      <4> QED
        BY <3>1, <3>3, <4>1 DEF HolderType, Seated
    <3>4. CASE ~(h \in Group \/ (current[t] # 0 /\ listener[current[t]].connected)) /\ current[t] # 0
      <4> DEFINE new == [at |-> "waiting", on |-> current[t]]
      <4>1. holder' = [holder EXCEPT ![h] = new]
        BY <2>1, <3>4 DEF IsReady, Sit
      <4>2. new \in HolderType /\ Seated(new.at) = 1 /\ Seated(holder[h].at) = 1
        BY <3>1 DEF HolderType, Seated
      <4> QED
        BY <4>1, <4>2
    <3> QED
      BY <3>2, <3>3, <3>4
  <2>2. CASE Refuse(h)
    <3> DEFINE new == [at |-> "refused", on |-> 0]
    <3>1. new \in HolderType /\ Seated(new.at) = 0 /\ Seated(holder[h].at) = 0
      BY <2>2 DEF Refuse, HolderType, Seated
    <3> QED
      BY <2>2, <3>1 DEF Refuse, Sit
  <2>3. CASE TimesOut(h) /\ h \in Group
    <3> DEFINE new == [at |-> "held", on |-> 0]
    <3>1. new \in HolderType /\ Seated(new.at) = 1 /\ Seated(holder[h].at) = 1
      BY <2>3 DEF TimesOut, HolderType, Seated
    <3> QED
      BY <2>3, <3>1 DEF TimesOut, Sit
  <2> QED
    BY <2>1, <2>2, <2>3
<1>2. \A c, d \in Nat : d = c - Seated(holder[h].at) + Seated(new.at) /\ Enough(c, t) => Enough(d, t)'
  <2> SUFFICES ASSUME NEW c \in Nat, NEW d \in Nat, Enough(c, t),
                      d = c - Seated(holder[h].at) + Seated(new.at)
               PROVE  d > strays[t] => current[t] # 0 /\ listener[current[t]].refs >= d - strays[t]
    BY <1>0 DEF Enough
  <2>1. CASE d = c
    BY <2>1 DEF Enough
  <2>2. CASE d # c
    <3>1. current[t] = 0 /\ d = c - 1
      BY <1>1, <2>2 DEF Seated
    <3> QED
      BY <1>0, <3>1 DEF Enough
  <2> QED
    BY <2>1, <2>2
<1>3. KeptWhileHeld'
  BY <1>0, <1>1, <1>2, SeatsKept
<1>4. ListenersOK'
  BY <1>0, <1>1 DEF ListenersInv, ListenersOK
<1>5. CurrentOwn' /\ Goroutines' /\ ActiveBound'
  BY <1>0 DEF ListenersInv, CurrentOwn, Goroutines, ActiveBound, Active, Made
<1> QED
  BY <1>3, <1>4, <1>5 DEF ListenersInv

\* A holder releases, in vain if it had been refused.
LEMMA ReleaseInv ==
    ASSUME ListenersInv, IsFiniteSet(Holder),
           NEW h \in Holder, LetGo(h) \/ (TimesOut(h) /\ h \notin Group)
    PROVE  ListenersInv'
<1> DEFINE t == TenantOf[h]
           out == [at |-> "out", on |-> 0]
           stray == holder[h].at = "refused" /\ current[t] # 0
<1>0. /\ t \in ListenTenant /\ holder \in [Holder -> HolderType] /\ strays \in [ListenTenant -> Nat]
      /\ current \in [ListenTenant -> Nat] /\ current' = current /\ route' = route
      /\ GiveUp(t) /\ holder' = [holder EXCEPT ![h] = out]
      /\ holder[h].at \in {"waiting", "held", "refused"}
      /\ strays' = IF stray THEN [strays EXCEPT ![t] = @ + 1] ELSE strays
  BY TenantListenersAssumption DEF ListenersInv, ListenersOK, LetGo, TimesOut, Sit
<1>1. /\ \E n \in Nat : listener' \in [1 .. n -> ListenerType]
      /\ CurrentOwn' /\ Goroutines' /\ ActiveBound'
      /\ \A u \in Active : /\ listener[current[u]].refs \in Nat
                           /\ listener'[current[u]].refs =
                                 IF u = t THEN OneFewer(listener[current[u]].refs)
                                 ELSE listener[current[u]].refs
  BY <1>0, GivenUp
<1>2. out \in HolderType /\ Seated(out.at) = 0
  BY DEF HolderType, Seated
<1>3. strays' \in [ListenTenant -> Nat] /\ \A u \in ListenTenant \ {t} : strays'[u] = strays[u]
  BY <1>0
<1>4. \A c, d \in Nat : d = c - Seated(holder[h].at) + Seated(out.at) /\ Enough(c, t) => Enough(d, t)'
  <2> SUFFICES ASSUME NEW c \in Nat, NEW d \in Nat, Enough(c, t),
                      d = c - Seated(holder[h].at) + Seated(out.at)
               PROVE  d > strays'[t] => current[t] # 0 /\ listener'[current[t]].refs >= d - strays'[t]
    BY <1>0 DEF Enough
  <2>1. CASE current[t] = 0
    <3>1. d <= c /\ strays'[t] = strays[t]
      BY <1>0, <1>2, <2>1 DEF Seated
    <3> QED
      BY <1>0, <2>1, <3>1 DEF Enough
  <2>2. CASE current[t] # 0
    <3>1. /\ listener[current[t]].refs \in Nat
          /\ listener'[current[t]].refs = OneFewer(listener[current[t]].refs)
      BY <1>0, <1>1, <2>2 DEF Active
    <3>2. strays[t] \in Nat /\ strays'[t] \in Nat /\ d - strays'[t] = c - strays[t] - 1
      <4>1. CASE holder[h].at = "refused"
        BY <1>0, <1>2, <2>2, <4>1 DEF Seated
      <4>2. CASE holder[h].at # "refused"
        BY <1>0, <1>2, <4>2 DEF Seated
      <4> QED
        BY <4>1, <4>2
    <3> QED
      BY <2>2, <3>1, <3>2 DEF Enough, OneFewer
  <2> QED
    BY <2>1, <2>2
<1>5. KeptWhileHeld'
  BY <1>0, <1>1, <1>2, <1>3, <1>4, SeatsKept
<1>6. ListenersOK'
  BY <1>0, <1>1, <1>2, <1>3 DEF ListenersInv, ListenersOK
<1> QED
  BY <1>1, <1>5, <1>6 DEF ListenersInv

\* A goroutine or an idle timer goes on.
LEMMA RunnerInv ==
    ASSUME ListenersInv, IsFiniteSet(Holder),
           NEW id \in Made, TimerFires(id) \/ Listens(id) \/ Breaks(id) \/ Loses(id)
    PROVE  ListenersInv'
<1>0. UNCHANGED <<route, current, holder, strays>>
  BY DEF TimerFires, Listens, Breaks, Loses
<1>1. listener[id] \in ListenerType
  BY DEF ListenersInv, ListenersOK, Made
<1>2. PICK l \in ListenerType :
         /\ Change(id, l) /\ l.t = listener[id].t /\ l.refs = listener[id].refs
         /\ l.connected => l.runner \in {"listening", "lost"}
         /\ l.runner # "ended" => current[l.t] = id
  <2>0. /\ listener[id].connected => listener[id].runner \in {"listening", "lost"}
        /\ listener[id].runner # "ended" => current[listener[id].t] = id
    BY DEF ListenersInv, Goroutines
  <2>1. CASE TimerFires(id)
    <3> DEFINE l == [listener[id] EXCEPT !.timer = "fired"]
    <3>1. /\ l \in ListenerType /\ l.t = listener[id].t /\ l.refs = listener[id].refs
          /\ l.connected = listener[id].connected /\ l.runner = listener[id].runner
      BY <1>1 DEF ListenerType
    <3> QED
      BY <2>0, <2>1, <3>1 DEF TimerFires
  <2>2. CASE Breaks(id)
    <3> DEFINE l == [listener[id] EXCEPT !.runner = "lost"]
    <3>1. /\ l \in ListenerType /\ l.t = listener[id].t /\ l.refs = listener[id].refs
          /\ l.runner = "lost" /\ listener[id].runner = "listening"
      BY <1>1, <2>2 DEF ListenerType, Breaks
    <3> QED
      BY <2>0, <2>2, <3>1 DEF Breaks
  <2>3. CASE Listens(id) \/ Loses(id)
    <3>1. PICK on \in BOOLEAN, at \in {"listening", "connecting"} :
             /\ Change(id, [listener[id] EXCEPT !.runner = at, !.connected = on])
             /\ on => at = "listening"
      BY <2>3 DEF Listens, Loses
    <3> DEFINE l == [listener[id] EXCEPT !.runner = at, !.connected = on]
    <3>2. l \in ListenerType
      BY <1>1 DEF ListenerType
    <3>3. l.t = listener[id].t /\ l.refs = listener[id].refs /\ l.runner = at /\ l.connected = on
      BY <1>1 DEF ListenerType
    <3>4. current[listener[id].t] = id
      BY <2>0, <2>3 DEF Listens, Loses
    <3> HIDE DEF l
    <3> QED
      BY <3>1, <3>2, <3>3, <3>4 DEF l
  <2> QED
    BY <2>1, <2>2, <2>3
<1>3. /\ \E n \in Nat : listener' \in [1 .. n -> ListenerType]
      /\ CurrentOwn' /\ Goroutines' /\ ActiveBound'
      /\ listener'[id] = l /\ \A i \in Made \ {id} : listener'[i] = listener[i]
  BY <1>0, <1>2, OneListener
<1>4. \A u \in ListenTenant : current[u] # 0 => listener'[current[u]].refs = listener[current[u]].refs
  BY <1>2, <1>3 DEF ListenersInv, CurrentOwn, Active
<1>5. KeptWhileHeld'
  BY <1>0, <1>4 DEF ListenersInv, KeptWhileHeld, Holders
<1>6. ListenersOK'
  BY <1>0, <1>3 DEF ListenersInv, ListenersOK
<1> QED
  BY <1>3, <1>5, <1>6 DEF ListenersInv

\* expire removes a listener without references.
LEMMA ExpireInv ==
    ASSUME ListenersInv, IsFiniteSet(Holder), IsFiniteSet(ListenTenant), NEW id \in Made, Expire(id)
    PROVE  ListenersInv'
<1> DEFINE t == listener[id].t
<1>0. UNCHANGED <<route, holder, strays>> /\ current \in [ListenTenant -> Nat]
  BY DEF Expire, ListenersInv, ListenersOK
<1>1. PICK n \in Nat : listener \in [1 .. n -> ListenerType]
  BY DEF ListenersInv, ListenersOK
<1>2. Made = 1 .. n /\ listener[id] \in ListenerType /\ t \in ListenTenant
  <2>1. Made = 1 .. n
    BY <1>1 DEF Made
  <2>2. listener[id] \in ListenerType
    BY <1>1, <2>1
  <2> QED
    BY <2>1, <2>2 DEF ListenerType
<1>3. CASE ~(current[t] = id /\ listener[id].refs = 0)
  <2>1. UNCHANGED <<route, current, listener, holder, strays>>
    BY <1>0, <1>3 DEF Expire
  <2> QED
    BY <2>1 DEF ListenersInv, ListenersOK, CurrentOwn, Goroutines, KeptWhileHeld, ActiveBound, Active,
       Made, Holders
<1>4. CASE current[t] = id /\ listener[id].refs = 0
  <2>1. current' = [current EXCEPT ![t] = 0] /\ listener' = [listener EXCEPT ![id] = Ended(listener[id])]
    BY <1>4 DEF Expire, Change
  <2>2. /\ Ended(listener[id]) \in ListenerType /\ Ended(listener[id]).runner = "ended"
        /\ ~Ended(listener[id]).connected
    BY <1>2 DEF Ended, ListenerType
  <2>3. /\ listener' \in [1 .. n -> ListenerType] /\ Made' = Made
        /\ listener'[id] = Ended(listener[id]) /\ \A i \in Made \ {id} : listener'[i] = listener[i]
        /\ current' \in [ListenTenant -> Nat] /\ current'[t] = 0
        /\ \A u \in ListenTenant \ {t} : current'[u] = current[u]
    BY <1>0, <1>1, <1>2, <2>1, <2>2 DEF Made
  <2>4. Active' = Active \ {t}
    BY <2>3 DEF Active
  <2>5. \A u \in Active \ {t} : current[u] \in Made \ {id} /\ listener[current[u]].t = u
    BY <1>4 DEF ListenersInv, CurrentOwn
  <2>6. CurrentOwn'
    BY <2>3, <2>4, <2>5 DEF CurrentOwn, Active
  <2>7. Goroutines'
    <3> SUFFICES ASSUME NEW i \in Made
                 PROVE  /\ listener'[i].connected => listener'[i].runner \in {"listening", "lost"}
                        /\ listener'[i].runner # "ended" => current'[listener'[i].t] = i
      BY <2>3 DEF Goroutines
    <3>1. CASE i = id
      BY <2>2, <2>3, <3>1
    <3>2. CASE i # id
      <4>1. /\ listener'[i] = listener[i] /\ listener[i].t \in ListenTenant
            /\ listener[i].connected => listener[i].runner \in {"listening", "lost"}
            /\ listener[i].runner # "ended" => current[listener[i].t] = i
        BY <1>1, <1>2, <2>3, <3>2 DEF ListenersInv, Goroutines, ListenerType
      <4> QED
        BY <1>4, <2>3, <3>2, <4>1
    <3> QED
      BY <3>1, <3>2
  <2>8. ActiveBound'
    <3>1. Active \in SUBSET ListenTenant
      BY DEF Active
    <3>2. IsFiniteSet(Active)
      BY <3>1, FS_Subset
    <3>3. /\ Cardinality(Active \ {t}) = IF t \in Active THEN Cardinality(Active) - 1 ELSE Cardinality(Active)
          /\ Cardinality(Active) \in Nat
      BY <3>2, FS_RemoveElement, FS_CardinalityType
    <3> QED
      BY <2>4, <3>3, TenantListenersAssumption DEF ListenersInv, ActiveBound
  <2>9. KeptWhileHeld'
    <3> SUFFICES ASSUME NEW u \in ListenTenant, Cardinality(Holders(u)) > strays[u]
                 PROVE  /\ current'[u] # 0
                        /\ listener'[current'[u]].refs >= Cardinality(Holders(u)) - strays[u]
      BY <1>0 DEF KeptWhileHeld, Holders
    <3>1. /\ current[u] # 0 /\ listener[current[u]].refs >= Cardinality(Holders(u)) - strays[u]
          /\ u \in Active
      BY DEF ListenersInv, KeptWhileHeld, Active
    <3>2. Cardinality(Holders(u)) \in Nat /\ strays[u] \in Nat
      <4>1. Holders(u) \in SUBSET Holder
        BY DEF Holders
      <4>2. Cardinality(Holders(u)) \in Nat
        BY <4>1, FS_Subset, FS_CardinalityType
      <4> QED
        BY <4>2 DEF ListenersInv, ListenersOK
    <3>3. u # t
      BY <1>4, <3>1, <3>2
    <3> QED
      BY <2>3, <2>5, <3>1, <3>3
  <2>10. ListenersOK'
    BY <1>0, <2>3 DEF ListenersInv, ListenersOK
  <2> QED
    BY <2>6, <2>7, <2>8, <2>9, <2>10 DEF ListenersInv
<1> QED
  BY <1>3, <1>4

\* Every step of the listeners keeps their invariant.
LEMMA ListenersStep ==
    ASSUME IsFiniteSet(Holder), IsFiniteSet(ListenTenant)
    PROVE  ListenersInv /\ [ListenersNext]_listenerVars => ListenersInv'
<1> SUFFICES ASSUME ListenersInv, [ListenersNext]_listenerVars PROVE ListenersInv'
  OBVIOUS
<1>1. ASSUME NEW h \in Holder, Arrive(h) \/ IsReady(h) \/ TimesOut(h) \/ LetGo(h) PROVE ListenersInv'
  <2>1. CASE Share(h) \/ Replace(h) \/ Create(h)
    BY <2>1, ArriveInv
  <2>2. CASE IsReady(h) \/ Refuse(h) \/ (TimesOut(h) /\ h \in Group)
    BY <2>2, SeatInv
  <2>3. CASE LetGo(h) \/ (TimesOut(h) /\ h \notin Group)
    BY <2>3, ReleaseInv
  <2> QED
    BY <1>1, <2>1, <2>2, <2>3 DEF Arrive
<1>2. ASSUME NEW id \in Made, TimerFires(id) \/ Listens(id) \/ Breaks(id) \/ Loses(id) PROVE ListenersInv'
  BY <1>2, RunnerInv
<1>3. ASSUME NEW id \in Made, Expire(id) PROVE ListenersInv'
  BY <1>3, ExpireInv
<1>4. CASE UNCHANGED <<current, listener, holder, strays>> /\ route' \in [ListenTenant -> Route]
  BY <1>4 DEF ListenersInv, ListenersOK, CurrentOwn, Goroutines, KeptWhileHeld, ActiveBound, Active, Made,
     Holders
<1>5. ASSUME NEW t \in ListenTenant, RouteChanges(t) PROVE ListenersInv'
  <2>1. route' \in [ListenTenant -> Route]
    BY <1>5 DEF RouteChanges, ListenersInv, ListenersOK
  <2> QED
    BY <1>4, <1>5, <2>1 DEF RouteChanges
<1>6. CASE UNCHANGED listenerVars
  BY <1>4, <1>6 DEF listenerVars, ListenersInv, ListenersOK
<1> QED
  BY <1>1, <1>2, <1>3, <1>5, <1>6 DEF ListenersNext, ListenersProgress

\* For any tenants, holders, routes and limit: who subscribes keeps a listener
\* but for the releases of refused groups, what counts as connected listens, and
\* the limit holds (tenant_listeners.go).
THEOREM ListenersStay ==
    ASSUME IsFiniteSet(Holder), IsFiniteSet(ListenTenant)
    PROVE  ListenersSpec => []ListenersKept
<1>1. ListenersInv /\ [ListenersNext]_listenerVars => ListenersInv'
  BY ListenersStep
<1> QED
  BY <1>1, ListenersInitial, ListenersInvIsKept, PTL DEF ListenersSpec

-----------------------------------------------------------------------------
(* The supervisor and its workers.                                         *)

\* The types.
ReqType == [at : {"new", "loaded", "checked", "proxied", "open", "refused", "done", "cut", "restart"},
            w : Worker \cup {None}]
SnapType == [at : {"no", "due", "taken", "over"}, of : SUBSET Socket]
LoopType == [at : {"select", "replace", "waiting", "grace", "term", "int", "retry", "closed"},
             stop : Worker \cup {None}, old : Worker \cup {None},
             then : {"select", "retry", "closed"}]

SupervisionOK ==
    /\ proc \in [Worker -> {"unused", "starting", "serving", "ending", "dead"}]
    /\ req \in [Request -> ReqType] /\ snap \in [Worker -> SnapType] /\ loop \in LoopType
    /\ active \in Worker \cup {None} /\ exits \subseteq Worker
    /\ draining \subseteq Worker /\ busy \subseteq Socket

\* Only a worker that drains has a closed drained channel, and it stays empty.
DrainInv == drained \subseteq draining /\ DrainedIsEmpty

\* A worker that ends has been drained, was too late, or died by itself.
EndInv ==
    /\ \A w \in Worker : proc[w] \in {"ending", "dead"} => w \in drained \cup late \cup crashed
    /\ \A w \in exits : proc[w] = "dead"

\* What a drain still has to close was open on the worker when it began.
SnapInv ==
    \A w \in Worker :
        /\ snap[w].at = "over" => snap[w].of = {}
        /\ \A r \in snap[w].of : req[r].w = w /\ req[r].at \in {"open", "done", "restart", "cut"}

\* Whoever is on its way has a worker, and who writes is connected.
ReqInv ==
    \A r \in Request :
        /\ req[r].at \in {"loaded", "checked", "proxied", "open"} => req[r].w \in Worker
        /\ r \in busy => req[r].at = "open"

\* Where the run loop is says which workers may live, and which one is active.
Stopping == {"grace", "term", "int"}
LoopInv ==
    /\ active # None => proc[active] = "serving" \/ (proc[active] = "dead" /\ active \in crashed)
    /\ loop.at \in {"replace", "waiting"} => loop.old = active
    /\ loop.at \in Stopping \cup {"waiting"} => loop.stop \in Worker /\ loop.stop # active
    /\ loop.at = "int" => proc[loop.stop] \notin {"starting", "serving"}
    /\ loop.at \in Stopping /\ loop.then = "closed" => active = None
    /\ loop.at = "closed" => active = None
    /\ \A w \in Worker :
          Live(w) => w = active \/ (loop.at \in Stopping \cup {"waiting"} /\ w = loop.stop)

SupervisionInv ==
    SupervisionOK /\ DrainInv /\ EndInv /\ SnapInv /\ ReqInv /\ LoopInv /\ CutOnlyWhenLate /\ ToldOfRestart

\* No worker runs at the start.
LEMMA SupervisionInitial == SupervisionInit => SupervisionInv
<1> SUFFICES ASSUME SupervisionInit PROVE SupervisionInv
  OBVIOUS
<1>1. 1 \in Worker /\ None \notin Worker
  BY WorkerSupervisionAssumption DEF Worker, None
<1>2. SupervisionOK
  <2>1. proc \in [Worker -> {"unused", "starting", "serving", "ending", "dead"}]
    BY DEF SupervisionInit
  <2>2. req \in [Request -> ReqType] /\ loop \in LoopType
    BY DEF SupervisionInit, ReqType, LoopType
  <2>3. snap \in [Worker -> SnapType]
    BY DEF SupervisionInit, SnapType
  <2> QED
    BY <1>1, <2>1, <2>2, <2>3 DEF SupervisionInit, SupervisionOK
<1>3. DrainInv /\ EndInv /\ CutOnlyWhenLate
  BY DEF SupervisionInit, DrainInv, EndInv, DrainedIsEmpty, CutOnlyWhenLate
<1>4. SnapInv /\ ToldOfRestart /\ ReqInv
  BY DEF SupervisionInit, SnapInv, ToldOfRestart, ReqInv
<1>5. LoopInv
  BY <1>1 DEF SupervisionInit, LoopInv, Stopping, Live
<1> QED
  BY <1>2, <1>3, <1>4, <1>5 DEF SupervisionInv

\* What the loop's position says leaves no worker orphaned.
LEMMA LoopInvKeepsOrder == LoopInv => NoOrphan
<1> SUFFICES ASSUME LoopInv PROVE NoOrphan
  OBVIOUS
<1>1. None \notin Worker
  BY DEF Worker, None
<1> QED
  BY <1>1 DEF LoopInv, NoOrphan, Stopping

-----------------------------------------------------------------------------
(* Requests: none begins on a worker that drains, and none on another      *)
(* worker than the one it was given.                                       *)

On == {"checked", "proxied", "open"}
Moves(r) ==
    \/ req'[r] = req[r]
    \/ req[r].at = "new" /\ (req'[r].at = "refused" \/ (req'[r].at = "loaded" /\ req'[r].w \in Worker))
    \/ /\ req'[r].w = req[r].w
       /\ \/ req[r].at = "loaded" /\ (req'[r].at = "new" \/ (req'[r].at = "checked" /\ req[r].w \notin draining))
          \/ req[r].at \in {"checked", "proxied"} /\ req'[r].at \in {"new", "proxied", "open", "refused"}
          \/ req[r].at = "open" /\ req'[r].at \in {"done", "restart"}
          \/ req[r].at = "open" /\ req'[r].at = "cut" /\ req[r].w \in late \cup crashed

\* A step that only takes requests further keeps the invariant.
LEMMA RequestsMove ==
    ASSUME SupervisionInv, UNCHANGED <<proc, crashed, draining, active, exits, loop, late>>,
           req' \in [Request -> ReqType], \A r \in Request : Moves(r),
           snap' \in [Worker -> SnapType], busy' \subseteq busy, \A r \in busy' : req'[r].at = "open",
           \A w \in Worker : /\ snap'[w].of \subseteq snap[w].of
                             /\ snap'[w].at = "over" => snap'[w].of = {},
           drained \subseteq drained',
           \A w \in drained' \ drained : w \in draining /\ Held(w)' = {}
    PROVE  SupervisionInv'
<1>1. SupervisionOK'
  BY DEF SupervisionInv, SupervisionOK
<1>9. ReqInv'
  BY DEF SupervisionInv, ReqInv, Moves
<1>2. DrainInv'
  <2>1. ASSUME NEW w \in drained, NEW r \in Request, req'[r].at \in On, req'[r].w = w
        PROVE  FALSE
    <3>1. w \in draining /\ ~(req[r].at \in On /\ req[r].w = w)
      BY <2>1 DEF SupervisionInv, DrainInv, DrainedIsEmpty, Held, On
    <3>2. Moves(r)
      OBVIOUS
    <3> QED
      BY <2>1, <3>1, <3>2 DEF Moves, On
  <2>2. \A w \in drained : Held(w)' = {}
    BY <2>1 DEF Held, On
  <2> QED
    BY <2>2 DEF SupervisionInv, DrainInv, DrainedIsEmpty
<1>3. EndInv'
  BY DEF SupervisionInv, EndInv
<1>4. CutOnlyWhenLate'
  <2> SUFFICES ASSUME NEW r \in Request, req'[r].at = "cut" PROVE req'[r].w \in late \cup crashed
    BY DEF CutOnlyWhenLate
  <2>1. Moves(r) /\ (req[r].at = "cut" => req[r].w \in late \cup crashed)
    BY DEF SupervisionInv, CutOnlyWhenLate
  <2> QED
    BY <2>1 DEF Moves
<1>5. ASSUME NEW w \in Worker, NEW r \in snap'[w].of
      PROVE  /\ req'[r].w = w /\ req'[r].at \in {"open", "done", "restart", "cut"}
             /\ req'[r].at = "open" => req[r].at = "open"
             /\ r \in snap[w].of /\ r \in Socket
  <2>1. r \in snap[w].of /\ req[r].w = w /\ req[r].at \in {"open", "done", "restart", "cut"}
    BY <1>5 DEF SupervisionInv, SnapInv
  <2>2. r \in Socket /\ r \in Request
    BY <1>5, WorkerSupervisionAssumption DEF SnapType
  <2>3. Moves(r)
    BY <2>2
  <2> QED
    BY <2>1, <2>2, <2>3 DEF Moves
<1>6. SnapInv'
  BY <1>5 DEF SnapInv
<1>7. ToldOfRestart'
  BY <1>5 DEF SupervisionInv, ToldOfRestart
<1>8. LoopInv'
  BY DEF SupervisionInv, LoopInv, Live
<1> QED
  BY <1>1, <1>2, <1>3, <1>4, <1>6, <1>7, <1>8, <1>9 DEF SupervisionInv

\* A request leaves its worker.
LEMMA Leaves ==
    ASSUME SupervisionInv, NEW r \in Request, NEW at, LeaveWorker(r, at),
           at \in {"new", "refused", "done", "cut", "restart"}, req[r].at \in On
    PROVE  /\ req' \in [Request -> ReqType] /\ req'[r].at = at /\ req'[r].w = req[r].w
           /\ \A q \in Request \ {r} : req'[q] = req[q]
           /\ draining' = draining /\ busy' = busy \ {r} /\ drained \subseteq drained'
           /\ \A w \in drained' \ drained : w \in draining /\ Held(w)' = {}
<1>1. req \in [Request -> ReqType] /\ req' = [req EXCEPT ![r].at = at]
  BY DEF LeaveWorker, SupervisionInv, SupervisionOK
<1>2. /\ req' \in [Request -> ReqType] /\ req'[r].at = at /\ req'[r].w = req[r].w
      /\ \A q \in Request \ {r} : req'[q] = req[q]
  BY <1>1 DEF ReqType
<1>3. ASSUME Held(req[r].w) \ {r} = {} PROVE Held(req[r].w)' = {}
  <2>1. ASSUME NEW q \in Request, req'[q].at \in On, req'[q].w = req[r].w PROVE FALSE
    BY <1>2, <1>3, <2>1 DEF Held, On
  <2> QED
    BY <2>1, <1>2 DEF Held, On
<1>4. draining' = draining /\ busy' = busy \ {r}
  BY DEF LeaveWorker
<1>5. drained \subseteq drained' /\ \A w \in drained' \ drained : w = req[r].w /\ w \in draining /\ Held(w) \ {r} = {}
  BY DEF LeaveWorker, Release
<1> QED
  BY <1>2, <1>3, <1>4, <1>5

\* Request keeps the invariant.
LEMMA RequestInv ==
    ASSUME SupervisionInv, NEW r \in Request,
           Load(r) \/ Acquire(r) \/ CheckAgain(r) \/ Reach(r) \/ Cut(r) \/ Finish(r)
    PROVE  SupervisionInv'
<1>0. /\ UNCHANGED <<proc, crashed, draining, active, exits, loop, late, snap>>
      /\ req \in [Request -> ReqType] /\ snap \in [Worker -> SnapType] /\ busy \subseteq Request
      /\ \A q \in busy : req[q].at = "open"
      /\ req[r].w \in Worker \cup {None} /\ active \in Worker \cup {None}
  <2>1. UNCHANGED <<proc, crashed, draining, active, exits, loop, late, snap>>
    BY DEF Load, Acquire, CheckAgain, Reach, Cut, Finish, supervisorVars, workerVars, drainVars, LeaveWorker
  <2>2. /\ req \in [Request -> ReqType] /\ snap \in [Worker -> SnapType]
        /\ active \in Worker \cup {None}
    BY DEF SupervisionInv, SupervisionOK
  <2>3. busy \subseteq Request /\ \A q \in busy : req[q].at = "open"
    BY WorkerSupervisionAssumption DEF SupervisionInv, SupervisionOK, ReqInv
  <2> QED
    BY <2>1, <2>2, <2>3 DEF ReqType
<1>1. \A w \in Worker : /\ snap'[w].of \subseteq snap[w].of
                        /\ snap'[w].at = "over" => snap'[w].of = {}
  BY <1>0 DEF SupervisionInv, SnapInv
<1>2. CASE UNCHANGED <<drained, busy>> /\ req' \in [Request -> ReqType] /\ Moves(r) /\ req[r].at # "open"
           /\ \A q \in Request \ {r} : req'[q] = req[q]
  <2>1. \A q \in Request : Moves(q)
    BY <1>2 DEF Moves
  <2> QED
    BY <1>0, <1>1, <1>2, <2>1, RequestsMove
<1>3. ASSUME NEW at \in {"new", "refused", "done", "cut"}, LeaveWorker(r, at), req[r].at \in On,
             at \in {"done", "cut"} <=> req[r].at = "open",
             at = "cut" => req[r].w \in late \cup crashed
      PROVE  SupervisionInv'
  <2>1. /\ req' \in [Request -> ReqType] /\ req'[r].at = at /\ req'[r].w = req[r].w
        /\ \A q \in Request \ {r} : req'[q] = req[q]
        /\ draining' = draining /\ busy' = busy \ {r} /\ drained \subseteq drained'
        /\ \A w \in drained' \ drained : w \in draining /\ Held(w)' = {}
    BY <1>3, Leaves
  <2>2. Moves(r)
    BY <1>3, <2>1 DEF Moves, On
  <2>3. \A q \in Request : Moves(q)
    BY <2>1, <2>2 DEF Moves
  <2> QED
    BY <1>0, <1>1, <2>1, <2>3, RequestsMove
<1>4. CASE Load(r)
  <2> DEFINE new == [at |-> IF active = None THEN "refused" ELSE "loaded", w |-> active]
  <2>1. new \in ReqType /\ (new.at = "refused" \/ (new.at = "loaded" /\ new.w # None /\ new.w = active))
    BY <1>0 DEF ReqType
  <2>2. req' = [req EXCEPT ![r] = new] /\ req[r].at = "new" /\ UNCHANGED <<drained, busy>>
        /\ (active # None => active \in Worker)
    BY <1>0, <1>4 DEF Load, drainVars
  <2> HIDE DEF new
  <2> QED
    BY <1>0, <1>2, <2>1, <2>2 DEF Moves
<1>5. ASSUME NEW at \in {"new", "checked", "proxied", "open"}, req' = [req EXCEPT ![r].at = at],
             UNCHANGED <<drained, busy>>,
             \/ req[r].at = "loaded" /\ at = "new"
             \/ req[r].at = "loaded" /\ at = "checked" /\ req[r].w \notin draining
             \/ req[r].at = "checked" /\ at = "proxied"
             \/ req[r].at = "proxied" /\ at = "open"
      PROVE  SupervisionInv'
  <2>1. /\ req' \in [Request -> ReqType] /\ req'[r].at = at /\ req'[r].w = req[r].w
        /\ \A q \in Request \ {r} : req'[q] = req[q]
    BY <1>0, <1>5 DEF ReqType
  <2>2. Moves(r)
    BY <1>5, <2>1 DEF Moves
  <2> QED
    BY <1>2, <1>5, <2>1, <2>2
<1>6. CASE Acquire(r)
  <2>1. CASE req[r].w \in draining
    BY <1>5, <1>6, <2>1 DEF Acquire, drainVars
  <2>2. CASE req[r].w \notin draining
    BY <1>5, <1>6, <2>2 DEF Acquire, drainVars
  <2> QED
    BY <2>1, <2>2
<1>7. CASE CheckAgain(r)
  BY <1>3, <1>5, <1>7 DEF CheckAgain, drainVars, On
<1>8. CASE Reach(r)
  BY <1>3, <1>5, <1>8 DEF Reach, drainVars, On
<1>9. CASE Cut(r)
  <2>1. /\ req[r].at = "open" /\ proc[req[r].w] = "dead" /\ LeaveWorker(r, "cut")
    BY <1>9 DEF Cut
  <2>2. req[r].w \in Worker /\ req[r].w \notin drained
    <3>1. r \in Held(req[r].w)
      BY <2>1 DEF Held
    <3>2. req[r].w \notin drained
      BY <3>1 DEF SupervisionInv, DrainInv, DrainedIsEmpty
    <3>3. req[r].w \in Worker
      BY <2>1 DEF SupervisionInv, ReqInv
    <3> QED
      BY <3>2, <3>3
  <2>3. req[r].w \in late \cup crashed
    BY <2>1, <2>2 DEF SupervisionInv, EndInv
  <2> QED
    BY <1>3, <2>1, <2>3 DEF On
<1>10. CASE Finish(r)
  BY <1>3, <1>10 DEF Finish, On
<1> QED
  BY <1>4, <1>6, <1>7, <1>8, <1>9, <1>10

\* CloseIdle keeps the invariant.
LEMMA CloseIdleInv ==
    ASSUME SupervisionInv, NEW w \in Worker, NEW r \in Socket, CloseIdle(w, r)
    PROVE  SupervisionInv'
<1>0. /\ UNCHANGED <<proc, crashed, active, exits, loop, late>> /\ r \in snap[w].of
      /\ req \in [Request -> ReqType] /\ snap \in [Worker -> SnapType] /\ busy \subseteq Request
      /\ \A q \in busy : req[q].at = "open"
      /\ r \in Request /\ snap' = [snap EXCEPT ![w].of = @ \ {r}]
  BY WorkerSupervisionAssumption DEF CloseIdle, supervisorVars, SupervisionInv, SupervisionOK, ReqInv
<1>1. /\ snap' \in [Worker -> SnapType]
      /\ \A v \in Worker : snap'[v].of \subseteq snap[v].of /\ snap'[v].at = snap[v].at
  BY <1>0 DEF SnapType
<1>2. \A v \in Worker : snap'[v].at = "over" => snap'[v].of = {}
  BY <1>1 DEF SupervisionInv, SnapInv
<1>3. CASE req[r].at = "open"
  <2>1. LeaveWorker(r, "restart")
    BY <1>3 DEF CloseIdle
  <2>2. /\ req' \in [Request -> ReqType] /\ req'[r].at = "restart" /\ req'[r].w = req[r].w
        /\ \A q \in Request \ {r} : req'[q] = req[q]
        /\ draining' = draining /\ busy' = busy \ {r} /\ drained \subseteq drained'
        /\ \A v \in drained' \ drained : v \in draining /\ Held(v)' = {}
    BY <1>0, <1>3, <2>1, Leaves DEF On
  <2>3. \A q \in Request : Moves(q)
    BY <1>3, <2>2 DEF Moves
  <2> QED
    BY <1>0, <1>1, <1>2, <2>2, <2>3, RequestsMove
<1>4. CASE req[r].at # "open"
  <2>1. UNCHANGED <<draining, drained, req, busy>>
    BY <1>4 DEF CloseIdle, drainVars
  <2>2. \A q \in Request : Moves(q)
    BY <2>1 DEF Moves
  <2> QED
    BY <1>0, <1>1, <1>2, <2>1, <2>2, RequestsMove
<1> QED
  BY <1>3, <1>4

\* WindowOver keeps the invariant.
LEMMA WindowOverInv ==
    ASSUME SupervisionInv, NEW w \in Worker, WindowOver(w)
    PROVE  SupervisionInv'
<1> DEFINE S == snap[w].of
<1>0. /\ UNCHANGED <<proc, crashed, draining, active, exits, loop, late>>
      /\ req \in [Request -> ReqType] /\ snap \in [Worker -> SnapType] /\ busy \subseteq Request
      /\ \A q \in busy : req[q].at = "open"
      /\ snap' = [snap EXCEPT ![w] = [at |-> "over", of |-> {}]]
      /\ req' = [r \in Request |-> IF r \in S THEN [req[r] EXCEPT !.at = "restart"] ELSE req[r]]
      /\ Release(w, Held(w) \ S) /\ busy' = busy \ S
  BY WorkerSupervisionAssumption DEF WindowOver, supervisorVars, SupervisionInv, SupervisionOK, ReqInv
<1>1. /\ snap' \in [Worker -> SnapType]
      /\ \A v \in Worker : /\ snap'[v].of \subseteq snap[v].of
                           /\ snap'[v].at = "over" => snap'[v].of = {}
  <2>1. [at |-> "over", of |-> {}] \in SnapType
    BY DEF SnapType
  <2> QED
    BY <1>0, <2>1 DEF SupervisionInv, SnapInv
<1>2. /\ req' \in [Request -> ReqType]
      /\ \A r \in Request : /\ req'[r].w = req[r].w
                            /\ IF r \in S THEN req'[r].at = "restart" ELSE req'[r] = req[r]
  BY <1>0 DEF ReqType
<1>3. \A r \in S : req[r].at = "open"
  BY <1>0 DEF WindowOver
<1>4. drained \subseteq drained' /\ \A v \in drained' \ drained : v \in draining /\ Held(v)' = {}
  <2>1. Held(w) \ S = {} => Held(w)' = {}
    BY <1>2 DEF Held
  <2> QED
    BY <1>0, <2>1 DEF Release
<1> QED
  BY <1>0, <1>1, <1>2, <1>3, <1>4, RequestsMove DEF Moves

\* A mutation or an action, a sync and Close change nothing else.
LEMMA AsideInv ==
    ASSUME SupervisionInv,
           (\E r \in Request : SyncAnswered(r) \/ Write(r)) \/ CloseSupervisor
    PROVE  SupervisionInv'
<1>0. /\ UNCHANGED <<proc, crashed, draining, drained, active, exits, loop, late, snap, req>>
      /\ busy' \subseteq Socket /\ \A r \in busy' : r \in busy \/ req[r].at = "open"
  BY DEF SyncAnswered, Write, CloseSupervisor, supervisorVars, workerVars, drainVars, SupervisionInv,
     SupervisionOK
<1>1. SupervisionOK' /\ ReqInv'
  BY <1>0 DEF SupervisionInv, SupervisionOK, ReqInv
<1>2. DrainInv' /\ EndInv' /\ SnapInv' /\ CutOnlyWhenLate' /\ ToldOfRestart'
  BY <1>0 DEF SupervisionInv, DrainInv, EndInv, SnapInv, CutOnlyWhenLate, ToldOfRestart, DrainedIsEmpty,
     Held
<1>3. LoopInv'
  BY <1>0 DEF SupervisionInv, LoopInv, Live
<1> QED
  BY <1>1, <1>2, <1>3 DEF SupervisionInv

-----------------------------------------------------------------------------
(* Workers and the run loop.                                               *)

\* A step of the processes and of the loop: no request takes part.
LEMMA ProcessesMove ==
    ASSUME SupervisionInv, UNCHANGED <<req, busy>>, SupervisionOK', LoopInv',
           draining \subseteq draining', drained \subseteq drained', crashed \subseteq crashed',
           late \subseteq late',
           \A w \in drained' \ drained : w \in draining' /\ Held(w) = {},
           \A w \in Worker : proc'[w] \in {"ending", "dead"} =>
              proc[w] \in {"ending", "dead"} \/ w \in drained' \cup late' \cup crashed',
           \A w \in exits' : proc'[w] = "dead",
           \A w \in Worker : /\ snap'[w].of \subseteq snap[w].of
                             /\ snap'[w].at = "over" => snap'[w].of = {},
           \A w \in Worker : proc[w] = "serving" /\ proc'[w] # "serving" =>
              w \in crashed' \/ w \in drained \/ snap'[w].of = {}
    PROVE  SupervisionInv'
<1>1. DrainInv'
  BY DEF SupervisionInv, DrainInv, DrainedIsEmpty, Held
<1>2. EndInv'
  BY DEF SupervisionInv, EndInv
<1>3. SnapInv' /\ ReqInv' /\ CutOnlyWhenLate'
  BY DEF SupervisionInv, SnapInv, ReqInv, CutOnlyWhenLate
<1>4. ToldOfRestart'
  <2> SUFFICES ASSUME NEW w \in Worker, NEW r \in Socket, r \in snap'[w].of, req[r].at = "open"
               PROVE  proc'[w] = "serving" \/ w \in crashed'
    BY DEF ToldOfRestart
  <2>1. r \in snap[w].of /\ req[r].w = w /\ (proc[w] = "serving" \/ w \in crashed)
    BY DEF SupervisionInv, SnapInv, ToldOfRestart
  <2>2. w \notin drained
    BY <2>1, WorkerSupervisionAssumption DEF SupervisionInv, DrainInv, DrainedIsEmpty, Held
  <2> QED
    BY <2>1, <2>2
<1> QED
  BY <1>1, <1>2, <1>3, <1>4 DEF SupervisionInv

\* Crash keeps the invariant.
LEMMA CrashInv ==
    ASSUME SupervisionInv, NEW w \in Worker, Crash(w)
    PROVE  SupervisionInv'
<1>0. /\ UNCHANGED <<req, busy, draining, drained, late, snap, active, loop>>
      /\ crashed' = crashed \cup {w} /\ proc' = [proc EXCEPT ![w] = "dead"] /\ exits' = exits \cup {w}
  BY DEF Crash, Exit, drainVars
<1>1. proc \in [Worker -> {"unused", "starting", "serving", "ending", "dead"}]
  BY DEF SupervisionInv, SupervisionOK
<1>2. proc'[w] = "dead" /\ \A v \in Worker \ {w} : proc'[v] = proc[v]
  BY <1>0, <1>1
<1>3. SupervisionOK'
  BY <1>0, <1>1 DEF SupervisionInv, SupervisionOK
<1>4. LoopInv'
  BY <1>0, <1>2 DEF SupervisionInv, SupervisionOK, LoopInv, Live, Stopping
<1>5. \A v \in exits' : proc'[v] = "dead"
  BY <1>0, <1>2 DEF SupervisionInv, SupervisionOK, EndInv
<1> QED
  BY <1>0, <1>2, <1>3, <1>4, <1>5, ProcessesMove DEF SupervisionInv, SnapInv

\* ShutDown keeps the invariant.
LEMMA ShutDownInv ==
    ASSUME SupervisionInv, NEW w \in Worker, ShutDown(w)
    PROVE  SupervisionInv'
<1>0. /\ UNCHANGED <<req, busy, draining, drained, late, snap, active, loop, crashed>> /\ proc[w] = "ending"
      /\ proc' = [proc EXCEPT ![w] = "dead"] /\ exits' = exits \cup {w}
  BY DEF ShutDown, Exit, drainVars
<1>1. proc \in [Worker -> {"unused", "starting", "serving", "ending", "dead"}]
  BY DEF SupervisionInv, SupervisionOK
<1>2. proc'[w] = "dead" /\ \A v \in Worker \ {w} : proc'[v] = proc[v]
  BY <1>0, <1>1
<1>3. SupervisionOK'
  BY <1>0, <1>1 DEF SupervisionInv, SupervisionOK
<1>4. LoopInv'
  BY <1>0, <1>2 DEF SupervisionInv, SupervisionOK, LoopInv, Live, Stopping
<1>5. \A v \in exits' : proc'[v] = "dead"
  BY <1>0, <1>2 DEF SupervisionInv, SupervisionOK, EndInv
<1> QED
  BY <1>0, <1>2, <1>3, <1>4, <1>5, ProcessesMove DEF SupervisionInv, SnapInv

\* Snapshot keeps the invariant.
LEMMA SnapshotInv ==
    ASSUME SupervisionInv, NEW w \in Worker, TakeSnapshot(w)
    PROVE  SupervisionInv'
<1> DEFINE S == {r \in Socket : req[r].at = "open" /\ req[r].w = w}
<1>0. /\ UNCHANGED <<proc, crashed, draining, drained, active, exits, loop, late, req, busy>>
      /\ proc[w] = "serving" /\ snap' = [snap EXCEPT ![w] = [at |-> "taken", of |-> S]]
      /\ snap \in [Worker -> SnapType]
  BY DEF TakeSnapshot, supervisorVars, drainVars, SupervisionInv, SupervisionOK
<1>1. [at |-> "taken", of |-> S] \in SnapType
  BY DEF SnapType
<1>2. /\ snap' \in [Worker -> SnapType] /\ snap'[w] = [at |-> "taken", of |-> S]
      /\ \A v \in Worker \ {w} : snap'[v] = snap[v]
  BY <1>0, <1>1
<1>3. SupervisionOK'
  BY <1>0, <1>2 DEF SupervisionInv, SupervisionOK
<1>4. DrainInv' /\ EndInv' /\ ReqInv' /\ CutOnlyWhenLate' /\ LoopInv'
  BY <1>0 DEF SupervisionInv, DrainInv, EndInv, ReqInv, CutOnlyWhenLate, LoopInv, Live, DrainedIsEmpty, Held
<1>5. SnapInv'
  BY <1>0, <1>2 DEF SupervisionInv, SnapInv
<1>6. ToldOfRestart'
  BY <1>0, <1>2 DEF SupervisionInv, ToldOfRestart
<1> QED
  BY <1>3, <1>4, <1>5, <1>6 DEF SupervisionInv

\* The loop goes on and no process changes.
LEMMA LoopMoves ==
    ASSUME SupervisionInv, UNCHANGED <<proc, crashed, late, snap, req, busy>>,
           loop' \in LoopType, active' \in Worker \cup {None}, exits' \subseteq exits, LoopInv',
           draining \subseteq draining', draining' \subseteq Worker, drained \subseteq drained',
           \A w \in drained' \ drained : w \in draining' /\ Held(w) = {}
    PROVE  SupervisionInv'
<1>1. SupervisionOK'
  BY DEF SupervisionInv, SupervisionOK
<1>2. \A w \in exits' : proc'[w] = "dead"
  BY DEF SupervisionInv, EndInv
<1>3. \A w \in Worker : /\ snap'[w].of \subseteq snap[w].of
                        /\ snap'[w].at = "over" => snap'[w].of = {}
  BY DEF SupervisionInv, SnapInv
<1> QED
  BY <1>1, <1>2, <1>3, ProcessesMove

\* stopWorker, from its first step.
LEMMA StopBegins ==
    ASSUME SupervisionInv, NEW w \in Worker \cup {None}, NEW then \in {"select", "retry", "closed"},
           Stop(w, then)
    PROVE  /\ loop' \in LoopType /\ draining \subseteq draining' /\ draining' \subseteq Worker
           /\ drained \subseteq drained'
           /\ \A v \in drained' \ drained : v \in draining' /\ Held(v) = {}
           /\ IF w = None THEN loop'.at = then
              ELSE loop'.at = "grace" /\ loop'.stop = w /\ loop'.then = then
<1>1. loop \in LoopType /\ draining \subseteq Worker
  BY DEF SupervisionInv, SupervisionOK
<1>2. CASE w = None
  <2>1. loop' = [loop EXCEPT !.at = then] /\ UNCHANGED <<draining, drained>>
    BY <1>2 DEF Stop, Go, drainVars
  <2> QED
    BY <1>1, <1>2, <2>1 DEF LoopType
<1>3. CASE w # None
  <2>1. /\ loop' = [at |-> "grace", stop |-> w, old |-> loop.old, then |-> then]
        /\ draining' = draining \cup {w}
        /\ drained' = IF Held(w) = {} THEN drained \cup {w} ELSE drained
    BY <1>3 DEF Stop
  <2>2. loop' \in LoopType
    BY <1>1, <2>1 DEF LoopType
  <2> QED
    BY <1>1, <1>3, <2>1, <2>2
<1> QED
  BY <1>2, <1>3

\* Select keeps the invariant.
LEMMA SelectInv ==
    ASSUME SupervisionInv, SelectRecycle \/ SelectExit \/ SelectClose \/ TryAgain
    PROVE  SupervisionInv'
<1>0. /\ UNCHANGED <<proc, crashed, late, snap, req, busy>> /\ exits' \subseteq exits
      /\ active \in Worker \cup {None} /\ loop \in LoopType /\ loop.at \in {"select", "retry"}
      /\ draining \subseteq Worker
  BY DEF SelectRecycle, SelectExit, SelectClose, TryAgain, workerVars, SupervisionInv, SupervisionOK
<1>1. LoopInv /\ \A w \in Worker : Live(w) => w = active
  BY <1>0 DEF SupervisionInv, LoopInv, Stopping
<1>2. ASSUME NEW old \in Worker \cup {None}, Begin(old), active' = old, UNCHANGED <<draining, drained>>,
             old = active \/ (old = None /\ \A w \in Worker : ~Live(w))
      PROVE  SupervisionInv'
  <2>1. loop' \in LoopType /\ loop'.at = "replace" /\ loop'.old = old
    BY <1>2 DEF Begin, LoopType, None
  <2>2. LoopInv'
    BY <1>0, <1>1, <1>2, <2>1 DEF LoopInv, Live, Stopping
  <2> QED
    BY <1>0, <1>2, <2>1, <2>2, LoopMoves
<1>3. CASE SelectRecycle \/ TryAgain
  BY <1>0, <1>2, <1>3 DEF SelectRecycle, TryAgain, drainVars
<1>4. CASE SelectExit
  <2>1. PICK w \in exits : IF active = w THEN active' = None /\ Begin(None) ELSE UNCHANGED <<active, loop>>
    BY <1>4 DEF SelectExit
  <2>2. UNCHANGED <<draining, drained>> /\ proc[w] = "dead"
    BY <1>4 DEF SelectExit, drainVars, SupervisionInv, EndInv
  <2>3. CASE active = w
    <3>1. \A v \in Worker : ~Live(v)
      BY <1>1, <2>2, <2>3 DEF Live
    <3> QED
      BY <1>2, <2>1, <2>2, <2>3, <3>1
  <2>4. CASE active # w
    <3>1. LoopInv'
      BY <1>0, <1>1, <2>1, <2>4 DEF LoopInv, Live
    <3> QED
      BY <1>0, <2>1, <2>2, <2>4, <3>1, LoopMoves
  <2> QED
    BY <2>3, <2>4
<1>5. CASE SelectClose
  <2>1. Stop(active, "closed") /\ active' = None
    BY <1>5 DEF SelectClose
  <2>2. /\ loop' \in LoopType /\ draining \subseteq draining' /\ draining' \subseteq Worker
        /\ drained \subseteq drained'
        /\ \A v \in drained' \ drained : v \in draining' /\ Held(v) = {}
        /\ IF active = None THEN loop'.at = "closed"
           ELSE loop'.at = "grace" /\ loop'.stop = active /\ loop'.then = "closed"
    BY <1>0, <2>1, StopBegins
  <2>3. LoopInv'
    <3>1. None \notin Worker
      BY DEF Worker, None
    <3> QED
      BY <1>0, <1>1, <2>1, <2>2, <3>1 DEF LoopInv, Live, Stopping
  <2> QED
    BY <1>0, <2>1, <2>2, <2>3, LoopMoves
<1> QED
  BY <1>3, <1>4, <1>5

\* Start keeps the invariant.
LEMMA StartInv ==
    ASSUME SupervisionInv, StartWorker
    PROVE  SupervisionInv'
<1>0. /\ UNCHANGED <<crashed, late, snap, req, busy, draining, drained, active, exits>>
      /\ active \in Worker \cup {None} /\ loop \in LoopType /\ loop.at = "replace"
      /\ draining \subseteq Worker
      /\ proc \in [Worker -> {"unused", "starting", "serving", "ending", "dead"}]
  BY DEF StartWorker, drainVars, SupervisionInv, SupervisionOK
<1>1. LoopInv /\ loop.old = active /\ \A w \in Worker : Live(w) => w = active
  BY <1>0 DEF SupervisionInv, LoopInv, Stopping
<1>2. CASE closing
  <2>1. loop' = [loop EXCEPT !.at = "select"] /\ proc' = proc
    BY <1>2 DEF StartWorker, Go
  <2>2. loop' \in LoopType /\ loop'.at = "select"
    BY <1>0, <2>1 DEF LoopType
  <2>3. LoopInv'
    BY <1>0, <1>1, <2>1, <2>2 DEF LoopInv, Live, Stopping
  <2> QED
    BY <1>0, <2>1, <2>2, <2>3, LoopMoves
<1>3. CASE ~closing
  <2>1. PICK w \in Worker :
           /\ proc[w] = "unused" /\ proc' = [proc EXCEPT ![w] = "starting"]
           /\ loop' = [at |-> "waiting", stop |-> w, old |-> loop.old, then |-> loop.then]
    BY <1>3 DEF StartWorker
  <2>2. /\ proc'[w] = "starting" /\ \A v \in Worker \ {w} : proc'[v] = proc[v]
        /\ proc' \in [Worker -> {"unused", "starting", "serving", "ending", "dead"}]
    BY <1>0, <2>1
  <2>3. loop' \in LoopType /\ loop'.at = "waiting" /\ loop'.stop = w /\ loop'.old = active
    BY <1>0, <1>1, <2>1 DEF LoopType
  <2>4. w # active
    BY <1>1, <2>1 DEF LoopInv, None, Worker
  <2>5. SupervisionOK'
    BY <1>0, <2>2, <2>3 DEF SupervisionInv, SupervisionOK
  <2>6. LoopInv'
    BY <1>0, <1>1, <2>2, <2>3, <2>4 DEF LoopInv, Live, Stopping
  <2>7. \A v \in exits' : proc'[v] = "dead"
    BY <1>0, <2>1, <2>2 DEF SupervisionInv, SupervisionOK, EndInv
  <2> QED
    BY <1>0, <2>1, <2>2, <2>5, <2>6, <2>7, ProcessesMove DEF SupervisionInv, SnapInv
<1> QED
  BY <1>2, <1>3

\* Ready keeps the invariant.
LEMMA ReadyInv ==
    ASSUME SupervisionInv, BecomesReady
    PROVE  SupervisionInv'
<1> DEFINE w == loop.stop
           old == loop.old
<1>0. /\ UNCHANGED <<crashed, late, snap, req, busy, exits>> /\ loop \in LoopType
      /\ loop.at = "waiting" /\ proc[w] = "starting" /\ proc' = [proc EXCEPT ![w] = "serving"]
      /\ active' = w /\ Stop(old, "select") /\ active \in Worker \cup {None}
      /\ proc \in [Worker -> {"unused", "starting", "serving", "ending", "dead"}]
  BY DEF BecomesReady, SupervisionInv, SupervisionOK
<1>1. /\ w \in Worker /\ w # active /\ old = active
      /\ \A v \in Worker : Live(v) => v = active \/ v = w
  BY <1>0 DEF SupervisionInv, LoopInv, Stopping
<1>2. /\ proc'[w] = "serving" /\ \A v \in Worker \ {w} : proc'[v] = proc[v]
      /\ proc' \in [Worker -> {"unused", "starting", "serving", "ending", "dead"}]
  BY <1>0, <1>1
<1>3. /\ loop' \in LoopType /\ draining \subseteq draining' /\ draining' \subseteq Worker
      /\ drained \subseteq drained'
      /\ \A v \in drained' \ drained : v \in draining' /\ Held(v) = {}
      /\ IF active = None THEN loop'.at = "select"
         ELSE loop'.at = "grace" /\ loop'.stop = active /\ loop'.then = "select"
  BY <1>0, <1>1, StopBegins
<1> HIDE DEF w, old
<1>4. SupervisionOK'
  BY <1>0, <1>1, <1>2, <1>3 DEF SupervisionInv, SupervisionOK
<1>5. LoopInv'
  <2>1. None \notin Worker
    BY DEF Worker, None
  <2>2. \A v \in Worker : Live(v)' => v = active \/ v = w
    BY <1>1, <1>2 DEF Live
  <2>3. CASE active = None
    BY <1>0, <1>1, <1>2, <1>3, <2>1, <2>2, <2>3 DEF LoopInv, Stopping
  <2>4. CASE active # None
    BY <1>0, <1>1, <1>2, <1>3, <2>1, <2>2, <2>4 DEF LoopInv, Stopping
  <2> QED
    BY <2>3, <2>4
<1>6. \A v \in exits' : proc'[v] = "dead"
  BY <1>0, <1>2 DEF SupervisionInv, SupervisionOK, EndInv
<1> QED
  BY <1>0, <1>1, <1>2, <1>3, <1>4, <1>5, <1>6, ProcessesMove DEF SupervisionInv, SnapInv

\* Fails keeps the invariant.
LEMMA FailsInv ==
    ASSUME SupervisionInv, FailsReadiness
    PROVE  SupervisionInv'
<1> DEFINE w == loop.stop
<1>0. /\ UNCHANGED <<proc, late, snap, req, busy, exits, active>> /\ loop \in LoopType
      /\ loop.at = "waiting" /\ crashed \subseteq crashed' /\ Stop(w, "retry")
      /\ active \in Worker \cup {None}
  BY DEF FailsReadiness, SupervisionInv, SupervisionOK
<1>1. /\ w \in Worker /\ w # active /\ w # None
      /\ \A v \in Worker : Live(v) => v = active \/ v = w
  BY <1>0 DEF SupervisionInv, LoopInv, Stopping, Worker, None
<1>2. /\ loop' \in LoopType /\ draining \subseteq draining' /\ draining' \subseteq Worker
      /\ drained \subseteq drained'
      /\ \A v \in drained' \ drained : v \in draining' /\ Held(v) = {}
      /\ loop'.at = "grace" /\ loop'.stop = w /\ loop'.then = "retry"
  BY <1>0, <1>1, StopBegins
<1> HIDE DEF w
<1>3. SupervisionOK'
  BY <1>0, <1>2 DEF SupervisionInv, SupervisionOK
<1>4. LoopInv'
  BY <1>0, <1>1, <1>2 DEF SupervisionInv, LoopInv, Live, Stopping
<1> QED
  BY <1>0, <1>2, <1>3, <1>4, ProcessesMove DEF SupervisionInv, SnapInv, EndInv

\* The three stages of stopWorker.
LEMMA StageInv ==
    ASSUME SupervisionInv, Terminate \/ Interrupt \/ Stopped
    PROVE  SupervisionInv'
<1> DEFINE w == loop.stop
<1>0. /\ UNCHANGED <<crashed, req, busy, draining, drained, active>> /\ loop \in LoopType
      /\ loop.at \in Stopping /\ active \in Worker \cup {None} /\ snap \in [Worker -> SnapType]
      /\ proc \in [Worker -> {"unused", "starting", "serving", "ending", "dead"}]
  BY DEF Terminate, Interrupt, Stopped, Stopping, drainVars, SupervisionInv, SupervisionOK
<1>1. /\ w \in Worker /\ w # active /\ LoopInv
      /\ \A v \in Worker : Live(v) => v = active \/ v = w
  BY <1>0 DEF SupervisionInv, LoopInv, Stopping
<1>2. CASE Terminate
  <2>1. /\ UNCHANGED <<proc, late, exits>> /\ loop' = [loop EXCEPT !.at = "term"] /\ loop.at = "grace"
        /\ snap' = IF proc[w] = "serving" THEN [snap EXCEPT ![w].at = "due"] ELSE snap
    BY <1>2 DEF Terminate, Go
  <2>2. loop' \in LoopType /\ loop'.at = "term" /\ loop'.stop = w /\ loop'.then = loop.then
    BY <1>0, <2>1 DEF LoopType
  <2>3. /\ snap' \in [Worker -> SnapType]
        /\ \A v \in Worker : snap'[v].of = snap[v].of /\ (snap'[v].at = "over" => snap[v].at = "over")
    BY <1>0, <2>1 DEF SnapType
  <2> HIDE DEF w
  <2>4. SupervisionOK'
    BY <1>0, <2>1, <2>2, <2>3 DEF SupervisionInv, SupervisionOK
  <2>5. LoopInv'
    BY <1>0, <1>1, <2>1, <2>2 DEF LoopInv, Live, Stopping
  <2> QED
    BY <1>0, <2>1, <2>3, <2>4, <2>5, ProcessesMove DEF SupervisionInv, SnapInv, EndInv
<1>3. CASE Interrupt
  <2>1. /\ UNCHANGED <<snap, exits>> /\ loop' = [loop EXCEPT !.at = "int"] /\ loop.at = "term"
        /\ proc' = IF Live(w) THEN [proc EXCEPT ![w] = "ending"] ELSE proc
        /\ late \subseteq late' /\ w \in drained \cup late'
        /\ w \in drained \/ snap[w].at = "over" \/ proc[w] # "serving"
    BY <1>3 DEF Interrupt, Go
  <2>2. loop' \in LoopType /\ loop'.at = "int" /\ loop'.stop = w /\ loop'.then = loop.then
    BY <1>0, <2>1 DEF LoopType
  <2>3. /\ proc' \in [Worker -> {"unused", "starting", "serving", "ending", "dead"}]
        /\ proc'[w] \notin {"starting", "serving"} /\ (proc[w] = "dead" => proc'[w] = "dead")
        /\ \A v \in Worker \ {w} : proc'[v] = proc[v]
        /\ proc'[w] \in {"ending", "dead", proc[w]}
    BY <1>0, <1>1, <2>1 DEF Live
  <2> HIDE DEF w
  <2>4. SupervisionOK'
    BY <1>0, <2>1, <2>2, <2>3 DEF SupervisionInv, SupervisionOK
  <2>5. LoopInv'
    <3>1. \A v \in Worker : Live(v)' => v = active \/ v = w
      BY <1>1, <2>3 DEF Live
    <3> QED
      BY <1>0, <1>1, <2>1, <2>2, <2>3, <3>1 DEF LoopInv, Stopping
  <2>6. \A v \in exits' : proc'[v] = "dead"
    BY <2>1, <2>3 DEF SupervisionInv, SupervisionOK, EndInv
  <2>7. \A v \in Worker : proc'[v] \in {"ending", "dead"} =>
           proc[v] \in {"ending", "dead"} \/ v \in drained' \cup late' \cup crashed'
    BY <1>0, <1>1, <2>1, <2>3
  <2>8. \A v \in Worker : proc[v] = "serving" /\ proc'[v] # "serving" => v \in drained \/ snap'[v].of = {}
    BY <1>1, <2>1, <2>3 DEF SupervisionInv, SnapInv
  <2> QED
    BY <1>0, <2>1, <2>4, <2>5, <2>6, <2>7, <2>8, ProcessesMove DEF SupervisionInv, SnapInv
<1>4. CASE Stopped
  <2>1. /\ snap' = snap /\ loop' = [loop EXCEPT !.at = loop.then] /\ loop.at = "int"
        /\ \/ proc[w] = "dead" /\ UNCHANGED <<proc, exits, late>>
           \/ /\ Live(w) /\ late' = late \cup {w}
              /\ proc' = [proc EXCEPT ![w] = "dead"] /\ exits' = exits \cup {w}
    BY <1>4 DEF Stopped, Go, Exit
  <2>2. loop' \in LoopType /\ loop'.at = loop.then /\ loop'.at \in {"select", "retry", "closed"}
    BY <1>0, <2>1 DEF LoopType
  <2>3. /\ proc' \in [Worker -> {"unused", "starting", "serving", "ending", "dead"}]
        /\ proc'[w] = "dead" /\ \A v \in Worker \ {w} : proc'[v] = proc[v]
        /\ exits' \subseteq exits \cup {w} /\ late \subseteq late'
        /\ proc[w] \in {"ending", "dead"}
    BY <1>0, <1>1, <2>1 DEF Live, LoopInv
  <2> HIDE DEF w
  <2>4. SupervisionOK'
    BY <1>0, <1>1, <2>1, <2>2, <2>3 DEF SupervisionInv, SupervisionOK
  <2>5. LoopInv'
    <3>1. \A v \in Worker : Live(v)' => v = active
      BY <1>1, <2>3 DEF Live
    <3>2. loop.then = "closed" => active = None
      BY <1>0, <1>1 DEF LoopInv
    <3> QED
      BY <1>0, <1>1, <2>2, <2>3, <3>1, <3>2 DEF LoopInv, Stopping
  <2>6. \A v \in exits' : proc'[v] = "dead"
    BY <1>1, <2>3 DEF SupervisionInv, SupervisionOK, EndInv
  <2>7. \A v \in Worker : proc'[v] \in {"ending", "dead"} => proc[v] \in {"ending", "dead"}
    BY <2>3
  <2>8. \A v \in Worker : proc[v] = "serving" => proc'[v] = "serving"
    BY <2>3
  <2> QED
    BY <1>0, <2>1, <2>3, <2>4, <2>5, <2>6, <2>7, <2>8, ProcessesMove DEF SupervisionInv, SnapInv
<1> QED
  BY <1>2, <1>3, <1>4

\* Every step keeps the supervisor's invariant.
LEMMA SupervisionStep == SupervisionInv /\ [SupervisionNext]_supervisionVars => SupervisionInv'
<1> SUFFICES ASSUME SupervisionInv, [SupervisionNext]_supervisionVars PROVE SupervisionInv'
  OBVIOUS
<1>1. ASSUME NEW r \in Request, RequestStep(r) \/ Finish(r) PROVE SupervisionInv'
  BY <1>1, RequestInv DEF RequestStep
<1>2. CASE (\E r \in Request : SyncAnswered(r) \/ Write(r)) \/ CloseSupervisor
  BY <1>2, AsideInv
<1>3. ASSUME NEW w \in Worker, WorkerStep(w) \/ Crash(w) PROVE SupervisionInv'
  BY <1>3, SnapshotInv, CloseIdleInv, WindowOverInv, ShutDownInv, CrashInv DEF WorkerStep
<1>4. CASE LoopStep
  BY <1>4, SelectInv, StartInv, ReadyInv, FailsInv, StageInv DEF LoopStep
<1>5. CASE UNCHANGED supervisionVars
  BY <1>5 DEF supervisionVars, SupervisionInv, SupervisionOK, DrainInv, EndInv, SnapInv, ReqInv, LoopInv,
     CutOnlyWhenLate, ToldOfRestart, DrainedIsEmpty, Held, Live
<1> QED
  BY <1>1, <1>2, <1>3, <1>4, <1>5 DEF SupervisionNext, SupervisionProgress

\* Only the exit of a worker that died by itself, and Close, take the active
\* worker away.
LEMMA GapStep ==
    SupervisionInv /\ [SupervisionNext]_supervisionVars
        => [active # None /\ active' = None => active \in crashed \/ closing]_supervisionVars
<1> SUFFICES ASSUME SupervisionInv, SupervisionNext, active # None, active' = None
             PROVE  active \in crashed \/ closing
  BY DEF supervisionVars
<1>1. CASE SelectClose
  BY <1>1 DEF SelectClose
<1>2. CASE SelectExit
  <2>1. active \in exits
    BY <1>2 DEF SelectExit
  <2> QED
    BY <2>1 DEF SupervisionInv, EndInv, LoopInv
<1>3. CASE BecomesReady
  <2>1. loop.stop \in Worker /\ active' = loop.stop
    BY <1>3 DEF BecomesReady, SupervisionInv, LoopInv, Stopping
  <2> QED
    BY <2>1 DEF Worker, None
<1>4. CASE ~(SelectClose \/ SelectExit \/ BecomesReady)
  <2>1. active' = active
    <3>1. ASSUME NEW r \in Request, RequestStep(r) \/ Finish(r) \/ SyncAnswered(r) \/ Write(r)
          PROVE  active' = active
      BY <3>1 DEF RequestStep, Load, Acquire, CheckAgain, Reach, Cut, Finish, SyncAnswered, Write,
         supervisorVars
    <3>2. ASSUME NEW w \in Worker, WorkerStep(w) \/ Crash(w) PROVE active' = active
      BY <3>2 DEF WorkerStep, TakeSnapshot, CloseIdle, WindowOver, ShutDown, Crash, supervisorVars
    <3>3. CASE LoopStep \/ CloseSupervisor
      BY <1>4, <3>3 DEF LoopStep, SelectRecycle, StartWorker, FailsReadiness, TryAgain, Terminate,
         Interrupt, Stopped, CloseSupervisor
    <3> QED
      BY <3>1, <3>2, <3>3 DEF SupervisionNext, SupervisionProgress
  <2> QED
    BY <2>1
<1> QED
  BY <1>1, <1>2, <1>3, <1>4

\* However workers die, requests come and the supervisor is closed: no request
\* slips onto a drained worker, none is cut off before its time, sockets are
\* told, no process is left behind, and a planned replacement leaves no gap
\* (supervisor.go, ws_drain.go).
THEOREM WorkersStopInOrder == SupervisionSpec => StopsInOrder
<1>1. SupervisionInv => DrainedIsEmpty /\ CutOnlyWhenLate /\ ToldOfRestart /\ NoOrphan
  BY LoopInvKeepsOrder DEF SupervisionInv, DrainInv
<1> QED
  BY <1>1, SupervisionInitial, SupervisionStep, GapStep, PTL DEF SupervisionSpec, StopsInOrder, NoGap

=============================================================================
