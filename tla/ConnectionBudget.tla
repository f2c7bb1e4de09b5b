---------------------------- MODULE ConnectionBudget ----------------------------
(***************************************************************************)
(* The connection budget that all PostgreSQL pools of a runtime share      *)
(* (dbpool/open.go).  A pool reuses its idle connection; otherwise it      *)
(* connects, which first takes a slot of the budget.  A connection that is *)
(* given back stays idle for a second and keeps its slot.                  *)
(***************************************************************************)
EXTENDS Integers, Sequences, FiniteSets

CONSTANTS Limit,   \* connectionBudget.limit
          Caller,
          Pool,
          Needs    \* the pools of which a call holds a connection at once, in order

ASSUME ConnectionBudgetAssumption ==
    Limit \in Nat \ {0} /\ Needs \in [Caller -> Seq(Pool) \ {<<>>}]

VARIABLES
    slots,     \* connectionBudget.active
    waiters,   \* connectionBudget.waiters
    idle,      \* the pools with an idle connection
    call       \* of a caller: [at, has: connections it holds]

budgetVars == <<slots, waiters, idle, call>>

\* at: "ready" to ask for the next connection, "acquire" in the loop of acquire,
\* "select" on the changed channel, "woken" when that channel is closed, "again"
\* in the loop after that, "dial" with a slot, "using" all it needs, "end".
Wants(c) == Needs[c][call[c].has + 1]
Move(c, at) == call' = [call EXCEPT ![c].at = at]
Gets(c) == call' = [call EXCEPT ![c] =
    [at |-> IF @.has + 1 = Len(Needs[c]) THEN "using" ELSE "ready", has |-> @.has + 1]]
\* release: the channel of everyone who waits is closed.
WakeUps == [c \in Caller |-> IF call[c].at = "select" THEN [call[c] EXCEPT !.at = "woken"] ELSE call[c]]

Reuse(c) ==
    /\ call[c].at = "ready" /\ Wants(c) \in idle
    /\ idle' = idle \ {Wants(c)} /\ Gets(c)
    /\ UNCHANGED <<slots, waiters>>
Connect(c) ==
    /\ call[c].at = "ready" /\ Wants(c) \notin idle /\ Move(c, "acquire")
    /\ UNCHANGED <<slots, waiters, idle>>

\* acquire under its lock: a slot is free, or the caller waits for a release.
Take(c) ==
    /\ call[c].at \in {"acquire", "again"} /\ slots < Limit /\ Move(c, "dial")
    /\ slots' = slots + 1
    /\ waiters' = IF call[c].at = "again" THEN waiters - 1 ELSE waiters
    /\ UNCHANGED idle
Await(c) ==
    /\ call[c].at \in {"acquire", "again"} /\ slots >= Limit /\ Move(c, "select")
    /\ waiters' = IF call[c].at = "again" THEN waiters ELSE waiters + 1
    /\ UNCHANGED <<slots, idle>>
Wake(c) ==
    /\ call[c].at = "woken" /\ Move(c, "again")
    /\ UNCHANGED <<slots, waiters, idle>>

\* A call ends: what it holds is closed, or becomes the idle connection.
Ends(c, closed, stays, cs) ==
    /\ slots' = slots - closed
    /\ idle' = idle \cup stays
    /\ call' = [cs EXCEPT ![c] = [at |-> "end", has |-> 0]]
PoolsOf(c) == {Needs[c][i] : i \in 1..call[c].has}
GiveBack(c, also) ==
    LET stays == PoolsOf(c) \ idle
        closed == call[c].has - Cardinality(stays) + also
    IN Ends(c, closed, stays, IF closed > 0 THEN WakeUps ELSE call)

\* The context of a caller that waits is done.
Cancel(c) ==
    /\ call[c].at \in {"select", "woken"}
    /\ GiveBack(c, 0) /\ waiters' = waiters - 1

\* PostgreSQL accepts the connection, or the slot is given back.
Dialled(c) ==
    /\ call[c].at = "dial" /\ Gets(c) /\ UNCHANGED <<slots, waiters, idle>>
DialFails(c) ==
    /\ call[c].at = "dial" /\ GiveBack(c, 1) /\ UNCHANGED waiters

\* The call gives its connections back.
Done(c) == call[c].at = "using" /\ GiveBack(c, 0) /\ UNCHANGED waiters

IdleExpiresQuietly(p) ==
    /\ p \in idle /\ idle' = idle \ {p} /\ slots' = slots - 1
    /\ UNCHANGED <<call, waiters>>
\* ConnMaxIdleTime: limitedConn.Close releases its slot once.
IdleExpires(p) ==
    /\ p \in idle /\ idle' = idle \ {p} /\ slots' = slots - 1
    /\ call' = WakeUps /\ UNCHANGED waiters

NotAsked == [at |-> "ready", has |-> 0]

BudgetInit ==
    /\ slots = 0 /\ waiters = 0 /\ idle = {}
    /\ call = [c \in Caller |-> NotAsked]

CallStep(c) == Reuse(c) \/ Connect(c) \/ Take(c) \/ Await(c) \/ Wake(c) \/ Dialled(c) \/ Done(c)
BudgetProgress == (\E c \in Caller : CallStep(c)) \/ \E p \in Pool : IdleExpires(p)
BudgetNext == BudgetProgress \/ \E c \in Caller : Cancel(c) \/ DialFails(c)

BudgetSpec == BudgetInit /\ [][BudgetNext]_budgetVars

-----------------------------------------------------------------------------
Waiting == {c \in Caller : call[c].at = "select"}
\* The connections of calls, the one that is being dialled included.
Count(c) == call[c].has + (IF call[c].at = "dial" THEN 1 ELSE 0)
Connections == UNION {{<<c, i>> : i \in 1 .. Count(c)} : c \in Caller}
Open == Cardinality(idle) + Cardinality(Connections)

\* Every physical connection, used, idle or being dialled, has one slot, however
\* it ends, and there are never more than the limit (limitedConn).
BudgetExact == slots = Open /\ slots <= Limit

\* Nobody sleeps on a channel that no one will close while a slot is free: the
\* release between the check and the select is not lost (acquire, release).
NoLostWakeup == Waiting # {} => slots = Limit

\* The pressure that is reported counts the callers that wait (finishWaitLocked).
WaitersExact == waiters = Cardinality({c \in Caller : call[c].at \in {"select", "woken", "again"}})

\* With fewer nested calls than slots every call ends, no deadline needed:
\* idle connections of other pools give way within their second.
CallsEnd == \A c \in Caller : []<>(call[c] = NotAsked \/ call[c].at = "end")

\* The budget is exact, and no release goes unnoticed by who waits for it.
BudgetSound == BudgetExact /\ NoLostWakeup /\ WaitersExact
================================================================================
