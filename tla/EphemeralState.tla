---------------------------- MODULE EphemeralState ----------------------------
(***************************************************************************)
(* The ephemeral keys of one scope (ephemeral.go): a value per key that    *)
(* Valkey expires, and one sorted set that indexes the keys by the expiry  *)
(* the writer computed.  A write or a deletion is one transaction; a read  *)
(* that finds nothing and a listing clean the index up in later commands,  *)
(* while other callers go on.  The runtime's clock and Valkey's agree.     *)
(***************************************************************************)
EXTENDS Integers, FiniteSets

CONSTANTS EphKey, EphCaller, Ttl, MaxTicks

ASSUME EphemeralStateAssumption == Ttl \subseteq Nat \ {0}

Gone == -1

VARIABLES
    ticks,
    expires,   \* of a key: when Valkey drops its value, or Gone
    score,     \* the sorted set: the key's expiry as the writer computed it, or Gone
    promised,  \* of a key: the expiry that its last writer computed, or Gone
    caller,    \* of a caller: [at, key, due, ttl, members, must]
    unlisted,  \* keys that a clean-up took out of the index although their value lives
    missing    \* keys that a finished listing should have shown

ephemeralVars == <<ticks, expires, score, promised, caller, unlisted, missing>>

Resting == [at |-> "idle", key |-> CHOOSE k \in EphKey : TRUE, due |-> 0, ttl |-> 0, members |-> {}, must |-> {}]
Lives(k) == expires[k] > ticks

\* Keys that every listing since this step began must show: their value and their
\* computed expiry are still ahead, and the index has not lost them.
Lasting(S) == {k \in S : expires'[k] > ticks' /\ promised'[k] > ticks' /\ k \notin unlisted'}
GoesTo(c, r) ==
    caller' = [d \in EphCaller |->
                 LET e == IF d = c THEN r ELSE caller[d] IN [e EXCEPT !.must = Lasting(@)]]

-----------------------------------------------------------------------------
(* Set: the expiry is computed before the transaction is sent. *)

BeginSet(c, k, t) ==
    /\ caller[c].at = "idle"
    /\ UNCHANGED <<ticks, expires, score, promised, unlisted, missing>>
    /\ GoesTo(c, [Resting EXCEPT !.at = "set", !.key = k, !.due = ticks + t, !.ttl = t])
CommitSet(c) ==
    LET k == caller[c].key IN
    /\ caller[c].at = "set"
    /\ expires' = [expires EXCEPT ![k] = ticks + caller[c].ttl]
    /\ score' = [score EXCEPT ![k] = caller[c].due]
    /\ promised' = [promised EXCEPT ![k] = caller[c].due] /\ unlisted' = unlisted \ {k}
    /\ UNCHANGED <<ticks, missing>> /\ GoesTo(c, Resting)

DeleteKey(c, k) ==
    /\ caller[c].at = "idle"
    /\ expires' = [expires EXCEPT ![k] = Gone] /\ score' = [score EXCEPT ![k] = Gone]
    /\ promised' = [promised EXCEPT ![k] = Gone] /\ unlisted' = unlisted \ {k}
    /\ UNCHANGED <<ticks, missing>> /\ GoesTo(c, Resting)

\* ZREM of keys that an earlier command found without a value.
Unindex(S) ==
    /\ score' = [k \in EphKey |-> IF k \in S THEN Gone ELSE score[k]]
    /\ unlisted' = unlisted \cup {k \in S : Lives(k) /\ score[k] # Gone}

\* Get: without a value the key leaves the index in a second command.
GetKey(c, k) ==
    /\ caller[c].at = "idle"
    /\ UNCHANGED <<ticks, expires, score, promised, unlisted, missing>>
    /\ GoesTo(c, IF Lives(k) THEN Resting ELSE [Resting EXCEPT !.at = "tidy", !.members = {k}])
Tidy(c) ==
    /\ caller[c].at = "tidy" /\ Unindex(caller[c].members)
    /\ UNCHANGED <<ticks, expires, promised, missing>> /\ GoesTo(c, Resting)

-----------------------------------------------------------------------------
(* List: prune, range, MGET, and ZREM of what had no value. *)

ListPrune(c) ==
    /\ caller[c].at = "idle"
    /\ score' = [k \in EphKey |-> IF score[k] <= ticks - 1 THEN Gone ELSE score[k]]
    /\ UNCHANGED <<ticks, expires, promised, unlisted, missing>>
    /\ GoesTo(c, [Resting EXCEPT !.at = "range", !.due = ticks,
                                 !.must = {k \in EphKey : Lives(k) /\ promised[k] > ticks}])
ListRange(c) ==
    LET found == {k \in EphKey : score[k] # Gone /\ score[k] >= caller[c].due} IN
    /\ caller[c].at = "range"
    /\ missing' = missing \cup (IF found = {} THEN caller[c].must ELSE {})
    /\ UNCHANGED <<ticks, expires, score, promised, unlisted>>
    /\ GoesTo(c, IF found = {} THEN Resting ELSE [caller[c] EXCEPT !.at = "mget", !.members = found])
ListRead(c) ==
    LET shown == {k \in caller[c].members : Lives(k)}
        stale == caller[c].members \ shown IN
    /\ caller[c].at = "mget"
    /\ missing' = missing \cup (caller[c].must \ shown)
    /\ UNCHANGED <<ticks, expires, score, promised, unlisted>>
    /\ GoesTo(c, IF stale = {} THEN Resting ELSE [Resting EXCEPT !.at = "tidy", !.members = stale])

EphemeralTick ==
    /\ ticks < MaxTicks /\ ticks' = ticks + 1
    /\ expires' = [k \in EphKey |-> IF expires[k] <= ticks' THEN Gone ELSE expires[k]]
    /\ UNCHANGED <<score, promised, missing>>
    /\ unlisted' = {k \in unlisted : expires'[k] # Gone}
    /\ caller' = [d \in EphCaller |-> [caller[d] EXCEPT !.must = Lasting(@)]]

-----------------------------------------------------------------------------
EphemeralInit ==
    /\ ticks = 0 /\ expires = [k \in EphKey |-> Gone] /\ score = [k \in EphKey |-> Gone]
    /\ promised = [k \in EphKey |-> Gone]
    /\ caller = [c \in EphCaller |-> Resting] /\ unlisted = {} /\ missing = {}

EphemeralNext ==
    \/ EphemeralTick
    \/ \E c \in EphCaller :
         \/ CommitSet(c) \/ Tidy(c) \/ ListPrune(c) \/ ListRange(c) \/ ListRead(c)
         \/ \E k \in EphKey : DeleteKey(c, k) \/ GetKey(c, k) \/ \E t \in Ttl : BeginSet(c, k, t)

-----------------------------------------------------------------------------
\* A listing shows every key that was live from
\* its beginning to its end, whatever is set, refreshed, expired and deleted
\* meanwhile: only a clean-up that had found the key empty before it was set, and
\* took it out of the index after, hides it (Set, Get, List).
ListShowsLasting == missing = {}
================================================================================
