------------------------------ MODULE TenantStores ------------------------------
(***************************************************************************)
(* The pools of tenant databases that a runtime keeps (tenant_store.go):   *)
(* one initialization of a tenant at a time, joined by whoever asks        *)
(* meanwhile, and a pool replaced when the tenant's database URL changes.  *)
(* One tenant suffices: tenants share nothing but the lock.                *)
(***************************************************************************)
EXTENDS Integers, FiniteSets

CONSTANTS Asker, Url, MaxPools, MaxOpenFails  \* bounds on pools opened and failures

ASSUME TenantStoresAssumption == "" \notin Asker

NoPool == 0
PoolId == 1..MaxPools

VARIABLES
    routed,    \* the URL that the tenant is routed to
    store,     \* stores[tenant]: a pool or none
    pending,   \* initializing[tenant]: [by, url] or none
    pools,     \* of an opened pool: [url, open]
    asker,     \* of a caller: [at, url, pool]
    fails

storeVars == <<routed, store, pending, pools, asker, fails>>

NoOne == [by |-> "", url |-> ""]
Opened == DOMAIN pools
Told(a, at, pool) == [at |-> at, url |-> asker[a].url, pool |-> pool]
Answer(as, a, at, pool) == [as EXCEPT ![a] = Told(a, at, pool)]
Joined == {a \in Asker : asker[a].at = "joined"}

\* Hydration or a restore routes the tenant to another database.
Reroute ==
    /\ \E u \in Url \ {routed} : routed' = u
    /\ UNCHANGED <<store, pending, pools, asker, fails>>

AskStore(a) ==
    /\ asker[a].at = "idle"
    /\ asker' = [asker EXCEPT ![a] = [at |-> "asking", url |-> routed, pool |-> NoPool]]
    /\ UNCHANGED <<routed, store, pending, pools, fails>>

Serves(p, u) == p # NoPool /\ pools[p].url = u
InitializesAlone(a) ==
    /\ asker[a].at = "asking" /\ ~Serves(store, asker[a].url)
    /\ pending' = [by |-> a, url |-> asker[a].url]
    /\ asker' = [asker EXCEPT ![a].at = "opening"]
    /\ UNCHANGED <<routed, store, pools, fails>>
\* Store, under its lock: the pool there is, the initialization that runs, or
\* one of its own.
Find(a) ==
    /\ asker[a].at = "asking" /\ Serves(store, asker[a].url)
    /\ asker' = Answer(asker, a, "got", store)
    /\ UNCHANGED <<routed, store, pending, pools, fails>>
Join(a) ==
    /\ asker[a].at = "asking" /\ ~Serves(store, asker[a].url) /\ pending # NoOne
    /\ asker' = [asker EXCEPT ![a].at = "joined"]
    /\ UNCHANGED <<routed, store, pending, pools, fails>>
Initialize(a) ==
    /\ asker[a].at = "asking" /\ ~Serves(store, asker[a].url) /\ pending = NoOne
    /\ pending' = [by |-> a, url |-> asker[a].url]
    /\ asker' = [asker EXCEPT ![a].at = "opening"]
    /\ UNCHANGED <<routed, store, pools, fails>>

JoinersOf(as, answer) == [b \in Asker |-> IF b \in Joined THEN answer[b] ELSE as[b]]
\* initializeStore has opened the pool: another one of the tenant is closed;
\* joiners that want another URL ask again.
OpensFor(a, settle) ==
    LET p == Cardinality(Opened) + 1 IN
    /\ asker[a].at = "opening" /\ p \in PoolId
    /\ pools' = [q \in Opened \cup {p} |->
                    IF q = p THEN [url |-> asker[a].url, open |-> TRUE]
                    ELSE IF q = store /\ pools[q].url # asker[a].url
                    THEN [pools[q] EXCEPT !.open = FALSE] ELSE pools[q]]
    /\ store' = p /\ pending' = NoOne
    /\ asker' = Answer(JoinersOf(asker, settle[p]), a, "got", p)
    /\ UNCHANGED <<routed, fails>>
Opens(a) ==
    OpensFor(a, [p \in PoolId |-> [b \in Asker |->
        IF asker[b].url = asker[a].url THEN Told(b, "got", p) ELSE Told(b, "asking", NoPool)]])

\* The database does not answer, or the context of this caller ends: all who
\* joined get its error.
OpenFails(a) ==
    /\ asker[a].at = "opening" /\ fails < MaxOpenFails /\ fails' = fails + 1
    /\ pending' = NoOne
    /\ asker' = Answer([b \in Asker |-> IF b \in Joined THEN [asker[b] EXCEPT !.at = "failed"]
                                        ELSE asker[b]], a, "failed", NoPool)
    /\ UNCHANGED <<routed, store, pools>>

StoresInit ==
    /\ routed \in Url /\ store = NoPool /\ pending = NoOne
    /\ pools = [p \in {} |-> NoPool]
    /\ asker = [a \in Asker |-> [at |-> "idle", url |-> "", pool |-> NoPool]]
    /\ fails = 0
AskerStep(a) == Find(a) \/ Join(a) \/ Initialize(a) \/ Opens(a)
StoresProgress == \E a \in Asker : AskerStep(a)
StoresNext == StoresProgress \/ Reroute \/ \E a \in Asker : AskStore(a) \/ OpenFails(a)

StoresSpec == StoresInit /\ [][StoresNext]_storeVars

-----------------------------------------------------------------------------
\* A pool that is open is the one kept: none is opened twice for a URL, and one
\* that is replaced is closed (Store in tenant_store.go).
NoPoolLost == \A p \in Opened : pools[p].open => p = store

\* A caller works on the database that the tenant was routed to when it asked,
\* whoever opened the pool.
RightDatabase ==
    \A a \in Asker : asker[a].at = "got" => pools[asker[a].pool].url = asker[a].url

\* Whoever waits for another caller's initialization is answered.
AskersAnswered == <>[](\A a \in Asker : asker[a].at \in {"idle", "got", "failed"})

\* One pool per tenant, of the database its callers asked for.
PoolsSound == NoPoolLost /\ RightDatabase
================================================================================
