---------------------------- MODULE TenantListeners ----------------------------
(***************************************************************************)
(* Who keeps the LISTEN connection of a tenant alive (tenant_listeners.go):*)
(* shared subscription groups (subscriptions.go) and sync subscriptions    *)
(* (sync.go) acquire and release it by the tenant's name, an idle timer    *)
(* removes it, a changed database route replaces it, and a limit refuses   *)
(* it.  What travels over the connection is ChangeDelivery's subject.      *)
(***************************************************************************)
EXTENDS Integers, FiniteSets

CONSTANTS ListenTenant, Route,
          Group, Sync,   \* holders of the two kinds
          TenantOf,      \* the tenant of a holder
          ListenerLimit, \* TenantListenerLimit
          MaxListeners, MaxReroutes, MaxBreaks  \* bounds on what is created and fails

Holder == Group \cup Sync
ListenerId == 1..MaxListeners

ASSUME TenantListenersAssumption ==
    TenantOf \in [Holder -> ListenTenant] /\ ListenerLimit \in Nat \ {0}

VARIABLES
    route,     \* the database a tenant is routed to
    current,   \* active[tenant]: the ID of its listener, or 0
    listener,  \* of an ID: [t, route, refs, timer, connected, runner]
    expiring,  \* listeners whose timer callback waits for the lock
    holder,    \* of a holder: [at, on: the listener whose ready channel it waits for]
    strays,    \* of a tenant: releases by groups that had been refused
    breaks, reroutes

listenerVars == <<route, current, listener, expiring, holder, strays, breaks, reroutes>>

Made == DOMAIN listener
Active == {t \in ListenTenant : current[t] # 0}
Holders(t) == {h \in Holder : TenantOf[h] = t /\ holder[h].at \in {"waiting", "held"}}
NewListener(t, refs) ==
    [t |-> t, route |-> route[t], refs |-> refs, timer |-> "none", connected |-> FALSE,
     runner |-> "connecting"]
\* cancel: its goroutine ends.
Ended(l) == [l EXCEPT !.refs = 0, !.timer = "none", !.connected = FALSE, !.runner = "ended"]
Sit(h, at, id) == holder' = [holder EXCEPT ![h] = [at |-> at, on |-> id]]
Change(id, l) == listener' = [listener EXCEPT ![id] = l]
With(id, l) == [i \in Made \cup {id} |-> IF i = id THEN l ELSE listener[i]]

RouteChanges(t) ==
    /\ reroutes < MaxReroutes /\ reroutes' = reroutes + 1
    /\ \E r \in Route \ {route[t]} : route' = [route EXCEPT ![t] = r]
    /\ UNCHANGED <<current, listener, expiring, holder, strays, breaks>>

-----------------------------------------------------------------------------
(* acquire *)

Share(h) ==
    LET id == current[TenantOf[h]] IN
    /\ holder[h].at = "out" /\ id # 0 /\ listener[id].route = route[TenantOf[h]]
    /\ Change(id, [listener[id] EXCEPT !.refs = @ + 1, !.timer = "none"])
    /\ Sit(h, "waiting", id)
    /\ UNCHANGED <<route, current, expiring, strays, breaks, reroutes>>

ReplaceAfresh(h) ==
    LET t == TenantOf[h]
        new == Cardinality(Made) + 1 IN
    /\ holder[h].at = "out" /\ current[t] # 0 /\ new \in ListenerId
    /\ listener[current[t]].route # route[t]
    /\ current' = [current EXCEPT ![t] = new]
    /\ listener' = [With(new, NewListener(t, 1)) EXCEPT ![current[t]] = Ended(listener[current[t]])]
    /\ Sit(h, "waiting", new)
    /\ UNCHANGED <<route, expiring, strays, breaks, reroutes>>
\* The route has changed: the replacement takes over the references.
Replace(h) ==
    LET t == TenantOf[h]
        old == current[t]
        new == Cardinality(Made) + 1 IN
    /\ holder[h].at = "out" /\ old # 0 /\ new \in ListenerId
    /\ listener[old].route # route[t]
    /\ current' = [current EXCEPT ![t] = new]
    /\ listener' = [With(new, NewListener(t, listener[old].refs + 1))
                       EXCEPT ![old] = Ended(listener[old])]
    /\ Sit(h, "waiting", new)
    /\ UNCHANGED <<route, expiring, strays, breaks, reroutes>>

Create(h) ==
    LET t == TenantOf[h]
        new == Cardinality(Made) + 1 IN
    /\ holder[h].at = "out" /\ current[t] = 0 /\ new \in ListenerId
    /\ Cardinality(Active) < ListenerLimit
    /\ current' = [current EXCEPT ![t] = new]
    /\ listener' = With(new, NewListener(t, 1))
    /\ Sit(h, "waiting", new)
    /\ UNCHANGED <<route, expiring, strays, breaks, reroutes>>

\* A group goes on without a listener, a sync fails.
Refuse(h) ==
    /\ holder[h].at = "out" /\ h \in Group
    /\ current[TenantOf[h]] = 0 /\ Cardinality(Active) >= ListenerLimit
    /\ Sit(h, "refused", 0)
    /\ UNCHANGED <<route, current, listener, expiring, strays, breaks, reroutes>>

-----------------------------------------------------------------------------
(* Waiting and release. *)

\* The ready channel of the listener that was acquired is closed; a sync only
\* holds on if the current listener is connected now, and fails if it is gone.
IsReady(h) ==
    LET id == holder[h].on
        now == current[TenantOf[h]] IN
    /\ holder[h].at = "waiting" /\ listener[id].connected
    /\ IF h \in Group \/ (now # 0 /\ listener[now].connected)
       THEN Sit(h, "held", 0)
       ELSE Sit(h, IF now = 0 THEN "out" ELSE "waiting", now)
    /\ UNCHANGED <<route, current, listener, expiring, strays, breaks, reroutes>>

\* release by name: the last reference arms the idle timer.
OneFewer(n) == IF n > 0 THEN n - 1 ELSE 0
Released(l) == [l EXCEPT !.refs = OneFewer(@), !.timer = IF l.refs <= 1 /\ @ = "none" THEN "armed" ELSE @]
GiveUp(t) ==
    IF current[t] = 0 THEN UNCHANGED listener ELSE Change(current[t], Released(listener[current[t]]))

\* Five seconds pass: a group runs its query anyway, a sync gives up.
TimesOut(h) ==
    /\ holder[h].at = "waiting"
    /\ IF h \in Group THEN Sit(h, "held", 0) /\ UNCHANGED listener
       ELSE GiveUp(TenantOf[h]) /\ Sit(h, "out", 0)
    /\ UNCHANGED <<route, current, expiring, strays, breaks, reroutes>>

\* A group expires, a sync is closed: the group releases even when it had been
\* refused.
LetGo(h) ==
    LET t == TenantOf[h] IN
    /\ holder[h].at \in {"held", "refused"}
    /\ GiveUp(t)
    /\ strays' = IF holder[h].at = "refused" /\ current[t] # 0
                 THEN [strays EXCEPT ![t] = @ + 1] ELSE strays
    /\ Sit(h, "out", 0)
    /\ UNCHANGED <<route, current, expiring, breaks, reroutes>>

\* The idle timer fires; its callback may wait for the lock while acquire
\* stops the timer in vain.
TimerFires(id) ==
    /\ listener[id].timer = "armed"
    /\ Change(id, [listener[id] EXCEPT !.timer = "fired"])
    /\ expiring' = expiring \cup {id}
    /\ UNCHANGED <<route, current, holder, strays, breaks, reroutes>>

\* expire looks again.
Expire(id) ==
    LET t == listener[id].t IN
    /\ id \in expiring /\ expiring' = expiring \ {id}
    /\ IF current[t] = id /\ listener[id].refs = 0
       THEN /\ current' = [current EXCEPT ![t] = 0]
            /\ Change(id, Ended(listener[id]))
       ELSE UNCHANGED <<current, listener>>
    /\ UNCHANGED <<route, holder, strays, breaks, reroutes>>

-----------------------------------------------------------------------------
(* run: the goroutine of a listener. *)

\* LISTEN is in place: markReady.
Listens(id) ==
    LET t == listener[id].t IN
    /\ listener[id].runner = "connecting" /\ current[t] = id
    /\ Change(id, [listener[id] EXCEPT !.runner = "listening", !.connected = TRUE])
    /\ UNCHANGED <<route, current, expiring, holder, strays, breaks, reroutes>>

Breaks(id) ==
    /\ breaks < MaxBreaks /\ breaks' = breaks + 1
    /\ listener[id].runner = "listening"
    /\ Change(id, [listener[id] EXCEPT !.runner = "lost"])
    /\ UNCHANGED <<route, current, expiring, holder, strays, reroutes>>
\* markDisconnected, then a backoff and the next attempt.
Loses(id) ==
    /\ listener[id].runner = "lost"
    /\ Change(id, [listener[id] EXCEPT !.runner = "connecting", !.connected = FALSE])
    /\ UNCHANGED <<route, current, expiring, holder, strays, breaks, reroutes>>

-----------------------------------------------------------------------------
ListenersInit ==
    /\ route \in [ListenTenant -> Route] /\ current = [t \in ListenTenant |-> 0]
    /\ listener = [i \in {} |-> 0] /\ expiring = {}
    /\ holder = [h \in Holder |-> [at |-> "out", on |-> 0]]
    /\ strays = [t \in ListenTenant |-> 0] /\ breaks = 0 /\ reroutes = 0

ListenersProgress ==
    \/ \E h \in Holder : IsReady(h) \/ TimesOut(h)
    \/ \E id \in Made : TimerFires(id) \/ Expire(id) \/ Listens(id) \/ Loses(id)
Arrive(h) == Share(h) \/ Replace(h) \/ Create(h) \/ Refuse(h)
ListenersNext ==
    \/ ListenersProgress
    \/ \E t \in ListenTenant : RouteChanges(t)
    \/ \E h \in Holder : Arrive(h) \/ LetGo(h)
    \/ \E id \in Made : Breaks(id)

ListenersSpec == ListenersInit /\ [][ListenersNext]_listenerVars

-----------------------------------------------------------------------------
\* A tenant somebody subscribes to keeps its listener, through idle timers that
\* fire late and replacements; only releases of groups that had been refused
\* can take it away (acquire, release and expire in tenant_listeners.go).
KeptWhileHeld ==
    \A t \in ListenTenant :
        LET held == Cardinality(Holders(t)) IN
        held > strays[t] => current[t] # 0 /\ listener[current[t]].refs >= held - strays[t]

\* A listener counts as connected only while its own goroutine is in LISTEN or
\* has not yet noticed the loss; one that was replaced never does (markReady).
ConnectedIsListening ==
    \A t \in Active : LET l == listener[current[t]] IN
        l.connected => l.runner \in {"listening", "lost"}

\* The limit on connections holds, replacements included.
WithinLimit ==
    /\ Cardinality(Active) <= ListenerLimit
    /\ \A id \in Made : listener[id].runner # "ended" => current[listener[id].t] = id

\* A tenant that nobody subscribes to loses its listener (the idle timer).
IdleIsClosed ==
    []<>(\/ \E t \in ListenTenant : Holders(t) # {}
         \/ \A t \in Active : listener[current[t]].refs > 0)

\* Whoever subscribes keeps a listener, what counts as connected listens, and
\* the limit holds.
ListenersKept == KeptWhileHeld /\ ConnectedIsListening /\ WithinLimit
================================================================================
