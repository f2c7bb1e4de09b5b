----------------------------- MODULE AuthSessions -----------------------------
(***************************************************************************)
(* The logins of one account: the rotating refresh tokens of the registry  *)
(* (app_auth.go) and the tabs of one browser that share a stored session   *)
(* and refresh it under a browser lock (packages/react).  Statements of a  *)
(* transaction that another transaction can fall between are steps of      *)
(* their own (READ COMMITTED): a revocation sees the rows committed when   *)
(* it starts.                                                              *)
(***************************************************************************)
EXTENDS Integers, FiniteSets

CONSTANTS Tab,
          MaxTokens,   \* bound on refresh tokens issued
          MaxLost      \* bound on answers that never reach their tab

Nobody == "nobody"

ASSUME SessionsAssumption == MaxTokens \in Nat /\ MaxLost \in Nat /\ Nobody \notin Tab

VARIABLES
    tokens,     \* gonvex_auth_refresh_tokens: [family, used, revoked] by number
    requests,   \* refreshes at the server: [token, stage, child, from]
    revoking,   \* tokens a revocation has seen and not yet marked
    stored,     \* the token of the session in localStorage, 0 for none
    session,    \* the token of each tab's session
    tab,        \* what each tab is doing
    authLock,   \* the tab that holds the storage lock, or nobody
    storageEvent, \* tabs that have not handled a change of the storage
    lost,       \* answers lost
    signedOut,  \* a tab has signed out
    reused      \* a token has been presented after it was exchanged

sessionVars == <<tokens, requests, revoking, stored, session, tab, authLock,
                 storageEvent, lost, signedOut, reused>>

Issued == DOMAIN tokens
Next1 == Cardinality(Issued) + 1
Ready == [phase |-> "ready", token |-> 0]

SessionsOK ==
    /\ Issued \subseteq 1..MaxTokens
    /\ \A k \in Issued : /\ tokens[k].family \in Issued /\ tokens[k].revoked \in BOOLEAN
                         /\ tokens[k].used \in {"no", "lately", "long ago"}
    /\ stored \in {0} \cup Issued /\ session \in [Tab -> {0} \cup Issued]
    /\ authLock \in Tab \cup {Nobody} /\ storageEvent \subseteq Tab
    /\ \A t \in Tab : tab[t].token \in {0} \cup Issued

SessionsInit ==
    /\ tokens = <<>> /\ requests = {} /\ revoking = {}
    /\ stored = 0 /\ session = [t \in Tab |-> 0] /\ tab = [t \in Tab |-> Ready]
    /\ authLock = Nobody /\ storageEvent = {} /\ lost = 0
    /\ signedOut = FALSE /\ reused = FALSE

Usable(k) == tokens[k].used = "no" /\ ~tokens[k].revoked
Issue(family) == [k \in Issued \cup {Next1} |->
    IF k \in Issued THEN tokens[k] ELSE [family |-> family, used |-> "no", revoked |-> FALSE]]

\* installSession: the tab, and the shared storage unless the change came from it.
Install(t, k) ==
    /\ session' = [session EXCEPT ![t] = k]
    /\ stored' = k
    /\ storageEvent' = IF stored = k THEN storageEvent ELSE storageEvent \cup (Tab \ {t})

-----------------------------------------------------------------------------
\* bootstrapGonvexAuth with an authorization code: exchangeAppAuthCode consumes
\* it and issues the first token of a family.
SignIn(t) ==
    /\ tab[t] = Ready /\ session[t] = 0 /\ Next1 <= MaxTokens
    /\ tokens' = Issue(Next1) /\ Install(t, Next1)
    /\ UNCHANGED <<requests, revoking, tab, authLock, lost, signedOut, reused>>

\* refreshSession, by the timer or forced by auth.error, one at a time in a tab:
\* withBrowserAuthLock, and the session is read again under the lock.
Current(t) == IF stored # 0 THEN stored ELSE session[t]

\* Nothing is held by the lock, or the token is sent; a forced refresh, or one
\* whose access token is about to expire, always sends.
Send(t) ==
    /\ tab[t] = Ready /\ session[t] # 0 /\ authLock = Nobody
    /\ LET k == Current(t) IN
         /\ \A q \in requests : q.token # k \/ q.stage # "waiting"
         /\ requests' = requests \cup {[token |-> k, stage |-> "waiting", child |-> 0, from |-> t]}
         /\ tab' = [tab EXCEPT ![t] = [phase |-> "sent", token |-> k]]
         /\ authLock' = t
         /\ reused' = (reused \/ tokens[k].used # "no")
    /\ UNCHANGED <<tokens, revoking, stored, session, storageEvent, lost, signedOut>>

\* Not forced and not about to expire: the current session as it is.
KeepCurrent(t) ==
    /\ tab[t] = Ready /\ session[t] # 0 /\ authLock = Nobody
    /\ tab' = [tab EXCEPT ![t] = [phase |-> "installing", token |-> Current(t)]]
    /\ UNCHANGED <<tokens, requests, revoking, stored, session, authLock,
                   storageEvent, lost, signedOut, reused>>

-----------------------------------------------------------------------------
Moved(q, stage) == requests' = (requests \ {q}) \cup {[q EXCEPT !.stage = stage]}

\* The answer, unless its tab has stopped waiting.
Answers(q, stage, child) == requests' = (requests \ {q}) \cup
    (IF q.from = Nobody THEN {} ELSE {[q EXCEPT !.stage = stage, !.child = child]})

\* refreshAppSession: SELECT ... FOR UPDATE on the token, and its refusals.
Locked(k) == \E q \in requests : q.token = k /\ q.stage = "locked"

MayExchange(k) == tokens[k].used = "no"

LockToken(q) ==
    /\ q \in requests /\ q.stage = "waiting" /\ ~Locked(q.token)
    /\ ~tokens[q.token].revoked /\ MayExchange(q.token) /\ Next1 <= MaxTokens
    /\ Moved(q, "locked")
    /\ UNCHANGED <<tokens, revoking, stored, session, tab, authLock,
                   storageEvent, lost, signedOut, reused>>

RefuseToken(q) ==
    /\ q \in requests /\ q.stage = "waiting" /\ ~Locked(q.token)
    /\ tokens[q.token].revoked \/ (tokens[q.token].used = "lately")
    /\ Answers(q, "refused", 0)
    /\ UNCHANGED <<tokens, revoking, stored, session, tab, authLock,
                   storageEvent, lost, signedOut, reused>>

\* issueAppAuthSessionGrant and the commit.
CommitRefresh(q) ==
    /\ q \in requests /\ q.stage = "locked" /\ Next1 <= MaxTokens
    /\ LET family == tokens[q.token].family
           grown == Issue(family)
       IN tokens' = [grown EXCEPT ![q.token].used = "lately"]
    /\ Answers(q, "granted", Next1)
    /\ UNCHANGED <<revoking, stored, session, tab, authLock,
                   storageEvent, lost, signedOut, reused>>

\* appRefreshReuseGrace has passed.
GracePasses(k) ==
    /\ k \in Issued /\ tokens[k].used = "lately"
    /\ tokens' = [tokens EXCEPT ![k].used = "long ago"]
    /\ UNCHANGED <<requests, revoking, stored, session, tab, authLock,
                   storageEvent, lost, signedOut, reused>>

Family(k) == {j \in Issued : tokens[j].family = tokens[k].family}

\* A token presented long after it was exchanged: revokeAppAuthFamilyTx.
Replay(q) ==
    /\ q \in requests /\ q.stage = "waiting" /\ ~Locked(q.token)
    /\ ~tokens[q.token].revoked /\ tokens[q.token].used = "long ago"
    /\ revoking' = revoking \cup Family(q.token)
    /\ Answers(q, "refused", 0)
    /\ UNCHANGED <<tokens, stored, session, tab, authLock,
                   storageEvent, lost, signedOut, reused>>

\* The update waits for the rows that are locked.
Revoke ==
    /\ revoking # {} /\ \A k \in revoking : ~Locked(k)
    /\ tokens' = [k \in Issued |-> [tokens[k] EXCEPT !.revoked = @ \/ k \in revoking]]
    /\ revoking' = {}
    /\ UNCHANGED <<requests, stored, session, tab, authLock,
                   storageEvent, lost, signedOut, reused>>

\* signOut: the tab first, then revokeAppAuthSession for the family, or for
\* every family of the account.
SignOut(t) ==
    /\ session[t] # 0 /\ ~signedOut /\ Install(t, 0) /\ signedOut' = TRUE
    /\ \E gone \in {Family(session[t]), Issued} : revoking' = revoking \cup gone
    /\ UNCHANGED <<tokens, requests, tab, authLock, lost, reused>>

\* No continuation of a released lock is still to run: it is a microtask, and
\* the lock's next holder needs a round trip to change what it installs.
Continued == \A t \in Tab : tab[t].phase # "installing"

\* The grant is persisted inside the lock, and installed after it.
ReceiveGrant(q) ==
    LET t == q.from IN
    /\ q \in requests /\ q.stage = "granted" /\ Continued
    /\ requests' = requests \ {q} /\ authLock' = Nobody
    /\ stored' = q.child /\ storageEvent' = storageEvent \cup (Tab \ {t})
    /\ tab' = [tab EXCEPT ![t] = [phase |-> "installing", token |-> q.child]]
    /\ UNCHANGED <<tokens, revoking, session, lost, signedOut, reused>>

Installs(t) ==
    /\ tab[t].phase = "installing" /\ Install(t, tab[t].token)
    /\ tab' = [tab EXCEPT ![t] = Ready]
    /\ UNCHANGED <<tokens, requests, revoking, authLock, lost, signedOut, reused>>

\* A 401: another tab's winner is adopted; otherwise the session is gone.
Adopts(t, attempted) == stored # 0 /\ stored # attempted

ReceiveRefusal(q) ==
    LET t == q.from IN
    /\ q \in requests /\ q.stage = "refused" /\ Continued
    /\ requests' = requests \ {q} /\ authLock' = Nobody
    /\ Install(t, IF Adopts(t, q.token) THEN stored ELSE 0)
    /\ tab' = [tab EXCEPT ![t] = Ready]
    /\ UNCHANGED <<tokens, revoking, lost, signedOut, reused>>

\* A network failure or the timeout of fifteen seconds: the session is kept, and
\* the request may still be under way.
LoseAnswer(t) ==
    /\ tab[t].phase = "sent" /\ lost < MaxLost
    /\ lost' = lost + 1 /\ authLock' = Nobody /\ tab' = [tab EXCEPT ![t] = Ready]
    /\ IF Adopts(t, tab[t].token) THEN Install(t, stored)
       ELSE UNCHANGED <<stored, session, storageEvent>>
    /\ LET mine == {q \in requests : q.from = t} IN
       \E arriving \in {{"locked"}, {"waiting", "locked"}} :
         requests' = (requests \ mine) \cup
             {[q EXCEPT !.from = Nobody] : q \in {m \in mine : m.stage \in arriving}}
    /\ UNCHANGED <<tokens, revoking, signedOut, reused>>

\* The storage event installs what the storage holds now, without persisting.
StorageChanged(t) ==
    /\ t \in storageEvent /\ storageEvent' = storageEvent \ {t}
    /\ session' = [session EXCEPT ![t] = stored]
    /\ UNCHANGED <<tokens, requests, revoking, stored, tab, authLock, lost, signedOut, reused>>

SessionsNext ==
    \/ \E t \in Tab : \/ SignIn(t) \/ Send(t) \/ KeepCurrent(t) \/ Installs(t)
                      \/ SignOut(t) \/ LoseAnswer(t) \/ StorageChanged(t)
    \/ \E q \in requests : \/ LockToken(q) \/ RefuseToken(q) \/ CommitRefresh(q) \/ Replay(q)
                           \/ ReceiveGrant(q) \/ ReceiveRefusal(q)
    \/ \E k \in Issued : GracePasses(k)
    \/ Revoke

-----------------------------------------------------------------------------
\* A family has one head: however many refreshes race, time out and are sent
\* again, at most one of its tokens can still be exchanged.
OneHead == \A j, k \in Issued :
    tokens[j].family = tokens[k].family /\ Usable(j) /\ Usable(k) => j = k

\* "The next waiter must never read and reuse the just-consumed refresh token"
\* (index.tsx): without a lost answer and a sign-out, the tabs of a browser
\* never present a token that was exchanged already.
TabsNeverReuse == lost = 0 /\ ~signedOut => ~reused

\* Without them, a tab that is signed in stays signed in.
StaysSignedIn == [][lost' = 0 /\ ~signedOut' =>
                    \A t \in Tab : session[t] # 0 => session'[t] # 0]_sessionVars
=============================================================================
