--------------------------- MODULE AuthRequirement ---------------------------
(***************************************************************************)
(* Whether a project requires a Gonvex app session (app_auth.go, ws.go):   *)
(* the provider row, the process cache of it with its five second lifetime *)
(* and its single-flight lookup, the operations that switch the provider   *)
(* on and off, and the anonymous subscriptions of the clients, whose every *)
(* registration and delivery asks first.                                   *)
(***************************************************************************)
EXTENDS Integers

CONSTANTS Client,      \* connections that present no session
          Admin,       \* requests that switch the provider
          MaxToggles   \* bound on those requests

ASSUME RequirementAssumption == MaxToggles \in Nat

VARIABLES
    provider,      \* gonvex_auth_providers.enabled
    policyVersion, \* appAuthVersions
    requirement,   \* appAuthRequirements: "on", "off" or "none"
    policyLookup,  \* appAuthLookups: the lookup in flight, or NoLookup
    switching,     \* each admin's request
    calls,         \* each client's question and its answer
    anonymous,     \* clients with a live anonymous subscription
    toggles,
    mustAuth       \* clients whose question follows an answered enable

requirementVars == <<provider, policyVersion, requirement, policyLookup, switching,
                     calls, anonymous, toggles, mustAuth>>

NoLookup == [generation |-> -1, found |-> "none"]
Named(b) == IF b THEN "on" ELSE "off"
Stage == {"idle", "read", "reread", "enabled", "enforcing", "disabled"}

RequirementOK ==
    /\ provider \in BOOLEAN /\ policyVersion \in 0..2 * MaxToggles
    /\ requirement \in {"on", "off", "none"}
    /\ policyLookup.generation \in -1..policyVersion
    /\ policyLookup.found \in {"none", "unread", "on", "off", "error"}
    /\ \A a \in Admin : switching[a].stage \in Stage /\ switching[a].todo \subseteq Client
    /\ calls \in [Client -> {"idle", "asking", "waiting", "on", "off", "error"}]
    /\ anonymous \subseteq Client /\ mustAuth \subseteq Client

Unswitched == [stage |-> "idle", first |-> FALSE, todo |-> {}]

RequirementInit ==
    /\ provider \in BOOLEAN /\ policyVersion = 0 /\ requirement = "none"
    /\ policyLookup = NoLookup /\ switching = [a \in Admin |-> Unswitched]
    /\ calls = [c \in Client |-> "idle"] /\ anonymous = {} /\ toggles = 0
    /\ mustAuth = {}

-----------------------------------------------------------------------------
\* An enable that has committed and not invalidated the cache.
Pending == \E a \in Admin : switching[a].stage \in {"enabled", "disabled"}

\* enableGoogleAuth's transaction: previouslyEnabled, then the row.
EnableReads(a) ==
    /\ switching[a].stage = "idle" /\ toggles < MaxToggles
    /\ \A b \in Admin : switching[b].stage # "read"      \* the advisory lock
    /\ switching' = [switching EXCEPT ![a].stage = "read", ![a].first = ~provider]
    /\ toggles' = toggles + 1
    /\ UNCHANGED <<provider, policyVersion, requirement, policyLookup, calls,
                   anonymous, mustAuth>>

EnableCommits(a) ==
    /\ switching[a].stage = "read"
    /\ provider' = TRUE
    /\ switching' = [switching EXCEPT ![a].stage = "enabled"]
    /\ UNCHANGED <<policyVersion, requirement, policyLookup, calls, anonymous,
                   toggles, mustAuth>>

EnableFails(a) ==
    /\ switching[a].stage = "read"
    /\ switching' = [switching EXCEPT ![a] = Unswitched]
    /\ UNCHANGED <<provider, policyVersion, requirement, policyLookup, calls,
                   anonymous, toggles, mustAuth>>

Disable(a) ==
    /\ switching[a].stage = "idle" /\ toggles < MaxToggles
    /\ provider' = FALSE /\ mustAuth' = {}
    /\ switching' = [switching EXCEPT ![a].stage = "disabled"]
    /\ toggles' = toggles + 1
    /\ UNCHANGED <<policyVersion, requirement, policyLookup, calls, anonymous>>

\* invalidateAppAuthRequirement, and the connections that the enforcement of a
\* first enable will visit.
Invalidated == requirement' = "none" /\ policyVersion' = policyVersion + 1

Invalidate(a) ==
    /\ switching[a].stage \in {"enabled", "disabled"}
    /\ Invalidated
    /\ switching' =
           IF switching[a].stage = "enabled" /\ switching[a].first
           THEN [switching EXCEPT ![a].stage = "enforcing", ![a].todo = Client]
           ELSE [switching EXCEPT ![a] = Unswitched]
    /\ UNCHANGED <<provider, policyLookup, calls, anonymous, toggles, mustAuth>>

\* enforceNativeAppAuthConnections, connection by connection.
Enforce(a, c) ==
    /\ switching[a].stage = "enforcing" /\ c \in switching[a].todo
    /\ anonymous' = anonymous \ {c}
    /\ switching' = IF switching[a].todo = {c} THEN [switching EXCEPT ![a] = Unswitched]
                    ELSE [switching EXCEPT ![a].todo = @ \ {c}]
    /\ UNCHANGED <<provider, policyVersion, requirement, policyLookup, calls,
                   toggles, mustAuth>>

-----------------------------------------------------------------------------
\* nativeAppAuthEnabled, from the top of its loop: the cached answer, the
\* lookup in flight, or a lookup of its own.
Ask(c) ==
    /\ IF requirement # "none"
       THEN calls' = [calls EXCEPT ![c] = requirement] /\ UNCHANGED policyLookup
       ELSE /\ calls' = [calls EXCEPT ![c] = "waiting"]
            /\ policyLookup' = IF policyLookup # NoLookup THEN policyLookup
                         ELSE [generation |-> policyVersion, found |-> "unread"]
    /\ UNCHANGED <<provider, policyVersion, requirement, switching, anonymous, toggles>>

BeginCall(c) ==
    /\ calls[c] = "idle" /\ Ask(c)
    /\ mustAuth' = IF provider /\ ~Pending THEN mustAuth \cup {c} ELSE mustAuth \ {c}

AskAgain(c) == calls[c] = "asking" /\ Ask(c) /\ UNCHANGED mustAuth

\* loadNativeAppAuthRequirement, for a project the registry knows.
ReadProvider ==
    /\ policyLookup.found = "unread"
    /\ \E f \in {Named(provider), "error"} : policyLookup' = [policyLookup EXCEPT !.found = f]
    /\ UNCHANGED <<provider, policyVersion, requirement, switching, calls, anonymous,
                   toggles, mustAuth>>

Waiters(answer) == [c \in Client |-> IF calls[c] = "waiting" THEN answer ELSE calls[c]]

\* Mutant: a passed generation is not cached, and is answered all the same.
FinishStale ==
    /\ policyLookup.found \in {"on", "off", "error"}
    /\ policyLookup' = NoLookup /\ calls' = Waiters(policyLookup.found)
    /\ requirement' = IF policyLookup.generation # policyVersion \/ policyLookup.found = "error"
                      THEN requirement ELSE policyLookup.found
    /\ UNCHANGED <<provider, policyVersion, switching, anonymous, toggles, mustAuth>>

\* The lookup's result: a generation that has passed is asked again.
FinishLookup ==
    /\ policyLookup.found \in {"on", "off", "error"}
    /\ policyLookup' = NoLookup
    /\ IF policyLookup.generation # policyVersion
       THEN calls' = Waiters("asking") /\ UNCHANGED requirement
       ELSE /\ calls' = Waiters(policyLookup.found)
            /\ requirement' = IF policyLookup.found = "error" THEN requirement
                              ELSE policyLookup.found
    /\ UNCHANGED <<provider, policyVersion, switching, anonymous, toggles, mustAuth>>

RequirementExpires ==
    /\ requirement # "none" /\ requirement' = "none"
    /\ UNCHANGED <<provider, policyVersion, policyLookup, switching, calls, anonymous,
                   toggles, mustAuth>>

\* projectRequiresAuthentication and revalidateAppAuth: only "off" lets an
\* anonymous client subscribe or receive; anything else clears what it has.
UseAnswer(c) ==
    /\ calls[c] \in {"on", "off", "error"}
    /\ calls' = [calls EXCEPT ![c] = "idle"]
    /\ anonymous' = IF calls[c] = "off" THEN anonymous \cup {c} ELSE anonymous \ {c}
    /\ mustAuth' = mustAuth \ {c}
    /\ UNCHANGED <<provider, policyVersion, requirement, policyLookup, switching, toggles>>

RequirementNext ==
    \/ \E a \in Admin : \/ EnableReads(a) \/ EnableCommits(a) \/ EnableFails(a)
                        \/ Disable(a) \/ Invalidate(a)
                        \/ \E c \in Client : Enforce(a, c)
    \/ \E c \in Client : BeginCall(c) \/ AskAgain(c) \/ UseAnswer(c)
    \/ ReadProvider \/ FinishLookup \/ RequirementExpires

-----------------------------------------------------------------------------
\* Once every committed switch has invalidated the cache, a cached requirement
\* is the provider's: no lookup that read the row before the switch is stored
\* after it (nativeAppAuthEnabled's generations).
RequirementCurrent == ~Pending /\ requirement # "none" => requirement = Named(provider)

\* A client that asks after an enable was answered is not let in anonymously,
\* whichever lookup it joined, and however that lookup ended.
EnableIsFinal == \A c \in mustAuth : calls[c] # "off"

\* Who waits for a lookup is answered, or asks again; nobody waits for good.
CallsAnswered == \A c \in Client : []<>(calls[c] # "waiting")
=============================================================================
