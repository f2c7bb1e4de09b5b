--------------------------- MODULE PersonalWorkspace ---------------------------
(***************************************************************************)
(* The workspace a first sign-in creates (ensurePersonalAppAuthTenant and  *)
(* createAppAuthTenant in app_auth_memberships.go): sign-ins of one        *)
(* account, on any runtimes, under the account's advisory lock.            *)
(***************************************************************************)
EXTENDS Integers, FiniteSets

CONSTANTS SignInRequest,
          MaxWorkspaces,        \* bound on databases created
          MaxWorkspaceFaults    \* bound on failing steps

NobodySignsIn == "none"

ASSUME WorkspaceAssumption ==
    MaxWorkspaces \in Nat /\ MaxWorkspaceFaults \in Nat /\ NobodySignsIn \notin SignInRequest

VARIABLES
    signIn,        \* each sign-in: its step, and the tenant it creates
    personalLock,  \* the sign-in that holds the account's advisory lock
    workspaceDbs,  \* tenant databases
    registered,    \* gonvex_runtime_tenants
    owned,         \* the account's memberships
    createdCount, workspaceFaults,
    abandoned      \* tenants a crash left half made

workspaceVars == <<signIn, personalLock, workspaceDbs, registered, owned,
                   createdCount, workspaceFaults, abandoned>>

SignedOut == [step |-> "out", tenant |-> 0]

WorkspacesOK ==
    /\ personalLock \in SignInRequest \cup {NobodySignsIn}
    /\ owned \subseteq registered /\ workspaceDbs \subseteq 1..createdCount
    /\ \A r \in SignInRequest : signIn[r].tenant \in 0..createdCount

WorkspacesInit ==
    /\ signIn = [r \in SignInRequest |-> SignedOut] /\ personalLock = NobodySignsIn
    /\ workspaceDbs = {} /\ registered = {} /\ owned = {}
    /\ createdCount = 0 /\ workspaceFaults = 0 /\ abandoned = {}

At(r, step) == signIn[r].step = step
Goes(r, step) == signIn' = [signIn EXCEPT ![r].step = step]
Releases(r) == signIn' = [signIn EXCEPT ![r] = SignedOut] /\ personalLock' = NobodySignsIn
MayFail == workspaceFaults < MaxWorkspaceFaults /\ workspaceFaults' = workspaceFaults + 1

\* ensureAppAuthMemberships: an account with a tenant has nothing to wait for.
ListTenants(r) ==
    /\ At(r, "out") /\ owned = {} /\ Goes(r, "lock")
    /\ UNCHANGED <<personalLock, workspaceDbs, registered, owned, createdCount,
                   workspaceFaults, abandoned>>

TakePersonalLock(r) ==
    /\ At(r, "lock") /\ personalLock = NobodySignsIn /\ personalLock' = r
    /\ Goes(r, "again")
    /\ UNCHANGED <<workspaceDbs, registered, owned, createdCount, workspaceFaults, abandoned>>

\* The tenants are listed again under the lock.
ListAgain(r) ==
    /\ At(r, "again")
    /\ IF owned # {} THEN Releases(r) ELSE Goes(r, "create") /\ UNCHANGED personalLock
    /\ UNCHANGED <<workspaceDbs, registered, owned, createdCount, workspaceFaults, abandoned>>

\* createProjectDatabase and provisionTenantDatabaseWithSync.
CreateWorkspaceDatabase(r) ==
    /\ At(r, "create") /\ createdCount < MaxWorkspaces
    /\ createdCount' = createdCount + 1
    /\ workspaceDbs' = workspaceDbs \cup {createdCount'}
    /\ signIn' = [signIn EXCEPT ![r] = [step |-> "register", tenant |-> createdCount']]
    /\ UNCHANGED <<personalLock, registered, owned, workspaceFaults, abandoned>>

\* The deferred dropProjectDatabase.
DropsDatabase(r) == workspaceDbs' = workspaceDbs \ {signIn[r].tenant}

RegisterWorkspace(r) ==
    /\ At(r, "register")
    /\ \/ /\ registered' = registered \cup {signIn[r].tenant} /\ Goes(r, "membership")
          /\ UNCHANGED <<personalLock, workspaceDbs, workspaceFaults>>
       \/ /\ MayFail /\ DropsDatabase(r) /\ Releases(r) /\ UNCHANGED registered
    /\ UNCHANGED <<owned, createdCount, abandoned>>

\* upsertAppAuthMembership as owner, or the row and the database go again.
OwnWorkspace(r) ==
    /\ At(r, "membership") /\ Releases(r)
    /\ \/ owned' = owned \cup {signIn[r].tenant}
          /\ UNCHANGED <<workspaceDbs, registered, workspaceFaults>>
       \/ /\ MayFail /\ DropsDatabase(r) /\ registered' = registered \ {signIn[r].tenant}
          /\ UNCHANGED owned
    /\ UNCHANGED <<createdCount, abandoned>>

SignInDies(r) ==
    /\ ~At(r, "out") /\ MayFail
    /\ abandoned' = IF signIn[r].tenant = 0 THEN abandoned
                    ELSE abandoned \cup {signIn[r].tenant}
    /\ signIn' = [signIn EXCEPT ![r] = SignedOut]
    /\ personalLock' = IF personalLock = r THEN NobodySignsIn ELSE personalLock
    /\ UNCHANGED <<workspaceDbs, registered, owned, createdCount>>

WorkspacesNext == \E r \in SignInRequest :
    \/ ListTenants(r) \/ TakePersonalLock(r) \/ ListAgain(r) \/ CreateWorkspaceDatabase(r)
    \/ RegisterWorkspace(r) \/ OwnWorkspace(r) \/ SignInDies(r)

-----------------------------------------------------------------------------
\* However many sign-ins of a new account overlap, it owns one workspace.
OneWorkspace == Cardinality(owned) <= 1

\* A sign-in that fails leaves neither a database nor a tenant behind it.
NothingLeftBehind ==
    personalLock = NobodySignsIn =>
        workspaceDbs \ abandoned = owned /\ registered \ abandoned = owned
=============================================================================
