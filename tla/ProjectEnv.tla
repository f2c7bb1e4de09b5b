----------------------------- MODULE ProjectEnv -----------------------------
(***************************************************************************)
(* The environment variables of one project (project_env.go): the rows of  *)
(* gonvex_project_env, the runtime's cache of them with its lifetime of    *)
(* thirty seconds, and the functions that are given the values.  The state *)
(* of the rows is the number of edits so far.                              *)
(***************************************************************************)
EXTENDS Integers

CONSTANTS MaxEdits,      \* bound on edits
          MaxEnvFaults   \* bound on failing reads

ASSUME EnvAssumption == MaxEdits \in Nat /\ MaxEnvFaults \in Nat

VARIABLES
    envRows,   \* edits in the registry
    envCache,  \* edits the cached values know, or None
    envFresh,  \* the entry is younger than projectEnvCacheTTL
    envLoads,  \* values read by loads that have not stored them yet
    editing,   \* a committed edit has not dropped the cache yet
    served,    \* edits the last function call has seen
    envFaults

envVars == <<envRows, envCache, envFresh, envLoads, editing, served, envFaults>>

None == -1

EnvOK ==
    /\ envRows \in 0..MaxEdits /\ envCache \in None..envRows /\ served \in 0..envRows
    /\ envFresh \in BOOLEAN /\ editing \in BOOLEAN
    /\ envLoads \subseteq 0..envRows

EnvInit ==
    /\ envRows = 0 /\ envCache = None /\ envFresh = FALSE /\ envLoads = {}
    /\ editing = FALSE /\ served = 0 /\ envFaults = 0

\* handleSetProjectEnv, handleBulkProjectEnv, handleDeleteProjectEnv: one
\* statement or one transaction.
EditEnv ==
    /\ envRows < MaxEdits /\ ~editing
    /\ envRows' = envRows + 1 /\ editing' = TRUE
    /\ UNCHANGED <<envCache, envFresh, envLoads, served, envFaults>>

\* Their deferred invalidateProjectEnvCache.
InvalidateEnv ==
    /\ editing /\ editing' = FALSE
    /\ envCache' = None /\ envFresh' = FALSE
    /\ UNCHANGED <<envRows, envLoads, served, envFaults>>

\* projectEnvValues joins the load in flight, so the cache is only looked at
\* when there is none.
EnvHit ==
    /\ envLoads = {} /\ envCache # None /\ envFresh
    /\ served' = envCache
    /\ UNCHANGED <<envRows, envCache, envFresh, envLoads, editing, envFaults>>

\* A miss reads the rows.
EnvLoad ==
    /\ envLoads = {} /\ ~(envCache # None /\ envFresh)
    /\ envLoads' = envLoads \cup {envRows}
    /\ UNCHANGED <<envRows, envCache, envFresh, editing, served, envFaults>>

\* The values become the entry, and those of the calls that waited.
EnvStore ==
    \E v \in envLoads :
        /\ envLoads' = envLoads \ {v}
        /\ envCache' = v /\ envFresh' = TRUE /\ served' = v
        /\ UNCHANGED <<envRows, editing, envFaults>>

\* The read failed: the entry the load saw, which is what was served last, is
\* used once more, however old, or the process environment if there was none.
EnvLoadFails ==
    /\ envLoads # {} /\ envFaults < MaxEnvFaults /\ envFaults' = envFaults + 1
    /\ envLoads' = {}
    /\ UNCHANGED <<envRows, envCache, envFresh, editing, served>>

\* projectEnvCacheTTL has passed.
EnvLapse ==
    /\ envFresh /\ envFresh' = FALSE
    /\ UNCHANGED <<envRows, envCache, envLoads, editing, served, envFaults>>

EnvNext ==
    \/ EditEnv \/ InvalidateEnv \/ EnvHit \/ EnvLoad \/ EnvStore \/ EnvLoadFails \/ EnvLapse

(***************************************************************************)
(* Properties                                                              *)
(***************************************************************************)

\* A project never loses an edit its functions have already worked with: no
\* later call is given older values, whatever load was under way when the edit
\* was written and the cache dropped.
EnvNeverGoesBack == [][served' >= served]_envVars

\* "dashboard edits apply on the next call" (project_env.go:42): once an edit has
\* been answered, no call is given the values before it.
EditAppliesNextCall ==
    [][served' # served /\ ~editing => served' = envRows]_envVars
=============================================================================
