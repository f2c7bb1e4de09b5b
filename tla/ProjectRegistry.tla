-------------------------- MODULE ProjectRegistry --------------------------
(***************************************************************************)
(* Projects of one runtime (projects.go): the row in the control plane's   *)
(* gonvex_runtime_projects, the entry in memory, the physical database and *)
(* the project key.  projectMu covers the handlers, but neither the read   *)
(* of the registry by hydrateProjects nor the writes that hydration and    *)
(* the listing of a synced project make after unlocking.                   *)
(*                                                                         *)
(* A key is a number: 0 none, 1 the one in the environment or in the       *)
(* developer's CLI, higher ones were generated.                            *)
(***************************************************************************)
EXTENDS Integers

CONSTANTS
    Project,
    Configured,        \* projects whose database and key are in the environment
    Synced,            \* projects that only arrive by a dev sync
    MaxKeys,           \* bound on generated keys
    MaxProjectFaults   \* bound on failing calls and restarts

ASSUME ProjectAssumption ==
    /\ Configured \subseteq Project /\ Synced \subseteq Project
    /\ MaxKeys \in Nat /\ MaxProjectFaults \in Nat

Dashboard == Project \ (Configured \cup Synced)

VARIABLES
    rows,      \* rows[p]: key in the registry row
    mem,       \* mem[p]: key in s.projects and config.ProjectKeys
    databases, \* projects whose database exists
    holder,    \* the handler in projectMu that has more than one step
    hyd,       \* hydrateProjects: "none", "loaded" or "persisted"
    snap,      \* the rows it has read
    saves,     \* registry writes under way without the lock
    lastKey,   \* keys generated so far
    listed,    \* projects whose creation was answered, until deleted
    retired,   \* retired[p]: keys replaced by an answered rotation
    retiredHere, \* the same, since the process started
    projectFaults

projectVars == <<rows, mem, databases, holder, hyd, snap, saves, lastKey, listed,
                 retired, retiredHere, projectFaults>>

NoRow == -1
Key == 0..(MaxKeys + 1)
Nothing == [p \in Project |-> NoRow]
Free == [at |-> "free", p |-> "none", key |-> 0]
Unlocked == holder = Free

ProjectsOK ==
    /\ rows \in [Project -> Key \cup {NoRow}] /\ mem \in [Project -> Key \cup {NoRow}]
    /\ databases \subseteq Project /\ listed \subseteq Dashboard
    /\ holder.at \in {"free", "createSave", "createOwner", "rotate", "deleteRow"}
    /\ hyd \in {"none", "loaded", "persisted"}
    /\ \A s \in saves : s.p \in Configured \cup Synced /\ s.key \in {0, 1}
    /\ \A p \in Project : retiredHere[p] \subseteq retired[p]

ProjectsInit ==
    /\ rows = Nothing /\ mem = Nothing /\ snap = Nothing
    /\ databases = Configured \cup Synced
    /\ holder = Free /\ hyd = "none" /\ saves = {} /\ lastKey = 1 /\ listed = {}
    /\ retired = [p \in Project |-> {}] /\ retiredHere = retired
    /\ projectFaults = 0

ProjectFault == projectFaults < MaxProjectFaults /\ projectFaults' = projectFaults + 1
NoProjectFault == UNCHANGED projectFaults
sameGhosts == UNCHANGED <<listed, retired, retiredHere>>

(***************************************************************************)
(* hydrateProjects, at the start and in front of most handlers.            *)
(***************************************************************************)

\* loadProjectRegistry, outside the lock; an error is swallowed.
HydrateLoad ==
    /\ hyd = "none"
    /\ \/ snap' = rows /\ NoProjectFault
       \/ snap' = Nothing /\ ProjectFault
    /\ hyd' = "loaded"
    /\ sameGhosts /\ UNCHANGED <<rows, mem, databases, holder, saves, lastKey>>

\* hydratePersistedProjects adds the projects memory does not have.
HydratePersisted ==
    /\ hyd = "loaded" /\ Unlocked
    /\ mem' = [p \in Project |-> IF mem[p] = NoRow THEN snap[p] ELSE mem[p]]
    /\ hyd' = "persisted" /\ snap' = Nothing
    /\ sameGhosts /\ NoProjectFault
    /\ UNCHANGED <<rows, databases, holder, saves, lastKey>>

\* hydrateConfiguredProjects adds the environment's, and saves them unlocked.
HydrateConfigured ==
    /\ hyd = "persisted" /\ Unlocked
    /\ LET imported == {p \in Configured : mem[p] = NoRow} IN
          /\ mem' = [p \in Project |-> IF p \in imported THEN 1 ELSE mem[p]]
          /\ saves' = saves \cup [p : imported, key : {1}]
    /\ hyd' = "none"
    /\ sameGhosts /\ NoProjectFault
    /\ UNCHANGED <<rows, databases, holder, snap, lastKey>>

\* saveProjectRegistry of such a project; its error is dropped.
SaveUnlocked(s) ==
    /\ s \in saves /\ saves' = saves \ {s}
    /\ \/ rows' = [rows EXCEPT ![s.p] = s.key] /\ NoProjectFault
       \/ UNCHANGED rows /\ ProjectFault
    /\ sameGhosts /\ UNCHANGED <<mem, databases, holder, hyd, snap, lastKey>>

\* ensureSyncedProjectListed after a dev sync with key k (or without one).
SyncListed(p, k) ==
    /\ p \in Synced /\ Unlocked
    /\ mem[p] = NoRow \/ (mem[p] = 0 /\ k # 0)
    /\ mem' = [mem EXCEPT ![p] = k]
    /\ saves' = saves \cup {[p |-> p, key |-> k]}
    /\ sameGhosts /\ NoProjectFault
    /\ UNCHANGED <<rows, databases, holder, hyd, snap, lastKey>>

(***************************************************************************)
(* The handlers, under projectMu.                                          *)
(***************************************************************************)

FreshKey == lastKey <= MaxKeys /\ lastKey' = lastKey + 1
Hold(at, p, k) == holder' = [at |-> at, p |-> p, key |-> k]
Release == holder' = Free

\* handleCreateProject: identifier, database, key and the entry in memory.
CreateProject(p) ==
    /\ p \in Dashboard /\ Unlocked
    /\ mem[p] = NoRow /\ rows[p] = NoRow /\ p \notin databases
    /\ FreshKey
    /\ databases' = databases \cup {p}
    /\ mem' = [mem EXCEPT ![p] = lastKey']
    /\ Hold("createSave", p, lastKey')
    /\ sameGhosts /\ NoProjectFault /\ UNCHANGED <<rows, hyd, snap, saves>>

\* The registry row; a failure takes everything back, except a row whose write
\* succeeded before the second statement of saveProjectRegistry failed.
CreateSave ==
    LET p == holder.p IN
    /\ holder.at = "createSave"
    /\ \/ /\ rows' = [rows EXCEPT ![p] = holder.key]
          /\ Hold("createOwner", p, holder.key)
          /\ NoProjectFault /\ UNCHANGED <<mem, databases>>
       \/ /\ rows' \in {rows, [rows EXCEPT ![p] = holder.key]}
          /\ databases' = databases \ {p}
          /\ mem' = [mem EXCEPT ![p] = NoRow]
          /\ Release /\ ProjectFault
    /\ sameGhosts /\ UNCHANGED <<hyd, snap, saves, lastKey>>

\* ensureProjectOwnerMember and the answer; a failure takes everything back.
CreateOwner ==
    LET p == holder.p IN
    /\ holder.at = "createOwner" /\ Release
    /\ \/ /\ listed' = listed \cup {p}
          /\ NoProjectFault /\ UNCHANGED <<rows, mem, databases>>
       \/ /\ rows' = [rows EXCEPT ![p] = NoRow]
          /\ databases' = databases \ {p}
          /\ mem' = [mem EXCEPT ![p] = NoRow]
          /\ ProjectFault /\ UNCHANGED listed
    /\ UNCHANGED <<retired, retiredHere, hyd, snap, saves, lastKey>>

\* handleUpdateProject writes the whole row, the key included.
UpdateProject(p) ==
    /\ Unlocked /\ mem[p] # NoRow
    /\ rows' = [rows EXCEPT ![p] = mem[p]]
    /\ sameGhosts /\ NoProjectFault
    /\ UNCHANGED <<mem, databases, holder, hyd, snap, saves, lastKey>>

\* handleProjectKey: a project without key gets one, in memory before the row.
ProjectKey(p) ==
    /\ Unlocked /\ mem[p] # NoRow
    /\ IF mem[p] # 0 THEN UNCHANGED <<mem, lastKey>>
       ELSE FreshKey /\ mem' = [mem EXCEPT ![p] = lastKey']
    /\ \/ rows' = [rows EXCEPT ![p] = mem'[p]] /\ NoProjectFault
       \/ UNCHANGED rows /\ ProjectFault
    /\ sameGhosts /\ UNCHANGED <<databases, holder, hyd, snap, saves>>

\* handleRotateProjectKey, persistProjectKey: exactly one row must be there.
RotateProjectKey(p) ==
    /\ Unlocked /\ mem[p] # NoRow /\ rows[p] # NoRow
    /\ FreshKey
    /\ rows' = [rows EXCEPT ![p] = lastKey']
    /\ Hold("rotate", p, lastKey')
    /\ sameGhosts /\ NoProjectFault
    /\ UNCHANGED <<mem, databases, hyd, snap, saves>>

\* The lookups in memory, and the answer.
RotateAnswered ==
    LET p == holder.p  old == {mem[p]} \ {0} IN
    /\ holder.at = "rotate" /\ Release
    /\ mem' = [mem EXCEPT ![p] = holder.key]
    /\ retired' = [retired EXCEPT ![p] = @ \cup old]
    /\ retiredHere' = [retiredHere EXCEPT ![p] = @ \cup old]
    /\ NoProjectFault
    /\ UNCHANGED <<rows, databases, hyd, snap, saves, lastKey, listed>>

\* handleDeleteProject: the databases first, then memory and the registry.
DeleteProject(p) ==
    /\ p \in Dashboard /\ Unlocked /\ mem[p] # NoRow
    /\ databases' = databases \ {p}
    /\ listed' = listed \ {p}
    /\ Hold("deleteRow", p, 0)
    /\ NoProjectFault
    /\ UNCHANGED <<rows, mem, retired, retiredHere, hyd, snap, saves, lastKey>>

DeleteRow ==
    LET p == holder.p IN
    /\ holder.at = "deleteRow" /\ Release
    /\ mem' = [mem EXCEPT ![p] = NoRow]
    /\ \/ rows' = [rows EXCEPT ![p] = NoRow] /\ NoProjectFault
       \/ UNCHANGED rows /\ ProjectFault
    /\ retired' = [retired EXCEPT ![p] = {}]
    /\ retiredHere' = [retiredHere EXCEPT ![p] = {}]
    /\ UNCHANGED <<databases, hyd, snap, saves, lastKey, listed>>

\* The process ends; the next one starts with the environment and the rows.
RestartProjects ==
    /\ ProjectFault
    /\ mem' = Nothing /\ snap' = Nothing /\ hyd' = "none" /\ saves' = {} /\ Release
    /\ retiredHere' = [p \in Project |-> {}]
    /\ UNCHANGED <<rows, databases, lastKey, listed, retired>>

ProjectsNext ==
    \/ HydrateLoad \/ HydratePersisted \/ HydrateConfigured
    \/ \E s \in saves : SaveUnlocked(s)
    \/ \E p \in Project :
          \/ (\E k \in {0, 1} : SyncListed(p, k))
          \/ CreateProject(p) \/ UpdateProject(p) \/ ProjectKey(p)
          \/ RotateProjectKey(p) \/ DeleteProject(p)
    \/ CreateSave \/ CreateOwner \/ RotateAnswered \/ DeleteRow
    \/ RestartProjects

(***************************************************************************)
(* Properties                                                              *)
(***************************************************************************)

\* As long as the process lives, a key it has replaced by a rotation opens
\* nothing again, whatever hydration that read the registry before the rotation
\* is applied after it, and whichever row another write has put back.
RotationSticks ==
    \A p \in Project : mem[p] \notin retiredHere[p]

\* A creation that was answered is durable: until somebody asks for its deletion
\* the project keeps its database and its row, through restarts, failing calls
\* and the writes of other handlers.
CreatedSurvives == \A p \in listed : p \in databases /\ rows[p] # NoRow

\* "a restart can never revive a retired credential" (projects.go:1101).
RetiredKeyRefused == \A p \in Project : mem[p] \notin retired[p]
=============================================================================
