--------------------------- MODULE PlatformProofs ---------------------------
(***************************************************************************)
(* The projects, the environment and the accounts of MCPlatform, for any   *)
(* sets of projects, tabs, users, requests, admins, clients and handlers   *)
(* and any bounds.  No two parts change the same state, so each has an     *)
(* inductive invariant of its own: what a handler still has to do rests on *)
(* what is there, and whoever holds a lock is the only one at its steps.   *)
(***************************************************************************)
EXTENDS MCPlatform, FiniteSetTheorems, TLAPS

-----------------------------------------------------------------------------
(* The projects and their keys.                                             *)

Given == 0..lastKey
SaveType == [p : Configured \cup Synced, key : {0, 1}]

\* Keys are numbered as they are generated; nothing holds one that was not.
RegistryTypes ==
    /\ lastKey \in 1..(MaxKeys + 1)
    /\ rows \in [Project -> Given \cup {NoRow}] /\ mem \in [Project -> Given \cup {NoRow}]
    /\ snap \in [Project -> Given \cup {NoRow}]
    /\ databases \subseteq Project /\ listed \subseteq Dashboard /\ saves \subseteq SaveType
    /\ hyd \in {"none", "loaded", "persisted"}
    /\ holder.at \in {"free", "createSave", "createOwner", "rotate", "deleteRow"}
    /\ holder.at # "free" => holder.p \in Project /\ holder.key \in Given
    /\ retired \in [Project -> SUBSET Nat] /\ retiredHere \in [Project -> SUBSET Nat]
    /\ \A p \in Project : retiredHere[p] \subseteq 1..lastKey /\ retiredHere[p] \subseteq retired[p]

\* Where memory has no key no rotation was answered, so what a hydration brings
\* there cannot be retired.
OnlyReplaced == \A p \in Project : mem[p] \in {NoRow, 0} => retiredHere[p] = {}

\* What the handler in projectMu still has to do rests on what is there.
RegistryHolderOK ==
    /\ holder.at \in {"createSave", "createOwner"} =>
          /\ holder.p \in Dashboard \ listed /\ holder.p \in databases
          /\ retiredHere[holder.p] = {}
    /\ holder.at = "createOwner" => rows[holder.p] # NoRow
    /\ holder.at = "rotate" =>
          /\ mem[holder.p] # NoRow /\ mem[holder.p] # holder.key
          /\ holder.key \notin retiredHere[holder.p] /\ holder.key > 1
    /\ holder.at = "deleteRow" => holder.p \notin listed

RegistryInv ==
    /\ RegistryTypes
    /\ RotationSticks /\ OnlyReplaced /\ CreatedSurvives /\ RegistryHolderOK

LEMMA RegistryIsSound ==
    ASSUME RegistryInv
    PROVE  ProjectsOK /\ RotationSticks /\ CreatedSurvives
<1>1. Given \subseteq Key
  BY ProjectAssumption DEF RegistryInv, RegistryTypes, Given, Key
<1>2. rows \in [Project -> Key \cup {NoRow}] /\ mem \in [Project -> Key \cup {NoRow}]
  BY <1>1 DEF RegistryInv, RegistryTypes
<1>3. \A s \in saves : s.p \in Configured \cup Synced /\ s.key \in {0, 1}
  BY DEF RegistryInv, RegistryTypes, SaveType
<1> QED
  BY <1>2, <1>3 DEF RegistryInv, RegistryTypes, ProjectsOK

LEMMA RegistryBegins ==
    ASSUME ProjectsInit
    PROVE  RegistryInv
<1>1. /\ lastKey = 1 /\ 1 \in 1..(MaxKeys + 1) /\ Given = 0..1 /\ NoRow \notin Given
      /\ \A p \in Project : Nothing[p] = NoRow
      /\ Nothing \in [Project -> Given \cup {NoRow}]
  BY ProjectAssumption DEF ProjectsInit, Given, NoRow, Nothing
<1>2. \A p \in Project : retired[p] = {} /\ retiredHere[p] = {}
  BY DEF ProjectsInit
<1>3. retired \in [Project -> SUBSET Nat] /\ retiredHere \in [Project -> SUBSET Nat]
  BY DEF ProjectsInit
<1>4. RegistryTypes
  BY <1>1, <1>2, <1>3, ProjectAssumption DEF ProjectsInit, RegistryTypes, Free
<1> QED
  BY <1>1, <1>2, <1>4
     DEF ProjectsInit, RegistryInv, RotationSticks, OnlyReplaced, CreatedSurvives,
         RegistryHolderOK, Free

-----------------------------------------------------------------------------
\* A key that is generated is new.
LEMMA FreshKeyIs ==
    ASSUME RegistryInv, FreshKey
    PROVE  /\ lastKey' \in 1..(MaxKeys + 1) /\ Given' = Given \cup {lastKey'}
           /\ lastKey' \notin Given /\ lastKey' > 1 /\ lastKey' # NoRow
           /\ \A p \in Project : /\ mem[p] # lastKey' /\ lastKey' \notin retiredHere[p]
                                 /\ retiredHere[p] \subseteq 1..lastKey'
<1>1. /\ lastKey \in 1..(MaxKeys + 1) /\ MaxKeys \in Nat /\ lastKey' = lastKey + 1
      /\ lastKey <= MaxKeys
  BY ProjectAssumption DEF RegistryInv, RegistryTypes, FreshKey
<1>2. /\ lastKey' \in 1..(MaxKeys + 1) /\ Given' = Given \cup {lastKey'}
      /\ lastKey' \notin Given /\ lastKey' > 1 /\ lastKey' # NoRow
      /\ 1..lastKey \subseteq 1..lastKey' /\ lastKey' \notin 1..lastKey
  BY <1>1 DEF Given, NoRow
<1> QED
  BY <1>2 DEF RegistryInv, RegistryTypes

\* Hydration.
LEMMA HydrationKeeps ==
    ASSUME RegistryInv, HydrateLoad \/ HydratePersisted \/ HydrateConfigured
    PROVE  RegistryInv'
<1>1. /\ NoRow \notin Given /\ 0 \in Given /\ 1 \in Given /\ NoRow # 0
  BY DEF RegistryInv, RegistryTypes, Given, NoRow
<1>2. CASE HydrateLoad
  <2>1. Nothing \in [Project -> Given \cup {NoRow}]
    BY DEF Nothing
  <2>2. /\ snap' \in {rows, Nothing} /\ hyd' = "loaded"
        /\ UNCHANGED <<listed, retired, retiredHere, rows, mem, databases, holder, saves, lastKey>>
    BY <1>2 DEF HydrateLoad, sameGhosts
  <2> QED
    BY <2>1, <2>2 DEF RegistryInv, RegistryTypes, RotationSticks, OnlyReplaced, CreatedSurvives,
                      RegistryHolderOK, Given
<1>3. ASSUME holder = Free, UNCHANGED <<listed, retired, retiredHere, rows, databases, holder,
                                        lastKey>>,
             mem' \in [Project -> Given \cup {NoRow}], snap' \in [Project -> Given \cup {NoRow}],
             hyd' \in {"none", "loaded", "persisted"}, saves' \subseteq SaveType,
             \A p \in Project : mem[p] # NoRow => mem'[p] = mem[p]
      PROVE  RegistryInv'
  <2>1. \A p \in Project : mem[p] = NoRow => retiredHere[p] = {}
    BY DEF RegistryInv, OnlyReplaced
  <2>2. RegistryTypes'
    BY <1>3 DEF RegistryInv, RegistryTypes, Given
  <2>3. RotationSticks' /\ OnlyReplaced'
    BY <1>3, <2>1 DEF RegistryInv, RotationSticks, OnlyReplaced
  <2> QED
    BY <1>3, <2>2, <2>3 DEF RegistryInv, CreatedSurvives, RegistryHolderOK, Free
<1>4. CASE HydratePersisted
  <2>1. /\ holder = Free
        /\ mem' = [p \in Project |-> IF mem[p] = NoRow THEN snap[p] ELSE mem[p]]
        /\ hyd' = "persisted" /\ snap' = Nothing
        /\ UNCHANGED <<listed, retired, retiredHere, rows, databases, holder, saves, lastKey>>
    BY <1>4 DEF HydratePersisted, Unlocked, sameGhosts
  <2>2. mem' \in [Project -> Given \cup {NoRow}] /\ saves' \subseteq SaveType
    BY <2>1 DEF RegistryInv, RegistryTypes
  <2>3. snap' \in [Project -> Given \cup {NoRow}]
    BY <2>1 DEF Nothing
  <2> QED
    BY <1>3, <2>1, <2>2, <2>3
<1>5. CASE HydrateConfigured
  <2> DEFINE imported == {p \in Configured : mem[p] = NoRow}
  <2>1. /\ holder = Free
        /\ mem' = [p \in Project |-> IF p \in imported THEN 1 ELSE mem[p]]
        /\ saves' = saves \cup [p : imported, key : {1}]
        /\ hyd' = "none"
        /\ UNCHANGED <<listed, retired, retiredHere, rows, databases, holder, snap, lastKey>>
    BY <1>5 DEF HydrateConfigured, Unlocked, sameGhosts
  <2>2. [p : imported, key : {1}] \subseteq SaveType
    BY DEF SaveType
  <2>3. \A p \in imported : mem[p] = NoRow
    OBVIOUS
  <2> HIDE DEF imported
  <2>4. mem' \in [Project -> Given \cup {NoRow}] /\ saves' \subseteq SaveType
        /\ snap' \in [Project -> Given \cup {NoRow}]
    BY <1>1, <2>1, <2>2 DEF RegistryInv, RegistryTypes
  <2>5. \A p \in Project : mem[p] # NoRow => mem'[p] = mem[p]
    BY <2>1, <2>3
  <2> QED
    BY <1>3, <2>1, <2>4, <2>5
<1> QED
  BY <1>2, <1>4, <1>5

\* A row, or a memory entry without a key, gets one.
LEMMA SavingKeeps ==
    ASSUME RegistryInv, NEW p \in Project,
           \/ \E s \in saves : SaveUnlocked(s)
           \/ \E k \in {0, 1} : SyncListed(p, k)
           \/ UpdateProject(p) \/ ProjectKey(p)
    PROVE  RegistryInv'
<1>1. /\ NoRow \notin Given /\ 0 \in Given /\ 1 \in Given /\ NoRow # 0 /\ NoRow # 1
  BY DEF RegistryInv, RegistryTypes, Given, NoRow
<1>2. ASSUME NEW s \in saves, SaveUnlocked(s)
      PROVE  RegistryInv'
  <2>1. s.p \in Project /\ s.key \in Given
    BY <1>1, ProjectAssumption DEF RegistryInv, RegistryTypes, SaveType
  <2>2. /\ saves' = saves \ {s} /\ rows' \in {rows, [rows EXCEPT ![s.p] = s.key]}
        /\ UNCHANGED <<listed, retired, retiredHere, mem, databases, holder, hyd, snap, lastKey>>
    BY <1>2 DEF SaveUnlocked, sameGhosts
  <2>3. /\ rows' \in [Project -> Given \cup {NoRow}]
        /\ \A x \in Project : rows[x] # NoRow => rows'[x] # NoRow
    BY <1>1, <2>1, <2>2 DEF RegistryInv, RegistryTypes
  <2>4. RegistryTypes'
    BY <2>2, <2>3 DEF RegistryInv, RegistryTypes, Given
  <2>5. CreatedSurvives' /\ RegistryHolderOK'
    BY <2>2, <2>3 DEF RegistryInv, RegistryTypes, CreatedSurvives, RegistryHolderOK, Dashboard
  <2> QED
    BY <2>2, <2>4, <2>5 DEF RegistryInv, RotationSticks, OnlyReplaced
<1>3. ASSUME NEW k \in {0, 1}, SyncListed(p, k)
      PROVE  RegistryInv'
  <2>1. /\ p \in Synced /\ holder = Free /\ mem[p] \in {NoRow, 0}
        /\ mem' = [mem EXCEPT ![p] = k] /\ saves' = saves \cup {[p |-> p, key |-> k]}
        /\ UNCHANGED <<listed, retired, retiredHere, rows, databases, holder, hyd, snap, lastKey>>
    BY <1>3 DEF SyncListed, Unlocked, sameGhosts
  <2>2. retiredHere[p] = {}
    BY <2>1 DEF RegistryInv, OnlyReplaced
  <2>3. /\ mem' \in [Project -> Given \cup {NoRow}] /\ mem'[p] = k
        /\ \A x \in Project \ {p} : mem'[x] = mem[x]
    BY <1>1, <2>1 DEF RegistryInv, RegistryTypes
  <2>4. saves' \subseteq SaveType
    BY <2>1 DEF RegistryInv, RegistryTypes, SaveType
  <2>5. RegistryTypes'
    BY <2>1, <2>3, <2>4 DEF RegistryInv, RegistryTypes, Given
  <2>6. RotationSticks' /\ OnlyReplaced'
    BY <2>1, <2>2, <2>3 DEF RegistryInv, RotationSticks, OnlyReplaced
  <2> QED
    BY <2>1, <2>5, <2>6 DEF RegistryInv, CreatedSurvives, RegistryHolderOK, Free
<1>4. CASE UpdateProject(p)
  <2>1. /\ holder = Free /\ mem[p] # NoRow /\ rows' = [rows EXCEPT ![p] = mem[p]]
        /\ UNCHANGED <<listed, retired, retiredHere, mem, databases, holder, hyd, snap, saves,
                       lastKey>>
    BY <1>4 DEF UpdateProject, Unlocked, sameGhosts
  <2>2. /\ rows' \in [Project -> Given \cup {NoRow}]
        /\ \A x \in Project : rows[x] # NoRow => rows'[x] # NoRow
    BY <2>1 DEF RegistryInv, RegistryTypes
  <2>3. RegistryTypes'
    BY <2>1, <2>2 DEF RegistryInv, RegistryTypes, Given
  <2>4. CreatedSurvives'
    BY <2>1, <2>2 DEF RegistryInv, RegistryTypes, CreatedSurvives, Dashboard
  <2> QED
    BY <2>1, <2>3, <2>4 DEF RegistryInv, RotationSticks, OnlyReplaced, RegistryHolderOK, Free
<1>5. CASE ProjectKey(p)
  <2>1. /\ holder = Free /\ mem[p] # NoRow
        /\ mem[p] # 0 => mem' = mem /\ lastKey' = lastKey
        /\ mem[p] = 0 => FreshKey /\ mem' = [mem EXCEPT ![p] = lastKey']
        /\ rows' \in {rows, [rows EXCEPT ![p] = mem'[p]]}
        /\ UNCHANGED <<listed, retired, retiredHere, databases, holder, hyd, snap, saves>>
    BY <1>5 DEF ProjectKey, Unlocked, sameGhosts
  <2>2. /\ lastKey' \in 1..(MaxKeys + 1) /\ Given \subseteq Given'
        /\ mem' \in [Project -> Given' \cup {NoRow}] /\ mem'[p] \in Given' /\ mem'[p] # NoRow
        /\ mem'[p] \notin retiredHere[p] /\ mem'[p] # 0
        /\ \A x \in Project \ {p} : mem'[x] = mem[x]
        /\ \A x \in Project : retiredHere[x] \subseteq 1..lastKey'
    <3>1. CASE mem[p] # 0
      <4>1. Given' = Given /\ mem' = mem /\ lastKey' = lastKey
        BY <2>1, <3>1 DEF Given
      <4> QED
        BY <2>1, <3>1, <4>1 DEF RegistryInv, RegistryTypes, RotationSticks
    <3>2. CASE mem[p] = 0
      BY <1>1, <2>1, <3>2, FreshKeyIs DEF RegistryInv, RegistryTypes
    <3> QED
      BY <3>1, <3>2
  <2>3. /\ rows' \in [Project -> Given' \cup {NoRow}]
        /\ \A x \in Project : rows[x] # NoRow => rows'[x] # NoRow
    BY <2>1, <2>2 DEF RegistryInv, RegistryTypes
  <2>4. snap' \in [Project -> Given' \cup {NoRow}]
    BY <2>1, <2>2 DEF RegistryInv, RegistryTypes
  <2>5. RegistryTypes'
    BY <2>1, <2>2, <2>3, <2>4 DEF RegistryInv, RegistryTypes, Free
  <2>6. RotationSticks' /\ OnlyReplaced'
    BY <2>1, <2>2 DEF RegistryInv, RotationSticks, OnlyReplaced
  <2>7. CreatedSurvives'
    BY <2>1, <2>3 DEF RegistryInv, RegistryTypes, CreatedSurvives, Dashboard
  <2> QED
    BY <2>1, <2>5, <2>6, <2>7 DEF RegistryInv, RegistryHolderOK, Free
<1> QED
  BY <1>2, <1>3, <1>4, <1>5

\* A project is created: nobody has a key of it that was replaced.
LEMMA CreatingKeeps ==
    ASSUME RegistryInv, (\E p \in Project : CreateProject(p)) \/ CreateSave \/ CreateOwner
    PROVE  RegistryInv'
<1>1. /\ NoRow \notin Given /\ 0 \in Given /\ NoRow # 0
  BY DEF RegistryInv, RegistryTypes, Given, NoRow
<1>2. ASSUME NEW p \in Project, CreateProject(p)
      PROVE  RegistryInv'
  <2>1. /\ p \in Dashboard /\ holder = Free /\ mem[p] = NoRow /\ p \notin databases /\ FreshKey
        /\ databases' = databases \cup {p} /\ mem' = [mem EXCEPT ![p] = lastKey']
        /\ holder' = [at |-> "createSave", p |-> p, key |-> lastKey']
        /\ UNCHANGED <<listed, retired, retiredHere, rows, hyd, snap, saves>>
    BY <1>2 DEF CreateProject, Unlocked, Hold, sameGhosts
  <2>2. /\ holder'.at = "createSave" /\ holder'.p = p /\ holder'.key = lastKey'
    BY <2>1
  <2>3. /\ lastKey' \in 1..(MaxKeys + 1) /\ Given' = Given \cup {lastKey'}
        /\ lastKey' > 1 /\ lastKey' # NoRow /\ lastKey' # 0
        /\ \A x \in Project : retiredHere[x] \subseteq 1..lastKey'
    BY <1>1, <2>1, FreshKeyIs
  <2>4. retiredHere[p] = {} /\ p \notin listed
    BY <2>1 DEF RegistryInv, OnlyReplaced, CreatedSurvives
  <2>5. /\ mem' \in [Project -> Given' \cup {NoRow}] /\ mem'[p] = lastKey'
        /\ \A x \in Project \ {p} : mem'[x] = mem[x]
    BY <2>1, <2>3 DEF RegistryInv, RegistryTypes
  <2>6. rows' \in [Project -> Given' \cup {NoRow}] /\ snap' \in [Project -> Given' \cup {NoRow}]
    BY <2>1, <2>3 DEF RegistryInv, RegistryTypes
  <2>7. RegistryTypes'
    BY <2>1, <2>2, <2>3, <2>5, <2>6 DEF RegistryInv, RegistryTypes
  <2>8. RotationSticks' /\ OnlyReplaced'
    BY <2>1, <2>3, <2>4, <2>5 DEF RegistryInv, RotationSticks, OnlyReplaced
  <2>9. CreatedSurvives' /\ RegistryHolderOK'
    BY <2>1, <2>2, <2>4 DEF RegistryInv, CreatedSurvives, RegistryHolderOK
  <2> QED
    BY <2>7, <2>8, <2>9 DEF RegistryInv
<1>3. ASSUME NEW p \in Project, holder.p = p, holder.at \in {"createSave", "createOwner"},
             rows' \in [Project -> Given \cup {NoRow}],
             \A x \in Project \ {p} : rows'[x] = rows[x],
             databases' = databases \ {p}, mem' = [mem EXCEPT ![p] = NoRow], holder' = Free,
             UNCHANGED <<listed, retired, retiredHere, hyd, snap, saves, lastKey>>
      PROVE  RegistryInv'
  <2>1. p \notin listed /\ retiredHere[p] = {}
    BY <1>3 DEF RegistryInv, RegistryHolderOK
  <2>2. /\ mem' \in [Project -> Given \cup {NoRow}] /\ mem'[p] = NoRow
        /\ \A x \in Project \ {p} : mem'[x] = mem[x]
    BY <1>3 DEF RegistryInv, RegistryTypes
  <2>3. RegistryTypes'
    BY <1>3, <2>2 DEF RegistryInv, RegistryTypes, Free, Given
  <2>4. RotationSticks' /\ OnlyReplaced'
    BY <1>3, <2>1, <2>2 DEF RegistryInv, RotationSticks, OnlyReplaced
  <2>5. CreatedSurvives'
    BY <1>3, <2>1 DEF RegistryInv, RegistryTypes, CreatedSurvives, Dashboard
  <2> QED
    BY <1>3, <2>3, <2>4, <2>5 DEF RegistryInv, RegistryHolderOK, Free
<1>4. CASE CreateSave
  <2>1. PICK p \in Project : p = holder.p
    BY <1>4 DEF CreateSave, RegistryInv, RegistryTypes
  <2>2. holder.at = "createSave" /\ holder.key \in Given
    BY <1>4 DEF CreateSave, RegistryInv, RegistryTypes
  <2>3. [rows EXCEPT ![p] = holder.key] \in [Project -> Given \cup {NoRow}]
    BY <2>2 DEF RegistryInv, RegistryTypes
  <2>4. CASE /\ rows' = [rows EXCEPT ![p] = holder.key]
             /\ holder' = [at |-> "createOwner", p |-> p, key |-> holder.key]
             /\ UNCHANGED <<mem, databases, listed, retired, retiredHere, hyd, snap, saves,
                            lastKey>>
    <3>1. /\ rows' \in [Project -> Given \cup {NoRow}] /\ rows'[p] # NoRow
          /\ \A x \in Project : rows[x] # NoRow => rows'[x] # NoRow
      BY <1>1, <2>2, <2>3, <2>4 DEF RegistryInv, RegistryTypes
    <3>2. /\ holder'.at = "createOwner" /\ holder'.p = p /\ holder'.key = holder.key
      BY <2>4
    <3>3. RegistryTypes'
      BY <2>2, <2>4, <3>1, <3>2 DEF RegistryInv, RegistryTypes, Given
    <3>4. CreatedSurvives'
      BY <2>4, <3>1 DEF RegistryInv, RegistryTypes, CreatedSurvives, Dashboard
    <3>5. RegistryHolderOK'
      BY <2>1, <2>2, <2>4, <3>1, <3>2 DEF RegistryInv, RegistryHolderOK
    <3> QED
      BY <2>4, <3>3, <3>4, <3>5 DEF RegistryInv, RotationSticks, OnlyReplaced
  <2>5. CASE /\ rows' \in {rows, [rows EXCEPT ![p] = holder.key]}
             /\ databases' = databases \ {p} /\ mem' = [mem EXCEPT ![p] = NoRow] /\ holder' = Free
             /\ UNCHANGED <<listed, retired, retiredHere, hyd, snap, saves, lastKey>>
    <3>1. /\ rows' \in [Project -> Given \cup {NoRow}]
          /\ \A x \in Project \ {p} : rows'[x] = rows[x]
      BY <2>3, <2>5 DEF RegistryInv, RegistryTypes
    <3> QED
      BY <1>3, <2>1, <2>2, <2>5, <3>1
  <2> QED
    BY <1>4, <2>1, <2>4, <2>5 DEF CreateSave, Hold, Release, sameGhosts
<1>5. CASE CreateOwner
  <2>1. PICK p \in Project : p = holder.p
    BY <1>5 DEF CreateOwner, RegistryInv, RegistryTypes
  <2>2. /\ holder.at = "createOwner" /\ holder' = Free
    BY <1>5 DEF CreateOwner, Release
  <2>3. CASE /\ listed' = listed \cup {p}
             /\ UNCHANGED <<rows, mem, databases, retired, retiredHere, hyd, snap, saves, lastKey>>
    <3>1. p \in Dashboard /\ p \in databases /\ rows[p] # NoRow
      BY <2>1, <2>2 DEF RegistryInv, RegistryHolderOK
    <3>2. RegistryTypes'
      BY <2>2, <2>3, <3>1 DEF RegistryInv, RegistryTypes, Given, Free
    <3>3. CreatedSurvives'
      BY <2>3, <3>1 DEF RegistryInv, CreatedSurvives
    <3> QED
      BY <2>2, <2>3, <3>2, <3>3
         DEF RegistryInv, RotationSticks, OnlyReplaced, RegistryHolderOK, Free
  <2>4. CASE /\ rows' = [rows EXCEPT ![p] = NoRow]
             /\ databases' = databases \ {p} /\ mem' = [mem EXCEPT ![p] = NoRow]
             /\ UNCHANGED <<listed, retired, retiredHere, hyd, snap, saves, lastKey>>
    <3>1. /\ rows' \in [Project -> Given \cup {NoRow}]
          /\ \A x \in Project \ {p} : rows'[x] = rows[x]
      BY <2>4 DEF RegistryInv, RegistryTypes
    <3> QED
      BY <1>3, <2>1, <2>2, <2>4, <3>1
  <2> QED
    BY <1>5, <2>1, <2>3, <2>4 DEF CreateOwner
<1> QED
  BY <1>2, <1>4, <1>5

\* A rotation: the new key replaces the old one in memory, and was never retired.
LEMMA RotatingKeeps ==
    ASSUME RegistryInv, (\E p \in Project : RotateProjectKey(p)) \/ RotateAnswered
    PROVE  RegistryInv'
<1>1. /\ NoRow \notin Given /\ 0 \in Given /\ NoRow # 0 /\ \A k \in Given : k # NoRow
  BY DEF RegistryInv, RegistryTypes, Given, NoRow
<1>2. ASSUME NEW p \in Project, RotateProjectKey(p)
      PROVE  RegistryInv'
  <2>1. /\ holder = Free /\ mem[p] # NoRow /\ FreshKey
        /\ rows' = [rows EXCEPT ![p] = lastKey']
        /\ holder' = [at |-> "rotate", p |-> p, key |-> lastKey']
        /\ UNCHANGED <<listed, retired, retiredHere, mem, databases, hyd, snap, saves>>
    BY <1>2 DEF RotateProjectKey, Unlocked, Hold, sameGhosts
  <2>2. /\ holder'.at = "rotate" /\ holder'.p = p /\ holder'.key = lastKey'
    BY <2>1
  <2>3. /\ lastKey' \in 1..(MaxKeys + 1) /\ Given' = Given \cup {lastKey'}
        /\ lastKey' > 1 /\ lastKey' # NoRow
        /\ \A x \in Project : /\ mem[x] # lastKey' /\ lastKey' \notin retiredHere[x]
                              /\ retiredHere[x] \subseteq 1..lastKey'
    BY <2>1, FreshKeyIs
  <2>4. /\ rows' \in [Project -> Given' \cup {NoRow}]
        /\ \A x \in Project : rows[x] # NoRow => rows'[x] # NoRow
    BY <2>1, <2>3 DEF RegistryInv, RegistryTypes
  <2>5. mem' \in [Project -> Given' \cup {NoRow}] /\ snap' \in [Project -> Given' \cup {NoRow}]
    BY <2>1, <2>3 DEF RegistryInv, RegistryTypes
  <2>6. RegistryTypes'
    BY <2>1, <2>2, <2>3, <2>4, <2>5 DEF RegistryInv, RegistryTypes
  <2>7. CreatedSurvives'
    BY <2>1, <2>4 DEF RegistryInv, RegistryTypes, CreatedSurvives, Dashboard
  <2>8. RegistryHolderOK'
    BY <2>1, <2>2, <2>3 DEF RegistryHolderOK
  <2> QED
    BY <2>1, <2>6, <2>7, <2>8 DEF RegistryInv, RotationSticks, OnlyReplaced
<1>3. CASE RotateAnswered
  <2>1. PICK p \in Project : p = holder.p
    BY <1>3 DEF RotateAnswered, RegistryInv, RegistryTypes
  <2>2. PICK k \in Given : k = holder.key
    BY <1>3 DEF RotateAnswered, RegistryInv, RegistryTypes
  <2>3. PICK old : old = {mem[p]} \ {0}
    OBVIOUS
  <2>4. /\ holder.at = "rotate" /\ holder' = Free /\ mem' = [mem EXCEPT ![p] = k]
        /\ retired' = [retired EXCEPT ![p] = @ \cup old]
        /\ retiredHere' = [retiredHere EXCEPT ![p] = @ \cup old]
        /\ UNCHANGED <<rows, databases, hyd, snap, saves, lastKey, listed>>
    BY <1>3, <2>1, <2>2, <2>3 DEF RotateAnswered, Release
  <2>5. mem[p] # NoRow /\ mem[p] # k /\ k \notin retiredHere[p] /\ k > 1
    BY <2>1, <2>2, <2>4 DEF RegistryInv, RegistryHolderOK
  <2>6. k \notin {NoRow, 0} /\ k \notin old
    BY <1>1, <2>2, <2>3, <2>5
  <2>7. old \subseteq 1..lastKey /\ 1..lastKey \subseteq Nat
    <3>1. mem[p] \in Given
      BY <2>5 DEF RegistryInv, RegistryTypes
    <3> QED
      BY <2>3, <3>1 DEF RegistryInv, RegistryTypes, Given
  <2>8. /\ mem' \in [Project -> Given \cup {NoRow}] /\ mem'[p] = k
        /\ \A x \in Project \ {p} : mem'[x] = mem[x]
    BY <2>2, <2>4 DEF RegistryInv, RegistryTypes
  <2>9. /\ retired'[p] = retired[p] \cup old /\ retiredHere'[p] = retiredHere[p] \cup old
        /\ \A x \in Project \ {p} : retired'[x] = retired[x] /\ retiredHere'[x] = retiredHere[x]
    BY <2>4 DEF RegistryInv, RegistryTypes
  <2>10. retired' \in [Project -> SUBSET Nat] /\ retiredHere' \in [Project -> SUBSET Nat]
    <3>1. retired[p] \cup old \in SUBSET Nat /\ retiredHere[p] \cup old \in SUBSET Nat
      BY <2>7 DEF RegistryInv, RegistryTypes
    <3> QED
      BY <2>4, <3>1 DEF RegistryInv, RegistryTypes
  <2>11. \A x \in Project :
            retiredHere'[x] \subseteq 1..lastKey /\ retiredHere'[x] \subseteq retired'[x]
    BY <2>7, <2>9 DEF RegistryInv, RegistryTypes
  <2>12. RegistryTypes'
    BY <2>4, <2>8, <2>10, <2>11 DEF RegistryInv, RegistryTypes, Free, Given
  <2>13. RotationSticks' /\ OnlyReplaced'
    BY <2>5, <2>6, <2>8, <2>9 DEF RegistryInv, RotationSticks, OnlyReplaced
  <2> QED
    BY <2>4, <2>12, <2>13 DEF RegistryInv, CreatedSurvives, RegistryHolderOK, Free
<1> QED
  BY <1>2, <1>3

\* A deletion, or the end of the process, forgets what was retired.
LEMMA ForgettingKeeps ==
    ASSUME RegistryInv, (\E p \in Project : DeleteProject(p)) \/ DeleteRow \/ RestartProjects
    PROVE  RegistryInv'
<1>1. 0 \in Given
  BY DEF RegistryInv, RegistryTypes, Given
<1>2. ASSUME NEW p \in Project, DeleteProject(p)
      PROVE  RegistryInv'
  <2>1. /\ databases' = databases \ {p} /\ listed' = listed \ {p}
        /\ holder' = [at |-> "deleteRow", p |-> p, key |-> 0]
        /\ UNCHANGED <<rows, mem, retired, retiredHere, hyd, snap, saves, lastKey>>
    BY <1>2 DEF DeleteProject, Hold
  <2>2. /\ holder'.at = "deleteRow" /\ holder'.p = p /\ holder'.key = 0
    BY <2>1
  <2>3. RegistryTypes'
    BY <1>1, <2>1, <2>2 DEF RegistryInv, RegistryTypes, Given
  <2>4. CreatedSurvives' /\ RegistryHolderOK'
    BY <2>1, <2>2 DEF RegistryInv, CreatedSurvives, RegistryHolderOK
  <2> QED
    BY <2>1, <2>3, <2>4 DEF RegistryInv, RotationSticks, OnlyReplaced
<1>3. CASE DeleteRow
  <2>1. PICK p \in Project : p = holder.p
    BY <1>3 DEF DeleteRow, RegistryInv, RegistryTypes
  <2>2. /\ holder.at = "deleteRow" /\ holder' = Free /\ mem' = [mem EXCEPT ![p] = NoRow]
        /\ rows' \in {rows, [rows EXCEPT ![p] = NoRow]}
        /\ retired' = [retired EXCEPT ![p] = {}] /\ retiredHere' = [retiredHere EXCEPT ![p] = {}]
        /\ UNCHANGED <<databases, hyd, snap, saves, lastKey, listed>>
    BY <1>3, <2>1 DEF DeleteRow, Release
  <2>3. p \notin listed
    BY <2>1, <2>2 DEF RegistryInv, RegistryHolderOK
  <2>4. /\ mem' \in [Project -> Given \cup {NoRow}] /\ rows' \in [Project -> Given \cup {NoRow}]
        /\ \A x \in Project \ {p} : mem'[x] = mem[x] /\ rows'[x] = rows[x]
    BY <2>2 DEF RegistryInv, RegistryTypes
  <2>5. /\ retired' \in [Project -> SUBSET Nat] /\ retiredHere' \in [Project -> SUBSET Nat]
        /\ retired'[p] = {} /\ retiredHere'[p] = {}
        /\ \A x \in Project \ {p} : retired'[x] = retired[x] /\ retiredHere'[x] = retiredHere[x]
    BY <2>2 DEF RegistryInv, RegistryTypes
  <2>6. RegistryTypes'
    BY <2>2, <2>4, <2>5 DEF RegistryInv, RegistryTypes, Free, Given
  <2>7. RotationSticks' /\ OnlyReplaced'
    BY <2>4, <2>5 DEF RegistryInv, RotationSticks, OnlyReplaced
  <2>8. CreatedSurvives'
    BY <2>2, <2>3, <2>4 DEF RegistryInv, RegistryTypes, CreatedSurvives, Dashboard
  <2> QED
    BY <2>2, <2>6, <2>7, <2>8 DEF RegistryInv, RegistryHolderOK, Free
<1>4. CASE RestartProjects
  <2>1. /\ mem' = Nothing /\ snap' = Nothing /\ hyd' = "none" /\ saves' = {} /\ holder' = Free
        /\ retiredHere' = [p \in Project |-> {}]
        /\ UNCHANGED <<rows, databases, lastKey, listed, retired>>
    BY <1>4 DEF RestartProjects, Release
  <2>2. /\ mem' \in [Project -> Given \cup {NoRow}] /\ snap' \in [Project -> Given \cup {NoRow}]
    BY <2>1 DEF Nothing
  <2>3. retiredHere' \in [Project -> SUBSET Nat] /\ \A p \in Project : retiredHere'[p] = {}
    BY <2>1
  <2>4. RegistryTypes'
    BY <2>1, <2>2, <2>3 DEF RegistryInv, RegistryTypes, Free, Given
  <2> QED
    BY <2>1, <2>3, <2>4
       DEF RegistryInv, RotationSticks, OnlyReplaced, CreatedSurvives, RegistryHolderOK, Free
<1> QED
  BY <1>2, <1>3, <1>4

LEMMA RegistryGoesOn ==
    ASSUME RegistryInv, ProjectsNext \/ UNCHANGED projectVars
    PROVE  RegistryInv'
<1>1. ASSUME NEW p \in Project,
             \/ \E k \in {0, 1} : SyncListed(p, k)
             \/ CreateProject(p) \/ UpdateProject(p) \/ ProjectKey(p)
             \/ RotateProjectKey(p) \/ DeleteProject(p)
      PROVE  RegistryInv'
  BY <1>1, SavingKeeps, CreatingKeeps, RotatingKeeps, ForgettingKeeps
<1>2. ASSUME NEW s \in saves, SaveUnlocked(s)
      PROVE  RegistryInv'
  <2>1. s.p \in Project
    BY ProjectAssumption DEF RegistryInv, RegistryTypes, SaveType
  <2> QED
    BY <1>2, <2>1, SavingKeeps
<1>3. CASE UNCHANGED projectVars
  BY <1>3 DEF projectVars, RegistryInv, RegistryTypes, RotationSticks, OnlyReplaced,
              CreatedSurvives, RegistryHolderOK, Given
<1> QED
  BY <1>1, <1>2, <1>3, HydrationKeeps, CreatingKeeps, RotatingKeeps, ForgettingKeeps
     DEF ProjectsNext

-----------------------------------------------------------------------------
(* The environment of a project.                                            *)

\* What is cached has been served, and there is at most one set of values being
\* read: none is read while another is on its way.
EnvInv ==
    /\ EnvOK
    /\ envCache # None => envCache = served
    /\ \A v \in envLoads : served <= v
    /\ \A v, w \in envLoads : v = w

LEMMA EnvBegins ==
    ASSUME EnvInit
    PROVE  EnvInv
<1>1. None \in None..0 /\ 0 \in 0..MaxEdits /\ 0 \in 0..0
  BY EnvAssumption DEF None
<1> QED
  BY <1>1 DEF EnvInit, EnvInv, EnvOK

LEMMA EnvGoesOn ==
    ASSUME EnvInv, EnvNext \/ UNCHANGED envVars
    PROVE  EnvInv' /\ served' >= served
<1>1. /\ MaxEdits \in Nat /\ None \in Int /\ None < 0
      /\ envRows \in 0..MaxEdits /\ envCache \in None..envRows /\ served \in 0..envRows
      /\ \A v \in envLoads : v \in 0..envRows
  BY EnvAssumption DEF EnvInv, EnvOK, None
<1>2. CASE EditEnv
  <2>1. /\ envRows < MaxEdits /\ envRows' = envRows + 1 /\ editing' = TRUE
        /\ UNCHANGED <<envCache, envFresh, envLoads, served, envFaults>>
    BY <1>2 DEF EditEnv
  <2>2. /\ envRows' \in 0..MaxEdits /\ envCache' \in None..envRows' /\ served' \in 0..envRows'
        /\ \A v \in envLoads' : v \in 0..envRows'
    BY <1>1, <2>1
  <2>3. envLoads' \subseteq 0..envRows'
    BY <2>2
  <2>4. EnvOK'
    BY <2>1, <2>2, <2>3 DEF EnvInv, EnvOK
  <2>5. served' >= served
    BY <1>1, <2>1
  <2>6. /\ envCache' # None => envCache' = served'
        /\ \A v \in envLoads' : served' <= v
        /\ \A v, w \in envLoads' : v = w
    BY <2>1 DEF EnvInv
  <2> QED
    BY <2>4, <2>5, <2>6 DEF EnvInv, None
<1>3. CASE InvalidateEnv
  <2>1. /\ editing' = FALSE /\ envCache' = None /\ envFresh' = FALSE
        /\ UNCHANGED <<envRows, envLoads, served, envFaults>>
    BY <1>3 DEF InvalidateEnv
  <2>2. None \in None..envRows /\ served >= served
    BY <1>1
  <2> QED
    BY <2>1, <2>2 DEF EnvInv, EnvOK
<1>4. CASE EnvHit
  BY <1>4, EnvAssumption DEF EnvHit, EnvInv, EnvOK, None
<1>5. CASE EnvLoad
  BY <1>5, EnvAssumption DEF EnvLoad, EnvInv, EnvOK, None
<1>6. CASE EnvStore
  <2>1. PICK v \in envLoads :
           /\ envLoads' = envLoads \ {v} /\ envCache' = v /\ envFresh' = TRUE /\ served' = v
           /\ UNCHANGED <<envRows, editing, envFaults>>
    BY <1>6 DEF EnvStore
  <2>2. envLoads = {v} /\ v \in 0..envRows /\ served <= v
    BY DEF EnvInv, EnvOK
  <2>3. envLoads' = {} /\ v \in None..envRows /\ v \in Int /\ v >= served
    BY <1>1, <2>1, <2>2
  <2>4. EnvOK'
    BY <1>1, <2>1, <2>2, <2>3 DEF EnvInv, EnvOK, None
  <2>5. served' >= served
    BY <2>1, <2>3
  <2>6. /\ envCache' # None => envCache' = served'
        /\ \A w \in envLoads' : served' <= w
        /\ \A w, x \in envLoads' : w = x
    BY <2>1, <2>3
  <2> QED
    BY <2>4, <2>5, <2>6 DEF EnvInv, None
<1>7. CASE EnvLoadFails
  <2>1. envLoads' = {} /\ UNCHANGED <<envRows, envCache, envFresh, editing, served>>
    BY <1>7 DEF EnvLoadFails
  <2>2. served >= served
    BY <1>1
  <2> QED
    BY <2>1, <2>2 DEF EnvInv, EnvOK
<1>8. CASE EnvLapse
  <2>1. envFresh' = FALSE /\ UNCHANGED <<envRows, envCache, envLoads, editing, served>>
    BY <1>8 DEF EnvLapse
  <2>2. served >= served
    BY <1>1
  <2> QED
    BY <2>1, <2>2 DEF EnvInv, EnvOK
<1>9. CASE UNCHANGED envVars
  BY <1>9, EnvAssumption DEF envVars, EnvInv, EnvOK, None
<1> QED
  BY <1>2, <1>3, <1>4, <1>5, <1>6, <1>7, <1>8, <1>9 DEF EnvNext

-----------------------------------------------------------------------------
(* Whether a project requires a session.                                    *)

SwitchType == [stage : Stage, first : BOOLEAN, todo : SUBSET Client]
LookupType == [generation : Int, found : {"none", "unread", "on", "off", "error"}]
Answered == {"on", "off", "error"}

\* The requests that have yet to invalidate the cache once.
WillInvalidate == {a \in Admin : switching[a].stage \in {"read", "enabled", "disabled"}}

RequirementTypes ==
    /\ provider \in BOOLEAN /\ policyVersion \in Nat /\ toggles \in 0..MaxToggles
    /\ requirement \in {"on", "off", "none"}
    /\ policyLookup \in LookupType /\ policyLookup.generation \in -1..policyVersion
    /\ switching \in [Admin -> SwitchType]
    /\ calls \in [Client -> {"idle", "asking", "waiting", "on", "off", "error"}]
    /\ anonymous \subseteq Client /\ mustAuth \subseteq Client
    /\ IsFiniteSet(WillInvalidate) /\ policyVersion + Cardinality(WillInvalidate) <= toggles

\* What a lookup of the present generation has found, or the cache holds.
Finds(f) == policyLookup.generation = policyVersion /\ policyLookup.found = f

RequirementInv ==
    /\ RequirementTypes
    /\ RequirementCurrent
    /\ ~Pending => ~Finds(Named(~provider))
    /\ mustAuth # {} => provider /\ requirement # "off" /\ ~Finds("off")
    /\ EnableIsFinal

LEMMA RequirementIsSound ==
    ASSUME RequirementInv
    PROVE  RequirementOK /\ RequirementCurrent /\ EnableIsFinal
<1>1. policyVersion \in 0..2 * MaxToggles
  <2>1. PICK n : n = Cardinality(WillInvalidate)
    OBVIOUS
  <2>2. n \in Nat
    BY <2>1, FS_CardinalityType DEF RequirementInv, RequirementTypes
  <2>3. policyVersion + n <= toggles /\ policyVersion \in Nat /\ toggles \in 0..MaxToggles
    BY <2>1 DEF RequirementInv, RequirementTypes
  <2> QED
    BY <2>2, <2>3, RequirementAssumption
<1>2. \A a \in Admin : switching[a].stage \in Stage /\ switching[a].todo \subseteq Client
  BY DEF RequirementInv, RequirementTypes, SwitchType
<1>3. policyLookup.found \in {"none", "unread", "on", "off", "error"}
  BY DEF RequirementInv, RequirementTypes, LookupType
<1> QED
  BY <1>1, <1>2, <1>3 DEF RequirementInv, RequirementTypes, RequirementOK

LEMMA RequirementBegins ==
    ASSUME RequirementInit
    PROVE  RequirementInv
<1>1. Unswitched \in SwitchType /\ Unswitched.stage = "idle"
  BY DEF Unswitched, SwitchType, Stage
<1>2. switching = [a \in Admin |-> Unswitched] /\ policyLookup = NoLookup /\ requirement = "none"
  BY DEF RequirementInit
<1>3. WillInvalidate = {} /\ ~Pending
  BY <1>1, <1>2 DEF WillInvalidate, Pending
<1>4. IsFiniteSet(WillInvalidate) /\ Cardinality(WillInvalidate) = 0
  BY <1>3, FS_EmptySet
<1>5. /\ NoLookup \in LookupType /\ NoLookup.generation = -1 /\ policyVersion = 0
  BY DEF NoLookup, LookupType, RequirementInit
<1>6. RequirementTypes
  BY <1>1, <1>2, <1>4, <1>5, RequirementAssumption DEF RequirementInit, RequirementTypes
<1>7. \A f : ~Finds(f)
  BY <1>2, <1>5 DEF Finds
<1> QED
  BY <1>2, <1>6, <1>7 DEF RequirementInit, RequirementInv, RequirementCurrent, EnableIsFinal

-----------------------------------------------------------------------------
\* One request that is switched is switched alone.
LEMMA SwitchIs ==
    ASSUME RequirementTypes, NEW a \in Admin, NEW st \in Stage,
           \/ /\ switching' = [switching EXCEPT ![a].stage = st]
           \/ \E b \in BOOLEAN : switching' = [switching EXCEPT ![a].stage = st, ![a].first = b]
           \/ switching' = [switching EXCEPT ![a].stage = st, ![a].todo = Client]
           \/ switching' = [switching EXCEPT ![a] = Unswitched] /\ st = "idle"
    PROVE  /\ switching' \in [Admin -> SwitchType] /\ switching'[a].stage = st
           /\ \A b \in Admin \ {a} : switching'[b] = switching[b]
<1>1. switching \in [Admin -> SwitchType] /\ Unswitched \in SwitchType /\ Unswitched.stage = "idle"
  BY DEF RequirementTypes, Unswitched, SwitchType, Stage
<1>2. CASE switching' = [switching EXCEPT ![a].stage = st]
  BY <1>1, <1>2 DEF SwitchType
<1>3. ASSUME NEW b \in BOOLEAN, switching' = [switching EXCEPT ![a].stage = st, ![a].first = b]
      PROVE  /\ switching' \in [Admin -> SwitchType] /\ switching'[a].stage = st
             /\ \A c \in Admin \ {a} : switching'[c] = switching[c]
  BY <1>1, <1>3 DEF SwitchType
<1>4. CASE switching' = [switching EXCEPT ![a].stage = st, ![a].todo = Client]
  BY <1>1, <1>4 DEF SwitchType
<1>5. CASE switching' = [switching EXCEPT ![a] = Unswitched] /\ st = "idle"
  BY <1>1, <1>5
<1> QED
  BY <1>2, <1>3, <1>4, <1>5

\* The count of those requests when one begins, or has invalidated.
LEMMA OneMore ==
    ASSUME RequirementTypes, NEW a \in Admin, switching[a].stage = "idle",
           switching'[a].stage \in {"read", "enabled", "disabled"},
           \A b \in Admin \ {a} : switching'[b] = switching[b]
    PROVE  IsFiniteSet(WillInvalidate)'
           /\ Cardinality(WillInvalidate)' = Cardinality(WillInvalidate) + 1
           /\ Cardinality(WillInvalidate) \in Nat
<1>1. WillInvalidate' = WillInvalidate \cup {a} /\ a \notin WillInvalidate
  BY DEF WillInvalidate
<1>2. IsFiniteSet(WillInvalidate)
  BY DEF RequirementTypes
<1> QED
  BY <1>1, <1>2, FS_AddElement, FS_CardinalityType

LEMMA OneLess ==
    ASSUME RequirementTypes, NEW a \in Admin,
           switching[a].stage \in {"read", "enabled", "disabled"},
           switching'[a].stage \notin {"read", "enabled", "disabled"},
           \A b \in Admin \ {a} : switching'[b] = switching[b]
    PROVE  /\ IsFiniteSet(WillInvalidate)'
           /\ Cardinality(WillInvalidate)' = Cardinality(WillInvalidate) - 1
           /\ Cardinality(WillInvalidate) \in Nat
<1>1. WillInvalidate' = WillInvalidate \ {a} /\ a \in WillInvalidate
  BY DEF WillInvalidate
<1>2. IsFiniteSet(WillInvalidate)
  BY DEF RequirementTypes
<1> QED
  BY <1>1, <1>2, FS_RemoveElement, FS_CardinalityType

LEMMA SameCount ==
    ASSUME NEW a \in Admin,
           switching[a].stage \in {"read", "enabled", "disabled"}
             <=> switching'[a].stage \in {"read", "enabled", "disabled"},
           \A b \in Admin \ {a} : switching'[b] = switching[b]
    PROVE  WillInvalidate' = WillInvalidate
BY DEF WillInvalidate

\* A switch of the provider.
LEMMA SwitchingKeeps ==
    ASSUME RequirementInv, NEW a \in Admin,
           \/ EnableReads(a) \/ EnableCommits(a) \/ EnableFails(a) \/ Disable(a) \/ Invalidate(a)
           \/ \E c \in Client : Enforce(a, c)
    PROVE  RequirementInv'
<1>1. RequirementTypes /\ switching \in [Admin -> SwitchType]
  BY DEF RequirementInv, RequirementTypes
<1>2. CASE EnableReads(a)
  <2>1. /\ switching[a].stage = "idle" /\ toggles < MaxToggles /\ toggles' = toggles + 1
        /\ switching' = [switching EXCEPT ![a].stage = "read", ![a].first = ~provider]
        /\ UNCHANGED <<provider, policyVersion, requirement, policyLookup, calls, anonymous,
                       mustAuth>>
    BY <1>2 DEF EnableReads
  <2>2. "read" \in Stage /\ (~provider) \in BOOLEAN
    BY DEF Stage
  <2>3. /\ switching' \in [Admin -> SwitchType] /\ switching'[a].stage = "read"
        /\ \A b \in Admin \ {a} : switching'[b] = switching[b]
    BY <1>1, <2>1, <2>2, SwitchIs
  <2>4. /\ IsFiniteSet(WillInvalidate)' /\ Cardinality(WillInvalidate) \in Nat
        /\ Cardinality(WillInvalidate)' = Cardinality(WillInvalidate) + 1
    BY <1>1, <2>1, <2>3, OneMore
  <2>5. RequirementTypes'
    BY <1>1, <2>1, <2>3, <2>4, RequirementAssumption DEF RequirementTypes
  <2>6. Pending' <=> Pending
    BY <2>1, <2>3 DEF Pending
  <2> QED
    BY <2>1, <2>5, <2>6 DEF RequirementInv, RequirementCurrent, Finds, EnableIsFinal
<1>3. CASE EnableCommits(a)
  <2>1. /\ switching[a].stage = "read" /\ provider' = TRUE
        /\ switching' = [switching EXCEPT ![a].stage = "enabled"]
        /\ UNCHANGED <<policyVersion, requirement, policyLookup, calls, anonymous, toggles,
                       mustAuth>>
    BY <1>3 DEF EnableCommits
  <2>2. /\ switching' \in [Admin -> SwitchType] /\ switching'[a].stage = "enabled"
        /\ \A b \in Admin \ {a} : switching'[b] = switching[b]
    BY <1>1, <2>1, SwitchIs DEF Stage
  <2>3. WillInvalidate' = WillInvalidate
    BY <2>1, <2>2, SameCount
  <2>4. RequirementTypes'
    BY <1>1, <2>1, <2>2, <2>3 DEF RequirementTypes
  <2>5. Pending'
    BY <2>2 DEF Pending
  <2> QED
    BY <2>1, <2>4, <2>5 DEF RequirementInv, RequirementCurrent, Finds, EnableIsFinal
<1>4. CASE EnableFails(a)
  <2>1. /\ switching[a].stage = "read" /\ switching' = [switching EXCEPT ![a] = Unswitched]
        /\ UNCHANGED <<provider, policyVersion, requirement, policyLookup, calls, anonymous,
                       toggles, mustAuth>>
    BY <1>4 DEF EnableFails
  <2>2. /\ switching' \in [Admin -> SwitchType] /\ switching'[a].stage = "idle"
        /\ \A b \in Admin \ {a} : switching'[b] = switching[b]
    BY <1>1, <2>1, SwitchIs DEF Stage
  <2>3. /\ IsFiniteSet(WillInvalidate)' /\ Cardinality(WillInvalidate) \in Nat
        /\ Cardinality(WillInvalidate)' = Cardinality(WillInvalidate) - 1
    BY <1>1, <2>1, <2>2, OneLess
  <2>4. RequirementTypes'
    BY <1>1, <2>1, <2>2, <2>3 DEF RequirementTypes
  <2>5. Pending' <=> Pending
    BY <2>1, <2>2 DEF Pending
  <2> QED
    BY <2>1, <2>4, <2>5 DEF RequirementInv, RequirementCurrent, Finds, EnableIsFinal
<1>5. CASE Disable(a)
  <2>1. /\ switching[a].stage = "idle" /\ toggles < MaxToggles /\ toggles' = toggles + 1
        /\ provider' = FALSE /\ mustAuth' = {}
        /\ switching' = [switching EXCEPT ![a].stage = "disabled"]
        /\ UNCHANGED <<policyVersion, requirement, policyLookup, calls, anonymous>>
    BY <1>5 DEF Disable
  <2>2. /\ switching' \in [Admin -> SwitchType] /\ switching'[a].stage = "disabled"
        /\ \A b \in Admin \ {a} : switching'[b] = switching[b]
    BY <1>1, <2>1, SwitchIs DEF Stage
  <2>3. /\ IsFiniteSet(WillInvalidate)' /\ Cardinality(WillInvalidate) \in Nat
        /\ Cardinality(WillInvalidate)' = Cardinality(WillInvalidate) + 1
    BY <1>1, <2>1, <2>2, OneMore
  <2>4. RequirementTypes'
    <3>1. toggles' \in 0..MaxToggles /\ policyVersion' + Cardinality(WillInvalidate)' <= toggles'
      BY <1>1, <2>1, <2>3, RequirementAssumption DEF RequirementTypes
    <3>2. provider' \in BOOLEAN /\ mustAuth' \subseteq Client
      BY <2>1
    <3> QED
      BY <1>1, <2>1, <2>2, <2>3, <3>1, <3>2 DEF RequirementTypes
  <2>5. Pending'
    BY <2>2 DEF Pending
  <2> QED
    BY <2>1, <2>4, <2>5 DEF RequirementInv, RequirementCurrent, EnableIsFinal
<1>6. CASE Invalidate(a)
  <2>1. /\ switching[a].stage \in {"enabled", "disabled"}
        /\ requirement' = "none" /\ policyVersion' = policyVersion + 1
        /\ UNCHANGED <<provider, policyLookup, calls, anonymous, toggles, mustAuth>>
    BY <1>6 DEF Invalidate, Invalidated
  <2>2. PICK st \in {"enforcing", "idle"} :
           /\ switching' \in [Admin -> SwitchType] /\ switching'[a].stage = st
           /\ \A b \in Admin \ {a} : switching'[b] = switching[b]
    <3>1. CASE switching' = [switching EXCEPT ![a].stage = "enforcing", ![a].todo = Client]
      BY <1>1, <3>1, SwitchIs DEF Stage
    <3>2. CASE switching' = [switching EXCEPT ![a] = Unswitched]
      BY <1>1, <3>2, SwitchIs DEF Stage
    <3> QED
      BY <1>6, <3>1, <3>2 DEF Invalidate
  <2>3. /\ IsFiniteSet(WillInvalidate)' /\ Cardinality(WillInvalidate) \in Nat
        /\ Cardinality(WillInvalidate)' = Cardinality(WillInvalidate) - 1
    BY <1>1, <2>1, <2>2, OneLess
  <2>4. RequirementTypes'
    BY <1>1, <2>1, <2>2, <2>3 DEF RequirementTypes
  <2>5. \A f : ~Finds(f)'
    BY <1>1, <2>1 DEF RequirementTypes, Finds
  <2> QED
    BY <2>1, <2>4, <2>5 DEF RequirementInv, RequirementCurrent, EnableIsFinal
<1>7. ASSUME NEW c \in Client, Enforce(a, c)
      PROVE  RequirementInv'
  <2>1. /\ switching[a].stage = "enforcing" /\ anonymous' = anonymous \ {c}
        /\ UNCHANGED <<provider, policyVersion, requirement, policyLookup, calls, toggles,
                       mustAuth>>
    BY <1>7 DEF Enforce
  <2>2. PICK st \in {"enforcing", "idle"} :
           /\ switching' \in [Admin -> SwitchType] /\ switching'[a].stage = st
           /\ \A b \in Admin \ {a} : switching'[b] = switching[b]
    <3>1. CASE switching' = [switching EXCEPT ![a].todo = @ \ {c}]
      BY <1>1, <2>1, <3>1 DEF SwitchType
    <3>2. CASE switching' = [switching EXCEPT ![a] = Unswitched]
      BY <1>1, <3>2, SwitchIs DEF Stage
    <3> QED
      BY <1>7, <3>1, <3>2 DEF Enforce
  <2>3. WillInvalidate' = WillInvalidate
    BY <2>1, <2>2, SameCount
  <2>4. RequirementTypes'
    BY <1>1, <2>1, <2>2, <2>3 DEF RequirementTypes
  <2>5. Pending' <=> Pending
    BY <2>1, <2>2 DEF Pending
  <2> QED
    BY <2>1, <2>4, <2>5 DEF RequirementInv, RequirementCurrent, Finds, EnableIsFinal
<1> QED
  BY <1>2, <1>3, <1>4, <1>5, <1>6, <1>7

\* A question: the answer of the cache, or a lookup.
LEMMA AskIs ==
    ASSUME RequirementInv, NEW c \in Client, Ask(c)
    PROVE  /\ calls' \in [Client -> {"idle", "asking", "waiting", "on", "off", "error"}]
           /\ calls'[c] \in {requirement, "waiting"} \ {"none"}
           /\ \A d \in Client \ {c} : calls'[d] = calls[d]
           /\ policyLookup' \in LookupType /\ policyLookup'.generation \in -1..policyVersion
           /\ \A f \in Answered : Finds(f)' => Finds(f)
           /\ UNCHANGED <<provider, policyVersion, requirement, switching, anonymous, toggles>>
<1>1. UNCHANGED <<provider, policyVersion, requirement, switching, anonymous, toggles>>
  BY DEF Ask
<1>2. /\ calls \in [Client -> {"idle", "asking", "waiting", "on", "off", "error"}]
      /\ requirement \in {"on", "off", "none"} /\ policyVersion \in Nat
      /\ policyLookup \in LookupType /\ policyLookup.generation \in -1..policyVersion
  BY DEF RequirementInv, RequirementTypes
<1>3. CASE requirement # "none"
  <2>1. calls' = [calls EXCEPT ![c] = requirement] /\ UNCHANGED policyLookup
    BY <1>3 DEF Ask
  <2> QED
    BY <1>1, <1>2, <1>3, <2>1 DEF Finds
<1>4. CASE requirement = "none"
  <2>1. calls' = [calls EXCEPT ![c] = "waiting"]
    BY <1>4 DEF Ask
  <2>2. CASE policyLookup' = policyLookup
    BY <1>1, <1>2, <1>4, <2>1, <2>2 DEF Finds
  <2>3. CASE policyLookup' = [generation |-> policyVersion, found |-> "unread"]
    BY <1>1, <1>2, <1>4, <2>1, <2>3 DEF Finds, LookupType, Answered
  <2> QED
    BY <1>4, <2>2, <2>3 DEF Ask
<1> QED
  BY <1>3, <1>4

LEMMA AskingIsSafe ==
    ASSUME RequirementInv, NEW c \in Client, BeginCall(c) \/ AskAgain(c)
    PROVE  RequirementInv'
<1>1. Ask(c)
  BY DEF BeginCall, AskAgain
<1>2. /\ calls' \in [Client -> {"idle", "asking", "waiting", "on", "off", "error"}]
      /\ calls'[c] \in {requirement, "waiting"} \ {"none"}
      /\ \A d \in Client \ {c} : calls'[d] = calls[d]
      /\ policyLookup' \in LookupType /\ policyLookup'.generation \in -1..policyVersion
      /\ \A f \in Answered : Finds(f)' => Finds(f)
      /\ UNCHANGED <<provider, policyVersion, requirement, switching, anonymous, toggles>>
  BY <1>1, AskIs
<1>3. /\ mustAuth' \subseteq mustAuth \cup {c}
      /\ c \in mustAuth' => (provider /\ ~Pending) \/ c \in mustAuth
  BY DEF BeginCall, AskAgain
<1>4. WillInvalidate' = WillInvalidate /\ (Pending' <=> Pending)
  BY <1>2 DEF WillInvalidate, Pending
<1>5. RequirementTypes'
  BY <1>2, <1>3, <1>4 DEF RequirementInv, RequirementTypes
<1>6. RequirementCurrent'
  BY <1>2, <1>4 DEF RequirementInv, RequirementCurrent
<1>7. Named(~provider) \in Answered
  BY DEF Named, Answered
<1>8. ~Pending' => ~Finds(Named(~provider))'
  <2>1. Named(~provider)' = Named(~provider)
    BY <1>2 DEF Named
  <2>2. Finds(Named(~provider))' => Finds(Named(~provider))
    BY <1>2, <1>7, <2>1 DEF Finds
  <2> QED
    BY <1>4, <2>2 DEF RequirementInv
<1>9. mustAuth' # {} => provider' /\ requirement' # "off" /\ ~Finds("off")'
  <2>1. CASE mustAuth # {}
    BY <1>2, <2>1 DEF RequirementInv, Answered
  <2>2. CASE mustAuth = {} /\ provider /\ ~Pending
    <3>1. requirement # "off" /\ ~Finds("off")
      BY <2>2 DEF RequirementInv, RequirementCurrent, Named
    <3> QED
      BY <1>2, <2>2, <3>1 DEF Answered
  <2> QED
    BY <1>3, <2>1, <2>2
<1>10. EnableIsFinal'
  <2>1. c \in mustAuth' => calls'[c] # "off"
    BY <1>2, <1>9
  <2>2. \A d \in mustAuth' \ {c} : d \in mustAuth /\ d \in Client \ {c} /\ calls[d] # "off"
    BY <1>3 DEF RequirementInv, RequirementTypes, EnableIsFinal
  <2> QED
    BY <1>2, <2>1, <2>2 DEF EnableIsFinal
<1> QED
  BY <1>5, <1>6, <1>8, <1>9, <1>10 DEF RequirementInv

LEMMA LookupKeeps ==
    ASSUME RequirementInv, ReadProvider \/ FinishLookup \/ RequirementExpires
    PROVE  RequirementInv'
<1>1. /\ RequirementTypes /\ policyLookup \in LookupType /\ policyVersion \in Nat
      /\ provider \in BOOLEAN
  BY DEF RequirementInv, RequirementTypes
<1>2. CASE ReadProvider
  <2>1. PICK f \in {Named(provider), "error"} : policyLookup' = [policyLookup EXCEPT !.found = f]
    BY <1>2 DEF ReadProvider
  <2>2. UNCHANGED <<provider, policyVersion, requirement, switching, calls, anonymous, toggles,
                    mustAuth>>
    BY <1>2 DEF ReadProvider
  <2>3. /\ policyLookup'.found = f /\ policyLookup'.generation = policyLookup.generation
        /\ policyLookup' \in LookupType
    BY <1>1, <2>1 DEF LookupType, Named
  <2>4. WillInvalidate' = WillInvalidate /\ (Pending' <=> Pending)
    BY <2>2 DEF WillInvalidate, Pending
  <2>5. RequirementTypes'
    BY <1>1, <2>2, <2>3, <2>4 DEF RequirementTypes
  <2>6. ~Finds(Named(~provider))' /\ (provider => ~Finds("off")')
    BY <1>1, <2>2, <2>3 DEF Finds, Named
  <2> QED
    BY <2>2, <2>4, <2>5, <2>6 DEF RequirementInv, RequirementCurrent, EnableIsFinal
<1>3. CASE FinishLookup
  <2>1. /\ policyLookup.found \in Answered /\ policyLookup' = NoLookup
        /\ UNCHANGED <<provider, policyVersion, switching, anonymous, toggles, mustAuth>>
    BY <1>3 DEF FinishLookup, Answered
  <2>2. PICK answer \in {"asking"} \cup Answered :
           /\ calls' = Waiters(answer)
           /\ answer # "asking" => Finds(answer)
           /\ requirement' = requirement \/ (requirement' = answer /\ answer \in {"on", "off"})
    <3>1. CASE policyLookup.generation # policyVersion
      BY <1>3, <3>1 DEF FinishLookup
    <3>2. CASE policyLookup.generation = policyVersion
      <4>1. calls' = Waiters(policyLookup.found)
        BY <1>3, <3>2 DEF FinishLookup
      <4>2. requirement' = requirement
            \/ (requirement' = policyLookup.found /\ policyLookup.found \in {"on", "off"})
        BY <1>3, <2>1, <3>2 DEF FinishLookup, Answered
      <4> QED
        BY <2>1, <3>2, <4>1, <4>2 DEF Finds
    <3> QED
      BY <3>1, <3>2
  <2>3. WillInvalidate' = WillInvalidate /\ (Pending' <=> Pending)
    BY <2>1 DEF WillInvalidate, Pending
  <2>4. /\ NoLookup \in LookupType /\ NoLookup.generation = -1 /\ NoLookup.found = "none"
    BY DEF NoLookup, LookupType
  <2>5. \A f : ~Finds(f)'
    BY <1>1, <2>1, <2>4 DEF Finds
  <2>6. /\ calls' \in [Client -> {"idle", "asking", "waiting", "on", "off", "error"}]
        /\ \A c \in Client : calls'[c] = IF calls[c] = "waiting" THEN answer ELSE calls[c]
    BY <2>2 DEF Waiters, RequirementInv, RequirementTypes, Answered
  <2>7. RequirementTypes'
    BY <1>1, <2>1, <2>2, <2>3, <2>4, <2>6 DEF RequirementTypes
  <2>8. RequirementCurrent'
    <3>1. CASE requirement' = requirement
      BY <2>1, <2>3, <3>1 DEF RequirementInv, RequirementCurrent, Named
    <3>2. CASE requirement' = answer /\ answer \in {"on", "off"} /\ ~Pending
      <4>1. answer # Named(~provider)
        BY <2>2, <3>2 DEF RequirementInv
      <4> QED
        BY <1>1, <2>1, <3>2, <4>1 DEF RequirementCurrent, Named
    <3> QED
      BY <2>2, <2>3, <3>1, <3>2 DEF RequirementCurrent
  <2>9. mustAuth # {} => answer # "off" /\ requirement' # "off" /\ provider
    BY <2>2 DEF RequirementInv
  <2>10. EnableIsFinal'
    BY <2>1, <2>6, <2>9 DEF RequirementInv, RequirementTypes, EnableIsFinal
  <2> QED
    BY <2>1, <2>5, <2>7, <2>8, <2>9, <2>10 DEF RequirementInv
<1>4. CASE RequirementExpires
  <2>1. /\ requirement' = "none"
        /\ UNCHANGED <<provider, policyVersion, policyLookup, switching, calls, anonymous,
                       toggles, mustAuth>>
    BY <1>4 DEF RequirementExpires
  <2>2. WillInvalidate' = WillInvalidate /\ (Pending' <=> Pending)
    BY <2>1 DEF WillInvalidate, Pending
  <2>3. RequirementTypes'
    BY <1>1, <2>1, <2>2 DEF RequirementTypes
  <2> QED
    BY <2>1, <2>2, <2>3 DEF RequirementInv, RequirementCurrent, Finds, EnableIsFinal
<1> QED
  BY <1>2, <1>3, <1>4

LEMMA UsingKeeps ==
    ASSUME RequirementInv, NEW c \in Client, UseAnswer(c)
    PROVE  RequirementInv'
<1>1. /\ calls' = [calls EXCEPT ![c] = "idle"] /\ mustAuth' = mustAuth \ {c}
      /\ anonymous' \subseteq anonymous \cup {c}
      /\ UNCHANGED <<provider, policyVersion, requirement, policyLookup, switching, toggles>>
  BY DEF UseAnswer
<1>2. WillInvalidate' = WillInvalidate /\ (Pending' <=> Pending)
  BY <1>1 DEF WillInvalidate, Pending
<1>3. RequirementTypes'
  BY <1>1, <1>2 DEF RequirementInv, RequirementTypes
<1>4. EnableIsFinal'
  BY <1>1 DEF RequirementInv, RequirementTypes, EnableIsFinal
<1> QED
  BY <1>1, <1>2, <1>3, <1>4 DEF RequirementInv, RequirementCurrent, Finds

LEMMA RequirementGoesOn ==
    ASSUME RequirementInv, [RequirementNext]_requirementVars
    PROVE  RequirementInv'
<1>1. CASE UNCHANGED requirementVars
  BY <1>1
     DEF requirementVars, RequirementInv, RequirementTypes, WillInvalidate, RequirementCurrent,
              Pending, Finds, EnableIsFinal
<1> QED
  BY <1>1, SwitchingKeeps, AskingIsSafe, UsingKeeps, LookupKeeps DEF RequirementNext

-----------------------------------------------------------------------------
(* The logins of an account.                                                *)

TokenType == [family : Nat, used : {"no", "lately", "long ago"}, revoked : BOOLEAN]
RefreshType == [token : Nat, stage : {"waiting", "locked", "granted", "refused"}, child : Nat,
                from : Tab \cup {Nobody}]
TabType == [phase : {"ready", "sent", "installing"}, token : Nat]

\* Tokens are numbered as they are issued; nothing names one that was not.
TokenTypes ==
    /\ \E n \in 0..MaxTokens : Issued = 1..n /\ tokens \in [1..n -> TokenType]
    /\ \A k \in Issued : tokens[k].family \in Issued
    /\ requests \subseteq RefreshType /\ revoking \subseteq Issued
    /\ \A q \in requests : /\ q.token \in Issued
                           /\ q.stage = "granted" => q.child \in Issued
                           /\ q.stage \in {"granted", "refused"} => q.from \in Tab
BrowserTypes ==
    /\ stored \in {0} \cup Issued /\ session \in [Tab -> {0} \cup Issued]
    /\ tab \in [Tab -> TabType] /\ \A t \in Tab : tab[t].token \in {0} \cup Issued
    /\ authLock \in Tab \cup {Nobody} /\ storageEvent \subseteq Tab
    /\ lost \in Nat /\ signedOut \in BOOLEAN /\ reused \in BOOLEAN

\* The row lock: one refresh at a time has a token, and nobody else touches it.
RowLock ==
    /\ \A q \in requests : q.stage = "locked" => Usable(q.token)
    /\ \A p, q \in requests : p.stage = "locked" /\ q.stage = "locked" /\ p.token = q.token =>
                                p = q

\* As long as no answer was lost and nobody has signed out, the storage lock
\* spans a refresh: without it, what the tabs could present is the storage's
\* token, and that has not been exchanged.
Fresh(k) == tokens[k].used = "no"
Orderly ==
    /\ ~reused /\ revoking = {} /\ \A k \in Issued : ~tokens[k].revoked
    /\ \A t \in Tab : session[t] # 0 => stored # 0
    /\ \A t \in Tab : tab[t].phase = "installing" => tab[t].token # 0
    /\ authLock = Nobody =>
         /\ requests = {} /\ (stored # 0 => Fresh(stored))
         /\ \A t \in Tab : tab[t].phase = "installing" => Fresh(tab[t].token)
    /\ authLock # Nobody => \E q \in requests :
         /\ requests = {q} /\ q.from = authLock /\ q.stage \in {"waiting", "locked", "granted"}
         /\ q.stage \in {"waiting", "locked"} => Fresh(q.token)
         /\ q.stage = "granted" => Fresh(q.child)

SessionInv ==
    /\ TokenTypes /\ BrowserTypes
    /\ OneHead /\ RowLock
    /\ lost = 0 /\ ~signedOut => Orderly

LEMMA SessionsAreSound ==
    ASSUME SessionInv
    PROVE  SessionsOK /\ OneHead /\ TabsNeverReuse
<1>1. PICK n \in 0..MaxTokens : Issued = 1..n /\ tokens \in [1..n -> TokenType]
  BY DEF SessionInv, TokenTypes
<1>2. \A k \in Issued : /\ tokens[k].family \in Issued /\ tokens[k].revoked \in BOOLEAN
                        /\ tokens[k].used \in {"no", "lately", "long ago"}
  BY <1>1 DEF SessionInv, TokenTypes, TokenType
<1>3. Issued \subseteq 1..MaxTokens
  BY <1>1, SessionsAssumption
<1> QED
  BY <1>2, <1>3 DEF SessionInv, BrowserTypes, SessionsOK, Orderly, TabsNeverReuse

LEMMA SessionsBegin ==
    ASSUME SessionsInit
    PROVE  SessionInv
<1>1. Issued = {} /\ tokens = <<>> /\ 1..0 = {} /\ 0 \in 0..MaxTokens
  BY SessionsAssumption DEF SessionsInit, Issued
<1>2. tokens \in [1..0 -> TokenType]
  BY <1>1
<1>3. TokenTypes
  BY <1>1, <1>2 DEF SessionsInit, TokenTypes
<1>4. Ready \in TabType /\ Ready.token = 0 /\ Ready.phase = "ready"
  BY DEF Ready, TabType
<1>5. BrowserTypes
  BY <1>4 DEF SessionsInit, BrowserTypes
<1> QED
  BY <1>1, <1>3, <1>4, <1>5 DEF SessionsInit, SessionInv, OneHead, RowLock, Orderly

-----------------------------------------------------------------------------
\* A token that is issued is the next number, and changes no other.
LEMMA IssueIs ==
    ASSUME TokenTypes, NEW f \in Issued \cup {Next1}, Next1 <= MaxTokens
    PROVE  /\ Next1 \notin Issued /\ Next1 \in Nat /\ Next1 # 0
           /\ \E n \in 0..MaxTokens :
                 Issued \cup {Next1} = 1..n /\ Issue(f) \in [1..n -> TokenType]
           /\ \A k \in Issued : Issue(f)[k] = tokens[k]
           /\ Issue(f)[Next1] = [family |-> f, used |-> "no", revoked |-> FALSE]
           /\ DOMAIN Issue(f) = Issued \cup {Next1}
<1>1. PICK n \in 0..MaxTokens : Issued = 1..n /\ tokens \in [1..n -> TokenType]
  BY DEF TokenTypes
<1>2. Cardinality(Issued) = n
  BY <1>1, FS_Interval
<1>3. Next1 = n + 1 /\ n \in Nat
  BY <1>1, <1>2 DEF Next1
<1>4. /\ Next1 \notin Issued /\ Next1 \in Nat /\ Next1 # 0 /\ f \in Nat
      /\ Issued \cup {Next1} = 1..(n + 1) /\ n + 1 \in 0..MaxTokens
  BY <1>1, <1>3, SessionsAssumption
<1>5. [family |-> f, used |-> "no", revoked |-> FALSE] \in TokenType
  BY <1>4 DEF TokenType
<1>6. Issue(f) \in [1..(n + 1) -> TokenType]
  BY <1>1, <1>4, <1>5 DEF Issue
<1> QED
  BY <1>4, <1>6 DEF Issue

\* The tab and the storage after an installation.
LEMMA InstallIs ==
    ASSUME BrowserTypes, NEW t \in Tab, NEW k, Install(t, k)
    PROVE  /\ stored' = k /\ session'[t] = k /\ \A u \in Tab \ {t} : session'[u] = session[u]
           /\ k \in {0} \cup Issued' /\ Issued \subseteq Issued' =>
                session' \in [Tab -> {0} \cup Issued']
           /\ storageEvent' \subseteq Tab
BY DEF BrowserTypes, Install

\* A step that changes no token and no request keeps what is said of them.
LEMMA TokensStay ==
    ASSUME SessionInv, tokens' = tokens, revoking' \subseteq Issued,
           requests' \subseteq requests
    PROVE  TokenTypes' /\ OneHead' /\ RowLock' /\ Issued' = Issued
           /\ \A k : Fresh(k)' <=> Fresh(k)
<1>1. Issued' = Issued /\ \A k : Usable(k)' <=> Usable(k)
  BY DEF Issued, Usable
<1>2. TokenTypes'
  BY <1>1 DEF SessionInv, TokenTypes
<1>3. OneHead'
  BY <1>1 DEF SessionInv, OneHead
<1>4. RowLock'
  BY <1>1 DEF SessionInv, RowLock
<1> QED
  BY <1>1, <1>2, <1>3, <1>4 DEF Fresh

-----------------------------------------------------------------------------
LEMMA SignInKeeps ==
    ASSUME SessionInv, NEW t \in Tab, SignIn(t)
    PROVE  SessionInv'
<1> DEFINE k == Next1
<1>1. /\ k <= MaxTokens /\ tokens' = Issue(k) /\ Install(t, k)
      /\ UNCHANGED <<requests, revoking, tab, authLock, lost, signedOut, reused>>
  BY DEF SignIn
<1>2. /\ k \notin Issued /\ k \in Nat /\ k # 0
      /\ \E n \in 0..MaxTokens : Issued \cup {k} = 1..n /\ Issue(k) \in [1..n -> TokenType]
      /\ \A j \in Issued : Issue(k)[j] = tokens[j]
      /\ Issue(k)[k] = [family |-> k, used |-> "no", revoked |-> FALSE]
      /\ DOMAIN Issue(k) = Issued \cup {k}
  BY <1>1, IssueIs DEF SessionInv
<1> HIDE DEF k
<1>3. Issued' = Issued \cup {k}
  BY <1>1, <1>2 DEF Issued
<1>4. /\ \A j \in Issued : tokens'[j] = tokens[j]
      /\ tokens'[k].family = k /\ tokens'[k].used = "no" /\ ~tokens'[k].revoked
  BY <1>1, <1>2
<1>5. TokenTypes /\ BrowserTypes
  BY DEF SessionInv
<1>6. TokenTypes'
  <2>1. \A j \in Issued' : tokens'[j].family \in Issued'
    BY <1>3, <1>4, <1>5 DEF TokenTypes
  <2>2. \E n \in 0..MaxTokens : Issued' = 1..n /\ tokens' \in [1..n -> TokenType]
    BY <1>1, <1>2, <1>3
  <2> QED
    BY <1>1, <1>3, <1>5, <2>1, <2>2 DEF TokenTypes
<1>7. /\ stored' = k /\ session'[t] = k /\ (\A u \in Tab \ {t} : session'[u] = session[u])
      /\ session' \in [Tab -> {0} \cup Issued'] /\ storageEvent' \subseteq Tab
  BY <1>1, <1>3, <1>5, InstallIs
<1>8. BrowserTypes'
  BY <1>1, <1>3, <1>5, <1>7 DEF BrowserTypes
<1>9. OneHead'
  <2>1. \A j \in Issued : (Usable(j)' <=> Usable(j)) /\ tokens'[j].family \in Issued
    BY <1>4, <1>5 DEF Usable, TokenTypes
  <2> QED
    BY <1>2, <1>3, <1>4, <2>1 DEF SessionInv, OneHead
<1>10. RowLock'
  <2>1. \A q \in requests : Usable(q.token)' <=> Usable(q.token)
    BY <1>4, <1>5 DEF Usable, TokenTypes
  <2> QED
    BY <1>1, <2>1 DEF SessionInv, RowLock
<1>11. ASSUME lost = 0, ~signedOut
       PROVE  Orderly'
  <2>1. Orderly
    BY <1>11 DEF SessionInv
  <2>2. \A j \in Issued' : ~tokens'[j].revoked
    BY <1>3, <1>4, <2>1 DEF Orderly
  <2>3. \A j \in Issued : Fresh(j)' <=> Fresh(j)
    BY <1>4 DEF Fresh
  <2>4. Fresh(stored)' /\ stored' # 0
    BY <1>2, <1>4, <1>7 DEF Fresh
  <2>5. \A u \in Tab : tab[u].phase = "installing" => tab[u].token \in Issued
    BY <1>5, <2>1 DEF BrowserTypes, Orderly
  <2>6. authLock' = Nobody => /\ requests' = {}
           /\ \A u \in Tab : tab'[u].phase = "installing" => Fresh(tab[u].token)'
    BY <1>1, <2>1, <2>3, <2>5 DEF Orderly
  <2>7. ASSUME authLock' # Nobody
        PROVE  \E q \in requests' :
                 /\ requests' = {q} /\ q.from = authLock'
                 /\ q.stage \in {"waiting", "locked", "granted"}
                 /\ q.stage \in {"waiting", "locked"} => Fresh(q.token)'
                 /\ q.stage = "granted" => Fresh(q.child)'
    <3>1. PICK q \in requests :
                 /\ requests = {q} /\ q.from = authLock
                 /\ q.stage \in {"waiting", "locked", "granted"}
                 /\ q.stage \in {"waiting", "locked"} => Fresh(q.token)
                 /\ q.stage = "granted" => Fresh(q.child)
      BY <1>1, <2>1, <2>7 DEF Orderly
    <3>2. q.token \in Issued /\ (q.stage = "granted" => q.child \in Issued)
      BY <1>5 DEF TokenTypes
    <3> QED
      BY <1>1, <2>3, <3>1, <3>2
  <2> QED
    BY <1>1, <2>1, <2>2, <2>4, <2>6, <2>7 DEF Orderly, Fresh
<1> QED
  BY <1>1, <1>6, <1>8, <1>9, <1>10, <1>11 DEF SessionInv

\* While nobody holds the storage lock, what a tab would present is fresh.
LEMMA CurrentIs ==
    ASSUME SessionInv, NEW t \in Tab, session[t] # 0
    PROVE  /\ Current(t) \in Issued /\ Current(t) # 0
           /\ lost = 0 /\ ~signedOut => Current(t) = stored /\ (authLock = Nobody => Fresh(stored))
<1>1. session[t] \in {0} \cup Issued /\ stored \in {0} \cup Issued
  BY DEF SessionInv, BrowserTypes
<1>2. lost = 0 /\ ~signedOut => stored # 0 /\ (authLock = Nobody => Fresh(stored))
  BY DEF SessionInv, Orderly
<1>3. 0 \notin Issued
  BY DEF SessionInv, TokenTypes
<1> QED
  BY <1>1, <1>2, <1>3 DEF Current

LEMMA SendKeeps ==
    ASSUME SessionInv, NEW t \in Tab, Send(t)
    PROVE  SessionInv'
<1>1. PICK k : k = Current(t)
  OBVIOUS
<1> DEFINE q == [token |-> k, stage |-> "waiting", child |-> 0, from |-> t]
           e == [phase |-> "sent", token |-> k]
<1>2. /\ session[t] # 0 /\ authLock = Nobody
      /\ requests' = requests \cup {q} /\ tab' = [tab EXCEPT ![t] = e] /\ authLock' = t
      /\ reused' = (reused \/ tokens[k].used # "no")
      /\ UNCHANGED <<tokens, revoking, stored, session, storageEvent, lost, signedOut>>
  BY <1>1 DEF Send
<1>3. /\ k \in Issued /\ k # 0
      /\ lost = 0 /\ ~signedOut => k = stored /\ Fresh(stored)
  BY <1>1, <1>2, CurrentIs
<1>4. k \in Nat /\ q \in RefreshType /\ e \in TabType
  BY <1>3 DEF SessionInv, TokenTypes, RefreshType, TabType
<1>5. q.token = k /\ q.stage = "waiting" /\ q.from = t /\ e.phase = "sent" /\ e.token = k
  OBVIOUS
<1> HIDE DEF q, e
<1>6. Issued' = Issued /\ (\A j : Usable(j)' <=> Usable(j)) /\ (\A j : Fresh(j)' <=> Fresh(j))
  BY <1>2 DEF Issued, Usable, Fresh
<1>7. TokenTypes'
  BY <1>2, <1>3, <1>4, <1>5, <1>6 DEF SessionInv, TokenTypes
<1>8. tab' \in [Tab -> TabType] /\ tab'[t] = e /\ \A u \in Tab \ {t} : tab'[u] = tab[u]
  BY <1>2, <1>4 DEF SessionInv, BrowserTypes
<1>9. BrowserTypes'
  <2>1. \A u \in Tab : tab'[u].token \in {0} \cup Issued
    BY <1>3, <1>5, <1>8 DEF SessionInv, BrowserTypes
  <2> QED
    BY <1>2, <1>6, <1>8, <2>1 DEF SessionInv, BrowserTypes
<1>10. OneHead' /\ RowLock'
  BY <1>2, <1>5, <1>6 DEF SessionInv, OneHead, RowLock
<1>11. ASSUME lost = 0, ~signedOut
       PROVE  Orderly'
  <2>1. Orderly /\ requests = {} /\ k = stored /\ Fresh(k)
    BY <1>2, <1>3, <1>11 DEF SessionInv, Orderly
  <2>2. /\ requests' = {q} /\ q.from = authLock' /\ q.stage = "waiting" /\ Fresh(q.token)'
    BY <1>2, <1>5, <1>6, <2>1 DEF Fresh
  <2>3. ~reused
    BY <2>1 DEF Orderly
  <2>4. tokens[k].used = "no"
    BY <2>1 DEF Fresh
  <2>5. ~reused'
    BY <1>2, <2>3, <2>4
  <2>6. authLock' # Nobody
    BY <1>2, SessionsAssumption
  <2>7. \A u \in Tab : tab'[u].phase = "installing" => tab'[u].token # 0
    BY <1>5, <1>8, <2>1 DEF Orderly
  <2>8. /\ revoking' = {} /\ \A j \in Issued' : ~tokens'[j].revoked
        /\ \A u \in Tab : session'[u] # 0 => stored' # 0
    BY <1>2, <1>6, <2>1 DEF Orderly
  <2>9. q \in requests'
    BY <2>2
  <2> QED
    BY <2>2, <2>6, <2>7, <2>5, <2>8, <2>9 DEF Orderly
<1> QED
  BY <1>2, <1>7, <1>9, <1>10, <1>11 DEF SessionInv

LEMMA KeepCurrentKeeps ==
    ASSUME SessionInv, NEW t \in Tab, KeepCurrent(t)
    PROVE  SessionInv'
<1> DEFINE k == Current(t)
           e == [phase |-> "installing", token |-> k]
<1>1. /\ session[t] # 0 /\ authLock = Nobody /\ tab' = [tab EXCEPT ![t] = e]
      /\ UNCHANGED <<tokens, requests, revoking, stored, session, authLock, storageEvent, lost,
                     signedOut, reused>>
  BY DEF KeepCurrent
<1>2. /\ k \in Issued /\ k # 0
      /\ lost = 0 /\ ~signedOut => k = stored /\ Fresh(stored)
  BY <1>1, CurrentIs
<1> HIDE DEF k
<1>3. e \in TabType /\ e.phase = "installing" /\ e.token = k
  BY <1>2 DEF SessionInv, TokenTypes, TabType
<1> HIDE DEF e
<1>4. /\ TokenTypes' /\ OneHead' /\ RowLock' /\ Issued' = Issued
      /\ \A j : Fresh(j)' <=> Fresh(j)
  BY <1>1, TokensStay DEF SessionInv, TokenTypes
<1>5. tab' \in [Tab -> TabType] /\ tab'[t] = e /\ \A u \in Tab \ {t} : tab'[u] = tab[u]
  BY <1>1, <1>3 DEF SessionInv, BrowserTypes
<1>6. BrowserTypes'
  <2>1. \A u \in Tab : tab'[u].token \in {0} \cup Issued
    BY <1>2, <1>3, <1>5 DEF SessionInv, BrowserTypes
  <2> QED
    BY <1>1, <1>4, <1>5, <2>1 DEF SessionInv, BrowserTypes
<1>7. ASSUME lost = 0, ~signedOut
      PROVE  Orderly'
  <2>1. Orderly /\ k = stored /\ Fresh(k)
    BY <1>1, <1>2, <1>7 DEF SessionInv
  <2>2. \A u \in Tab : tab'[u].phase = "installing" => tab'[u].token # 0 /\ Fresh(tab'[u].token)
    BY <1>1, <1>2, <1>3, <1>5, <2>1 DEF Orderly
  <2>3. \A u \in Tab : tab'[u].phase = "installing" => Fresh(tab[u].token)'
    BY <1>1, <2>2 DEF Fresh
  <2> QED
    BY <1>1, <1>4, <2>1, <2>2, <2>3 DEF Orderly, Fresh
<1> QED
  BY <1>1, <1>4, <1>6, <1>7 DEF SessionInv

LEMMA InstallsKeeps ==
    ASSUME SessionInv, NEW t \in Tab, Installs(t)
    PROVE  SessionInv'
<1> DEFINE k == tab[t].token
<1>1. /\ tab[t].phase = "installing" /\ Install(t, k) /\ tab' = [tab EXCEPT ![t] = Ready]
      /\ UNCHANGED <<tokens, requests, revoking, authLock, lost, signedOut, reused>>
  BY DEF Installs
<1>2. k \in {0} \cup Issued
  BY DEF SessionInv, BrowserTypes
<1>3. Ready \in TabType /\ Ready.token = 0 /\ Ready.phase = "ready"
  BY DEF Ready, TabType
<1>4. /\ TokenTypes' /\ OneHead' /\ RowLock' /\ Issued' = Issued
      /\ \A j : Fresh(j)' <=> Fresh(j)
  BY <1>1, TokensStay DEF SessionInv, TokenTypes
<1>5. tab' \in [Tab -> TabType] /\ tab'[t] = Ready /\ \A u \in Tab \ {t} : tab'[u] = tab[u]
  BY <1>1, <1>3 DEF SessionInv, BrowserTypes
<1>6. /\ stored' = k /\ session'[t] = k /\ (\A u \in Tab \ {t} : session'[u] = session[u])
      /\ session' \in [Tab -> {0} \cup Issued'] /\ storageEvent' \subseteq Tab
  BY <1>1, <1>2, <1>4, InstallIs DEF SessionInv
<1>7. BrowserTypes'
  <2>1. \A u \in Tab : tab'[u].token \in {0} \cup Issued
    BY <1>3, <1>5 DEF SessionInv, BrowserTypes
  <2> QED
    BY <1>1, <1>2, <1>4, <1>5, <1>6, <2>1 DEF SessionInv, BrowserTypes
<1>8. ASSUME lost = 0, ~signedOut
      PROVE  Orderly'
  <2>1. Orderly /\ k # 0 /\ (authLock = Nobody => Fresh(k))
    BY <1>1, <1>8 DEF SessionInv, Orderly
  <2>2. stored' # 0 /\ (authLock = Nobody => tokens'[stored'].used = "no")
    BY <1>1, <1>6, <2>1 DEF Fresh
  <2>3. \A u \in Tab : tab'[u].phase = "installing" =>
                         tab'[u].token = tab[u].token /\ tab[u].phase = "installing"
    BY <1>3, <1>5
  <2> QED
    BY <1>1, <1>4, <2>1, <2>2, <2>3 DEF Orderly, Fresh
<1> QED
  BY <1>1, <1>4, <1>7, <1>8 DEF SessionInv

LEMMA StorageChangedKeeps ==
    ASSUME SessionInv, NEW t \in Tab, StorageChanged(t)
    PROVE  SessionInv'
<1>1. /\ storageEvent' = storageEvent \ {t} /\ session' = [session EXCEPT ![t] = stored]
      /\ UNCHANGED <<tokens, requests, revoking, stored, tab, authLock, lost, signedOut, reused>>
  BY DEF StorageChanged
<1>2. /\ TokenTypes' /\ OneHead' /\ RowLock' /\ Issued' = Issued
      /\ \A j : Fresh(j)' <=> Fresh(j)
  BY <1>1, TokensStay DEF SessionInv, TokenTypes
<1>3. BrowserTypes'
  BY <1>1, <1>2 DEF SessionInv, BrowserTypes
<1>4. \A u \in Tab : session'[u] = session[u] \/ session'[u] = stored
  BY <1>1 DEF SessionInv, BrowserTypes
<1>5. Orderly => Orderly'
  BY <1>1, <1>2, <1>4 DEF Orderly, Fresh
<1> QED
  BY <1>1, <1>2, <1>3, <1>5 DEF SessionInv

LEMMA SignOutKeeps ==
    ASSUME SessionInv, NEW t \in Tab, SignOut(t)
    PROVE  SessionInv'
<1>1. /\ Install(t, 0) /\ signedOut' = TRUE
      /\ UNCHANGED <<tokens, requests, tab, authLock, lost, reused>>
  BY DEF SignOut
<1>2. revoking' \subseteq Issued
  BY DEF SignOut, Family, SessionInv, TokenTypes
<1>3. /\ TokenTypes' /\ OneHead' /\ RowLock' /\ Issued' = Issued
  BY <1>1, <1>2, TokensStay DEF SessionInv
<1>4. /\ stored' = 0 /\ session' \in [Tab -> {0} \cup Issued'] /\ storageEvent' \subseteq Tab
  BY <1>1, <1>3, InstallIs DEF SessionInv
<1>5. BrowserTypes'
  BY <1>1, <1>3, <1>4 DEF SessionInv, BrowserTypes
<1> QED
  BY <1>1, <1>3, <1>5 DEF SessionInv

-----------------------------------------------------------------------------
LEMMA LockTokenKeeps ==
    ASSUME SessionInv, NEW q \in requests, LockToken(q)
    PROVE  SessionInv'
<1> DEFINE p == [q EXCEPT !.stage = "locked"]
<1>1. /\ q.stage = "waiting" /\ ~Locked(q.token) /\ Usable(q.token)
      /\ requests' = (requests \ {q}) \cup {p}
      /\ UNCHANGED <<tokens, revoking, stored, session, tab, authLock, storageEvent, lost,
                     signedOut, reused>>
  BY DEF LockToken, Moved, MayExchange, Usable
<1>2. /\ p \in RefreshType /\ p.token = q.token /\ p.stage = "locked" /\ p.child = q.child
      /\ p.from = q.from
  BY DEF SessionInv, TokenTypes, RefreshType
<1> HIDE DEF p
<1>3. Issued' = Issued /\ (\A j : Usable(j)' <=> Usable(j)) /\ (\A j : Fresh(j)' <=> Fresh(j))
  BY <1>1 DEF Issued, Usable, Fresh
<1>4. TokenTypes'
  BY <1>1, <1>2, <1>3 DEF SessionInv, TokenTypes
<1>5. BrowserTypes' /\ OneHead'
  BY <1>1, <1>3 DEF SessionInv, BrowserTypes, OneHead
<1>6. RowLock'
  <2>1. \A r \in requests : r.stage = "locked" => r.token # q.token
    BY <1>1 DEF Locked
  <2> QED
    BY <1>1, <1>2, <1>3, <2>1 DEF SessionInv, RowLock
<1>7. Orderly => Orderly'
  <2> SUFFICES ASSUME Orderly PROVE Orderly'
    OBVIOUS
  <2>1. authLock # Nobody
    BY DEF Orderly
  <2>2. requests = {q} /\ q.from = authLock /\ Fresh(q.token)
    BY <1>1, <2>1 DEF Orderly
  <2>3. requests' = {p} /\ p.from = authLock' /\ Fresh(p.token)'
    BY <1>1, <1>2, <1>3, <2>2
  <2> QED
    BY <1>1, <1>2, <1>3, <2>1, <2>3 DEF Orderly
<1> QED
  BY <1>1, <1>4, <1>5, <1>6, <1>7 DEF SessionInv

\* An answer: the request that has it, or none if its tab waits no longer.
LEMMA AnswersIs ==
    ASSUME SessionInv, NEW q \in requests, NEW st \in {"granted", "refused"}, NEW c \in Nat,
           Answers(q, st, c)
    PROVE  /\ requests' \subseteq RefreshType
           /\ \A p \in requests' :
                 \/ p \in requests \ {q}
                 \/ /\ p.token = q.token /\ p.stage = st /\ p.child = c /\ p.from = q.from
                    /\ q.from \in Tab
           /\ q.from \in Tab => \E p \in RefreshType :
                 /\ requests' = (requests \ {q}) \cup {p}
                 /\ p.token = q.token /\ p.stage = st /\ p.child = c /\ p.from = q.from
<1> DEFINE p == [q EXCEPT !.stage = st, !.child = c]
<1>1. /\ p \in RefreshType /\ p.token = q.token /\ p.stage = st /\ p.child = c
      /\ p.from = q.from /\ requests \subseteq RefreshType /\ q.from \in Tab \cup {Nobody}
  BY DEF SessionInv, TokenTypes, RefreshType
<1>2. requests' = (requests \ {q}) \cup (IF q.from = Nobody THEN {} ELSE {p})
  BY DEF Answers
<1> HIDE DEF p
<1>3. CASE q.from = Nobody
  BY <1>1, <1>2, <1>3, SessionsAssumption
<1>4. CASE q.from # Nobody
  BY <1>1, <1>2, <1>4
<1> QED
  BY <1>3, <1>4

\* A refusal, with or without a revocation; without a lost answer and a sign-out
\* there is none.
LEMMA RefusingKeeps ==
    ASSUME SessionInv, NEW q \in requests, RefuseToken(q) \/ Replay(q)
    PROVE  SessionInv'
<1>1. /\ q.stage = "waiting" /\ Answers(q, "refused", 0) /\ revoking' \subseteq Issued
      /\ tokens[q.token].revoked \/ tokens[q.token].used # "no"
      /\ UNCHANGED <<tokens, stored, session, tab, authLock, storageEvent, lost, signedOut,
                     reused>>
  <2>1. Family(q.token) \subseteq Issued /\ revoking \subseteq Issued
    BY DEF Family, SessionInv, TokenTypes
  <2> QED
    BY <2>1 DEF RefuseToken, Replay
<1>2. /\ requests' \subseteq RefreshType
      /\ \A p \in requests' :
            \/ p \in requests \ {q}
            \/ p.token = q.token /\ p.stage = "refused" /\ p.from \in Tab
  BY <1>1, AnswersIs
<1>3. Issued' = Issued /\ (\A j : Usable(j)' <=> Usable(j))
  BY <1>1 DEF Issued, Usable
<1>4. TokenTypes'
  <2>1. \A p \in requests' : /\ p.token \in Issued
                             /\ p.stage = "granted" => p.child \in Issued
                             /\ p.stage \in {"granted", "refused"} => p.from \in Tab
    BY <1>2 DEF SessionInv, TokenTypes
  <2> QED
    BY <1>1, <1>2, <1>3, <2>1 DEF SessionInv, TokenTypes
<1>5. BrowserTypes' /\ OneHead' /\ RowLock'
  BY <1>1, <1>2, <1>3 DEF SessionInv, BrowserTypes, OneHead, RowLock
<1>6. ~Orderly
  <2> SUFFICES ASSUME Orderly PROVE FALSE
    OBVIOUS
  <2>1. authLock # Nobody
    BY DEF Orderly
  <2>2. Fresh(q.token)
    BY <1>1, <2>1 DEF Orderly
  <2> QED
    BY <1>1, <2>2 DEF Orderly, Fresh, SessionInv, TokenTypes
<1> QED
  BY <1>1, <1>4, <1>5, <1>6 DEF SessionInv

LEMMA CommitRefreshKeeps ==
    ASSUME SessionInv, NEW q \in requests, CommitRefresh(q)
    PROVE  SessionInv'
<1> DEFINE k == Next1
           f == tokens[q.token].family
<1>1. /\ q.stage = "locked" /\ k <= MaxTokens
      /\ tokens' = [Issue(f) EXCEPT ![q.token].used = "lately"]
      /\ Answers(q, "granted", k)
      /\ UNCHANGED <<revoking, stored, session, tab, authLock, storageEvent, lost, signedOut,
                     reused>>
  BY DEF CommitRefresh
<1>2. q.token \in Issued /\ f \in Issued /\ Usable(q.token) /\ TokenTypes
  BY <1>1 DEF SessionInv, TokenTypes, RowLock
<1>3. /\ k \notin Issued /\ k \in Nat /\ k # 0
      /\ \E n \in 0..MaxTokens : Issued \cup {k} = 1..n /\ Issue(f) \in [1..n -> TokenType]
      /\ \A j \in Issued : Issue(f)[j] = tokens[j]
      /\ Issue(f)[k] = [family |-> f, used |-> "no", revoked |-> FALSE]
      /\ DOMAIN Issue(f) = Issued \cup {k}
  BY <1>1, <1>2, IssueIs
<1> HIDE DEF k, f
<1>4. PICK n \in 0..MaxTokens : Issued \cup {k} = 1..n /\ Issue(f) \in [1..n -> TokenType]
  BY <1>3
<1>5. /\ tokens' \in [1..n -> TokenType]
      /\ \A j \in (1..n) \ {q.token} : tokens'[j] = Issue(f)[j]
      /\ tokens'[q.token] = [tokens[q.token] EXCEPT !.used = "lately"]
  BY <1>1, <1>2, <1>3, <1>4 DEF TokenType
<1>6. Issued' = 1..n /\ Issued' = Issued \cup {k}
  BY <1>4, <1>5 DEF Issued
<1>7. /\ tokens'[q.token].used = "lately" /\ tokens'[q.token].family = f
      /\ tokens'[q.token].revoked = tokens[q.token].revoked
      /\ \A j \in Issued \ {q.token} : tokens'[j] = tokens[j]
      /\ tokens'[k].family = f /\ tokens'[k].used = "no" /\ ~tokens'[k].revoked
  <2>1. tokens[q.token] \in TokenType
    BY <1>2 DEF TokenTypes
  <2>2. f = tokens[q.token].family
    BY DEF f
  <2>3. PICK r \in TokenType : r = tokens[q.token]
    BY <2>1
  <2>4. tokens'[q.token] = [r EXCEPT !.used = "lately"]
    BY <1>5, <2>3
  <2>5. /\ tokens'[q.token].used = "lately" /\ tokens'[q.token].family = r.family
        /\ tokens'[q.token].revoked = r.revoked
    BY <2>4 DEF TokenType
  <2>6. \A j \in Issued \ {q.token} : tokens'[j] = tokens[j]
    BY <1>3, <1>4, <1>5
  <2>7. tokens'[k] = [family |-> f, used |-> "no", revoked |-> FALSE]
    BY <1>2, <1>3, <1>4, <1>5
  <2> QED
    BY <2>2, <2>3, <2>5, <2>6, <2>7
<1>8. /\ requests' \subseteq RefreshType
      /\ \A p \in requests' :
            \/ p \in requests \ {q}
            \/ p.token = q.token /\ p.stage = "granted" /\ p.child = k /\ p.from \in Tab
      /\ q.from \in Tab => \E p \in RefreshType :
            /\ requests' = (requests \ {q}) \cup {p}
            /\ p.token = q.token /\ p.stage = "granted" /\ p.child = k /\ p.from = q.from
  BY <1>1, <1>3, AnswersIs
<1>9. TokenTypes'
  <2>1. \A j \in Issued' : tokens'[j].family \in Issued'
    BY <1>2, <1>6, <1>7 DEF TokenTypes
  <2>2. \A p \in requests' : /\ p.token \in Issued'
                             /\ p.stage = "granted" => p.child \in Issued'
                             /\ p.stage \in {"granted", "refused"} => p.from \in Tab
    BY <1>2, <1>6, <1>8 DEF TokenTypes
  <2> QED
    BY <1>1, <1>2, <1>5, <1>6, <1>8, <2>1, <2>2 DEF TokenTypes
<1>10. BrowserTypes'
  BY <1>1, <1>6 DEF SessionInv, BrowserTypes
<1>11. OneHead'
  <2>1. ASSUME NEW j \in Issued', Usable(j)', tokens'[j].family = f
        PROVE  j = k
    <3>1. CASE j \in Issued \ {q.token}
      <4>1. Usable(j) /\ tokens[j].family = f
        BY <1>7, <2>1, <3>1 DEF Usable
      <4> QED
        BY <1>2, <3>1, <4>1 DEF SessionInv, OneHead, f
    <3>2. CASE j = q.token
      BY <1>7, <2>1, <3>2 DEF Usable
    <3> QED
      BY <1>6, <3>1, <3>2
  <2>2. ASSUME NEW i \in Issued', NEW j \in Issued', tokens'[i].family = tokens'[j].family,
               Usable(i)', Usable(j)'
        PROVE  i = j
    <3>1. CASE tokens'[i].family = f
      BY <2>1, <2>2, <3>1
    <3>2. CASE tokens'[i].family # f
      <4>1. i \in Issued \ {q.token} /\ j \in Issued \ {q.token}
        BY <1>6, <1>7, <2>2, <3>2
      <4> QED
        BY <1>7, <2>2, <4>1 DEF SessionInv, OneHead, Usable
    <3> QED
      BY <3>1, <3>2
  <2> QED
    BY <2>2 DEF OneHead
<1>12. RowLock'
  <2>1. ASSUME NEW p \in requests', p.stage = "locked"
        PROVE  p \in requests \ {q} /\ Usable(p.token)'
    <3>1. p \in requests \ {q}
      BY <1>8, <2>1
    <3>2. p.token # q.token /\ p.token \in Issued /\ Usable(p.token)
      BY <1>1, <2>1, <3>1 DEF SessionInv, RowLock, TokenTypes
    <3> QED
      BY <1>7, <3>1, <3>2 DEF Usable
  <2> QED
    BY <2>1 DEF SessionInv, RowLock
<1>13. Orderly => Orderly'
  <2> SUFFICES ASSUME Orderly PROVE Orderly'
    OBVIOUS
  <2>1. authLock # Nobody /\ requests = {q} /\ q.from = authLock
    BY DEF Orderly
  <2>2. q.from \in Tab
    BY <2>1 DEF SessionInv, BrowserTypes
  <2>3. PICK p \in RefreshType :
            /\ requests' = (requests \ {q}) \cup {p}
            /\ p.token = q.token /\ p.stage = "granted" /\ p.child = k /\ p.from = q.from
    BY <1>8, <2>2
  <2>4. requests' = {p} /\ Fresh(p.child)' /\ p.from = authLock'
    BY <1>1, <1>7, <2>1, <2>3 DEF Fresh
  <2>5. \A j \in Issued' : ~tokens'[j].revoked
    BY <1>2, <1>6, <1>7 DEF Orderly
  <2> QED
    BY <1>1, <2>1, <2>3, <2>4, <2>5 DEF Orderly
<1> QED
  BY <1>1, <1>9, <1>10, <1>11, <1>12, <1>13 DEF SessionInv

\* Tokens that are no longer usable, or less; those that are locked stay as they are.
LEMMA DyingKeeps ==
    ASSUME SessionInv, tokens' \in [Issued -> TokenType],
           \A k \in Issued : /\ tokens'[k].family = tokens[k].family
                             /\ tokens'[k].used = "no" <=> tokens[k].used = "no"
                             /\ tokens[k].revoked => tokens'[k].revoked
                             /\ tokens'[k].revoked => tokens[k].revoked \/ k \in revoking,
           \A q \in requests : q.stage = "locked" =>
                                 q.token \notin revoking \/ tokens'[q.token] = tokens[q.token],
           revoking' \subseteq revoking,
           UNCHANGED <<requests, stored, session, tab, authLock, storageEvent, lost, signedOut,
                       reused>>
    PROVE  SessionInv'
<1>1. Issued' = Issued
  BY DEF Issued
<1>2. TokenTypes'
  BY <1>1 DEF SessionInv, TokenTypes
<1>3. BrowserTypes'
  BY <1>1 DEF SessionInv, BrowserTypes
<1>4. /\ \A k \in Issued : Usable(k)' => Usable(k)
      /\ \A k \in Issued : Fresh(k)' <=> Fresh(k)
      /\ \A k \in Issued \ revoking : Usable(k) => Usable(k)'
  BY DEF Usable, Fresh
<1>5. OneHead'
  BY <1>1, <1>4 DEF SessionInv, OneHead
<1>6. RowLock'
  <2>1. ASSUME NEW q \in requests, q.stage = "locked"
        PROVE  Usable(q.token)'
    <3>1. q.token \in Issued /\ Usable(q.token)
      BY <2>1 DEF SessionInv, TokenTypes, RowLock
    <3> QED
      BY <1>4, <2>1, <3>1 DEF Usable
  <2> QED
    BY <2>1 DEF SessionInv, RowLock
<1>7. Orderly => Orderly'
  <2> SUFFICES ASSUME Orderly PROVE Orderly'
    OBVIOUS
  <2>1. revoking' = {} /\ \A k \in Issued : ~tokens'[k].revoked
    BY DEF Orderly
  <2>2. stored # 0 => (Fresh(stored)' <=> Fresh(stored))
    BY <1>4 DEF SessionInv, BrowserTypes, Fresh
  <2>3. \A t \in Tab : tab[t].phase = "installing" =>
                         (Fresh(tab[t].token)' <=> Fresh(tab[t].token))
    BY <1>4 DEF SessionInv, BrowserTypes, Orderly, Fresh
  <2>4. \A q \in requests : /\ Fresh(q.token)' <=> Fresh(q.token)
                            /\ q.stage = "granted" => (Fresh(q.child)' <=> Fresh(q.child))
    BY <1>4 DEF SessionInv, TokenTypes, Fresh
  <2>5. CASE authLock = Nobody
    BY <1>1, <2>1, <2>2, <2>3, <2>5 DEF Orderly
  <2>6. CASE authLock # Nobody
    <3>1. PICK q \in requests :
                 /\ requests = {q} /\ q.from = authLock
                 /\ q.stage \in {"waiting", "locked", "granted"}
                 /\ q.stage \in {"waiting", "locked"} => Fresh(q.token)
                 /\ q.stage = "granted" => Fresh(q.child)
      BY <2>6 DEF Orderly
    <3> QED
      BY <1>1, <2>1, <2>4, <2>6, <3>1 DEF Orderly
  <2> QED
    BY <2>5, <2>6
<1> QED
  BY <1>2, <1>3, <1>5, <1>6, <1>7 DEF SessionInv

LEMMA GraceKeeps ==
    ASSUME SessionInv, NEW k \in Issued, GracePasses(k)
    PROVE  SessionInv'
<1>1. /\ tokens[k].used = "lately" /\ tokens' = [tokens EXCEPT ![k].used = "long ago"]
      /\ UNCHANGED <<requests, revoking, stored, session, tab, authLock, storageEvent, lost,
                     signedOut, reused>>
  BY DEF GracePasses
<1>2. tokens \in [Issued -> TokenType]
  BY DEF SessionInv, TokenTypes
<1>3. tokens' \in [Issued -> TokenType]
  BY <1>1, <1>2 DEF TokenType
<1>4. /\ tokens'[k].used = "long ago" /\ tokens'[k].family = tokens[k].family
      /\ tokens'[k].revoked = tokens[k].revoked
      /\ \A j \in Issued \ {k} : tokens'[j] = tokens[j]
  BY <1>1, <1>2 DEF TokenType
<1>5. \A q \in requests : q.stage = "locked" => tokens'[q.token] = tokens[q.token]
  <2>1. \A q \in requests : q.stage = "locked" => q.token \in Issued \ {k}
    BY <1>1 DEF SessionInv, RowLock, Usable, TokenTypes
  <2> QED
    BY <1>4, <2>1
<1> QED
  BY <1>1, <1>3, <1>4, <1>5, DyingKeeps

LEMMA RevokeKeeps ==
    ASSUME SessionInv, Revoke
    PROVE  SessionInv'
<1>1. /\ \A k \in revoking : ~Locked(k)
      /\ tokens' = [k \in Issued |-> [tokens[k] EXCEPT !.revoked = @ \/ k \in revoking]]
      /\ revoking' = {}
      /\ UNCHANGED <<requests, stored, session, tab, authLock, storageEvent, lost, signedOut,
                     reused>>
  BY DEF Revoke
<1>2. tokens \in [Issued -> TokenType]
  BY DEF SessionInv, TokenTypes
<1>3. ASSUME NEW k \in Issued
      PROVE  /\ tokens'[k] \in TokenType
             /\ tokens'[k].family = tokens[k].family
             /\ tokens'[k].used = tokens[k].used
             /\ tokens[k].revoked => tokens'[k].revoked
             /\ tokens'[k].revoked => tokens[k].revoked \/ k \in revoking
  <2>1. PICK b \in BOOLEAN : b = (tokens[k].revoked \/ k \in revoking)
    OBVIOUS
  <2>2. tokens'[k] = [tokens[k] EXCEPT !.revoked = b]
    BY <1>1, <2>1
  <2>3. PICK r \in TokenType : r = tokens[k]
    BY <1>2
  <2>4. tokens'[k] = [r EXCEPT !.revoked = b]
    BY <2>2, <2>3
  <2>5. [r EXCEPT !.revoked = b] \in TokenType
    BY DEF TokenType
  <2>6. [r EXCEPT !.revoked = b].family = r.family /\ [r EXCEPT !.revoked = b].used = r.used
    BY DEF TokenType
  <2>7. [r EXCEPT !.revoked = b].revoked = b
    BY DEF TokenType
  <2>8. tokens'[k] \in TokenType
    BY <2>4, <2>5
  <2>9. tokens'[k].family = tokens[k].family /\ tokens'[k].used = tokens[k].used
    BY <2>3, <2>4, <2>6
  <2>10. tokens'[k].revoked = b
    BY <2>4, <2>7
  <2>11. tokens[k].revoked => tokens'[k].revoked
    BY <2>1, <2>10
  <2>12. tokens'[k].revoked => tokens[k].revoked \/ k \in revoking
    BY <2>1, <2>10
  <2> QED
    BY <2>8, <2>9, <2>11, <2>12
<1>4. \A k \in Issued : tokens'[k] \in TokenType
  BY <1>3
<1>5. tokens' \in [Issued -> TokenType]
  <2> DEFINE E(k) == [tokens[k] EXCEPT !.revoked = @ \/ k \in revoking]
  <2>1. tokens' = [k \in Issued |-> E(k)]
    BY <1>1
  <2> HIDE DEF E
  <2> QED
    BY <1>4, <2>1
<1>6. \A q \in requests : q.stage = "locked" => q.token \notin revoking
  BY <1>1 DEF Locked
<1>7. \A k \in Issued : tokens'[k].family = tokens[k].family
  BY <1>3
<1>8. \A k \in Issued : tokens'[k].used = "no" <=> tokens[k].used = "no"
  BY <1>3
<1>9. \A k \in Issued : tokens[k].revoked => tokens'[k].revoked
  BY <1>3
<1>10. \A k \in Issued : tokens'[k].revoked => tokens[k].revoked \/ k \in revoking
  BY <1>3
<1>11. revoking' \subseteq revoking
  BY <1>1
<1> QED
  BY <1>1, <1>5, <1>6, <1>7, <1>8, <1>9, <1>10, <1>11, DyingKeeps

-----------------------------------------------------------------------------
LEMMA ReceiveGrantKeeps ==
    ASSUME SessionInv, NEW q \in requests, ReceiveGrant(q)
    PROVE  SessionInv'
<1>1. PICK t \in Tab : t = q.from
  BY DEF ReceiveGrant, SessionInv, TokenTypes
<1> DEFINE e == [phase |-> "installing", token |-> q.child]
<1>2. /\ q.stage = "granted" /\ Continued
      /\ requests' = requests \ {q} /\ authLock' = Nobody
      /\ stored' = q.child /\ storageEvent' = storageEvent \cup (Tab \ {t})
      /\ tab' = [tab EXCEPT ![t] = e]
      /\ UNCHANGED <<tokens, revoking, session, lost, signedOut, reused>>
  BY <1>1 DEF ReceiveGrant
<1>3. q.child \in Issued /\ q.child \in Nat /\ q.child # 0
  BY <1>2 DEF SessionInv, TokenTypes
<1>4. e \in TabType /\ e.phase = "installing" /\ e.token = q.child
  BY <1>3 DEF TabType
<1> HIDE DEF e
<1>5. /\ TokenTypes' /\ OneHead' /\ RowLock' /\ Issued' = Issued
      /\ \A j : Fresh(j)' <=> Fresh(j)
  BY <1>2, TokensStay DEF SessionInv, TokenTypes
<1>6. tab' \in [Tab -> TabType] /\ tab'[t] = e /\ \A u \in Tab \ {t} : tab'[u] = tab[u]
  BY <1>2, <1>4 DEF SessionInv, BrowserTypes
<1>7. BrowserTypes'
  <2>1. \A u \in Tab : tab'[u].token \in {0} \cup Issued
    BY <1>3, <1>4, <1>6 DEF SessionInv, BrowserTypes
  <2> QED
    BY <1>2, <1>3, <1>5, <1>6, <2>1 DEF SessionInv, BrowserTypes
<1>8. ASSUME lost = 0, ~signedOut
      PROVE  Orderly'
  <2>1. Orderly
    BY <1>8 DEF SessionInv
  <2>2. requests = {q} /\ Fresh(q.child)
    BY <1>2, <2>1 DEF Orderly
  <2>3. \A u \in Tab : tab'[u].phase = "installing" => u = t /\ tab'[u].token = q.child
    BY <1>2, <1>4, <1>6 DEF Continued
  <2>4. \A u \in Tab : tab'[u].phase = "installing" => Fresh(tab[u].token)'
    BY <1>2, <2>2, <2>3 DEF Fresh
  <2>5. Fresh(stored)' /\ stored' # 0 /\ requests' = {}
    BY <1>2, <1>3, <2>2 DEF Fresh
  <2>6. /\ ~reused' /\ revoking' = {} /\ \A j \in Issued' : ~tokens'[j].revoked
    BY <1>2, <1>5, <2>1 DEF Orderly
  <2> QED
    BY <1>2, <1>3, <2>3, <2>4, <2>5, <2>6 DEF Orderly
<1> QED
  BY <1>2, <1>5, <1>7, <1>8 DEF SessionInv

\* There is no refusal to receive without a lost answer and a sign-out.
LEMMA ReceiveRefusalKeeps ==
    ASSUME SessionInv, NEW q \in requests, ReceiveRefusal(q)
    PROVE  SessionInv' /\ ~(lost = 0 /\ ~signedOut)
<1>1. PICK t \in Tab : t = q.from
  BY DEF ReceiveRefusal, SessionInv, TokenTypes
<1>2. PICK k \in {0} \cup Issued :
      /\ q.stage = "refused" /\ Install(t, k)
      /\ requests' = requests \ {q} /\ authLock' = Nobody /\ tab' = [tab EXCEPT ![t] = Ready]
      /\ UNCHANGED <<tokens, revoking, lost, signedOut, reused>>
  <2>1. (IF Adopts(t, q.token) THEN stored ELSE 0) \in {0} \cup Issued
    BY DEF SessionInv, BrowserTypes
  <2> QED
    BY <1>1, <2>1 DEF ReceiveRefusal
<1>3. Ready \in TabType /\ Ready.token = 0
  BY DEF Ready, TabType
<1>4. /\ TokenTypes' /\ OneHead' /\ RowLock' /\ Issued' = Issued
  BY <1>2, TokensStay DEF SessionInv, TokenTypes
<1>5. tab' \in [Tab -> TabType] /\ tab'[t] = Ready /\ \A u \in Tab \ {t} : tab'[u] = tab[u]
  BY <1>2, <1>3 DEF SessionInv, BrowserTypes
<1>6. stored' = k /\ session' \in [Tab -> {0} \cup Issued'] /\ storageEvent' \subseteq Tab
  BY <1>2, <1>4, InstallIs DEF SessionInv
<1>7. BrowserTypes'
  <2>1. \A u \in Tab : tab'[u].token \in {0} \cup Issued
    BY <1>3, <1>5 DEF SessionInv, BrowserTypes
  <2> QED
    BY <1>2, <1>4, <1>5, <1>6, <2>1 DEF SessionInv, BrowserTypes
<1>8. ~Orderly
  BY <1>2 DEF Orderly
<1> QED
  BY <1>2, <1>4, <1>7, <1>8 DEF SessionInv

\* A request whose tab has stopped waiting keeps its token and its lock.
LEMMA LoseAnswerKeeps ==
    ASSUME SessionInv, NEW t \in Tab, LoseAnswer(t)
    PROVE  SessionInv' /\ lost' # 0
<1> DEFINE mine == {q \in requests : q.from = t}
           Left(q) == [q EXCEPT !.from = Nobody]
<1>1. /\ lost' = lost + 1 /\ authLock' = Nobody /\ tab' = [tab EXCEPT ![t] = Ready]
      /\ UNCHANGED <<tokens, revoking, signedOut, reused>>
  BY DEF LoseAnswer
<1>2. PICK arriving \in {{"locked"}, {"waiting", "locked"}} :
         requests' = (requests \ mine) \cup {Left(q) : q \in {m \in mine : m.stage \in arriving}}
  BY DEF LoseAnswer
<1>3. \A q \in requests : /\ Left(q) \in RefreshType /\ Left(q).token = q.token
                          /\ Left(q).stage = q.stage
  BY DEF SessionInv, TokenTypes, RefreshType
<1> HIDE DEF Left
<1>4. \A p \in requests' : p \in requests \/ \E q \in mine :
         q \in requests /\ q.stage \in {"waiting", "locked"} /\ p = Left(q)
  BY <1>2
<1>5. Issued' = Issued /\ (\A j : Usable(j)' <=> Usable(j))
  BY <1>1 DEF Issued, Usable
<1>6. TokenTypes'
  <2>1. ASSUME NEW p \in requests'
        PROVE  /\ p \in RefreshType /\ p.token \in Issued
               /\ p.stage = "granted" => p.child \in Issued
               /\ p.stage \in {"granted", "refused"} => p.from \in Tab
    <3>1. CASE p \in requests
      BY <3>1 DEF SessionInv, TokenTypes
    <3>2. CASE \E q \in mine : q \in requests /\ q.stage \in {"waiting", "locked"} /\ p = Left(q)
      <4>1. PICK q \in mine : q \in requests /\ q.stage \in {"waiting", "locked"} /\ p = Left(q)
        BY <3>2
      <4> QED
        BY <1>3, <4>1 DEF SessionInv, TokenTypes
    <3> QED
      BY <1>4, <3>1, <3>2
  <2>2. requests' \subseteq RefreshType
    BY <2>1
  <2> QED
    BY <1>1, <1>5, <2>1, <2>2 DEF SessionInv, TokenTypes
<1>7. RowLock'
  <2>1. ASSUME NEW p \in requests', p.stage = "locked"
        PROVE  \E q \in requests : /\ q.stage = "locked" /\ q.token = p.token
                                   /\ (p = q /\ q \notin mine) \/ (q \in mine /\ p = Left(q))
    <3>1. CASE p \in requests \ mine
      <4>1. p \in requests /\ p \notin mine
        BY <3>1
      <4> QED
        BY <2>1, <4>1
    <3>2. CASE \E q \in mine : p = Left(q)
      <4>1. PICK q \in mine : p = Left(q) /\ q \in requests
        BY <3>2
      <4> QED
        BY <1>3, <2>1, <4>1
    <3> QED
      BY <1>2, <3>1, <3>2
  <2>2. ASSUME NEW p \in requests', NEW r \in requests', p.stage = "locked", r.stage = "locked",
               p.token = r.token
        PROVE  p = r
    <3>1. PICK q \in requests : /\ q.stage = "locked" /\ q.token = p.token
                                /\ (p = q /\ q \notin mine) \/ (q \in mine /\ p = Left(q))
      BY <2>1, <2>2
    <3>2. PICK s \in requests : /\ s.stage = "locked" /\ s.token = r.token
                                /\ (r = s /\ s \notin mine) \/ (s \in mine /\ r = Left(s))
      BY <2>1, <2>2
    <3>3. q = s
      BY <2>2, <3>1, <3>2 DEF SessionInv, RowLock
    <3> QED
      BY <3>1, <3>2, <3>3
  <2>3. \A p \in requests' : p.stage = "locked" => Usable(p.token)'
    <3> SUFFICES ASSUME NEW p \in requests', p.stage = "locked" PROVE Usable(p.token)'
      OBVIOUS
    <3>1. PICK q \in requests : q.stage = "locked" /\ q.token = p.token
      BY <2>1
    <3>2. Usable(q.token)
      BY <3>1 DEF SessionInv, RowLock
    <3> QED
      BY <1>5, <3>1, <3>2
  <2> QED
    BY <2>2, <2>3 DEF RowLock
<1>8. Ready \in TabType /\ Ready.token = 0
  BY DEF Ready, TabType
<1>9. tab' \in [Tab -> TabType] /\ tab'[t] = Ready /\ \A u \in Tab \ {t} : tab'[u] = tab[u]
  BY <1>1, <1>8 DEF SessionInv, BrowserTypes
<1>10. /\ stored' \in {0} \cup Issued' /\ session' \in [Tab -> {0} \cup Issued']
       /\ storageEvent' \subseteq Tab
  <2>1. BrowserTypes
    BY DEF SessionInv
  <2>2. CASE UNCHANGED <<stored, session, storageEvent>>
    BY <1>5, <2>1, <2>2 DEF BrowserTypes
  <2>3. CASE Install(t, stored)
    BY <1>5, <2>1, <2>3, InstallIs DEF BrowserTypes
  <2> QED
    BY <2>2, <2>3 DEF LoseAnswer
<1>11. lost' \in Nat /\ lost' # 0
  BY <1>1 DEF SessionInv, BrowserTypes
<1>12. BrowserTypes'
  <2>1. \A u \in Tab : tab'[u].token \in {0} \cup Issued
    BY <1>8, <1>9 DEF SessionInv, BrowserTypes
  <2> QED
    BY <1>1, <1>5, <1>9, <1>10, <1>11, <2>1 DEF SessionInv, BrowserTypes
<1>13. OneHead'
  BY <1>1, <1>5 DEF SessionInv, OneHead
<1> QED
  BY <1>6, <1>7, <1>11, <1>12, <1>13 DEF SessionInv

-----------------------------------------------------------------------------
LEMMA SessionsGoOn ==
    ASSUME SessionInv, SessionsNext \/ UNCHANGED sessionVars
    PROVE  SessionInv'
<1>1. ASSUME NEW t \in Tab, \/ SignIn(t) \/ Send(t) \/ KeepCurrent(t) \/ Installs(t)
                            \/ SignOut(t) \/ LoseAnswer(t) \/ StorageChanged(t)
      PROVE  SessionInv'
  BY <1>1, SignInKeeps, SendKeeps, KeepCurrentKeeps, InstallsKeeps, SignOutKeeps, LoseAnswerKeeps,
     StorageChangedKeeps
<1>2. ASSUME NEW q \in requests, \/ LockToken(q) \/ RefuseToken(q) \/ CommitRefresh(q) \/ Replay(q)
                                 \/ ReceiveGrant(q) \/ ReceiveRefusal(q)
      PROVE  SessionInv'
  BY <1>2, LockTokenKeeps, RefusingKeeps, CommitRefreshKeeps, ReceiveGrantKeeps,
     ReceiveRefusalKeeps
<1>3. ASSUME NEW k \in Issued, GracePasses(k)
      PROVE  SessionInv'
  BY <1>3, GraceKeeps
<1>4. CASE Revoke
  BY <1>4, RevokeKeeps
<1>5. CASE UNCHANGED sessionVars
  BY <1>5 DEF sessionVars, SessionInv, TokenTypes, BrowserTypes, OneHead, RowLock, Orderly,
              Usable, Fresh, Issued
<1> QED
  BY <1>1, <1>2, <1>3, <1>4, <1>5 DEF SessionsNext

\* A session is emptied only by a sign-out, by an empty storage or by a refusal.
LEMMA TabStaysIn ==
    ASSUME SessionInv, SessionsNext \/ UNCHANGED sessionVars, lost' = 0, ~signedOut',
           NEW t \in Tab, session[t] # 0
    PROVE  session'[t] # 0
<1>1. lost = 0 /\ ~signedOut
  <2>1. lost' = lost \/ lost' = lost + 1
    BY DEF SessionsNext, sessionVars, SignIn, Send, KeepCurrent, Installs, SignOut, LoseAnswer,
           StorageChanged, LockToken, RefuseToken, CommitRefresh, Replay, ReceiveGrant,
           ReceiveRefusal, GracePasses, Revoke
  <2>2. signedOut' \/ signedOut' = signedOut
    BY DEF SessionsNext, sessionVars, SignIn, Send, KeepCurrent, Installs, SignOut, LoseAnswer,
           StorageChanged, LockToken, RefuseToken, CommitRefresh, Replay, ReceiveGrant,
           ReceiveRefusal, GracePasses, Revoke
  <2>3. lost \in Nat
    BY DEF SessionInv, BrowserTypes
  <2> QED
    BY <2>1, <2>2, <2>3
<1>2. Orderly
  BY <1>1 DEF SessionInv
<1>3. BrowserTypes /\ session \in [Tab -> {0} \cup Issued]
  BY DEF SessionInv, BrowserTypes
<1>4. ASSUME NEW u \in Tab, SignIn(u)
      PROVE  session'[t] # 0
  <2>1. Next1 # 0
    BY <1>4, IssueIs DEF SignIn, SessionInv
  <2> QED
    BY <1>3, <1>4, <2>1, InstallIs DEF SignIn
<1>5. ASSUME NEW u \in Tab, Installs(u)
      PROVE  session'[t] # 0
  <2>1. tab[u].token # 0
    BY <1>2, <1>5 DEF Orderly, Installs
  <2> QED
    BY <1>3, <1>5, <2>1, InstallIs DEF Installs
<1>6. ASSUME NEW u \in Tab, StorageChanged(u)
      PROVE  session'[t] # 0
  <2>1. stored # 0
    BY <1>2 DEF Orderly
  <2> QED
    BY <1>3, <1>6, <2>1 DEF StorageChanged
<1>7. ASSUME NEW u \in Tab, SignOut(u) \/ LoseAnswer(u)
      PROVE  FALSE
  BY <1>7, LoseAnswerKeeps DEF SignOut
<1>8. ASSUME NEW q \in requests, ReceiveRefusal(q)
      PROVE  FALSE
  BY <1>1, <1>8, ReceiveRefusalKeeps
<1>9. ASSUME session' = session
      PROVE  session'[t] # 0
  BY <1>9
<1> QED
  BY <1>4, <1>5, <1>6, <1>7, <1>8, <1>9
     DEF SessionsNext, sessionVars, Send, KeepCurrent, LockToken, RefuseToken, CommitRefresh,
         Replay, ReceiveGrant, GracePasses, Revoke

-----------------------------------------------------------------------------
(* The members of a tenant.                                                 *)

Ops == {"none", "grant", "invite", "claim", "remove", "cancel", "disable", "delete"}
Grants == {"grant", "claim"}
RequestSteps == {"idle", "lock", "locked", "mirror", "central", "restore", "reinvite", "unmirror"}
RequestType == [op : Ops, user : User \cup {Unheld}, role : Roles, before : Roles,
                step : RequestSteps]

MemberTypes ==
    /\ account \in [User -> {"none", "active", "disabled", "deleted"}]
    /\ role \in [User -> Roles] /\ mirror \in [User -> Roles] /\ invited \in [User -> Roles]
    /\ request \in [Request -> RequestType]
    /\ memberLock \in Request \cup {Unheld} /\ skewed \subseteq User
    /\ memberFaults \in Nat
    /\ \A u \in User : role[u] # "none" => account[u] \in {"active", "disabled"}

\* What a request has done so far, and what it knows while it holds the lock.
RequestOK(r) ==
    /\ request[r].step \in {"locked", "mirror", "central", "restore", "unmirror"}
         <=> memberLock = r
    /\ request[r].step # "idle" => request[r].user \in User
    /\ request[r].step \in {"mirror", "central", "restore", "reinvite"} => request[r].op \in Grants
    /\ request[r].step = "unmirror" => request[r].op \in {"remove", "delete"}
    /\ request[r].op \in Grants =>
         request[r].user \in User /\ request[r].role # "none" /\ account[request[r].user] # "none"
    /\ request[r].step \in {"mirror", "central", "restore"} =>
         request[r].before = role[request[r].user]
    /\ request[r].step = "central" => mirror[request[r].user] = request[r].role
    /\ request[r].step \in {"mirror", "central"} => MayGrant(r)
    /\ request[r].step = "unmirror" => role[request[r].user] = "none"

\* The request at the lock that is between the mirror and the registry.
Between(r, u) ==
    /\ memberLock = r /\ request[r].user = u
    /\ request[r].step \in {"central", "restore", "unmirror"}

MembershipInv ==
    /\ MemberTypes
    /\ \A r \in Request : RequestOK(r)
    /\ \A u \in User \ skewed : mirror[u] = role[u] \/ \E r \in Request : Between(r, u)

LEMMA MembershipsSound ==
    ASSUME MembershipInv
    PROVE  MembershipsOK /\ MirrorMatches
<1>1. \A r \in Request : memberLock = r => request[r].step # "idle"
  BY DEF MembershipInv, RequestOK
<1>2. MembershipsOK
  BY <1>1 DEF MembershipInv, MemberTypes, MembershipsOK
<1>3. MirrorMatches
  BY MembershipAssumption DEF MembershipInv, Between, MirrorMatches
<1> QED
  BY <1>2, <1>3

LEMMA MembershipsBegin ==
    ASSUME MembershipsInit
    PROVE  MembershipInv
<1>1. PICK founder \in User :
         /\ role = [u \in User |-> IF u = founder THEN "owner" ELSE "none"]
         /\ account = [u \in User |-> IF u = founder THEN "active" ELSE "none"]
  BY DEF MembershipsInit
<1>2. /\ NoRequest \in RequestType /\ NoRequest.step = "idle" /\ NoRequest.op = "none"
      /\ request = [r \in Request |-> NoRequest] /\ memberLock = Unheld /\ skewed = {}
      /\ memberFaults = 0 /\ mirror = role /\ invited = [u \in User |-> "none"]
  BY DEF MembershipsInit, NoRequest, RequestType, Ops, Roles, RequestSteps
<1>3. MemberTypes
  BY <1>1, <1>2 DEF MemberTypes, Roles
<1>4. \A r \in Request : RequestOK(r)
  BY <1>2, MembershipAssumption DEF RequestOK, Grants
<1> QED
  BY <1>2, <1>3, <1>4 DEF MembershipInv

-----------------------------------------------------------------------------
\* A step of one request.
RequestStep(r) ==
    \/ Locks(r) \/ ReadsPrevious(r) \/ WritesMirror(r) \/ WritesCentral(r)
    \/ RestoresMirror(r) \/ Reinvites(r) \/ RemovesCentral(r) \/ Unmirrors(r)
    \/ Disables(r) \/ SetsInvitation(r) \/ RequestDies(r)

\* A request that is changed is changed alone, and stays a request.
LEMMA StartsIs ==
    ASSUME MembershipInv, NEW r \in Request, NEW op \in Ops, NEW u \in User, NEW new \in Roles,
           Starts(r, op, u, new)
    PROVE  /\ request' \in [Request -> RequestType]
           /\ request'[r].op = op /\ request'[r].user = u /\ request'[r].role = new
           /\ request'[r].step = "lock" /\ request[r].step = "idle" /\ request[r].op = "none"
           /\ \A q \in Request \ {r} : request'[q] = request[q]
<1> DEFINE e == [op |-> op, user |-> u, role |-> new, before |-> "none", step |-> "lock"]
<1>1. e \in RequestType /\ e.op = op /\ e.user = u /\ e.role = new /\ e.step = "lock"
  BY DEF RequestType, RequestSteps, Roles
<1>2. request' = [request EXCEPT ![r] = e] /\ request[r] = NoRequest
  BY DEF Starts
<1>3. request \in [Request -> RequestType]
  BY DEF MembershipInv, MemberTypes
<1> HIDE DEF e
<1> QED
  BY <1>1, <1>2, <1>3 DEF NoRequest

LEMMA StepsIs ==
    ASSUME MembershipInv, NEW r \in Request, NEW st \in RequestSteps, Steps(r, st)
    PROVE  /\ request' \in [Request -> RequestType]
           /\ request'[r].op = request[r].op /\ request'[r].user = request[r].user
           /\ request'[r].role = request[r].role /\ request'[r].before = request[r].before
           /\ request'[r].step = st
           /\ \A q \in Request \ {r} : request'[q] = request[q]
BY DEF MembershipInv, MemberTypes, Steps, RequestType

LEMMA EndsIs ==
    ASSUME MembershipInv, NEW r \in Request, request' = [request EXCEPT ![r] = NoRequest]
    PROVE  /\ request' \in [Request -> RequestType]
           /\ request'[r].op = "none" /\ request'[r].step = "idle"
           /\ \A q \in Request \ {r} : request'[q] = request[q]
<1>1. NoRequest \in RequestType /\ NoRequest.op = "none" /\ NoRequest.step = "idle"
  BY DEF NoRequest, RequestType, Ops, Roles, RequestSteps
<1> QED
  BY <1>1 DEF MembershipInv, MemberTypes

\* A request that waits, at the start or with its invitation, knows nothing that
\* another can take from it; one that holds the lock is alone with it.
LEMMA Alone ==
    ASSUME MembershipInv, NEW r \in Request, memberLock = r, NEW q \in Request \ {r}
    PROVE  /\ request[q].step \notin {"locked", "mirror", "central", "restore", "unmirror"}
           /\ \A u : ~Between(q, u)
BY DEF MembershipInv, RequestOK, Between

\* MayGrant of one request depends on the roles, and on who is active.
LEMMA GrantStands ==
    ASSUME NEW r \in Request, MayGrant(r), request'[r] = request[r], role' = role,
           \A u \in User : account[u] = "active" => account'[u] = "active"
    PROVE  MayGrant(r)'
BY DEF MayGrant, OtherOwner

\* Whoever starts a request changes no member.
LEMMA NewRequestKeeps ==
    ASSUME MembershipInv, NEW r \in Request, NEW op \in Ops, NEW u \in User, NEW new \in Roles,
           Starts(r, op, u, new), op \in Grants => new # "none" /\ account'[u] # "none",
           account' \in [User -> {"none", "active", "disabled", "deleted"}],
           \A v \in User : account'[v] = account[v] \/ (account[v] = "none" /\ account'[v] = "active"),
           invited' \in [User -> Roles],
           UNCHANGED <<role, mirror, memberLock, memberFaults, skewed>>
    PROVE  MembershipInv'
<1>1. /\ request' \in [Request -> RequestType]
      /\ request'[r].op = op /\ request'[r].user = u /\ request'[r].role = new
      /\ request'[r].step = "lock" /\ request[r].step = "idle" /\ request[r].op = "none"
      /\ \A q \in Request \ {r} : request'[q] = request[q]
  BY StartsIs
<1>2. MemberTypes'
  BY <1>1 DEF MembershipInv, MemberTypes
<1>3. RequestOK(r)'
  BY <1>1 DEF MembershipInv, RequestOK
<1>4. ASSUME NEW q \in Request \ {r}
      PROVE  RequestOK(q)'
  <2>1. request'[q] = request[q] /\ RequestOK(q)
    BY <1>1 DEF MembershipInv
  <2>2. MayGrant(q) => MayGrant(q)'
    BY <2>1, GrantStands
  <2>3. request[q].op \in Grants => account'[request[q].user] # "none"
    BY <2>1 DEF RequestOK
  <2> QED
    BY <2>1, <2>2, <2>3 DEF RequestOK
<1>5. \A v \in User : (\E q \in Request : Between(q, v)) => \E q \in Request : Between(q, v)'
  BY <1>1 DEF Between
<1> QED
  BY <1>2, <1>3, <1>4, <1>5 DEF MembershipInv

LEMMA AskingKeeps ==
    ASSUME MembershipInv, NEW r \in Request, NEW u \in User,
           \/ \E new \in {"member", "owner"} : Invite(r, u, new)
           \/ \E op \in {"remove", "cancel", "disable", "delete"} : Asks(r, u, op)
           \/ SignsIn(r, u)
    PROVE  MembershipInv'
<1>1. /\ account \in [User -> {"none", "active", "disabled", "deleted"}]
      /\ invited \in [User -> Roles]
  BY DEF MembershipInv, MemberTypes
<1>2. ASSUME NEW new \in {"member", "owner"}, Invite(r, u, new)
      PROVE  MembershipInv'
  <2>1. PICK op \in {"grant", "invite"} : Starts(r, op, u, new) /\ (op = "grant" =>
                                            account[u] = "active")
    BY <1>2 DEF Invite
  <2>2. UNCHANGED <<account, role, mirror, invited, memberLock, memberFaults, skewed>>
    BY <1>2 DEF Invite
  <2>3. op \in Ops /\ new \in Roles /\ new # "none" /\ (op \in Grants => account'[u] # "none")
    BY <2>1, <2>2 DEF Ops, Roles, Grants
  <2>4. /\ account' \in [User -> {"none", "active", "disabled", "deleted"}]
        /\ \A v \in User : account'[v] = account[v]
        /\ invited' \in [User -> Roles]
    BY <1>1, <2>2
  <2> QED
    BY <2>1, <2>2, <2>3, <2>4, NewRequestKeeps
<1>3. ASSUME NEW op \in {"remove", "cancel", "disable", "delete"}, Asks(r, u, op)
      PROVE  MembershipInv'
  <2>1. op \in Ops /\ "none" \in Roles /\ op \notin Grants
    BY DEF Ops, Roles, Grants
  <2>2. /\ Starts(r, op, u, "none")
        /\ UNCHANGED <<account, role, mirror, invited, memberLock, memberFaults, skewed>>
    BY <1>3 DEF Asks
  <2>3. /\ account' \in [User -> {"none", "active", "disabled", "deleted"}]
        /\ \A v \in User : account'[v] = account[v]
        /\ invited' \in [User -> Roles]
    BY <1>1, <2>2
  <2> QED
    BY <2>1, <2>2, <2>3, NewRequestKeeps
<1>4. CASE SignsIn(r, u)
  <2>1. /\ account[u] \in {"none", "active"} /\ account' = [account EXCEPT ![u] = "active"]
        /\ UNCHANGED <<role, mirror, memberLock, memberFaults, skewed>>
    BY <1>4 DEF SignsIn
  <2>2. /\ account' \in [User -> {"none", "active", "disabled", "deleted"}]
        /\ \A v \in User : account'[v] = account[v] \/ (account[v] = "none" /\ account'[v] = "active")
        /\ account'[u] = "active"
    BY <1>1, <2>1
  <2>3. CASE invited[u] # "none"
    <3>1. Starts(r, "claim", u, invited[u]) /\ invited' = [invited EXCEPT ![u] = "none"]
      BY <1>4, <2>3 DEF SignsIn
    <3>2. "claim" \in Ops /\ invited[u] \in Roles /\ invited' \in [User -> Roles]
      BY <1>1, <3>1 DEF Ops, Roles
    <3>3. "claim" \in Grants => invited[u] # "none" /\ account'[u] # "none"
      BY <2>2, <2>3
    <3> QED
      BY <2>1, <2>2, <3>1, <3>2, <3>3, NewRequestKeeps
  <2>4. CASE invited[u] = "none"
    <3>1. UNCHANGED <<request, invited>>
      BY <1>4, <2>4 DEF SignsIn
    <3>2. MemberTypes'
      BY <2>1, <2>2, <3>1 DEF MembershipInv, MemberTypes
    <3>3. \A q \in Request : MayGrant(q) => MayGrant(q)'
      BY <2>1, <2>2, <3>1, GrantStands
    <3>4. \A q \in Request : RequestOK(q)'
      BY <2>1, <2>2, <3>1, <3>3 DEF MembershipInv, RequestOK
    <3>5. \A v \in User, q \in Request : Between(q, v) => Between(q, v)'
      BY <2>1, <3>1 DEF Between
    <3> QED
      BY <2>1, <3>1, <3>2, <3>4, <3>5 DEF MembershipInv
  <2> QED
    BY <2>3, <2>4
<1> QED
  BY <1>2, <1>3, <1>4

LEMMA EnablingKeeps ==
    ASSUME MembershipInv, NEW u \in User, EnableAccount(u)
    PROVE  MembershipInv'
<1>1. /\ memberLock = Unheld /\ account[u] = "disabled"
      /\ account' = [account EXCEPT ![u] = "active"]
      /\ UNCHANGED <<role, mirror, invited, request, memberLock, memberFaults, skewed>>
  BY DEF EnableAccount
<1>2. MemberTypes'
  BY <1>1 DEF MembershipInv, MemberTypes
<1>3. /\ \A v \in User : account[v] = "active" => account'[v] = "active"
      /\ \A v \in User : account[v] # "none" => account'[v] # "none"
  BY <1>1 DEF MembershipInv, MemberTypes
<1>4. \A q \in Request : MayGrant(q) => MayGrant(q)'
  BY <1>1, <1>3, GrantStands
<1>5. \A q \in Request : RequestOK(q)'
  BY <1>1, <1>3, <1>4 DEF MembershipInv, RequestOK
<1>6. \A v \in User, q \in Request : Between(q, v) => Between(q, v)'
  BY <1>1 DEF Between
<1> QED
  BY <1>1, <1>2, <1>5, <1>6 DEF MembershipInv

\* A request that ends or waits without the lock again, with the mirror as the
\* registry wants it or given up.
LEMMA LeavingKeeps ==
    ASSUME MembershipInv, NEW r \in Request, MemberTypes',
           \A q \in Request \ {r} : request'[q] = request[q],
           memberLock' = IF memberLock = r THEN Unheld ELSE memberLock,
           \/ request'[r].step = "idle" /\ request'[r].op = "none"
           \/ /\ request'[r].step = "reinvite" /\ request'[r].user \in User
              /\ request'[r].op \in Grants /\ request'[r].role # "none"
              /\ account'[request'[r].user] # "none",
           memberLock # r => role' = role /\ mirror' = mirror /\ account' = account,
           \A u \in User : account[u] # "none" => account'[u] # "none",
           skewed \subseteq skewed',
           \A u \in User \ skewed' :
               /\ Between(r, u) => mirror'[u] = role'[u]
               /\ mirror[u] = role[u] => mirror'[u] = role'[u]
    PROVE  MembershipInv'
<1>1. RequestOK(r)'
  BY MembershipAssumption DEF MembershipInv, RequestOK, Grants
<1>2. ASSUME NEW q \in Request \ {r}
      PROVE  RequestOK(q)'
  <2>1. CASE memberLock = r
    <3>1. request[q].step \notin {"locked", "mirror", "central", "restore", "unmirror"}
      BY <2>1, Alone
    <3> QED
      BY <2>1, <3>1, MembershipAssumption DEF MembershipInv, RequestOK
  <2>2. CASE memberLock # r
    <3>1. MayGrant(q) => MayGrant(q)'
      BY <2>2, GrantStands
    <3> QED
      BY <2>2, <3>1 DEF MembershipInv, RequestOK
  <2> QED
    BY <2>1, <2>2
<1>3. ASSUME NEW u \in User \ skewed'
      PROVE  mirror'[u] = role'[u] \/ \E q \in Request : Between(q, u)'
  <2>1. mirror[u] = role[u] \/ \E q \in Request : Between(q, u)
    BY DEF MembershipInv
  <2>2. ASSUME NEW q \in Request, Between(q, u)
        PROVE  mirror'[u] = role'[u] \/ Between(q, u)'
    <3>1. CASE q = r
      BY <2>2, <3>1
    <3>2. CASE q # r
      <4>1. memberLock = q
        BY <2>2 DEF Between
      <4> QED
        BY <2>2, <3>2, <4>1 DEF Between
    <3> QED
      BY <3>1, <3>2
  <2> QED
    BY <2>1, <2>2
<1> QED
  BY <1>1, <1>2, <1>3 DEF MembershipInv

\* A request that goes on with the lock, or takes it.
LEMMA HoldingKeeps ==
    ASSUME MembershipInv, NEW r \in Request, MemberTypes', memberLock' = r,
           memberLock \in {Unheld, r},
           \A q \in Request \ {r} : request'[q] = request[q],
           RequestOK(r)',
           \A u \in User : account[u] # "none" => account'[u] # "none",
           skewed' = skewed,
           \A u \in User \ skewed : Between(r, u)' \/ mirror'[u] = role'[u]
    PROVE  MembershipInv'
<1>1. ASSUME NEW q \in Request \ {r}
      PROVE  RequestOK(q)'
  <2>1. request[q].step \notin {"locked", "mirror", "central", "restore", "unmirror"}
    BY MembershipAssumption DEF MembershipInv, RequestOK
  <2> QED
    BY <2>1 DEF MembershipInv, RequestOK
<1> QED
  BY <1>1 DEF MembershipInv

\* A request that fails under the lock.
LEMMA RefusedKeeps ==
    ASSUME MembershipInv, NEW r \in Request, memberLock = r, request[r].op \in Grants, Refused(r),
           UNCHANGED <<account, role, invited>>, mirror' \in [User -> Roles],
           memberFaults' \in Nat, skewed \subseteq skewed', skewed' \subseteq User,
           \A v \in User \ skewed' :
               /\ Between(r, v) => mirror'[v] = role[v]
               /\ mirror[v] = role[v] => mirror'[v] = role[v]
    PROVE  MembershipInv'
<1>1. CASE request[r].op = "claim"
  <2>1. Steps(r, "reinvite") /\ memberLock' = Unheld
    BY <1>1 DEF Refused
  <2>2. /\ request' \in [Request -> RequestType]
        /\ request'[r].op = request[r].op /\ request'[r].user = request[r].user
        /\ request'[r].role = request[r].role /\ request'[r].step = "reinvite"
        /\ \A q \in Request \ {r} : request'[q] = request[q]
    BY <2>1, StepsIs DEF RequestSteps
  <2>3. MemberTypes'
    BY <2>1, <2>2 DEF MembershipInv, MemberTypes
  <2>4. /\ request'[r].user \in User /\ request'[r].role # "none"
        /\ account'[request'[r].user] # "none"
    BY <2>2 DEF MembershipInv, RequestOK
  <2> QED
    BY <2>1, <2>2, <2>3, <2>4, LeavingKeeps
<1>2. CASE request[r].op # "claim"
  <2>1. request' = [request EXCEPT ![r] = NoRequest] /\ memberLock' = Unheld
    BY <1>2 DEF Refused, Ends
  <2>2. /\ request' \in [Request -> RequestType]
        /\ request'[r].op = "none" /\ request'[r].step = "idle"
        /\ \A q \in Request \ {r} : request'[q] = request[q]
    BY <2>1, EndsIs
  <2>3. MemberTypes'
    BY <2>1, <2>2 DEF MembershipInv, MemberTypes
  <2> QED
    BY <2>1, <2>2, <2>3, LeavingKeeps
<1> QED
  BY <1>1, <1>2

-----------------------------------------------------------------------------
LEMMA RequestStepKeeps ==
    ASSUME MembershipInv, NEW r \in Request, RequestStep(r)
    PROVE  MembershipInv'
<1> DEFINE u == request[r].user
<1>1. /\ MemberTypes /\ RequestOK(r) /\ request[r] \in RequestType
      /\ \A v \in User \ skewed : mirror[v] = role[v] \/ \E q \in Request : Between(q, v)
  BY DEF MembershipInv, MemberTypes
<1>a. ASSUME memberLock = r
      PROVE  \A v \in User \ skewed : mirror[v] = role[v] \/ Between(r, v)
  BY <1>1, <1>a DEF Between
<1>b. ASSUME memberLock = Unheld
      PROVE  \A v \in User \ skewed : mirror[v] = role[v]
  BY <1>1, <1>b, MembershipAssumption DEF Between
<1> HIDE DEF u
<1>u. u = request[r].user
  BY DEF u
<1>2. CASE Locks(r)
  <2>1. /\ request[r].step = "lock" /\ memberLock = Unheld /\ memberLock' = r
        /\ Steps(r, "locked")
        /\ UNCHANGED <<account, role, mirror, invited, memberFaults, skewed>>
    BY <1>2 DEF Locks
  <2>2. /\ request' \in [Request -> RequestType]
        /\ request'[r].op = request[r].op /\ request'[r].user = request[r].user
        /\ request'[r].role = request[r].role /\ request'[r].step = "locked"
        /\ \A q \in Request \ {r} : request'[q] = request[q]
    BY <2>1, StepsIs DEF RequestSteps
  <2>3. MemberTypes'
    BY <1>1, <2>1, <2>2 DEF MemberTypes
  <2>4. RequestOK(r)'
    BY <1>1, <2>1, <2>2 DEF RequestOK
  <2> QED
    BY <2>1, <2>2, <2>3, <2>4, <1>b, HoldingKeeps
<1>3. CASE ReadsPrevious(r)
  <2>1. /\ request[r].step = "locked" /\ request[r].op \in Grants
        /\ UNCHANGED <<account, role, mirror, invited, memberFaults, skewed>>
    BY <1>3 DEF ReadsPrevious, Granting, Grants
  <2>2. memberLock = r /\ u \in User /\ request[r].role # "none" /\ account[u] # "none"
    BY <1>1, <1>u, <2>1 DEF RequestOK
  <2>3. \A v : ~Between(r, v)
    BY <2>1 DEF Between
  <2>4. CASE MayGrant(r)
    <3>1. /\ request' = [request EXCEPT ![r].before = role[u], ![r].step = "mirror"]
          /\ memberLock' = memberLock
      BY <1>3, <1>u, <2>4 DEF ReadsPrevious
    <3>2. role[u] \in Roles
      BY <1>1, <2>2 DEF MemberTypes
    <3>3. /\ request' \in [Request -> RequestType]
          /\ request'[r].op = request[r].op /\ request'[r].user = u
          /\ request'[r].role = request[r].role /\ request'[r].step = "mirror"
          /\ request'[r].before = role[u]
          /\ \A q \in Request \ {r} : request'[q] = request[q]
      BY <1>1, <1>u, <3>1, <3>2 DEF MemberTypes, RequestType, RequestSteps
    <3>4. MemberTypes'
      BY <1>1, <2>1, <3>1, <3>3 DEF MemberTypes
    <3>5. MayGrant(r)'
      BY <1>u, <2>1, <2>4, <3>3 DEF MayGrant, OtherOwner
    <3>6. RequestOK(r)'
      BY <1>1, <2>1, <2>2, <3>1, <3>3, <3>5 DEF RequestOK
    <3> QED
      BY <2>1, <2>2, <2>3, <3>1, <3>3, <3>4, <3>6, <1>a, HoldingKeeps
  <2>5. CASE ~MayGrant(r)
    <3>1. Refused(r)
      BY <1>3, <2>5 DEF ReadsPrevious
    <3> QED
      BY <1>1, <1>u, <2>1, <2>2, <2>3, <3>1, RefusedKeeps DEF MemberTypes
  <2> QED
    BY <2>4, <2>5
<1>4. CASE WritesMirror(r)
  <2>1. request[r].step = "mirror" /\ UNCHANGED <<account, role, invited, skewed>>
    BY <1>4 DEF WritesMirror
  <2>2. /\ memberLock = r /\ request[r].op \in Grants /\ u \in User /\ MayGrant(r)
        /\ request[r].before = role[u] /\ request[r].role # "none" /\ account[u] # "none"
        /\ request[r].role \in Roles
    BY <1>1, <1>u, <2>1 DEF RequestOK, RequestType
  <2>3. \A v : ~Between(r, v)
    BY <2>1 DEF Between
  <2>4. CASE /\ mirror' = [mirror EXCEPT ![u] = request[r].role]
             /\ Steps(r, "central") /\ UNCHANGED memberLock /\ NoFault
    <3>1. /\ request' \in [Request -> RequestType]
          /\ request'[r].op = request[r].op /\ request'[r].user = u
          /\ request'[r].role = request[r].role /\ request'[r].step = "central"
          /\ request'[r].before = role[u]
          /\ \A q \in Request \ {r} : request'[q] = request[q]
      BY <1>u, <2>2, <2>4, StepsIs DEF RequestSteps
    <3>2. /\ mirror' \in [User -> Roles] /\ mirror'[u] = request[r].role
          /\ \A v \in User \ {u} : mirror'[v] = mirror[v]
      BY <1>1, <2>2, <2>4 DEF MemberTypes
    <3>3. MemberTypes'
      BY <1>1, <2>1, <2>4, <3>1, <3>2 DEF MemberTypes, NoFault
    <3>4. MayGrant(r)'
      BY <1>u, <2>1, <2>2, <3>1 DEF MayGrant, OtherOwner
    <3>5. RequestOK(r)'
      BY <2>1, <2>2, <2>4, <3>1, <3>2, <3>4 DEF RequestOK
    <3>6. \A v \in User \ skewed : Between(r, v)' \/ mirror'[v] = role'[v]
      BY <1>a, <2>1, <2>2, <2>3, <2>4, <3>1, <3>2 DEF Between
    <3> QED
      BY <2>1, <2>2, <2>4, <3>1, <3>3, <3>5, <3>6, HoldingKeeps
  <2>5. CASE Faults /\ Refused(r) /\ UNCHANGED mirror
    <3>1. memberFaults' \in Nat /\ mirror' \in [User -> Roles]
      BY <1>1, <2>5 DEF Faults, MemberTypes
    <3> QED
      BY <1>1, <2>1, <2>2, <2>3, <2>5, <3>1, RefusedKeeps DEF MemberTypes
  <2> QED
    BY <1>4, <1>u, <2>4, <2>5 DEF WritesMirror
<1>5. CASE WritesCentral(r)
  <2>1. request[r].step = "central" /\ UNCHANGED <<account, mirror, invited, skewed>>
    BY <1>5 DEF WritesCentral
  <2>2. /\ memberLock = r /\ request[r].op \in Grants /\ u \in User
        /\ request[r].before = role[u] /\ request[r].role # "none" /\ account[u] # "none"
        /\ request[r].role \in Roles /\ mirror[u] = request[r].role
    BY <1>1, <1>u, <2>1 DEF RequestOK, RequestType
  <2>3. \A v \in User \ {u} : ~Between(r, v)
    BY <1>u DEF Between
  <2>4. CASE /\ account[u] # "deleted" /\ NoFault
             /\ role' = [role EXCEPT ![u] = request[r].role] /\ Ends(r)
    <3>1. request' = [request EXCEPT ![r] = NoRequest] /\ memberLock' = Unheld
      BY <2>4 DEF Ends
    <3>2. /\ request' \in [Request -> RequestType]
          /\ request'[r].op = "none" /\ request'[r].step = "idle"
          /\ \A q \in Request \ {r} : request'[q] = request[q]
      BY <3>1, EndsIs
    <3>3. /\ role' \in [User -> Roles] /\ role'[u] = request[r].role
          /\ \A v \in User \ {u} : role'[v] = role[v]
      BY <1>1, <2>2, <2>4 DEF MemberTypes
    <3>4. account[u] \in {"active", "disabled"}
      BY <1>1, <2>2, <2>4 DEF MemberTypes
    <3>5. MemberTypes'
      BY <1>1, <2>1, <2>4, <3>1, <3>2, <3>3, <3>4 DEF MemberTypes, NoFault
    <3>6. \A v \in User : (Between(r, v) \/ mirror[v] = role[v]) => mirror'[v] = role'[v]
      BY <2>1, <2>2, <2>3, <3>3
    <3> QED
      BY <2>1, <2>2, <3>1, <3>2, <3>5, <3>6, LeavingKeeps
  <2>5. CASE Steps(r, "restore") /\ UNCHANGED <<role, memberLock>> /\ (NoFault \/ Faults)
    <3>1. /\ request' \in [Request -> RequestType]
          /\ request'[r].op = request[r].op /\ request'[r].user = u
          /\ request'[r].role = request[r].role /\ request'[r].step = "restore"
          /\ request'[r].before = role[u]
          /\ \A q \in Request \ {r} : request'[q] = request[q]
      BY <1>u, <2>2, <2>5, StepsIs DEF RequestSteps
    <3>2. MemberTypes'
      BY <1>1, <2>1, <2>5, <3>1 DEF MemberTypes, NoFault, Faults
    <3>3. RequestOK(r)'
      BY <2>1, <2>2, <2>5, <3>1 DEF RequestOK
    <3>4. \A v \in User \ skewed : Between(r, v)' \/ mirror'[v] = role'[v]
      BY <1>a, <2>1, <2>2, <2>3, <2>5, <3>1 DEF Between
    <3> QED
      BY <2>1, <2>2, <2>5, <3>1, <3>2, <3>3, <3>4, HoldingKeeps
  <2> QED
    BY <1>5, <1>u, <2>4, <2>5 DEF WritesCentral
<1>6. CASE RestoresMirror(r)
  <2>1. request[r].step = "restore" /\ Refused(r) /\ UNCHANGED <<account, role, invited>>
    BY <1>6 DEF RestoresMirror
  <2>2. /\ memberLock = r /\ request[r].op \in Grants /\ u \in User
        /\ request[r].before = role[u] /\ role[u] \in Roles
    BY <1>1, <1>u, <2>1 DEF RequestOK, MemberTypes
  <2>3. \A v \in User \ {u} : ~Between(r, v)
    BY <1>u DEF Between
  <2>4. CASE mirror' = [mirror EXCEPT ![u] = request[r].before] /\ NoFault /\ UNCHANGED skewed
    <3>1. /\ mirror' \in [User -> Roles] /\ mirror'[u] = role[u]
          /\ \A v \in User \ {u} : mirror'[v] = mirror[v]
      BY <1>1, <2>2, <2>4 DEF MemberTypes
    <3>2. \A v \in User \ skewed' : /\ Between(r, v) => mirror'[v] = role[v]
                                    /\ mirror[v] = role[v] => mirror'[v] = role[v]
      BY <2>3, <3>1
    <3> QED
      BY <1>1, <2>1, <2>2, <2>4, <3>1, <3>2, RefusedKeeps DEF MemberTypes, NoFault
  <2>5. CASE Faults /\ skewed' = skewed \cup {u} /\ UNCHANGED mirror
    <3>1. \A v \in User \ skewed' : /\ Between(r, v) => mirror'[v] = role[v]
                                    /\ mirror[v] = role[v] => mirror'[v] = role[v]
      BY <2>3, <2>5
    <3>2. memberFaults' \in Nat /\ skewed' \subseteq User /\ mirror' \in [User -> Roles]
      BY <1>1, <2>2, <2>5 DEF MemberTypes, Faults
    <3> QED
      BY <2>1, <2>2, <2>5, <3>1, <3>2, RefusedKeeps
  <2> QED
    BY <1>6, <1>u, <2>4, <2>5 DEF RestoresMirror
<1>7. CASE Reinvites(r)
  <2>1. /\ request[r].step = "reinvite" /\ request' = [request EXCEPT ![r] = NoRequest]
        /\ UNCHANGED <<account, role, mirror, memberLock, skewed>>
    BY <1>7 DEF Reinvites
  <2>2. /\ request' \in [Request -> RequestType]
        /\ request'[r].op = "none" /\ request'[r].step = "idle"
        /\ \A q \in Request \ {r} : request'[q] = request[q]
    BY <2>1, EndsIs
  <2>3. memberLock # r /\ request[r].role \in Roles /\ u \in User
    BY <1>1, <1>u, <2>1 DEF RequestOK, RequestType
  <2>4. memberFaults' \in Nat /\ invited' \in [User -> Roles]
    BY <1>1, <1>7, <1>u, <2>3 DEF Reinvites, NoFault, Faults, MemberTypes
  <2>5. MemberTypes'
    BY <1>1, <2>1, <2>2, <2>4 DEF MemberTypes
  <2>6. \A v : ~Between(r, v)
    BY <2>1 DEF Between
  <2> QED
    BY <2>1, <2>2, <2>3, <2>5, <2>6, LeavingKeeps
<1>8. CASE RemovesCentral(r)
  <2>1. /\ request[r].step = "locked" /\ request[r].op \in {"remove", "delete"}
        /\ UNCHANGED <<mirror, invited, memberFaults, skewed>>
    BY <1>8 DEF RemovesCentral
  <2>2. memberLock = r /\ u \in User
    BY <1>1, <1>u, <2>1 DEF RequestOK
  <2>3. \A v : ~Between(r, v)
    BY <2>1 DEF Between
  <2>4. CASE ~MayLeave(u)
    <3>1. /\ request' = [request EXCEPT ![r] = NoRequest] /\ memberLock' = Unheld
          /\ UNCHANGED <<role, account>>
      BY <1>8, <1>u, <2>4 DEF RemovesCentral, Ends
    <3>2. /\ request' \in [Request -> RequestType]
          /\ request'[r].op = "none" /\ request'[r].step = "idle"
          /\ \A q \in Request \ {r} : request'[q] = request[q]
      BY <3>1, EndsIs
    <3>3. MemberTypes'
      BY <1>1, <2>1, <3>1, <3>2 DEF MemberTypes
    <3> QED
      BY <2>1, <2>2, <2>3, <3>1, <3>2, <3>3, LeavingKeeps
  <2>5. CASE MayLeave(u)
    <3>1. /\ role' = [role EXCEPT ![u] = "none"]
          /\ account' = account \/ account' = [account EXCEPT ![u] = "deleted"]
      BY <1>8, <1>u, <2>5 DEF RemovesCentral
    <3>2. /\ role' \in [User -> Roles] /\ role'[u] = "none"
          /\ \A v \in User \ {u} : role'[v] = role[v] /\ account'[v] = account[v]
          /\ account' \in [User -> {"none", "active", "disabled", "deleted"}]
          /\ \A v \in User : account[v] # "none" => account'[v] # "none"
      BY <1>1, <2>2, <3>1 DEF MemberTypes, Roles
    <3>3. CASE role[u] = "none"
      <4>1. request' = [request EXCEPT ![r] = NoRequest] /\ memberLock' = Unheld
        BY <1>8, <1>u, <2>5, <3>3 DEF RemovesCentral, Ends
      <4>2. /\ request' \in [Request -> RequestType]
            /\ request'[r].op = "none" /\ request'[r].step = "idle"
            /\ \A q \in Request \ {r} : request'[q] = request[q]
        BY <4>1, EndsIs
      <4>3. MemberTypes'
        BY <1>1, <2>1, <3>2, <4>1, <4>2 DEF MemberTypes
      <4>4. \A v \in User : role'[v] = role[v]
        BY <3>2, <3>3
      <4> QED
        BY <2>1, <2>2, <2>3, <3>2, <4>1, <4>2, <4>3, <4>4, LeavingKeeps
    <3>4. CASE role[u] # "none"
      <4>1. Steps(r, "unmirror") /\ memberLock' = memberLock
        BY <1>8, <1>u, <2>5, <3>4 DEF RemovesCentral
      <4>2. /\ request' \in [Request -> RequestType]
            /\ request'[r].op = request[r].op /\ request'[r].user = u
            /\ request'[r].step = "unmirror"
            /\ \A q \in Request \ {r} : request'[q] = request[q]
        BY <1>u, <4>1, StepsIs DEF RequestSteps
      <4>3. MemberTypes'
        BY <1>1, <2>1, <3>2, <4>1, <4>2 DEF MemberTypes
      <4>4. RequestOK(r)'
        BY <2>1, <2>2, <3>2, <4>1, <4>2 DEF RequestOK, Grants
      <4>5. \A v \in User \ skewed : Between(r, v)' \/ mirror'[v] = role'[v]
        BY <1>a, <2>1, <2>2, <2>3, <3>2, <4>1, <4>2 DEF Between
      <4> QED
        BY <2>1, <2>2, <3>2, <4>1, <4>2, <4>3, <4>4, <4>5, HoldingKeeps
    <3> QED
      BY <3>3, <3>4
  <2> QED
    BY <2>4, <2>5
<1>9. CASE Unmirrors(r)
  <2>1. /\ request[r].step = "unmirror" /\ UNCHANGED <<account, role, invited>>
        /\ request' = [request EXCEPT ![r] = NoRequest] /\ memberLock' = Unheld
    BY <1>9 DEF Unmirrors, Ends
  <2>2. memberLock = r /\ u \in User /\ role[u] = "none"
    BY <1>1, <1>u, <2>1 DEF RequestOK
  <2>3. /\ request' \in [Request -> RequestType]
        /\ request'[r].op = "none" /\ request'[r].step = "idle"
        /\ \A q \in Request \ {r} : request'[q] = request[q]
    BY <2>1, EndsIs
  <2>4. \A v \in User \ {u} : ~Between(r, v)
    BY <1>u DEF Between
  <2>5. CASE mirror' = [mirror EXCEPT ![u] = "none"] /\ NoFault /\ UNCHANGED skewed
    <3>1. /\ mirror' \in [User -> Roles] /\ mirror'[u] = "none"
          /\ \A v \in User \ {u} : mirror'[v] = mirror[v]
      BY <1>1, <2>2, <2>5 DEF MemberTypes, Roles
    <3>2. MemberTypes'
      BY <1>1, <2>1, <2>3, <2>5, <3>1 DEF MemberTypes, NoFault
    <3>3. \A v \in User \ skewed' : /\ Between(r, v) => mirror'[v] = role'[v]
                                    /\ mirror[v] = role[v] => mirror'[v] = role'[v]
      BY <2>1, <2>2, <2>4, <3>1
    <3> QED
      BY <2>1, <2>2, <2>3, <2>5, <3>2, <3>3, LeavingKeeps
  <2>6. CASE Faults /\ skewed' = skewed \cup {u} /\ UNCHANGED mirror
    <3>1. MemberTypes'
      BY <1>1, <2>1, <2>2, <2>3, <2>6 DEF MemberTypes, Faults
    <3>2. \A v \in User \ skewed' : /\ Between(r, v) => mirror'[v] = role'[v]
                                    /\ mirror[v] = role[v] => mirror'[v] = role'[v]
      BY <2>1, <2>4, <2>6
    <3> QED
      BY <2>1, <2>2, <2>3, <2>6, <3>1, <3>2, LeavingKeeps
  <2> QED
    BY <1>9, <1>u, <2>5, <2>6 DEF Unmirrors
<1>10. CASE Disables(r)
  <2>1. /\ request[r].step = "locked" /\ UNCHANGED <<role, mirror, invited, memberFaults, skewed>>
        /\ request' = [request EXCEPT ![r] = NoRequest] /\ memberLock' = Unheld
        /\ \/ account' = account
           \/ account[u] = "active" /\ account' = [account EXCEPT ![u] = "disabled"]
    BY <1>10, <1>u DEF Disables, Ends
  <2>2. memberLock = r /\ u \in User
    BY <1>1, <1>u, <2>1 DEF RequestOK
  <2>3. /\ request' \in [Request -> RequestType]
        /\ request'[r].op = "none" /\ request'[r].step = "idle"
        /\ \A q \in Request \ {r} : request'[q] = request[q]
    BY <2>1, EndsIs
  <2>4. /\ account' \in [User -> {"none", "active", "disabled", "deleted"}]
        /\ \A v \in User : /\ account'[v] = account[v] \/ (account'[v] = "disabled" /\ account[v] = "active")
                          /\ account[v] # "none" => account'[v] # "none"
    BY <1>1, <2>1, <2>2 DEF MemberTypes
  <2>5. MemberTypes'
    BY <1>1, <2>1, <2>3, <2>4 DEF MemberTypes
  <2>6. \A v : ~Between(r, v)
    BY <2>1 DEF Between
  <2> QED
    BY <2>1, <2>2, <2>3, <2>4, <2>5, <2>6, LeavingKeeps
<1>11. CASE SetsInvitation(r)
  <2>1. /\ request[r].step = "locked" /\ UNCHANGED <<account, role, mirror, memberFaults, skewed>>
        /\ request' = [request EXCEPT ![r] = NoRequest] /\ memberLock' = Unheld
        /\ invited' = [invited EXCEPT ![u] = request[r].role]
    BY <1>11, <1>u DEF SetsInvitation, Ends
  <2>2. memberLock = r /\ u \in User /\ request[r].role \in Roles
    BY <1>1, <1>u, <2>1 DEF RequestOK, RequestType
  <2>3. /\ request' \in [Request -> RequestType]
        /\ request'[r].op = "none" /\ request'[r].step = "idle"
        /\ \A q \in Request \ {r} : request'[q] = request[q]
    BY <2>1, EndsIs
  <2>4. MemberTypes'
    BY <1>1, <2>1, <2>2, <2>3 DEF MemberTypes
  <2>5. \A v : ~Between(r, v)
    BY <2>1 DEF Between
  <2> QED
    BY <2>1, <2>2, <2>3, <2>4, <2>5, LeavingKeeps
<1>12. CASE RequestDies(r)
  <2>1. /\ request[r].step # "idle" /\ Faults /\ UNCHANGED <<account, role, mirror, invited>>
        /\ request' = [request EXCEPT ![r] = NoRequest]
        /\ memberLock' = IF memberLock = r THEN Unheld ELSE memberLock
        /\ skewed' = IF request[r].step \in {"central", "restore", "unmirror"}
                     THEN skewed \cup {u} ELSE skewed
    BY <1>12, <1>u DEF RequestDies
  <2>2. u \in User
    BY <1>1, <1>u, <2>1 DEF RequestOK
  <2>3. /\ request' \in [Request -> RequestType]
        /\ request'[r].op = "none" /\ request'[r].step = "idle"
        /\ \A q \in Request \ {r} : request'[q] = request[q]
    BY <2>1, EndsIs
  <2>4. skewed' \subseteq User /\ skewed \subseteq skewed' /\ memberFaults' \in Nat
    BY <1>1, <2>1, <2>2 DEF MemberTypes, Faults
  <2>5. MemberTypes'
    BY <1>1, <2>1, <2>3, <2>4 DEF MemberTypes
  <2>6. \A v \in User \ skewed' : ~Between(r, v)
    BY <1>u, <2>1 DEF Between
  <2> QED
    BY <2>1, <2>3, <2>4, <2>5, <2>6, LeavingKeeps
<1> QED
  BY <1>2, <1>3, <1>4, <1>5, <1>6, <1>7, <1>8, <1>9, <1>10, <1>11, <1>12 DEF RequestStep

LEMMA MembershipsGoOn ==
    ASSUME MembershipInv, [MembershipsNext]_memberVars
    PROVE  MembershipInv'
<1>1. CASE UNCHANGED memberVars
  BY <1>1 DEF memberVars, MembershipInv, MemberTypes, RequestOK, Between, MayGrant, OtherOwner
<1>2. CASE \E r \in Request : RequestStep(r)
  BY <1>2, RequestStepKeeps
<1>3. CASE \E u \in User : EnableAccount(u)
  BY <1>3, EnablingKeeps
<1>4. CASE \E r \in Request, u \in User :
             \/ \E new \in {"member", "owner"} : Invite(r, u, new)
             \/ \E op \in {"remove", "cancel", "disable", "delete"} : Asks(r, u, op)
             \/ SignsIn(r, u)
  BY <1>4, AskingKeeps
<1> QED
  BY <1>1, <1>2, <1>3, <1>4 DEF MembershipsNext, RequestStep

-----------------------------------------------------------------------------
\* What no step takes back.

OwnerStays == ActiveOwner => ActiveOwner'

InvitationStays ==
    \A r \in Request :
        request[r].op = "claim" /\ request'[r] = NoRequest /\ memberFaults' = memberFaults =>
          LET u == request[r].user IN
          role'[u] = request[r].role \/ invited'[u] # "none"

\* The owner who is active, or another one, is active still if nobody else
\* loses a role and nobody is disabled but the user of a request that may.
LEMMA OwnerStaysIn ==
    ASSUME MembershipInv, [MembershipsNext]_memberVars
    PROVE  OwnerStays
<1> SUFFICES ASSUME NEW o \in User, role[o] = "owner", account[o] = "active"
             PROVE  ActiveOwner'
  BY DEF OwnerStays, ActiveOwner
<1>1. MemberTypes /\ \A r \in Request : RequestOK(r)
  BY DEF MembershipInv
<1>2. CASE role' = role /\ \A v \in User : account[v] = "active" => account'[v] = "active"
  BY <1>2 DEF ActiveOwner
<1>3. ASSUME NEW u \in User, OtherOwner(u),
             \A v \in User \ {u} : role'[v] = role[v] /\ account'[v] = account[v]
      PROVE  ActiveOwner'
  BY <1>3 DEF OtherOwner, ActiveOwner
<1>4. CASE UNCHANGED memberVars
  BY <1>2, <1>4 DEF memberVars
<1>5. CASE \E u \in User : EnableAccount(u)
  BY <1>1, <1>2, <1>5 DEF EnableAccount, MemberTypes
<1>6. ASSUME NEW r \in Request, NEW u \in User,
             \/ \E new \in {"member", "owner"} : Invite(r, u, new)
             \/ \E op \in {"remove", "cancel", "disable", "delete"} : Asks(r, u, op)
             \/ SignsIn(r, u)
      PROVE  ActiveOwner'
  BY <1>1, <1>2, <1>6 DEF Invite, Asks, SignsIn, MemberTypes
<1>7. ASSUME NEW r \in Request, RequestStep(r)
      PROVE  ActiveOwner'
  <2> DEFINE u == request[r].user
  <2>1. CASE \/ Locks(r) \/ ReadsPrevious(r) \/ WritesMirror(r) \/ RestoresMirror(r) \/ Reinvites(r)
             \/ Unmirrors(r) \/ SetsInvitation(r) \/ RequestDies(r)
    BY <1>2, <2>1 DEF Locks, ReadsPrevious, WritesMirror, RestoresMirror, Reinvites, Unmirrors,
                      SetsInvitation, RequestDies
  <2>2. CASE WritesCentral(r)
    <3>1. /\ u \in User /\ MayGrant(r) /\ account' = account
          /\ role' = role \/ role' = [role EXCEPT ![u] = request[r].role]
      BY <1>1, <2>2 DEF WritesCentral, RequestOK
    <3>2. CASE role[u] = "owner" /\ request[r].role # "owner"
      <4>1. OtherOwner(u) /\ \A v \in User \ {u} : role'[v] = role[v]
        BY <1>1, <3>1, <3>2 DEF MayGrant, MemberTypes
      <4> QED
        BY <1>3, <3>1, <4>1
    <3>3. CASE ~(role[u] = "owner" /\ request[r].role # "owner")
      <4>1. role'[o] = "owner"
        BY <1>1, <3>1, <3>3 DEF MemberTypes
      <4> QED
        BY <3>1, <4>1 DEF ActiveOwner
    <3> QED
      BY <3>2, <3>3
  <2>3. CASE RemovesCentral(r)
    <3>1. u \in User
      BY <1>1, <2>3 DEF RemovesCentral, RequestOK
    <3>2. CASE ~MayLeave(u)
      BY <1>2, <2>3, <3>2 DEF RemovesCentral
    <3>3. CASE MayLeave(u)
      <4>1. /\ role' = [role EXCEPT ![u] = "none"]
            /\ account' = account \/ account' = [account EXCEPT ![u] = "deleted"]
        BY <2>3, <3>3 DEF RemovesCentral
      <4>2. \A v \in User \ {u} : role'[v] = role[v] /\ account'[v] = account[v]
        BY <1>1, <4>1 DEF MemberTypes
      <4>3. CASE OtherOwner(u)
        BY <1>3, <3>1, <4>2, <4>3
      <4>4. CASE ~OtherOwner(u)
        <5>1. o # u
          BY <3>3, <4>4 DEF MayLeave
        <5> QED
          BY <4>2, <5>1 DEF ActiveOwner
      <4> QED
        BY <4>3, <4>4
    <3> QED
      BY <3>2, <3>3
  <2>4. CASE Disables(r)
    <3>1. /\ u \in User /\ role' = role
          /\ \/ account' = account
             \/ MayLeave(u) /\ account' = [account EXCEPT ![u] = "disabled"]
      BY <1>1, <2>4 DEF Disables, RequestOK
    <3>2. \A v \in User \ {u} : role'[v] = role[v] /\ account'[v] = account[v]
      BY <1>1, <3>1 DEF MemberTypes
    <3>3. CASE account' = account \/ o # u
      BY <3>1, <3>2, <3>3 DEF ActiveOwner
    <3>4. CASE account' # account /\ o = u
      BY <1>3, <3>1, <3>2, <3>4 DEF MayLeave
    <3> QED
      BY <3>3, <3>4
  <2> QED
    BY <1>7, <2>1, <2>2, <2>3, <2>4 DEF RequestStep
<1> QED
  BY <1>4, <1>5, <1>6, <1>7 DEF MembershipsNext, RequestStep

\* The claim of an invitation ends with the grant, or with the invitation back,
\* unless a fault takes both.
LEMMA InvitationStaysIn ==
    ASSUME MembershipInv, [MembershipsNext]_memberVars
    PROVE  InvitationStays
<1> SUFFICES ASSUME NEW q \in Request, request[q].op = "claim", request'[q] = NoRequest,
                    memberFaults' = memberFaults
             PROVE  \/ role'[request[q].user] = request[q].role
                    \/ invited'[request[q].user] # "none"
  BY DEF InvitationStays
<1>1. MemberTypes /\ RequestOK(q) /\ request[q] \in RequestType
  BY DEF MembershipInv, MemberTypes
<1>2. /\ NoRequest.op = "none" /\ NoRequest.step = "idle" /\ request'[q] # request[q]
      /\ request[q].user \in User /\ request[q].role # "none"
  BY <1>1 DEF NoRequest, RequestOK, Grants
<1>3. ~Faults
  BY <1>1 DEF Faults, MemberTypes
<1>4. ~UNCHANGED memberVars
  BY <1>2 DEF memberVars
<1>5. ASSUME NEW u \in User, EnableAccount(u)
      PROVE  FALSE
  BY <1>2, <1>5 DEF EnableAccount
<1>6. ASSUME NEW r \in Request, NEW u \in User,
             \/ \E new \in {"member", "owner"} : Invite(r, u, new)
             \/ \E op \in {"remove", "cancel", "disable", "delete"} : Asks(r, u, op)
             \/ SignsIn(r, u)
      PROVE  FALSE
  <2>1. request[r].op = "none" /\ \A p \in Request \ {r} : request'[p] = request[p]
        \/ request' = request
    <3>1. request' = request \/ \E op, new : Starts(r, op, u, new)
      BY <1>6 DEF Invite, Asks, SignsIn
    <3> QED
      BY <1>2, <3>1 DEF Starts, MembershipInv, MemberTypes
  <2> QED
    BY <1>2, <2>1
<1>7. ASSUME NEW r \in Request, RequestStep(r)
      PROVE  \/ role'[request[q].user] = request[q].role
             \/ invited'[request[q].user] # "none"
  <2>1. \A p \in Request \ {r} : request'[p] = request[p]
    BY <1>7 DEF RequestStep, Locks, ReadsPrevious, WritesMirror, WritesCentral, RestoresMirror,
                Reinvites, RemovesCentral, Unmirrors, Disables, SetsInvitation, RequestDies,
                Refused, Steps, Ends, MembershipInv, MemberTypes
  <2>2. q = r
    BY <1>2, <2>1
  <2>3. ASSUME NEW st \in RequestSteps, Steps(q, st)
        PROVE  FALSE
    BY <1>2, <2>3, StepsIs
  <2>4. ~Refused(q)
    BY <2>3 DEF Refused, RequestSteps
  <2>5. CASE Locks(q) \/ ReadsPrevious(q) \/ WritesMirror(q) \/ RestoresMirror(q)
    <3>1. CASE Locks(q)
      BY <2>3, <3>1 DEF Locks, RequestSteps
    <3>2. CASE ReadsPrevious(q)
      <4>1. request' = [request EXCEPT ![q].before = role[request[q].user], ![q].step = "mirror"]
        BY <2>4, <3>2 DEF ReadsPrevious
      <4>2. request'[q].op = "claim"
        BY <1>1, <4>1 DEF MemberTypes, RequestType
      <4> QED
        BY <1>2, <4>2
    <3>3. CASE WritesMirror(q)
      BY <2>3, <2>4, <3>3 DEF WritesMirror, RequestSteps
    <3>4. CASE RestoresMirror(q)
      BY <2>4, <3>4 DEF RestoresMirror
    <3> QED
      BY <2>5, <3>1, <3>2, <3>3, <3>4
  <2>6. CASE WritesCentral(q)
    <3>1. role' = [role EXCEPT ![request[q].user] = request[q].role]
      BY <2>3, <2>6 DEF WritesCentral, RequestSteps
    <3> QED
      BY <1>1, <1>2, <3>1 DEF MemberTypes
  <2>7. CASE Reinvites(q)
    <3>1. invited' = [invited EXCEPT ![request[q].user] = IF @ = "none" THEN request[q].role ELSE @]
      BY <1>3, <2>7 DEF Reinvites
    <3>2. invited'[request[q].user] = IF invited[request[q].user] = "none" THEN request[q].role
                                      ELSE invited[request[q].user]
      BY <1>1, <1>2, <3>1 DEF MemberTypes
    <3> QED
      BY <1>2, <3>2
  <2>8. ~RemovesCentral(q) /\ ~Unmirrors(q) /\ ~Disables(q) /\ ~SetsInvitation(q) /\ ~RequestDies(q)
    BY <1>1, <1>3 DEF RemovesCentral, Unmirrors, Disables, SetsInvitation, RequestDies, RequestOK
  <2> QED
    BY <1>7, <2>2, <2>5, <2>6, <2>7, <2>8 DEF RequestStep
<1> QED
  BY <1>4, <1>5, <1>6, <1>7 DEF MembershipsNext, RequestStep

-----------------------------------------------------------------------------
(* The first workspace of an account.                                       *)

SignInSteps == {"out", "lock", "again", "create", "register", "membership"}
SignInType == [step : SignInSteps, tenant : Nat]

WorkspaceTypes ==
    /\ signIn \in [SignInRequest -> SignInType] /\ createdCount \in Nat
    /\ workspaceDbs \subseteq 1..createdCount /\ registered \subseteq 1..createdCount
    /\ abandoned \subseteq 1..createdCount /\ owned \subseteq registered
    /\ personalLock \in SignInRequest \cup {NobodySignsIn}

\* Between the lock and its release stands the one request that holds it; it has
\* a tenant in hand from the database to the membership, which nobody owns.
HolderOK == \A r \in SignInRequest :
    /\ signIn[r].step \in {"again", "create", "register", "membership"} <=> personalLock = r
    /\ signIn[r].tenant # 0 <=> signIn[r].step \in {"register", "membership"}
    /\ signIn[r].step \in {"create", "register", "membership"} => owned = {}
    /\ signIn[r].tenant # 0 => signIn[r].tenant \in workspaceDbs \ abandoned
    /\ signIn[r].step = "membership" => signIn[r].tenant \in registered
    /\ signIn[r].step = "register" => signIn[r].tenant \notin registered

InHand == {signIn[r].tenant : r \in SignInRequest}

WorkspaceInv ==
    /\ WorkspaceTypes /\ HolderOK
    /\ owned \subseteq workspaceDbs \ abandoned
    /\ workspaceDbs \ abandoned \subseteq owned \cup InHand
    /\ registered \ abandoned \subseteq owned \cup InHand
    /\ owned = {} \/ \E w \in Nat : owned = {w}

\* The promises follow.
LEMMA WorkspacesSound ==
    ASSUME WorkspaceInv
    PROVE  WorkspacesOK /\ OneWorkspace /\ NothingLeftBehind
<1>1. WorkspacesOK
  <2>1. \A r \in SignInRequest : signIn[r].tenant \in 0..createdCount
    BY DEF WorkspaceInv, WorkspaceTypes, HolderOK, SignInType
  <2> QED
    BY <2>1 DEF WorkspaceInv, WorkspaceTypes, WorkspacesOK
<1>2. OneWorkspace
  <2>1. CASE owned = {}
    BY <2>1, FS_EmptySet DEF OneWorkspace
  <2>2. CASE \E w \in Nat : owned = {w}
    BY <2>2, FS_Singleton DEF OneWorkspace
  <2> QED
    BY <2>1, <2>2 DEF WorkspaceInv
<1>3. ASSUME personalLock = NobodySignsIn
      PROVE  workspaceDbs \ abandoned = owned /\ registered \ abandoned = owned
  <2>1. \A r \in SignInRequest : signIn[r].tenant = 0
    BY <1>3, WorkspaceAssumption DEF WorkspaceInv, HolderOK
  <2>2. InHand \subseteq {0}
    BY <2>1 DEF InHand
  <2>3. 0 \notin workspaceDbs /\ 0 \notin registered
    BY DEF WorkspaceInv, WorkspaceTypes
  <2>4. /\ owned \subseteq registered /\ owned \subseteq workspaceDbs \ abandoned
        /\ workspaceDbs \ abandoned \subseteq owned \cup InHand
        /\ registered \ abandoned \subseteq owned \cup InHand
    BY DEF WorkspaceInv, WorkspaceTypes
  <2>5. workspaceDbs \ abandoned = owned
    BY <2>2, <2>3, <2>4
  <2>6. registered \ abandoned = owned
    BY <2>2, <2>3, <2>4
  <2> QED
    BY <2>5, <2>6
<1> QED
  BY <1>1, <1>2, <1>3 DEF NothingLeftBehind

LEMMA WorkspacesBegin ==
    ASSUME WorkspacesInit
    PROVE  WorkspaceInv
BY WorkspaceAssumption
   DEF WorkspacesInit, WorkspaceInv, WorkspaceTypes, HolderOK, SignInType, SignInSteps, SignedOut,
       NobodySignsIn, InHand

LEMMA WorkspacesGoOn ==
    ASSUME WorkspaceInv, [WorkspacesNext]_workspaceVars
    PROVE  WorkspaceInv'
<1>1. CASE UNCHANGED workspaceVars
  BY <1>1 DEF workspaceVars, WorkspaceInv, WorkspaceTypes, HolderOK, InHand
<1> SUFFICES ASSUME NEW r \in SignInRequest,
                    \/ ListTenants(r) \/ TakePersonalLock(r) \/ ListAgain(r)
                    \/ CreateWorkspaceDatabase(r) \/ RegisterWorkspace(r) \/ OwnWorkspace(r)
                    \/ SignInDies(r)
             PROVE  WorkspaceInv'
  BY <1>1 DEF WorkspacesNext
<1> USE WorkspaceAssumption
<1>a. /\ signIn \in [SignInRequest -> SignInType]
      /\ \A s \in SignInRequest : /\ signIn[s].step \in SignInSteps /\ signIn[s].tenant \in Nat
      /\ SignedOut \in SignInType /\ SignedOut.step = "out" /\ SignedOut.tenant = 0
  BY DEF WorkspaceInv, WorkspaceTypes, SignInType, SignInSteps, SignedOut
\* What a change of one request alone may do.
<1>b. ASSUME NEW e \in SignInType, signIn' = [signIn EXCEPT ![r] = e]
      PROVE  /\ signIn' \in [SignInRequest -> SignInType] /\ signIn'[r] = e
             /\ \A s \in SignInRequest \ {r} : signIn'[s] = signIn[s]
  BY <1>a, <1>b
<1>c. ASSUME NEW st \in SignInSteps, Goes(r, st)
      PROVE  /\ signIn' \in [SignInRequest -> SignInType]
             /\ signIn'[r].step = st /\ signIn'[r].tenant = signIn[r].tenant
             /\ \A s \in SignInRequest \ {r} : signIn'[s] = signIn[s]
  BY <1>a, <1>c DEF Goes, SignInType
<1>2. CASE ListTenants(r)
  <2>1. /\ signIn' \in [SignInRequest -> SignInType]
        /\ signIn'[r].step = "lock" /\ signIn'[r].tenant = signIn[r].tenant
        /\ \A s \in SignInRequest \ {r} : signIn'[s] = signIn[s]
    BY <1>2, <1>c DEF ListTenants, SignInSteps
  <2>2. InHand' = InHand
    BY <2>1 DEF InHand
  <2>3. HolderOK'
    BY <1>2, <2>1 DEF ListTenants, At, WorkspaceInv, HolderOK
  <2> QED
    BY <1>2, <2>1, <2>2, <2>3 DEF ListTenants, WorkspaceInv, WorkspaceTypes
<1>3. CASE TakePersonalLock(r)
  <2>1. /\ signIn' \in [SignInRequest -> SignInType]
        /\ signIn'[r].step = "again" /\ signIn'[r].tenant = signIn[r].tenant
        /\ \A s \in SignInRequest \ {r} : signIn'[s] = signIn[s]
    BY <1>3, <1>c DEF TakePersonalLock, SignInSteps
  <2>2. InHand' = InHand
    BY <2>1 DEF InHand
  <2>3. HolderOK'
    BY <1>3, <2>1 DEF TakePersonalLock, At, WorkspaceInv, HolderOK
  <2> QED
    BY <1>3, <2>1, <2>2, <2>3 DEF TakePersonalLock, WorkspaceInv, WorkspaceTypes
<1>4. CASE ListAgain(r)
  <2>1. CASE owned # {}
    <3>1. Releases(r)
      BY <1>4, <2>1 DEF ListAgain
    <3>2. /\ signIn' \in [SignInRequest -> SignInType] /\ signIn'[r] = SignedOut
          /\ \A s \in SignInRequest \ {r} : signIn'[s] = signIn[s]
      BY <3>1, <1>a, <1>b DEF Releases
    <3>3. signIn[r].tenant = 0
      BY <1>4, <1>a DEF ListAgain, At, WorkspaceInv, HolderOK
    <3>4. InHand' = InHand
      BY <3>2, <3>3, <1>a DEF InHand
    <3>5. HolderOK'
      BY <1>4, <3>1, <3>2, <1>a DEF ListAgain, Releases, At, WorkspaceInv, HolderOK
    <3> QED
      BY <1>4, <3>1, <3>2, <3>4, <3>5 DEF ListAgain, Releases, WorkspaceInv, WorkspaceTypes
  <2>2. CASE owned = {}
    <3>1. /\ signIn' \in [SignInRequest -> SignInType]
          /\ signIn'[r].step = "create" /\ signIn'[r].tenant = signIn[r].tenant
          /\ \A s \in SignInRequest \ {r} : signIn'[s] = signIn[s]
      BY <1>4, <2>2, <1>c DEF ListAgain, SignInSteps
    <3>2. InHand' = InHand
      BY <3>1 DEF InHand
    <3>3. HolderOK'
      BY <1>4, <2>2, <3>1 DEF ListAgain, At, WorkspaceInv, HolderOK
    <3> QED
      BY <1>4, <2>2, <3>1, <3>2, <3>3 DEF ListAgain, WorkspaceInv, WorkspaceTypes
  <2> QED
    BY <2>1, <2>2
<1>5. CASE CreateWorkspaceDatabase(r)
  <2> DEFINE n == createdCount + 1
  <2>1. n \in Nat /\ n # 0 /\ createdCount \in Nat /\ createdCount' = n
        /\ n \notin 1..createdCount /\ n \in 1..n /\ 1..createdCount \subseteq 1..n
    BY <1>5 DEF CreateWorkspaceDatabase, WorkspaceInv, WorkspaceTypes
  <2> HIDE DEF n
  <2>2. [step |-> "register", tenant |-> n] \in SignInType
    BY <2>1 DEF SignInType, SignInSteps
  <2>3. /\ signIn' \in [SignInRequest -> SignInType]
        /\ signIn'[r] = [step |-> "register", tenant |-> n]
        /\ \A s \in SignInRequest \ {r} : signIn'[s] = signIn[s]
    BY <1>5, <2>1, <2>2, <1>b DEF CreateWorkspaceDatabase
  <2>4. signIn'[r].step = "register" /\ signIn'[r].tenant = n
    BY <2>3
  <2>5. /\ workspaceDbs' = workspaceDbs \cup {n} /\ signIn[r].step = "create"
        /\ UNCHANGED <<personalLock, registered, owned, abandoned>>
    BY <1>5, <2>1 DEF CreateWorkspaceDatabase, At
  <2>6. personalLock = r /\ owned = {}
    BY <2>5 DEF WorkspaceInv, HolderOK
  <2>7. \A s \in SignInRequest \ {r} : signIn[s].tenant = 0
    BY <2>6 DEF WorkspaceInv, HolderOK
  <2>8. /\ workspaceDbs \subseteq 1..createdCount /\ registered \subseteq 1..createdCount
        /\ abandoned \subseteq 1..createdCount
    BY DEF WorkspaceInv, WorkspaceTypes
  <2>9. WorkspaceTypes'
    BY <2>1, <2>3, <2>5, <2>8 DEF WorkspaceInv, WorkspaceTypes
  <2>10. HolderOK'
    BY <2>1, <2>3, <2>4, <2>5, <2>6, <2>7, <2>8 DEF WorkspaceInv, HolderOK
  <2>11. InHand \subseteq {0} /\ n \in InHand'
    <3>1. signIn[r].tenant = 0
      BY <2>5 DEF WorkspaceInv, HolderOK
    <3> QED
      BY <3>1, <2>4, <2>7 DEF InHand
  <2>12. 0 \notin workspaceDbs /\ 0 \notin registered
    BY <2>8
  <2> QED
    BY <2>1, <2>5, <2>6, <2>8, <2>9, <2>10, <2>11, <2>12 DEF WorkspaceInv
<1>6. CASE RegisterWorkspace(r)
  <2>1. signIn[r].step = "register" /\ UNCHANGED <<owned, createdCount, abandoned>>
    BY <1>6 DEF RegisterWorkspace, At
  <2>2. /\ personalLock = r /\ owned = {} /\ signIn[r].tenant # 0
        /\ signIn[r].tenant \in workspaceDbs \ abandoned
        /\ \A s \in SignInRequest \ {r} : signIn[s].tenant = 0
    BY <2>1 DEF WorkspaceInv, HolderOK
  <2>3. CASE /\ registered' = registered \cup {signIn[r].tenant} /\ Goes(r, "membership")
             /\ UNCHANGED <<personalLock, workspaceDbs>>
    <3>1. /\ signIn' \in [SignInRequest -> SignInType]
          /\ signIn'[r].step = "membership" /\ signIn'[r].tenant = signIn[r].tenant
          /\ \A s \in SignInRequest \ {r} : signIn'[s] = signIn[s]
      BY <2>3, <1>c DEF SignInSteps
    <3>2. InHand' = InHand
      BY <3>1 DEF InHand
    <3>3. signIn[r].tenant \in InHand
      BY DEF InHand
    <3>4. HolderOK'
      BY <2>1, <2>2, <2>3, <3>1 DEF WorkspaceInv, HolderOK
    <3>5. WorkspaceTypes'
      BY <2>1, <2>2, <2>3, <3>1 DEF WorkspaceInv, WorkspaceTypes
    <3> QED
      BY <2>1, <2>2, <2>3, <3>2, <3>3, <3>4, <3>5 DEF WorkspaceInv
  <2>4. CASE DropsDatabase(r) /\ Releases(r) /\ UNCHANGED registered
    <3>1. /\ signIn' \in [SignInRequest -> SignInType] /\ signIn'[r] = SignedOut
          /\ \A s \in SignInRequest \ {r} : signIn'[s] = signIn[s]
      BY <2>4, <1>a, <1>b DEF Releases
    <3>2. /\ personalLock' = NobodySignsIn /\ workspaceDbs' = workspaceDbs \ {signIn[r].tenant}
          /\ registered' = registered
      BY <2>4 DEF Releases, DropsDatabase
    <3>3. signIn[r].tenant \notin registered
      BY <2>1 DEF WorkspaceInv, HolderOK
    <3>4. HolderOK'
      BY <2>1, <2>2, <3>1, <3>2, <1>a DEF WorkspaceInv, HolderOK
    <3>5. WorkspaceTypes'
      BY <2>1, <3>1, <3>2 DEF WorkspaceInv, WorkspaceTypes
    <3>6. InHand \subseteq {0, signIn[r].tenant}
      BY <2>2 DEF InHand
    <3>7. 0 \notin workspaceDbs /\ 0 \notin registered
      BY DEF WorkspaceInv, WorkspaceTypes
    <3> QED
      BY <2>1, <2>2, <3>2, <3>3, <3>4, <3>5, <3>6, <3>7 DEF WorkspaceInv
  <2> QED
    BY <1>6, <2>3, <2>4 DEF RegisterWorkspace
<1>7. CASE OwnWorkspace(r)
  <2>1. /\ signIn[r].step = "membership" /\ Releases(r) /\ UNCHANGED <<createdCount, abandoned>>
    BY <1>7 DEF OwnWorkspace, At
  <2>2. /\ personalLock = r /\ owned = {} /\ signIn[r].tenant # 0
        /\ signIn[r].tenant \in workspaceDbs \ abandoned /\ signIn[r].tenant \in registered
        /\ \A s \in SignInRequest \ {r} : signIn[s].tenant = 0
    BY <2>1 DEF WorkspaceInv, HolderOK
  <2>3. /\ signIn' \in [SignInRequest -> SignInType] /\ signIn'[r] = SignedOut
        /\ \A s \in SignInRequest \ {r} : signIn'[s] = signIn[s]
        /\ personalLock' = NobodySignsIn
    BY <2>1, <1>a, <1>b DEF Releases
  <2>4. InHand \subseteq {0, signIn[r].tenant} /\ InHand' \subseteq {0}
    BY <2>2, <2>3, <1>a DEF InHand
  <2>5. 0 \notin workspaceDbs /\ 0 \notin registered
    BY DEF WorkspaceInv, WorkspaceTypes
  <2>6. CASE /\ owned' = owned \cup {signIn[r].tenant}
             /\ UNCHANGED <<workspaceDbs, registered>>
    <3>1. HolderOK'
      BY <2>1, <2>2, <2>3, <2>6, <1>a DEF WorkspaceInv, HolderOK
    <3>2. WorkspaceTypes'
      BY <2>1, <2>2, <2>3, <2>6 DEF WorkspaceInv, WorkspaceTypes
    <3>3. owned' = {signIn[r].tenant} /\ signIn[r].tenant \in Nat
      BY <2>2, <2>6, <1>a
    <3> QED
      BY <2>1, <2>2, <2>4, <2>5, <2>6, <3>1, <3>2, <3>3 DEF WorkspaceInv
  <2>7. CASE DropsDatabase(r) /\ registered' = registered \ {signIn[r].tenant} /\ UNCHANGED owned
    <3>1. workspaceDbs' = workspaceDbs \ {signIn[r].tenant}
      BY <2>7 DEF DropsDatabase
    <3>2. HolderOK'
      BY <2>1, <2>2, <2>3, <2>7, <3>1, <1>a DEF WorkspaceInv, HolderOK
    <3>3. WorkspaceTypes'
      BY <2>1, <2>2, <2>3, <2>7, <3>1 DEF WorkspaceInv, WorkspaceTypes
    <3> QED
      BY <2>1, <2>2, <2>4, <2>5, <2>7, <3>1, <3>2, <3>3 DEF WorkspaceInv
  <2> QED
    BY <1>7, <2>6, <2>7 DEF OwnWorkspace
<1>8. CASE SignInDies(r)
  <2>1. /\ signIn' \in [SignInRequest -> SignInType] /\ signIn'[r] = SignedOut
        /\ \A s \in SignInRequest \ {r} : signIn'[s] = signIn[s]
    BY <1>8, <1>a, <1>b DEF SignInDies
  <2>2. /\ abandoned' = IF signIn[r].tenant = 0 THEN abandoned
                        ELSE abandoned \cup {signIn[r].tenant}
        /\ personalLock' = IF personalLock = r THEN NobodySignsIn ELSE personalLock
        /\ UNCHANGED <<workspaceDbs, registered, owned, createdCount>>
    BY <1>8 DEF SignInDies
  <2>3. HolderOK'
    BY <2>1, <2>2, <1>a DEF WorkspaceInv, HolderOK
  <2>4. abandoned' \subseteq 1..createdCount
    BY <2>2 DEF WorkspaceInv, WorkspaceTypes, HolderOK
  <2>5. WorkspaceTypes'
    BY <2>1, <2>2, <2>4 DEF WorkspaceInv, WorkspaceTypes
  <2>6. signIn[r].tenant # 0 => owned = {}
    BY DEF WorkspaceInv, HolderOK
  <2>7. InHand \subseteq InHand' \cup {signIn[r].tenant}
    BY <2>1 DEF InHand
  <2>8. 0 \notin workspaceDbs /\ 0 \notin registered
    BY DEF WorkspaceInv, WorkspaceTypes
  <2> QED
    BY <2>2, <2>3, <2>5, <2>6, <2>7, <2>8 DEF WorkspaceInv
<1> QED
  BY <1>2, <1>3, <1>4, <1>5, <1>6, <1>7, <1>8

-----------------------------------------------------------------------------
(* The members of a project.                                                *)

HandlerSteps == {"idle", "exists", "add", "pending", "accept"}
InvitationType == [role : ProjectRoles, accepted : BOOLEAN, id : Nat]
HandlerType == [step : HandlerSteps, role : ProjectRoles \cup {"none"},
                rows : SUBSET InvitationType]

\* What a handler does rests on what is there: an invitation that was written, an
\* account that was seen, a role that was asked for.
HandlerOK(h) ==
    /\ handler[h].step \in {"exists", "add"} =>
         handler[h].role \in ProjectRoles /\ invitations # {}
    /\ handler[h].step \in {"add", "pending", "accept"} => dashboardUser
    /\ handler[h].rows # {} => invitations # {}

\* A handler that will make the address a member.
WillAdd(h) ==
    \/ handler[h].step \in {"exists", "add", "pending"}
    \/ handler[h].step = "accept" /\ handler[h].rows # {}

ProjectMembersInv ==
    /\ dashboardUser \in BOOLEAN /\ ownerEmail \in BOOLEAN /\ handled \in Nat
    /\ invitations \subseteq InvitationType
    /\ handler \in [Handler -> HandlerType]
    /\ projectRole \in ProjectRoles \cup {"none"}
    /\ projectRole # "none" => dashboardUser /\ invitations # {}
    /\ projectRole = "none" => \A i \in invitations : ~i.accepted
    /\ \A h \in Handler : HandlerOK(h)
    /\ dashboardUser /\ invitations # {} /\ projectRole = "none" => \E h \in Handler : WillAdd(h)

LEMMA ProjectMembersSound ==
    ASSUME ProjectMembersInv
    PROVE  ProjectMembersOK /\ InvitedIsMember
<1>1. ProjectMembersOK
  BY DEF ProjectMembersInv, ProjectMembersOK, InvitationType
<1>2. \A h \in Handler : handler[h] = IdleHandler => ~WillAdd(h)
  BY DEF IdleHandler, WillAdd
<1> QED
  BY <1>1, <1>2 DEF ProjectMembersInv, InvitedIsMember

LEMMA ProjectMembersBegin ==
    ASSUME ProjectMembersInit
    PROVE  ProjectMembersInv
<1>1. IdleHandler \in HandlerType
  BY DEF IdleHandler, HandlerType, HandlerSteps
<1>2. \A h \in Handler : HandlerOK(h)
  BY DEF ProjectMembersInit, HandlerOK, IdleHandler
<1> QED
  BY <1>1, <1>2 DEF ProjectMembersInit, ProjectMembersInv

LEMMA ProjectMembersGoOn ==
    ASSUME ProjectMembersInv, [ProjectMembersNext]_projectMemberVars
    PROVE  ProjectMembersInv'
<1>1. CASE UNCHANGED projectMemberVars
  BY <1>1 DEF projectMemberVars, ProjectMembersInv, HandlerOK, WillAdd
<1> SUFFICES ASSUME NEW h \in Handler,
                    \/ \E new \in ProjectRoles : InviteToProject(h, new)
                    \/ UserExists(h) \/ AddMember(h) \/ CreateUser(h) \/ ReadPending(h) \/ Accept(h)
             PROVE  ProjectMembersInv'
  BY <1>1 DEF ProjectMembersNext
<1>a. /\ handler \in [Handler -> HandlerType] /\ handler[h] \in HandlerType
      /\ IdleHandler \in HandlerType /\ IdleHandler.step = "idle" /\ IdleHandler.rows = {}
      /\ IdleHandler.role = "none"
  BY DEF ProjectMembersInv, IdleHandler, HandlerType, HandlerSteps
<1>b. ASSUME NEW e \in HandlerType, handler' = [handler EXCEPT ![h] = e]
      PROVE  /\ handler' \in [Handler -> HandlerType] /\ handler'[h] = e
             /\ \A g \in Handler \ {h} : handler'[g] = handler[g]
  BY <1>a, <1>b
<1>c. \A g \in Handler \ {h} : handler'[g] = handler[g] =>
         (WillAdd(g)' <=> WillAdd(g))
  BY DEF WillAdd
<1>2. ASSUME NEW new \in ProjectRoles, InviteToProject(h, new)
      PROVE  ProjectMembersInv'
  <2> DEFINE i == [role |-> new, accepted |-> FALSE, id |-> handled]
             e == [step |-> "exists", role |-> new, rows |-> {}]
  <2>1. i \in InvitationType /\ ~i.accepted
    BY DEF InvitationType, ProjectMembersInv
  <2>2. e \in HandlerType /\ e.step = "exists" /\ e.role = new /\ e.rows = {}
    BY DEF HandlerType, HandlerSteps
  <2>3. /\ invitations' = invitations \cup {i} /\ handled' = handled + 1
        /\ handler' = [handler EXCEPT ![h] = e]
        /\ UNCHANGED <<dashboardUser, projectRole, ownerEmail>>
    BY <1>2 DEF InviteToProject, Takes
  <2> HIDE DEF i, e
  <2>4. /\ handler' \in [Handler -> HandlerType] /\ handler'[h] = e
        /\ \A g \in Handler \ {h} : handler'[g] = handler[g]
    BY <2>2, <2>3, <1>b
  <2>5. \A g \in Handler : HandlerOK(g)'
    BY <2>2, <2>3, <2>4 DEF ProjectMembersInv, HandlerOK
  <2>6. WillAdd(h)'
    BY <2>2, <2>4 DEF WillAdd
  <2> QED
    BY <2>1, <2>3, <2>4, <2>5, <2>6 DEF ProjectMembersInv
<1>3. CASE UserExists(h)
  <2>1. /\ UNCHANGED <<dashboardUser, invitations, projectRole, ownerEmail, handled>>
        /\ handler[h].step = "exists"
    BY <1>3 DEF UserExists
  <2>2. CASE dashboardUser
    <3>1. /\ handler' \in [Handler -> HandlerType] /\ handler'[h].step = "add"
          /\ handler'[h].role = handler[h].role /\ handler'[h].rows = handler[h].rows
          /\ \A g \in Handler \ {h} : handler'[g] = handler[g]
      BY <1>3, <2>2, <1>a DEF UserExists, HandlerType, HandlerSteps
    <3>2. \A g \in Handler : HandlerOK(g)'
      BY <2>1, <2>2, <3>1 DEF ProjectMembersInv, HandlerOK
    <3>3. WillAdd(h)'
      BY <3>1 DEF WillAdd
    <3> QED
      BY <2>1, <3>1, <3>2, <3>3 DEF ProjectMembersInv
  <2>3. CASE ~dashboardUser
    <3>1. handler' = [handler EXCEPT ![h] = IdleHandler]
      BY <1>3, <2>3 DEF UserExists
    <3>2. /\ handler' \in [Handler -> HandlerType] /\ handler'[h] = IdleHandler
          /\ \A g \in Handler \ {h} : handler'[g] = handler[g]
      BY <1>a, <1>b, <3>1
    <3>3. \A g \in Handler : HandlerOK(g)'
      BY <2>1, <3>2, <1>a DEF ProjectMembersInv, HandlerOK
    <3> QED
      BY <2>1, <2>3, <3>2, <3>3 DEF ProjectMembersInv
  <2> QED
    BY <2>2, <2>3
<1>4. CASE AddMember(h)
  <2>1. /\ handler[h].step = "add" /\ projectRole' = handler[h].role
        /\ ownerEmail' = (ownerEmail \/ handler[h].role = "owner")
        /\ handler' = [handler EXCEPT ![h] = IdleHandler]
        /\ UNCHANGED <<dashboardUser, invitations, handled>>
    BY <1>4 DEF AddMember, Becomes
  <2>2. handler[h].role \in ProjectRoles /\ invitations # {} /\ dashboardUser
    BY <2>1 DEF ProjectMembersInv, HandlerOK
  <2>3. /\ handler' \in [Handler -> HandlerType] /\ handler'[h] = IdleHandler
        /\ \A g \in Handler \ {h} : handler'[g] = handler[g]
    BY <1>a, <1>b, <2>1
  <2>4. \A g \in Handler : HandlerOK(g)'
    BY <2>1, <2>3, <1>a DEF ProjectMembersInv, HandlerOK
  <2>5. projectRole' # "none"
    BY <2>1, <2>2 DEF ProjectRoles
  <2>6. ownerEmail' \in BOOLEAN
    BY <2>1 DEF ProjectMembersInv
  <2> QED
    BY <2>1, <2>2, <2>3, <2>4, <2>5, <2>6 DEF ProjectMembersInv
<1>5. CASE CreateUser(h)
  <2> DEFINE e == [step |-> "pending", role |-> "none", rows |-> {}]
  <2>1. e \in HandlerType /\ e.step = "pending" /\ e.rows = {}
    BY DEF HandlerType, HandlerSteps
  <2>2. /\ handled' = handled + 1 /\ dashboardUser' = TRUE
        /\ handler' = [handler EXCEPT ![h] = e]
        /\ UNCHANGED <<invitations, projectRole, ownerEmail>>
    BY <1>5 DEF CreateUser, Takes
  <2> HIDE DEF e
  <2>3. /\ handler' \in [Handler -> HandlerType] /\ handler'[h] = e
        /\ \A g \in Handler \ {h} : handler'[g] = handler[g]
    BY <2>1, <2>2, <1>b
  <2>4. \A g \in Handler : HandlerOK(g)'
    BY <2>1, <2>2, <2>3 DEF ProjectMembersInv, HandlerOK
  <2>5. WillAdd(h)'
    BY <2>1, <2>3 DEF WillAdd
  <2> QED
    BY <2>2, <2>3, <2>4, <2>5 DEF ProjectMembersInv
<1>6. CASE ReadPending(h)
  <2> DEFINE open == {i \in invitations : ~i.accepted}
  <2>1. /\ handler[h].step = "pending"
        /\ handler' = [handler EXCEPT ![h].step = "accept", ![h].rows = open]
        /\ UNCHANGED <<dashboardUser, invitations, projectRole, ownerEmail, handled>>
    BY <1>6 DEF ReadPending
  <2>2. open \subseteq invitations /\ open \subseteq InvitationType
        /\ (projectRole = "none" => open = invitations)
    BY DEF ProjectMembersInv
  <2> HIDE DEF open
  <2>3. /\ handler' \in [Handler -> HandlerType] /\ handler'[h].step = "accept"
        /\ handler'[h].rows = open
        /\ \A g \in Handler \ {h} : handler'[g] = handler[g]
    BY <1>a, <2>1, <2>2 DEF HandlerType, HandlerSteps
  <2>4. \A g \in Handler : HandlerOK(g)'
    BY <2>1, <2>2, <2>3 DEF ProjectMembersInv, HandlerOK
  <2>5. projectRole = "none" /\ invitations # {} => WillAdd(h)'
    BY <2>2, <2>3 DEF WillAdd
  <2> QED
    BY <2>1, <2>3, <2>4, <2>5 DEF ProjectMembersInv
<1>7. CASE Accept(h)
  <2>1. handler[h].step = "accept" /\ UNCHANGED <<dashboardUser, handled>> /\ dashboardUser
    BY <1>7 DEF Accept, ProjectMembersInv, HandlerOK
  <2>2. CASE handler[h].rows = {}
    <3>1. /\ handler' = [handler EXCEPT ![h] = IdleHandler]
          /\ UNCHANGED <<invitations, projectRole, ownerEmail>>
      BY <1>7, <2>2 DEF Accept
    <3>2. /\ handler' \in [Handler -> HandlerType] /\ handler'[h] = IdleHandler
          /\ \A g \in Handler \ {h} : handler'[g] = handler[g]
      BY <1>a, <1>b, <3>1
    <3>3. \A g \in Handler : HandlerOK(g)'
      BY <2>1, <3>1, <3>2, <1>a DEF ProjectMembersInv, HandlerOK
    <3>4. ~WillAdd(h)
      BY <2>1, <2>2 DEF WillAdd
    <3>5. (\E g \in Handler : WillAdd(g)) => \E g \in Handler : WillAdd(g)'
      BY <3>2, <3>4, <1>c
    <3> QED
      BY <2>1, <3>1, <3>2, <3>3, <3>5 DEF ProjectMembersInv
  <2>3. ASSUME NEW i \in handler[h].rows, Becomes(i.role),
               invitations' = {[j EXCEPT !.accepted = TRUE] : j \in invitations},
               handler' = [handler EXCEPT ![h].rows = @ \ {i}]
        PROVE  ProjectMembersInv'
    <3>1. i \in InvitationType /\ i.role \in ProjectRoles
      BY <2>3, <1>a DEF HandlerType, InvitationType
    <3>2. invitations # {} /\ invitations \subseteq InvitationType
      BY <2>3 DEF ProjectMembersInv, HandlerOK
    <3>3. invitations' # {}
      BY <2>3, <3>2
    <3>4. invitations' \subseteq InvitationType
      <4>1. \A j \in InvitationType : [j EXCEPT !.accepted = TRUE] \in InvitationType
        BY DEF InvitationType
      <4> QED
        BY <4>1, <2>3, <3>2
    <3>5. /\ handler' \in [Handler -> HandlerType] /\ handler'[h].step = "accept"
          /\ \A g \in Handler \ {h} : handler'[g] = handler[g]
      BY <1>a, <2>1, <2>3 DEF HandlerType
    <3>6. \A g \in Handler : HandlerOK(g)'
      BY <2>1, <3>2, <3>3, <3>5 DEF ProjectMembersInv, HandlerOK
    <3>7. /\ projectRole' = i.role /\ ownerEmail' \in BOOLEAN /\ projectRole' # "none"
      BY <2>3, <3>1 DEF Becomes, ProjectRoles, ProjectMembersInv
    <3> QED
      BY <2>1, <3>1, <3>3, <3>4, <3>5, <3>6, <3>7 DEF ProjectMembersInv
  <2> QED
    BY <1>7, <2>2, <2>3 DEF Accept
<1> QED
  BY <1>2, <1>3, <1>4, <1>5, <1>6, <1>7

-----------------------------------------------------------------------------
(* The platform: every part makes its own steps, or none.                   *)

PlatformInv ==
    /\ RegistryInv /\ EnvInv /\ RequirementInv /\ SessionInv
    /\ MembershipInv /\ WorkspaceInv /\ ProjectMembersInv

LEMMA PlatformBegins ==
    ASSUME Init
    PROVE  PlatformInv
BY RegistryBegins, EnvBegins, RequirementBegins, SessionsBegin, MembershipsBegin,
   WorkspacesBegin, ProjectMembersBegin DEF Init, PlatformInv

LEMMA PartsStep ==
    ASSUME [Next]_platformVars
    PROVE  /\ ProjectsNext \/ UNCHANGED projectVars
           /\ EnvNext \/ UNCHANGED envVars
           /\ [RequirementNext]_requirementVars
           /\ SessionsNext \/ UNCHANGED sessionVars
           /\ [MembershipsNext]_memberVars
           /\ [WorkspacesNext]_workspaceVars
           /\ [ProjectMembersNext]_projectMemberVars
<1>1. CASE UNCHANGED platformVars
  BY <1>1 DEF platformVars, controlVars, accountVars
<1>2. CASE Control /\ UNCHANGED accountVars
  BY <1>2 DEF Control, accountVars
<1>3. CASE Accounts /\ UNCHANGED controlVars
  BY <1>3 DEF Accounts, controlVars
<1> QED
  BY <1>1, <1>2, <1>3 DEF Next

LEMMA PlatformGoesOn ==
    ASSUME PlatformInv, [Next]_platformVars
    PROVE  PlatformInv'
BY PartsStep, RegistryGoesOn, EnvGoesOn, RequirementGoesOn, SessionsGoOn, MembershipsGoOn,
   WorkspacesGoOn, ProjectMembersGoOn DEF PlatformInv

\* As long as the process lives, a key that a rotation has replaced opens nothing,
\* and a project whose creation was answered keeps its database and its row until
\* its deletion, whatever hydration, restart, failing call or other handler comes
\* between (projects.go).
THEOREM ProjectsStaySound == Spec => []ProjectsSound
<1>1. PlatformInv => ProjectsSound
  BY RegistryIsSound DEF PlatformInv, ProjectsSound, EnvInv
<1> QED
  BY <1>1, PlatformBegins, PlatformGoesOn, PTL DEF Spec

\* The registry and the tenant database name the same members whoever holds no
\* lock, an account that signs in twice at once gets one workspace and leaves no
\* debris, and an invitation is accepted only by whoever has become a member
\* (app_auth_memberships.go, dashboard_auth.go).
THEOREM MembersStaySound == Spec => []MembersSound
<1>1. PlatformInv => MembersSound
  BY MembershipsSound, WorkspacesSound, ProjectMembersSound DEF PlatformInv, MembersSound
<1> QED
  BY <1>1, PlatformBegins, PlatformGoesOn, PTL DEF Spec

\* Whoever asks after a switch of the provider is told the new state, an enable is
\* final, a login has one token that can be exchanged, and the tabs of a browser
\* do not present another's (app_auth.go, index.tsx).
THEOREM SessionsStaySound == Spec => []SessionsSound
<1>1. PlatformInv => SessionsSound
  BY RequirementIsSound, SessionsAreSound DEF PlatformInv, SessionsSound
<1> QED
  BY <1>1, PlatformBegins, PlatformGoesOn, PTL DEF Spec

StaysIn == lost' = 0 /\ ~signedOut' => \A t \in Tab : session[t] # 0 => session'[t] # 0

LEMMA NothingGoesBack ==
    ASSUME PlatformInv, [Next]_platformVars
    PROVE  /\ [served' >= served]_envVars /\ [StaysIn]_sessionVars
           /\ [OwnerStays]_memberVars /\ [InvitationStays]_memberVars
BY PartsStep, EnvGoesOn, TabStaysIn, OwnerStaysIn, InvitationStaysIn DEF PlatformInv, StaysIn

\* No step takes back what others rely on: the edit of the environment a function
\* has seen, the session of a tab, the last owner of a tenant, an invitation
\* (project_env.go, index.tsx, app_auth_memberships.go).
THEOREM NothingIsTakenBack == Spec => NothingTakenBack
<1> QED
  BY PlatformBegins, PlatformGoesOn, NothingGoesBack, PTL
     DEF Spec, NothingTakenBack, EnvNeverGoesBack, StaysSignedIn, OwnerKept, InvitationNotLost,
         StaysIn, OwnerStays, InvitationStays
=============================================================================
