--------------------------- MODULE TenantRegistry ---------------------------
(***************************************************************************)
(* Tenants of one multi-tenant project (tenants.go): the registry rows of  *)
(* the control plane, the `tenants` rows of the app's landlord database,   *)
(* every runtime's memory and routes, and the physical databases.  The     *)
(* dashboard creates and deletes tenants, the app creates them by          *)
(* inserting a landlord row, hydration imports those rows, and the first   *)
(* use of a tenant provisions its database.                                *)
(*                                                                         *)
(* Physical names are UUIDs, so a name that is generated is a fresh        *)
(* number; tenants of older projects, addressed by slugs, are left out.    *)
(***************************************************************************)
EXTENDS Integers

CONSTANTS
    Runtime, Tenant,
    Names,             \* bound on generated database names
    MaxTenantFaults    \* bound on failing calls and restarts

ASSUME TenantAssumption == Names \in Nat /\ MaxTenantFaults \in Nat

VARIABLES
    row,       \* row[t]: the registry's database and flag, or NoTenant
    landlord,  \* tenants with a row in the landlord database
    physical,  \* databases that exist
    lastName,  \* names generated so far
    memory,    \* memory[r][t]: the runtime's entry and route, or NoTenant
    due,       \* due[r]: the last hydration is old enough or was invalidated
    hydration, \* hydration[r]: what the hydration under way is about to do
    unsaved,   \* pending[r]: rows read, or to be saved, by it
    creating,  \* creating[t]: the dashboard's creation under way
    ensuring,  \* ensuring[r][t]: the provisioning under way
    asked,     \* asked[r][t]: the app's tenants.create under way
    deleting,  \* deleting[t]: the deletion under way
    deleted,   \* tenants whose deletion has begun once
    home,      \* home[r][t]: the database this process has served the tenant from
    tenantFaults

tenantVars == <<row, landlord, physical, lastName, memory, due, hydration, unsaved, creating,
                ensuring, asked, deleting, deleted, home, tenantFaults>>

Db == 0..Names
NoTenant == [db |-> 0, ready |-> FALSE]
Entry == [db : Db, ready : BOOLEAN]
Empty == [t \in Tenant |-> NoTenant]
Known(e) == e.db # 0
Rest == [step |-> "none", db |-> 0, r |-> "none"]

TenantsOK ==
    /\ row \in [Tenant -> Entry] /\ landlord \subseteq Tenant
    /\ physical \subseteq 1..lastName
    /\ memory \in [Runtime -> [Tenant -> Entry]]
    /\ hydration \in [Runtime -> {"none", "merge", "import", "save"}]
    /\ unsaved \in [Runtime -> [Tenant -> Entry]]
    /\ \A t \in Tenant : /\ creating[t].step \in {"none", "register", "store"}
                         /\ deleting[t].step \in {"none", "registry", "drop", "forget"}
    /\ asked \in [Runtime -> [Tenant -> {"none", "hydrate", "joined", "ensure"}]]
    /\ \A r \in Runtime, t \in Tenant : ensuring[r][t].step \in {"none", "mark", "save"}
    /\ home \in [Runtime -> [Tenant -> Db]] /\ deleted \subseteq Tenant

TenantsInit ==
    /\ row = Empty /\ landlord = {} /\ physical = {} /\ lastName = 0
    /\ memory = [r \in Runtime |-> Empty] /\ unsaved = memory
    /\ due = [r \in Runtime |-> TRUE]
    /\ hydration = [r \in Runtime |-> "none"]
    /\ creating = [t \in Tenant |-> Rest] /\ deleting = creating
    /\ ensuring = [r \in Runtime |-> deleting]
    /\ asked = [r \in Runtime |-> [t \in Tenant |-> "none"]]
    /\ home = [r \in Runtime |-> [t \in Tenant |-> 0]] /\ deleted = {}
    /\ tenantFaults = 0

TenantFault == tenantFaults < MaxTenantFaults /\ tenantFaults' = tenantFaults + 1
NoTenantFault == UNCHANGED tenantFaults

(***************************************************************************)
(* Hydration: one at a time per runtime; callers join the one under way.   *)
(***************************************************************************)

\* The tenants whose landlord row the hydration has read.
ToSave(r) == {t \in Tenant : Known(unsaved[r][t])}

HydrationEnds(r) ==
    /\ hydration' = [hydration EXCEPT ![r] = "none"]
    /\ asked' = [asked EXCEPT ![r] = [t \in Tenant |-> IF @[t] = "joined" THEN "ensure" ELSE @[t]]]

\* loadTenantRegistry, unless the last hydration is recent; an error makes the
\* next call try again.
HydrateRegistry(r) ==
    /\ hydration[r] = "none" /\ due[r]
    /\ asked' = [asked EXCEPT ![r] =
                    [t \in Tenant |-> IF @[t] = "hydrate" THEN "joined" ELSE @[t]]]
    /\ \/ /\ due' = [due EXCEPT ![r] = FALSE]
          /\ unsaved' = [unsaved EXCEPT ![r] = row]
          /\ hydration' = [hydration EXCEPT ![r] = "merge"]
          /\ NoTenantFault
       \/ /\ TenantFault /\ UNCHANGED <<due, unsaved, hydration>>
    /\ UNCHANGED <<row, landlord, physical, lastName, memory, creating, ensuring, deleting, deleted, home>>

\* Mutant: every landlord row is given a new name.
InventsAlways(r) ==
    /\ hydration[r] = "merge"
    /\ LET merged == [t \in Tenant |-> IF Known(unsaved[r][t]) THEN unsaved[r][t] ELSE memory[r][t]]
           new == landlord IN
          /\ \A t \in new : lastName < Names
          /\ memory' = [memory EXCEPT ![r] = [t \in Tenant |-> IF t \in new THEN NoTenant ELSE merged[t]]]
          /\ lastName' = IF new = {} THEN lastName ELSE lastName + 1
          /\ unsaved' = [unsaved EXCEPT ![r] = [t \in Tenant |->
                IF t \in new THEN [db |-> lastName', ready |-> FALSE] ELSE NoTenant]]
    /\ IF landlord = {} THEN HydrationEnds(r)
       ELSE hydration' = [hydration EXCEPT ![r] = "import"] /\ UNCHANGED asked
    /\ NoTenantFault
    /\ UNCHANGED <<row, landlord, physical, due, creating, ensuring, deleting, deleted, home>>

\* Mutant: landlord rows without a registered match are passed over.
KnownOnly(r) ==
    /\ hydration[r] = "merge"
    /\ LET merged == [t \in Tenant |-> IF Known(unsaved[r][t]) THEN unsaved[r][t] ELSE memory[r][t]] IN
          /\ memory' = [memory EXCEPT ![r] = merged]
          /\ unsaved' = [unsaved EXCEPT ![r] = [t \in Tenant |->
                IF t \in landlord THEN merged[t] ELSE NoTenant]]
    /\ IF landlord = {} THEN HydrationEnds(r)
       ELSE hydration' = [hydration EXCEPT ![r] = "import"] /\ UNCHANGED asked
    /\ NoTenantFault
    /\ UNCHANGED <<row, landlord, physical, lastName, due, creating, ensuring, deleting, deleted, home>>

\* mergeProjectTenants with the rows, and the query of the landlord rows; one
\* without a registered match is given a new name.  (One per round suffices:
\* the names are only told apart.)
HydrateLandlord(r) ==
    /\ hydration[r] = "merge"
    /\ LET merged == [t \in Tenant |-> IF Known(unsaved[r][t]) THEN unsaved[r][t] ELSE memory[r][t]]
           new == {t \in landlord : ~Known(merged[t])} IN
          /\ \A t \in new : lastName < Names
          /\ memory' = [memory EXCEPT ![r] = merged]
          /\ lastName' = IF new = {} THEN lastName ELSE lastName + 1
          /\ unsaved' = [unsaved EXCEPT ![r] = [t \in Tenant |->
                IF t \in new THEN [db |-> lastName', ready |-> FALSE]
                ELSE IF t \in landlord THEN merged[t] ELSE NoTenant]]
    /\ IF landlord = {} THEN HydrationEnds(r)
       ELSE hydration' = [hydration EXCEPT ![r] = "import"] /\ UNCHANGED asked
    /\ NoTenantFault
    /\ UNCHANGED <<row, landlord, physical, due, creating, ensuring, deleting, deleted, home>>

\* The imported tenants enter memory under the lock; a route that is already
\* there wins over the name (resolveTenantDatabaseURLLocked).
ImportLandlord(r) ==
    /\ hydration[r] = "import"
    /\ LET e(t) == IF ~Known(unsaved[r][t]) THEN NoTenant
                   ELSE IF Known(memory[r][t])
                     THEN [db |-> memory[r][t].db,
                           ready |-> memory[r][t].ready \/ unsaved[r][t].ready]
                     ELSE unsaved[r][t] IN
          /\ unsaved' = [unsaved EXCEPT ![r] = [t \in Tenant |-> e(t)]]
          /\ memory' = [memory EXCEPT ![r] = [t \in Tenant |-> IF Known(e(t)) THEN e(t) ELSE @[t]]]
    /\ hydration' = [hydration EXCEPT ![r] = "save"]
    /\ NoTenantFault
    /\ UNCHANGED <<row, landlord, physical, lastName, due, creating, ensuring, asked, deleting, deleted, home>>

\* saveTenantRegistry of each, merged into memory again; an error is logged.
SaveImported(r, t) ==
    /\ hydration[r] = "save" /\ t \in ToSave(r)
    /\ unsaved' = [unsaved EXCEPT ![r][t] = NoTenant]
    /\ \/ /\ row' = [row EXCEPT ![t] = unsaved[r][t]]
          /\ memory' = [memory EXCEPT ![r][t] = unsaved[r][t]]
          /\ NoTenantFault
       \/ TenantFault /\ UNCHANGED <<row, memory>>
    /\ UNCHANGED <<landlord, physical, lastName, due, hydration, creating, ensuring, asked,
                   deleting, deleted, home>>

HydrateDone(r) ==
    /\ hydration[r] = "save" /\ ToSave(r) = {}
    /\ HydrationEnds(r) /\ NoTenantFault
    /\ UNCHANGED <<row, landlord, physical, lastName, memory, due, unsaved, creating, ensuring,
                   deleting, deleted, home>>

\* projectTenantHydrationTTL has passed.
HydrationLapses(r) ==
    /\ ~due[r] /\ due' = [due EXCEPT ![r] = TRUE]
    /\ NoTenantFault
    /\ UNCHANGED <<row, landlord, physical, lastName, memory, hydration, unsaved, creating,
                   ensuring, asked, deleting, deleted, home>>

(***************************************************************************)
(* The dashboard's creation.  The handler checks and names the tenant in   *)
(* one critical section and stores it in another; two creations of one     *)
(* identifier at a time are left out.                                      *)
(***************************************************************************)

\* It hydrates first, and goes on without when that fails.
CreateDatabase(r, t) ==
    /\ ~Known(memory[r][t]) /\ creating[t] = Rest /\ t \notin landlord
    /\ hydration[r] = "none"
    /\ IF due[r] THEN TenantFault ELSE NoTenantFault
    /\ lastName < Names /\ lastName' = lastName + 1
    /\ physical' = physical \cup {lastName'}
    /\ creating' = [creating EXCEPT ![t] = [step |-> "register", db |-> lastName', r |-> r]]
    /\ UNCHANGED <<row, landlord, memory, due, hydration, unsaved, ensuring, asked, deleting, deleted, home>>

\* provisionTenantDatabaseWithSync and the registry row; either failure drops
\* the database again.
CreateRegister(t) ==
    /\ creating[t].step = "register"
    /\ \/ /\ row' = [row EXCEPT ![t] = [db |-> creating[t].db, ready |-> TRUE]]
          /\ creating' = [creating EXCEPT ![t].step = "store"]
          /\ NoTenantFault /\ UNCHANGED physical
       \/ /\ creating' = [creating EXCEPT ![t] = Rest]
          /\ physical' = physical \ {creating[t].db}
          /\ TenantFault /\ UNCHANGED row
    /\ UNCHANGED <<landlord, lastName, memory, due, hydration, unsaved, ensuring, asked,
                   deleting, deleted, home>>

\* Memory and route, then the answer.
CreateStore(t) ==
    LET c == creating[t] IN
    /\ c.step = "store"
    /\ memory' = [memory EXCEPT ![c.r][t] = [db |-> c.db, ready |-> TRUE]]
    /\ due' = [due EXCEPT ![c.r] = TRUE]
    /\ creating' = [creating EXCEPT ![t] = Rest]
    /\ NoTenantFault
    /\ UNCHANGED <<row, landlord, physical, lastName, hydration, unsaved, ensuring, asked,
                   deleting, deleted, home>>

(***************************************************************************)
(* The app's creation, and the first use of a tenant.                      *)
(***************************************************************************)

\* The mutation tenants.create has committed its landlord row.
AppCreate(r, t) ==
    /\ t \notin landlord /\ ~Known(memory[r][t]) /\ creating[t] = Rest /\ asked[r][t] = "none"
    /\ ~Known(row[t]) /\ deleting[t] = Rest
    /\ landlord' = landlord \cup {t}
    /\ asked' = [asked EXCEPT ![r][t] = "hydrate"]
    /\ due' = [due EXCEPT ![r] = TRUE]
    /\ NoTenantFault
    /\ UNCHANGED <<row, physical, lastName, memory, hydration, unsaved, creating, ensuring,
                   deleting, deleted, home>>

\* provisionCreatedTenant hydrates: it may join one that is under way and has
\* read the landlord rows before.
JoinHydration(r, t) ==
    /\ asked[r][t] = "hydrate" /\ hydration[r] # "none"
    /\ asked' = [asked EXCEPT ![r][t] = "joined"]
    /\ NoTenantFault
    /\ UNCHANGED <<row, landlord, physical, lastName, memory, due, hydration, unsaved, creating,
                   ensuring, deleting, deleted, home>>

\* What comes back: the tenant is ensured, or is "not related to the project".
AppAnswered(r, t) ==
    /\ asked[r][t] = "ensure"
    /\ memory[r][t].ready \/ ~Known(memory[r][t])
    /\ asked' = [asked EXCEPT ![r][t] = "none"]
    /\ NoTenantFault
    /\ UNCHANGED <<row, landlord, physical, lastName, memory, due, hydration, unsaved, creating,
                   ensuring, deleting, deleted, home>>

\* ensureRuntimeTenantDatabase, one at a time per runtime and tenant: a missing
\* database is created, the schema applied.
Ensure(r, t) ==
    /\ ensuring[r][t] = Rest /\ Known(memory[r][t]) /\ ~memory[r][t].ready
    /\ \/ /\ ensuring' = [ensuring EXCEPT ![r][t] =
                             [step |-> "mark", db |-> memory[r][t].db, r |-> r]]
          /\ physical' = physical \cup {memory[r][t].db}
          /\ NoTenantFault
       \/ TenantFault /\ UNCHANGED <<ensuring, physical>>
    /\ UNCHANGED <<row, landlord, lastName, memory, due, hydration, unsaved, creating, asked,
                   deleting, deleted, home>>

\* markTenantDatabaseProvisioned: memory and route first,
MarkReady(r, t) ==
    /\ ensuring[r][t].step = "mark"
    /\ ensuring' = [ensuring EXCEPT ![r][t].step = "save"]
    /\ memory' = [memory EXCEPT ![r][t] = [db |-> ensuring[r][t].db, ready |-> TRUE]]
    /\ NoTenantFault
    /\ UNCHANGED <<row, landlord, physical, lastName, due, hydration, unsaved, creating, asked,
                   deleting, deleted, home>>

\* then the row, whose failure fails the request only.
MarkRow(r, t) ==
    LET e == [db |-> ensuring[r][t].db, ready |-> TRUE] IN
    /\ ensuring[r][t].step = "save"
    /\ ensuring' = [ensuring EXCEPT ![r][t] = Rest]
    /\ \/ /\ row' = [row EXCEPT ![t] = e]
          /\ memory' = [memory EXCEPT ![r][t] = e]
          /\ NoTenantFault
       \/ TenantFault /\ UNCHANGED <<row, memory>>
    /\ UNCHANGED <<landlord, physical, lastName, due, hydration, unsaved, creating, asked,
                   deleting, deleted, home>>

\* A request to the tenant writes where its route leads.
Serve(r, t) ==
    /\ memory[r][t].ready /\ memory[r][t].db \in physical /\ home[r][t] = 0
    /\ home' = [home EXCEPT ![r][t] = memory[r][t].db]
    /\ NoTenantFault
    /\ UNCHANGED <<row, landlord, physical, lastName, memory, due, hydration, unsaved, creating,
                   ensuring, asked, deleting, deleted>>

(***************************************************************************)
(* handleDeleteTenant.                                                     *)
(***************************************************************************)

DeleteReferences(r, t) ==
    /\ Known(memory[r][t]) /\ deleting[t] = Rest
    /\ landlord' = landlord \ {t} /\ deleted' = deleted \cup {t}
    /\ deleting' = [deleting EXCEPT ![t] = [step |-> "registry", db |-> memory[r][t].db, r |-> r]]
    /\ NoTenantFault
    /\ UNCHANGED <<row, physical, lastName, memory, due, hydration, unsaved, creating, ensuring,
                   asked, home>>

DeleteRegistry(t) ==
    /\ deleting[t].step = "registry"
    /\ \/ /\ row' = [row EXCEPT ![t] = NoTenant]
          /\ deleting' = [deleting EXCEPT ![t].step = "drop"]
          /\ NoTenantFault
       \/ deleting' = [deleting EXCEPT ![t] = Rest] /\ TenantFault /\ UNCHANGED row
    /\ UNCHANGED <<landlord, physical, lastName, memory, due, hydration, unsaved, creating,
                   ensuring, asked, deleted, home>>

\* The database is dropped; if that fails, the row is written back.
DropDatabase(t) ==
    LET d == deleting[t] IN
    /\ d.step = "drop"
    /\ \/ /\ physical' = physical \ {d.db}
          /\ home' = [r \in Runtime |-> [home[r] EXCEPT ![t] = IF @ = d.db THEN 0 ELSE @]]
          /\ deleting' = [deleting EXCEPT ![t].step = "forget"]
          /\ NoTenantFault /\ UNCHANGED row
       \/ /\ row' = [row EXCEPT ![t] = memory[d.r][t]]
          /\ deleting' = [deleting EXCEPT ![t] = Rest]
          /\ TenantFault /\ UNCHANGED <<physical, home>>
    /\ UNCHANGED <<landlord, lastName, memory, due, hydration, unsaved, creating, ensuring, asked,
                   deleted>>

ForgetTenant(t) ==
    LET r == deleting[t].r IN
    /\ deleting[t].step = "forget"
    /\ memory' = [memory EXCEPT ![r][t] = NoTenant]
    /\ due' = [due EXCEPT ![r] = TRUE]
    /\ deleting' = [deleting EXCEPT ![t] = Rest]
    /\ NoTenantFault
    /\ UNCHANGED <<row, landlord, physical, lastName, hydration, unsaved, creating, ensuring,
                   asked, deleted, home>>

\* A runtime ends in the middle of whatever it does, and starts again.
RestartRuntime(r) ==
    LET mine(f) == [t \in Tenant |-> IF f[t].r = r THEN Rest ELSE f[t]] IN
    /\ TenantFault
    /\ memory' = [memory EXCEPT ![r] = Empty] /\ unsaved' = [unsaved EXCEPT ![r] = Empty]
    /\ due' = [due EXCEPT ![r] = TRUE]
    /\ hydration' = [hydration EXCEPT ![r] = "none"]
    /\ ensuring' = [ensuring EXCEPT ![r] = [t \in Tenant |-> Rest]]
    /\ home' = [home EXCEPT ![r] = [t \in Tenant |-> 0]]
    /\ asked' = [asked EXCEPT ![r] = [t \in Tenant |-> "none"]]
    /\ creating' = mine(creating) /\ deleting' = mine(deleting)
    /\ UNCHANGED <<row, landlord, physical, lastName, deleted>>

HydrationStep(r) ==
    \/ HydrateRegistry(r) \/ HydrateLandlord(r) \/ ImportLandlord(r) \/ HydrateDone(r)
    \/ \E t \in Tenant : SaveImported(r, t)

EnsureStep(r) == \E t \in Tenant : Ensure(r, t) \/ MarkReady(r, t) \/ MarkRow(r, t)

TenantsNext ==
    \/ \E r \in Runtime :
          \/ HydrationStep(r) \/ HydrationLapses(r) \/ EnsureStep(r) \/ RestartRuntime(r)
          \/ \E t \in Tenant :
                \/ CreateDatabase(r, t) \/ AppCreate(r, t) \/ JoinHydration(r, t)
                \/ AppAnswered(r, t) \/ Serve(r, t) \/ DeleteReferences(r, t)
    \/ \E t \in Tenant :
          \/ CreateRegister(t) \/ CreateStore(t) \/ DeleteRegistry(t) \/ DropDatabase(t)
          \/ ForgetTenant(t)

(***************************************************************************)
(* Properties                                                              *)
(***************************************************************************)

\* A process serves a tenant from one database: neither a hydration that imports
\* the landlord row nor a provisioning or a registry row gives the tenant
\* another one, until a deletion begins.
OneHome ==
    \A r \in Runtime, t \in Tenant \ deleted :
        home[r][t] # 0 /\ memory[r][t].ready /\ memory[r][t].db \in physical
            => memory[r][t].db = home[r][t]

\* A row that says a tenant is provisioned names a database that exists, wherever
\* the creation failed or the process stopped.  (A hydration under way can write
\* the row of a deleted tenant again, hence the exception.)
ReadyIsThere ==
    \A t \in Tenant \ deleted : row[t].ready => row[t].db \in physical

\* A tenant the app has created can be used in the end, although its own
\* hydration may have joined one that was too early and although calls fail.
CreatedTenantsServed ==
    \A r \in Runtime, t \in Tenant :
        []<>(\/ t \notin landlord
             \/ memory[r][t].ready /\ memory[r][t].db \in physical
             \/ t \in deleted)
=============================================================================
