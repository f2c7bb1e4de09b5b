--------------------------- MODULE DeployRollout ---------------------------
(***************************************************************************)
(* POST /dev/sync: a bundle's schema and SQL migrations are rolled out to  *)
(* the landlord database and to every tenant database of the project, and  *)
(* the bundle is activated afterwards (server.go handleDevSync,            *)
(* migrations.go, tenants.go applyTenantSchemas, sqlmigration).  Several   *)
(* runtimes share the databases; tenants are created meanwhile, from the   *)
(* dashboard or by the app's own tenants.create mutation.                  *)
(*                                                                         *)
(* A bundle is a number; its declarative schema is additive and stands for *)
(* the version a database has been reconciled to.  A migration without     *)
(* transaction has two statements.                                         *)
(***************************************************************************)
EXTENDS Integers, FiniteSetsExt

CONSTANTS
    Runtime,        \* processes serving the project
    Landlord,       \* the project's own database
    OldTenant,      \* tenants registered from the start
    NewTenant,      \* tenants created while the system runs
    Bundle,         \* the bundles, 1 is active at the start
    Offered,        \* those that are deployed
    Migs(_),        \* the migrations of a bundle
    Schema(_),      \* its schema version
    MaxDeploys,     \* bound on deploys
    MaxDeployFaults \* bound on failing statements and crashes

NoRuntime == "nobody"

ASSUME BundleAssumption ==
    /\ 1 \in Bundle /\ Bundle \subseteq Nat /\ Offered \subseteq Bundle
    /\ Landlord \notin OldTenant \cup NewTenant /\ NoRuntime \notin Runtime
    /\ \A b \in Bundle :
          /\ Schema(b) \in Nat
          /\ \A m \in Migs(b) : /\ m.name \in Nat /\ m.scope \in {"tenant", "landlord"}
                                /\ m.tx \in BOOLEAN

Tenant == OldTenant \cup NewTenant
Database == Tenant \cup {Landlord}
Scope(d) == IF d = Landlord THEN "landlord" ELSE "tenant"
Filter(b, d) == {m \in Migs(b) : m.scope = Scope(d)}

VARIABLES
    exists,      \* physical databases
    schema,      \* schema[d]: version the database is reconciled to, 0: none
    recorded,    \* recorded[d]: rows of gonvex_migrations
    lock,        \* lock[d]: holder of the migrations' advisory lock
    enrolled,    \* tenants with a row in the registry
    ready,       \* tenants marked provisioned
    creating,    \* creating[t]: what is left of t's creation, and its bundle
    manifest,    \* the bundle in gonvex_runtime_manifests
    serving,     \* serving[r]: the bundle the runtime has loaded
    schemaHash,  \* schemaHash[r]: schema last applied through this runtime
    known,       \* known[r]: tenants in the runtime's memory
    pc,          \* pc[r]: stage of the deploy in progress
    want,        \* want[r]: its bundle
    targets,     \* targets[r]: the databases of its current stage
    todo,        \* todo[r]: those still to be done
    failed,      \* failed[r]: those that failed
    skipped,     \* skipped[r]: those that turned out missing
    stmt,        \* stmt[r][d]: statements run of the migration in hand
    deploys, deployFaults

dbvars == <<exists, schema, recorded, lock>>
tenvars == <<enrolled, ready, creating>>
rtvars == <<manifest, serving, schemaHash, known>>
depvars == <<pc, want, targets, todo, failed, skipped, stmt>>
rolloutVars == <<dbvars, tenvars, rtvars, depvars, deploys, deployFaults>>

Stages == {"idle", "check", "landlord", "targets", "tenants", "migLandlord",
           "migTargets", "migTenants", "activate", "save"}

RolloutOK ==
    /\ exists \subseteq Database /\ Landlord \in exists
    /\ schema \in [Database -> Nat]
    /\ \A d \in Database : recorded[d] \subseteq UNION {Filter(b, d) : b \in Bundle}
    /\ lock \in [Database -> Runtime \cup {NoRuntime}]
    /\ enrolled \subseteq Tenant /\ ready \subseteq enrolled
    /\ \A t \in Tenant : creating[t].step \in {"none", "provision", "register", "ensure",
                                               "schema", "mark", "done", "failed"}
    /\ manifest \in Bundle /\ serving \in [Runtime -> Bundle]
    /\ known \in [Runtime -> SUBSET Tenant]
    /\ pc \in [Runtime -> Stages] /\ want \in [Runtime -> Bundle]
    /\ \A r \in Runtime : /\ todo[r] \subseteq targets[r] /\ failed[r] \subseteq targets[r]
                          /\ skipped[r] \subseteq targets[r]
                          /\ stmt[r] \in [Database -> 0..2]

Start == [d \in Database |-> IF d \in NewTenant THEN {} ELSE Filter(1, d)]

DeployInit ==
    /\ exists = OldTenant \cup {Landlord}
    /\ schema = [d \in Database |-> IF d \in exists THEN Schema(1) ELSE 0]
    /\ recorded = Start
    /\ lock = [d \in Database |-> NoRuntime]
    /\ enrolled = OldTenant /\ ready = OldTenant
    /\ creating = [t \in Tenant |-> [step |-> IF t \in OldTenant THEN "done" ELSE "none",
                                     by |-> NoRuntime, bundle |-> 1]]
    /\ manifest = 1
    /\ serving = [r \in Runtime |-> 1]
    /\ schemaHash = [r \in Runtime |-> Schema(1)]
    /\ known = [r \in Runtime |-> {}]
    /\ pc = [r \in Runtime |-> "idle"] /\ want = [r \in Runtime |-> 1]
    /\ targets = [r \in Runtime |-> {}] /\ todo = targets
    /\ failed = targets /\ skipped = targets
    /\ stmt = [r \in Runtime |-> [d \in Database |-> 0]]
    /\ deploys = 0 /\ deployFaults = 0

DeployFault == deployFaults < MaxDeployFaults /\ deployFaults' = deployFaults + 1
SameFaults == UNCHANGED deployFaults
Higher(a, b) == Max({a, b})

(***************************************************************************)
(* The deploy.  projectSyncLock lets one run per process.                  *)
(***************************************************************************)

Goto(r, stage) == pc' = [pc EXCEPT ![r] = stage]

\* The databases of the next stage.
Aim(r, ds) ==
    /\ targets' = [targets EXCEPT ![r] = ds]
    /\ todo' = [todo EXCEPT ![r] = ds]
    /\ failed' = [failed EXCEPT ![r] = {}]
    /\ skipped' = [skipped EXCEPT ![r] = {}]

SameAim == UNCHANGED <<targets, todo, failed, skipped>>

\* The answer.
Answer(r) == Goto(r, "idle") /\ Aim(r, {}) /\ want' = [want EXCEPT ![r] = 1]
Proceed(r, stage) == Goto(r, stage) /\ UNCHANGED want

\* hydrateProjectTenantDatabases: the registry is read, unless it was within
\* the last five seconds.
Hydrate(r) ==
    \/ known' = [known EXCEPT ![r] = @ \cup enrolled]
    \/ known[r] # {} /\ UNCHANGED known

\* handleDevSync up to the decision whether the schema may be skipped: it is
\* the one last applied here or the loaded bundle's, so only the artifacts of
\* the databases have to be looked at.
DevSync(r, b) ==
    /\ pc[r] = "idle" /\ deploys < MaxDeploys
    /\ deploys' = deploys + 1
    /\ want' = [want EXCEPT ![r] = b]
    /\ Goto(r, IF Schema(b) \in {schemaHash[r], Schema(serving[r])} THEN "check" ELSE "landlord")
    /\ Aim(r, {})
    /\ SameFaults
    /\ UNCHANGED <<dbvars, tenvars, rtvars, stmt>>

\* projectSchemaArtifactsInstalled: a tenant database without the durable sync
\* storage makes the schema be applied after all; one that cannot be reached
\* ends the deploy.
ArtifactsInstalled(r) ==
    /\ pc[r] = "check"
    /\ Hydrate(r)
    /\ IF ~(known'[r] \subseteq exists) THEN Answer(r)
       ELSE /\ Proceed(r, IF \E t \in known'[r] : schema[t] = 0 THEN "landlord" ELSE "migLandlord")
            /\ Aim(r, {Landlord})
    /\ SameFaults
    /\ UNCHANGED <<dbvars, tenvars, manifest, serving, schemaHash, stmt, deploys>>

\* schema.ApplyWithOptions on the landlord database.
ApplyLandlord(r) ==
    /\ pc[r] = "landlord"
    /\ \/ /\ schema' = [schema EXCEPT ![Landlord] = Higher(@, Schema(want[r]))]
          /\ Proceed(r, "targets") /\ SameAim /\ SameFaults
       \/ UNCHANGED schema /\ Answer(r) /\ DeployFault
    /\ UNCHANGED <<exists, recorded, lock, tenvars, rtvars, stmt, deploys>>

\* tenantSchemaTargets after the discovery, whose failure ends the deploy.
SchemaTargets(r) ==
    /\ pc[r] = "targets"
    /\ \/ Hydrate(r) /\ Aim(r, known'[r]) /\ Proceed(r, "tenants") /\ SameFaults
       \/ UNCHANGED known /\ Answer(r) /\ DeployFault
    /\ UNCHANGED <<dbvars, tenvars, manifest, serving, schemaHash, stmt, deploys>>

\* One worker of applyTenantSchemas; a missing database is a warning.
ApplyTenantSchema(r, t) ==
    /\ pc[r] = "tenants" /\ t \in todo[r]
    /\ todo' = [todo EXCEPT ![r] = @ \ {t}]
    /\ \/ /\ t \in exists
          /\ schema' = [schema EXCEPT ![t] = Higher(@, Schema(want[r]))]
          /\ SameFaults /\ UNCHANGED <<failed, skipped>>
       \/ /\ t \notin exists
          /\ skipped' = [skipped EXCEPT ![r] = @ \cup {t}]
          /\ SameFaults /\ UNCHANGED <<schema, failed>>
       \/ /\ failed' = [failed EXCEPT ![r] = @ \cup {t}]
          /\ DeployFault /\ UNCHANGED <<schema, skipped>>
    /\ UNCHANGED <<exists, recorded, lock, tenvars, rtvars, pc, want, targets, stmt, deploys>>

\* The workers are done: a failure ends the deploy, otherwise the schema is
\* remembered and the landlord's migrations are next.
SchemasApplied(r) ==
    /\ pc[r] = "tenants" /\ todo[r] = {}
    /\ IF failed[r] # {} THEN Answer(r) /\ UNCHANGED schemaHash
       ELSE /\ schemaHash' = [schemaHash EXCEPT ![r] = Schema(want[r])]
            /\ Proceed(r, "migLandlord") /\ Aim(r, {Landlord})
    /\ SameFaults
    /\ UNCHANGED <<dbvars, tenvars, manifest, serving, known, stmt, deploys>>

Migrating(r, d) == pc[r] \in {"migLandlord", "migTenants"} /\ d \in todo[r]

Names(ms) == {m.name : m \in ms}
Pending(r, d) == {m \in Filter(want[r], d) : m.name \notin Names(recorded[d])}
FirstMigration(ms) == CHOOSE m \in ms : \A n \in ms : m.name <= n.name

\* sqlmigration.Apply: the advisory lock of the database; a bundle without
\* migrations for it returns before, a missing database is skipped.
MigrationLock(r, d) ==
    /\ Migrating(r, d) /\ lock[d] # r
    /\ IF Filter(want[r], d) = {} \/ d \notin exists
         THEN /\ todo' = [todo EXCEPT ![r] = @ \ {d}]
              /\ skipped' = [skipped EXCEPT ![r] = IF d \in exists THEN @ ELSE @ \cup {d}]
              /\ UNCHANGED lock
         ELSE /\ lock[d] = NoRuntime /\ lock' = [lock EXCEPT ![d] = r]
              /\ UNCHANGED <<todo, skipped>>
    /\ SameFaults
    /\ UNCHANGED <<exists, schema, recorded, tenvars, rtvars, pc, want, targets, failed,
                   stmt, deploys>>

\* A recorded migration whose text was edited since.
Edited(r, d) ==
    \E m \in Filter(want[r], d) :
        /\ m.name \in Names(recorded[d]) /\ m \notin recorded[d]
        /\ \A n \in Pending(r, d) : m.name < n.name

\* applyInTransaction: the statements and the tracking row commit together.
MigrateInTransaction(r, d) ==
    LET m == FirstMigration(Pending(r, d)) IN
    /\ Migrating(r, d) /\ lock[d] = r /\ stmt[r][d] = 0
    /\ Pending(r, d) # {} /\ ~Edited(r, d) /\ m.tx
    /\ recorded' = [recorded EXCEPT ![d] = @ \cup {m}]
    /\ SameFaults /\ SameAim
    /\ UNCHANGED <<exists, schema, lock, tenvars, rtvars, pc, want, stmt, deploys>>

\* applyWithoutTransaction: a statement, which stays whatever follows.
MigrateStatement(r, d) ==
    /\ Migrating(r, d) /\ lock[d] = r
    /\ \/ stmt[r][d] = 0 /\ Pending(r, d) # {} /\ ~Edited(r, d) /\ ~FirstMigration(Pending(r, d)).tx
       \/ stmt[r][d] = 1
    /\ stmt' = [stmt EXCEPT ![r][d] = @ + 1]
    /\ SameFaults /\ SameAim
    /\ UNCHANGED <<exists, schema, recorded, lock, tenvars, rtvars, pc, want, deploys>>

\* The tracking row of a migration without transaction, once every statement
\* has succeeded.
MigrateRecord(r, d) ==
    /\ Migrating(r, d) /\ stmt[r][d] = 2
    /\ IF Pending(r, d) = {} THEN UNCHANGED recorded
       ELSE recorded' = [recorded EXCEPT ![d] = @ \cup {FirstMigration(Pending(r, d))}]
    /\ stmt' = [stmt EXCEPT ![r][d] = 0]
    /\ SameFaults /\ SameAim
    /\ UNCHANGED <<exists, schema, lock, tenvars, rtvars, pc, want, deploys>>

\* Nothing is left, the text was edited, or a statement fails.
Outcome(r, d) ==
    \/ /\ stmt[r][d] = 0 /\ Pending(r, d) = {} /\ ~Edited(r, d)
       /\ SameFaults /\ UNCHANGED failed
    \/ /\ stmt[r][d] = 0 /\ Edited(r, d)
       /\ SameFaults /\ failed' = [failed EXCEPT ![r] = @ \cup {d}]
    \/ /\ stmt[r][d] > 0 \/ Pending(r, d) # {}
       /\ DeployFault /\ failed' = [failed EXCEPT ![r] = @ \cup {d}]

\* Mutant: the lock is only given back where the migrations succeed.
MigrateEndKeepsLock(r, d) ==
    /\ Migrating(r, d) /\ lock[d] = r /\ Outcome(r, d)
    /\ lock' = IF d \in failed'[r] THEN lock ELSE [lock EXCEPT ![d] = NoRuntime]
    /\ stmt' = [stmt EXCEPT ![r][d] = 0]
    /\ todo' = [todo EXCEPT ![r] = @ \ {d}]
    /\ UNCHANGED <<exists, schema, recorded, tenvars, rtvars, pc, want, targets, skipped, deploys>>

\* The end of one database; the lock is given back in every case.
MigrateEnd(r, d) ==
    /\ Migrating(r, d) /\ lock[d] = r /\ Outcome(r, d)
    /\ lock' = [lock EXCEPT ![d] = NoRuntime]
    /\ stmt' = [stmt EXCEPT ![r][d] = 0]
    /\ todo' = [todo EXCEPT ![r] = @ \ {d}]
    /\ UNCHANGED <<exists, schema, recorded, tenvars, rtvars, pc, want, targets, skipped, deploys>>

\* applyProjectSQLMigrations: a failure of the landlord stops before the
\* tenants, whose list is taken anew.
LandlordMigrated(r) ==
    /\ pc[r] = "migLandlord" /\ todo[r] = {}
    /\ IF failed[r] # {} THEN Answer(r) /\ UNCHANGED known
       ELSE Hydrate(r) /\ Aim(r, known'[r]) /\ Proceed(r, "migTenants")
    /\ SameFaults
    /\ UNCHANGED <<dbvars, tenvars, manifest, serving, schemaHash, stmt, deploys>>

\* Every tenant has been tried; any failure fails the deploy.
TenantsMigrated(r) ==
    /\ pc[r] = "migTenants" /\ todo[r] = {}
    /\ IF failed[r] = {} THEN Proceed(r, "activate") /\ SameAim ELSE Answer(r)
    /\ SameFaults
    /\ UNCHANGED <<dbvars, tenvars, rtvars, stmt, deploys>>

\* syncRuntimeManifest: the functions are loaded, or the load fails.
Activate(r) ==
    /\ pc[r] = "activate"
    /\ \/ /\ serving' = [serving EXCEPT ![r] = want[r]]
          /\ Proceed(r, "save") /\ Aim(r, {}) /\ SameFaults
       \/ UNCHANGED serving /\ Answer(r) /\ DeployFault
    /\ UNCHANGED <<dbvars, tenvars, manifest, schemaHash, known, stmt, deploys>>

\* saveRuntimeManifest; a failure is answered, the runtime serves on.
SaveManifest(r) ==
    /\ pc[r] = "save"
    /\ \/ manifest' = want[r] /\ SameFaults
       \/ UNCHANGED manifest /\ DeployFault
    /\ Answer(r)
    /\ UNCHANGED <<dbvars, tenvars, serving, schemaHash, known, stmt, deploys>>

\* The process ends: its sessions give their locks back.  The next one loads
\* the stored bundle (hydrateRuntimeStateForProject).
Restart(r) ==
    /\ DeployFault
    /\ lock' = [d \in Database |-> IF lock[d] = r THEN NoRuntime ELSE lock[d]]
    /\ creating' = [t \in Tenant |-> IF creating[t].by # r THEN creating[t]
                                     ELSE [creating[t] EXCEPT !.step = "failed", !.by = NoRuntime]]
    /\ serving' = [serving EXCEPT ![r] = manifest]
    /\ schemaHash' = [schemaHash EXCEPT ![r] = Schema(manifest)]
    /\ known' = [known EXCEPT ![r] = {}]
    /\ Answer(r)
    /\ stmt' = [stmt EXCEPT ![r] = [d \in Database |-> 0]]
    /\ UNCHANGED <<exists, schema, recorded, enrolled, ready, manifest, deploys>>

(***************************************************************************)
(* Tenants created meanwhile.                                              *)
(***************************************************************************)

Stands(t, step) == creating' = [creating EXCEPT ![t].step = step]
Closed(t, step) == creating' = [creating EXCEPT ![t].step = step, ![t].by = NoRuntime]

\* handleCreateTenant creates the database and reads the loaded bundle once.
CreateTenant(r, t) ==
    /\ creating[t].step = "none"
    /\ exists' = exists \cup {t}
    /\ creating' = [creating EXCEPT ![t] = [step |-> "provision", by |-> r, bundle |-> serving[r]]]
    /\ SameFaults
    /\ UNCHANGED <<schema, recorded, lock, enrolled, ready, rtvars, depvars, deploys>>

\* provisionTenantDatabaseWithSync on a database nobody else knows: the schema
\* and the tenant migrations.
ProvisionCreated(t) ==
    /\ creating[t].step = "provision"
    /\ schema' = [schema EXCEPT ![t] = Schema(creating[t].bundle)]
    /\ recorded' = [recorded EXCEPT ![t] = Filter(creating[t].bundle, t)]
    /\ Stands(t, "register") /\ SameFaults
    /\ UNCHANGED <<exists, lock, enrolled, ready, rtvars, depvars, deploys>>

\* The registry row, with the runtime's memory, ends the creation.
RegisterTenant(t) ==
    /\ creating[t].step = "register"
    /\ enrolled' = enrolled \cup {t} /\ ready' = ready \cup {t}
    /\ known' = [known EXCEPT ![creating[t].by] = @ \cup {t}]
    /\ Closed(t, "done") /\ SameFaults
    /\ UNCHANGED <<dbvars, manifest, serving, schemaHash, depvars, deploys>>

\* Any step of handleCreateTenant fails: the database is dropped again.
CreateTenantFails(t) ==
    /\ creating[t].step \in {"provision", "register"}
    /\ exists' = exists \ {t}
    /\ schema' = [schema EXCEPT ![t] = 0]
    /\ recorded' = [recorded EXCEPT ![t] = {}]
    /\ Closed(t, "failed") /\ DeployFault
    /\ UNCHANGED <<lock, enrolled, ready, rtvars, depvars, deploys>>

\* The app's tenants.create inserted a landlord row: the hydration that follows
\* gives it a row in the registry, but no database yet.
ImportTenant(r, t) ==
    /\ creating[t].step = "none"
    /\ enrolled' = enrolled \cup {t}
    /\ known' = [known EXCEPT ![r] = @ \cup {t}]
    /\ creating' = [creating EXCEPT ![t] = [step |-> "ensure", by |-> r, bundle |-> serving[r]]]
    /\ SameFaults
    /\ UNCHANGED <<dbvars, ready, manifest, serving, schemaHash, depvars, deploys>>

\* ensureRuntimeTenantDatabaseOnce finds no database and creates it; any request
\* to the tenant does, also after a restart in the middle of the first attempt.
EnsureTenantDatabase(r, t) ==
    /\ t \in enrolled \ ready
    /\ creating[t].step \in {"ensure", "failed"}
    /\ exists' = exists \cup {t}
    /\ creating' = [creating EXCEPT ![t] = [step |-> "schema", by |-> r, bundle |-> serving[r]]]
    /\ SameFaults
    /\ UNCHANGED <<schema, recorded, lock, enrolled, ready, rtvars, depvars, deploys>>

\* provisionTenantDatabase and installTenantSyncLog: the schema.
ProvisionImported(t) ==
    /\ creating[t].step = "schema"
    /\ schema' = [schema EXCEPT ![t] = Higher(@, Schema(creating[t].bundle))]
    /\ Stands(t, "mark") /\ SameFaults
    /\ UNCHANGED <<exists, recorded, lock, enrolled, ready, rtvars, depvars, deploys>>

\* markTenantDatabaseProvisioned.
MarkProvisioned(t) ==
    /\ creating[t].step = "mark"
    /\ ready' = ready \cup {t}
    /\ Closed(t, "done") /\ SameFaults
    /\ UNCHANGED <<dbvars, enrolled, rtvars, depvars, deploys>>

MigrationStep(r) ==
    \E d \in Database :
        \/ MigrationLock(r, d) \/ MigrateInTransaction(r, d) \/ MigrateStatement(r, d)
        \/ MigrateRecord(r, d) \/ MigrateEnd(r, d)

DeployStep(r) ==
    \/ ArtifactsInstalled(r) \/ ApplyLandlord(r) \/ SchemaTargets(r)
    \/ (\E t \in Tenant : ApplyTenantSchema(r, t)) \/ SchemasApplied(r)
    \/ MigrationStep(r)
    \/ LandlordMigrated(r) \/ TenantsMigrated(r) \/ Activate(r) \/ SaveManifest(r)

DeployNext ==
    \/ \E r \in Runtime : \/ (\E b \in Offered : DevSync(r, b))
                          \/ DeployStep(r)
                          \/ Restart(r)
                          \/ (\E t \in NewTenant : \/ CreateTenant(r, t)
                                                   \/ ImportTenant(r, t)
                                                   \/ EnsureTenantDatabase(r, t))
    \/ \E t \in NewTenant : \/ ProvisionCreated(t) \/ RegisterTenant(t) \/ CreateTenantFails(t)
                            \/ ProvisionImported(t) \/ MarkProvisioned(t)


(***************************************************************************)
(* Properties                                                              *)
(***************************************************************************)

\* "An applied filename is never run again" (docs/migrations.md:23): no
\* statement of a migration runs in a database that has its tracking row,
\* whichever runtimes deploy at the same time and wherever one of them stops.
AppliedNeverRuns ==
    [][\A r \in Runtime, d \in Database : stmt'[r][d] > stmt[r][d] => Pending(r, d) # {}]_rolloutVars

\* "The runtime manifest is not activated when any migration fails": a bundle
\* becomes active only when every database of its rollout that was there has all
\* its migrations, in the edition of the bundle.
ActivatedMigrated ==
    [][\A r \in Runtime : pc[r] = "activate" /\ pc'[r] = "save" =>
           \A d \in (targets[r] \ skipped[r]) \cup {Landlord} : Filter(want[r], d) \subseteq recorded[d]]_rolloutVars

\* "Tenant rollout continues after an individual tenant fails": when the rollout
\* is over, a failed tenant has not kept the others from the migrations.
RolloutContinues ==
    \A r \in Runtime : pc[r] = "migTenants" /\ todo[r] = {} =>
        \A d \in targets[r] \ (skipped[r] \cup failed[r]) : Filter(want[r], d) \subseteq recorded[d]

\* Nobody waits for a lock in vain: its holder is a deploy that is still at work
\* on that database, also when others failed or died holding it.
LocksHeldByLive ==
    \A d \in Database : lock[d] # NoRuntime => Migrating(lock[d], d)

\* "A tenant database created later receives the deployed tenant schema and all
\* tenant migrations before it is marked ready" (docs/migrations.md:27).
LateTenantMigrated ==
    \A t \in NewTenant : t \in ready =>
        /\ schema[t] >= Schema(creating[t].bundle)
        /\ Filter(creating[t].bundle, t) \subseteq recorded[t]

\* A rollout reaches every database it can, and its locks end with it.
\* Nothing recorded runs again, and only what is migrated becomes active.
RolloutSafe ==
    /\ [](RolloutOK /\ RolloutContinues /\ LocksHeldByLive)
    /\ AppliedNeverRuns /\ ActivatedMigrated
=============================================================================
