---------------------------- MODULE ServiceProofs ----------------------------
(***************************************************************************)
(* What MCServices checks of a rollout and of the errors inbox, for any    *)
(* values of the constants.  A rollout, with any runtimes, databases,      *)
(* bundles and migrations and any number of failing statements and         *)
(* restarts: nothing recorded runs again, only what is migrated becomes    *)
(* active, and no lock outlives its deploy.  The inbox, with any envelopes *)
(* under way and any number of failures and reloads: every report is       *)
(* counted once, none is dropped before it is recorded, and every listing  *)
(* and export has what it owes.                                            *)
(***************************************************************************)
EXTENDS DeployRollout, ErrorTracking, FiniteSetTheorems, SequenceTheorems, WellFoundedInduction,
        TLAPS

-----------------------------------------------------------------------------
(* The rollout of a deploy.                                                *)

AnyMigration == UNION {Migs(b) : b \in Bundle}

\* The types.
RolloutTypes ==
    /\ exists \subseteq Database /\ Landlord \in exists
    /\ schema \in [Database -> Nat]
    /\ recorded \in [Database -> SUBSET AnyMigration]
    /\ \A d \in Database : recorded[d] \subseteq UNION {Filter(b, d) : b \in Bundle}
    /\ lock \in [Database -> Runtime \cup {NoRuntime}]
    /\ enrolled \subseteq Tenant /\ ready \subseteq enrolled
    /\ creating \in [Tenant -> [step : {"none", "provision", "register", "ensure", "schema",
                                        "mark", "done", "failed"},
                                by : Runtime \cup {NoRuntime}, bundle : Bundle]]
    /\ manifest \in Bundle /\ serving \in [Runtime -> Bundle]
    /\ known \in [Runtime -> SUBSET enrolled]
    /\ pc \in [Runtime -> Stages] /\ want \in [Runtime -> Bundle]
    /\ targets \in [Runtime -> SUBSET (enrolled \cup {Landlord})]
    /\ todo \in [Runtime -> SUBSET Database] /\ failed \in [Runtime -> SUBSET Database]
    /\ skipped \in [Runtime -> SUBSET Database]
    /\ stmt \in [Runtime -> [Database -> 0..2]]

\* A tenant that is being created is not known to any deploy before it is in
\* the registry, and an imported one is there from the start.
Enrolment ==
    \A t \in Tenant :
        /\ creating[t].step \in {"none", "provision", "register"} => t \notin enrolled
        /\ creating[t].step \in {"ensure", "schema", "mark"} => t \in enrolled

\* A migration without transaction is at work under the lock, and is not recorded.
StatementsLocked ==
    \A r \in Runtime, d \in Database :
        stmt[r][d] > 0 => lock[d] = r /\ Pending(r, d) # {}

\* What a deploy has migrated, and what that is at each stage.
Done(r) == targets[r] \ (todo[r] \cup failed[r] \cup skipped[r])
Migrated(r, d) == Filter(want[r], d) \subseteq recorded[d]
StageOK(r) ==
    /\ todo[r] \subseteq targets[r] /\ failed[r] \subseteq targets[r] /\ skipped[r] \subseteq targets[r]
    /\ pc[r] = "migLandlord" => targets[r] = {Landlord} /\ skipped[r] = {}
    /\ pc[r] \in {"migLandlord", "migTenants", "activate"} => \A d \in Done(r) : Migrated(r, d)
    /\ pc[r] \in {"migTenants", "activate"} => Migrated(r, Landlord)
    /\ pc[r] = "activate" => todo[r] = {} /\ failed[r] = {}

RolloutInv ==
    /\ RolloutTypes /\ Enrolment /\ LocksHeldByLive /\ StatementsLocked
    /\ \A r \in Runtime : StageOK(r)

-----------------------------------------------------------------------------
\* A migration is named by a number, so the pending ones have a first.
LEMMA FirstIsPending ==
    ASSUME NEW M \in SUBSET AnyMigration, M # {}
    PROVE  FirstMigration(M) \in M
<1>1. \A m \in M : m.name \in Nat
  BY BundleAssumption DEF AnyMigration
<1>2. Names(M) \in SUBSET Nat /\ Names(M) # {}
  BY <1>1 DEF Names
<1>3. \E k \in Names(M) : \A l \in Names(M) : ~(<<l, k>> \in OpToRel(<, Nat))
  BY <1>2, NatLessThanWellFounded, WFMin
<1>4. \A k, l \in Names(M) : <<l, k>> \in OpToRel(<, Nat) <=> l < k
  BY <1>2 DEF OpToRel
<1>5. PICK k \in Names(M) : \A l \in Names(M) : ~(l < k)
  BY <1>3, <1>4, Zenon
<1>6. PICK m \in M : m.name = k
  BY DEF Names
<1>7. \A n \in M : m.name <= n.name
  BY <1>1, <1>5, <1>6 DEF Names
<1> QED
  BY <1>7 DEF FirstMigration

\* The higher of two hashes is a hash.
LEMMA HigherIs ==
    ASSUME NEW a \in Nat, NEW b \in Nat
    PROVE  Higher(a, b) \in Nat
<1>1. \E x \in {a, b} : \A y \in {a, b} : x >= y
  <2>1. CASE a >= b
    BY <2>1
  <2>2. CASE ~(a >= b)
    BY <2>2
  <2> QED
    BY <2>1, <2>2
<1> QED
  BY <1>1 DEF Higher, Max

\* Every migration of a database is one of a bundle.
LEMMA FilterIs ==
    ASSUME NEW b \in Bundle, NEW d \in Database
    PROVE  Filter(b, d) \in SUBSET AnyMigration /\ Filter(b, d) \subseteq UNION {Filter(c, d) : c \in Bundle}
BY DEF Filter, AnyMigration

\* No deploy is at work at the start.
LEMMA RolloutInitial == DeployInit => RolloutInv
<1> SUFFICES ASSUME DeployInit PROVE RolloutInv
  OBVIOUS
<1>1. 1 \in Bundle /\ Schema(1) \in Nat /\ Landlord \notin Tenant /\ NoRuntime \notin Runtime
  BY BundleAssumption DEF Tenant
<1>2. recorded = [d \in Database |-> IF d \in NewTenant THEN {} ELSE Filter(1, d)]
  BY DEF DeployInit, Start
<1>3. recorded \in [Database -> SUBSET AnyMigration]
  BY <1>1, <1>2, FilterIs
<1>4. \A d \in Database : recorded[d] \subseteq UNION {Filter(b, d) : b \in Bundle}
  BY <1>1, <1>2, FilterIs
<1>5. schema \in [Database -> Nat]
  BY <1>1 DEF DeployInit
<1>6. creating \in [Tenant -> [step : {"none", "provision", "register", "ensure", "schema",
                                       "mark", "done", "failed"},
                               by : Runtime \cup {NoRuntime}, bundle : Bundle]]
  BY <1>1 DEF DeployInit
<1>7. RolloutTypes
  BY <1>1, <1>3, <1>4, <1>5, <1>6 DEF DeployInit, RolloutTypes, Database, Tenant, Stages
<1>8. Enrolment /\ LocksHeldByLive /\ StatementsLocked
  BY DEF DeployInit, Enrolment, LocksHeldByLive, StatementsLocked, Tenant
<1>9. \A r \in Runtime : StageOK(r)
  BY DEF DeployInit, StageOK, Done, Migrated
<1> QED
  BY <1>7, <1>8, <1>9 DEF RolloutInv

-----------------------------------------------------------------------------
\* The stage of one deploy changes while nothing of it is under migration; what
\* the databases hold and who holds their locks stays.
Untouched(r) ==
    \A q \in Runtime \ {r} :
        /\ pc'[q] = pc[q] /\ want'[q] = want[q] /\ targets'[q] = targets[q] /\ todo'[q] = todo[q]
        /\ failed'[q] = failed[q] /\ skipped'[q] = skipped[q]

\* A step of one runtime leaves the stages of the others as they were.
LEMMA OthersStay ==
    ASSUME RolloutInv, NEW r \in Runtime, Untouched(r), UNCHANGED recorded
    PROVE  \A q \in Runtime \ {r} : StageOK(q)'
BY DEF RolloutInv, Untouched, StageOK, Done, Migrated

\* A runtime that moves on between migrations leaves the locks as they were.
LEMMA StageKeepsLocks ==
    ASSUME RolloutInv, NEW r \in Runtime, Untouched(r), UNCHANGED <<recorded, lock, stmt>>,
           \A d \in Database : ~Migrating(r, d)
    PROVE  LocksHeldByLive' /\ StatementsLocked'
<1> USE DEF RolloutInv
<1>1. ASSUME NEW d \in Database, lock[d] # NoRuntime
      PROVE  pc'[lock[d]] = pc[lock[d]] /\ todo'[lock[d]] = todo[lock[d]] /\ Migrating(lock[d], d)
  <2>1. lock[d] \in Runtime /\ lock[d] # r /\ Migrating(lock[d], d)
    BY <1>1 DEF LocksHeldByLive, RolloutTypes
  <2> QED
    BY <2>1 DEF Untouched
<1>2. LocksHeldByLive'
  BY <1>1 DEF LocksHeldByLive, Migrating
<1>3. ASSUME NEW q \in Runtime, NEW d \in Database, stmt[q][d] > 0
      PROVE  lock[d] = q /\ Pending(q, d) # {} /\ want'[q] = want[q]
  <2>1. lock[d] = q /\ Pending(q, d) # {}
    BY <1>3 DEF StatementsLocked
  <2>2. q # r
    BY <2>1, BundleAssumption DEF LocksHeldByLive
  <2> QED
    BY <2>1, <2>2 DEF Untouched
<1>4. StatementsLocked'
  BY <1>3 DEF StatementsLocked, Pending
<1> QED
  BY <1>2, <1>4

\* So it keeps the invariant, as far as its own stage does.
LEMMA StageStep ==
    ASSUME RolloutInv, NEW r \in Runtime, Untouched(r), \A d \in Database : ~Migrating(r, d),
           UNCHANGED <<recorded, lock, stmt, creating, enrolled>>, RolloutTypes', StageOK(r)'
    PROVE  RolloutInv'
<1>1. Enrolment'
  BY DEF RolloutInv, Enrolment
<1>2. \A q \in Runtime : StageOK(q)'
  BY OthersStay
<1> QED
  BY <1>1, <1>2, StageKeepsLocks DEF RolloutInv

\* What the helpers of a stage do.
LEMMA AimIs ==
    ASSUME RolloutTypes, NEW r \in Runtime, NEW S \in SUBSET (enrolled \cup {Landlord}), Aim(r, S)
    PROVE  /\ targets'[r] = S /\ todo'[r] = S /\ failed'[r] = {} /\ skipped'[r] = {}
           /\ \A q \in Runtime \ {r} : /\ targets'[q] = targets[q] /\ todo'[q] = todo[q]
                                       /\ failed'[q] = failed[q] /\ skipped'[q] = skipped[q]
           /\ targets' \in [Runtime -> SUBSET (enrolled \cup {Landlord})]
           /\ todo' \in [Runtime -> SUBSET Database] /\ failed' \in [Runtime -> SUBSET Database]
           /\ skipped' \in [Runtime -> SUBSET Database]
<1>1. S \in SUBSET Database
  BY DEF RolloutTypes, Database
<1> QED
  BY <1>1 DEF RolloutTypes, Aim

\* What Goto sets.
LEMMA GoesIs ==
    ASSUME RolloutTypes, NEW r \in Runtime, NEW stage \in Stages, Goto(r, stage)
    PROVE  /\ pc'[r] = stage /\ pc' \in [Runtime -> Stages]
           /\ \A q \in Runtime \ {r} : pc'[q] = pc[q]
BY DEF RolloutTypes, Goto

\* What Hydrate reads.
LEMMA HydrateIs ==
    ASSUME RolloutTypes, NEW r \in Runtime, Hydrate(r)
    PROVE  known' \in [Runtime -> SUBSET enrolled] /\ known'[r] \subseteq enrolled
BY DEF RolloutTypes, Hydrate

\* The answer ends the deploy: nothing of it is left to be shown.
LEMMA AnswerIs ==
    ASSUME RolloutTypes, NEW r \in Runtime, Answer(r)
    PROVE  /\ Untouched(r) /\ StageOK(r)'
           /\ pc' \in [Runtime -> Stages] /\ want' \in [Runtime -> Bundle]
           /\ targets' \in [Runtime -> SUBSET (enrolled \cup {Landlord})]
           /\ todo' \in [Runtime -> SUBSET Database] /\ failed' \in [Runtime -> SUBSET Database]
           /\ skipped' \in [Runtime -> SUBSET Database]
           /\ \A d \in Database : d \notin todo'[r]
<1>1. Goto(r, "idle") /\ Aim(r, {}) /\ want' = [want EXCEPT ![r] = 1] /\ "idle" \in Stages
  BY DEF Answer, Stages
<1>2. /\ want' \in [Runtime -> Bundle] /\ \A q \in Runtime \ {r} : want'[q] = want[q]
  BY <1>1, BundleAssumption DEF RolloutTypes
<1>3. pc'[r] = "idle" /\ pc' \in [Runtime -> Stages] /\ \A q \in Runtime \ {r} : pc'[q] = pc[q]
  BY <1>1, GoesIs
<1>4. /\ targets'[r] = {} /\ todo'[r] = {} /\ failed'[r] = {} /\ skipped'[r] = {}
      /\ \A q \in Runtime \ {r} : /\ targets'[q] = targets[q] /\ todo'[q] = todo[q]
                                  /\ failed'[q] = failed[q] /\ skipped'[q] = skipped[q]
      /\ targets' \in [Runtime -> SUBSET (enrolled \cup {Landlord})]
      /\ todo' \in [Runtime -> SUBSET Database] /\ failed' \in [Runtime -> SUBSET Database]
      /\ skipped' \in [Runtime -> SUBSET Database]
  BY <1>1, AimIs
<1>5. Untouched(r)
  BY <1>2, <1>3, <1>4 DEF Untouched
<1>6. StageOK(r)'
  BY <1>3, <1>4 DEF StageOK
<1> QED
  BY <1>2, <1>3, <1>4, <1>5, <1>6

\* Answer keeps the invariant.
LEMMA AnswerKeeps ==
    ASSUME RolloutInv, NEW r \in Runtime, Answer(r), \A d \in Database : ~Migrating(r, d),
           UNCHANGED <<exists, schema, recorded, lock, enrolled, ready, creating, stmt>>,
           manifest' \in Bundle, serving' \in [Runtime -> Bundle],
           known' \in [Runtime -> SUBSET enrolled]
    PROVE  RolloutInv'
<1>1. RolloutTypes
  BY DEF RolloutInv
<1>2. RolloutTypes'
  BY <1>1, AnswerIs DEF RolloutTypes
<1> QED
  BY <1>1, <1>2, AnswerIs, StageStep

\* A deploy that goes on to its next stage.
LEMMA ProceedKeeps ==
    ASSUME RolloutInv, NEW r \in Runtime, NEW stage \in Stages, Goto(r, stage),
           NEW S \in SUBSET (enrolled \cup {Landlord}), Aim(r, S),
           stage = "migLandlord" => S = {Landlord},
           stage = "migTenants" => Migrated(r, Landlord) /\ want'[r] = want[r],
           stage # "activate",
           want' \in [Runtime -> Bundle], \A q \in Runtime \ {r} : want'[q] = want[q],
           \A d \in Database : ~Migrating(r, d),
           UNCHANGED <<exists, recorded, lock, enrolled, ready, creating, stmt, manifest>>,
           schema' \in [Database -> Nat],
           serving' \in [Runtime -> Bundle], known' \in [Runtime -> SUBSET enrolled]
    PROVE  RolloutInv'
<1>1. RolloutTypes
  BY DEF RolloutInv
<1>2. pc'[r] = stage /\ pc' \in [Runtime -> Stages] /\ \A q \in Runtime \ {r} : pc'[q] = pc[q]
  BY <1>1, GoesIs
<1>3. /\ targets'[r] = S /\ todo'[r] = S /\ failed'[r] = {} /\ skipped'[r] = {}
      /\ \A q \in Runtime \ {r} : /\ targets'[q] = targets[q] /\ todo'[q] = todo[q]
                                  /\ failed'[q] = failed[q] /\ skipped'[q] = skipped[q]
      /\ targets' \in [Runtime -> SUBSET (enrolled \cup {Landlord})]
      /\ todo' \in [Runtime -> SUBSET Database] /\ failed' \in [Runtime -> SUBSET Database]
      /\ skipped' \in [Runtime -> SUBSET Database]
  BY <1>1, AimIs
<1>4. RolloutTypes'
  BY <1>1, <1>2, <1>3 DEF RolloutTypes
<1>5. Untouched(r)
  BY <1>2, <1>3 DEF Untouched
<1>6. StageOK(r)'
  <2>1. Done(r)' = {}
    BY <1>3 DEF Done
  <2>2. stage = "migTenants" => Migrated(r, Landlord)'
    BY DEF Migrated
  <2> QED
    BY <1>2, <1>3, <2>1, <2>2 DEF StageOK
<1> QED
  BY <1>4, <1>5, <1>6, StageStep

\* DevSync keeps the invariant.
LEMMA DevSyncKeeps ==
    ASSUME RolloutInv, NEW r \in Runtime, NEW b \in Offered, DevSync(r, b)
    PROVE  RolloutInv'
<1> DEFINE stage == IF Schema(b) \in {schemaHash[r], Schema(serving[r])} THEN "check" ELSE "landlord"
<1>1. b \in Bundle
  BY BundleAssumption
<1>2. stage \in Stages /\ stage \notin {"migLandlord", "migTenants", "activate"} /\ Goto(r, stage)
  BY DEF DevSync, Stages
<1>3. want' \in [Runtime -> Bundle] /\ \A q \in Runtime \ {r} : want'[q] = want[q]
  BY <1>1 DEF DevSync, RolloutInv, RolloutTypes
<1>4. \A d \in Database : ~Migrating(r, d)
  BY DEF DevSync, Migrating
<1>5. /\ UNCHANGED <<exists, recorded, lock, enrolled, ready, creating, stmt, manifest>>
      /\ schema' \in [Database -> Nat]
      /\ serving' \in [Runtime -> Bundle] /\ known' \in [Runtime -> SUBSET enrolled]
      /\ Aim(r, {})
  BY DEF DevSync, RolloutInv, RolloutTypes, dbvars, tenvars, rtvars
<1> HIDE DEF stage
<1> QED
  BY <1>2, <1>3, <1>4, <1>5, ProceedKeeps

\* ArtifactsInstalled keeps the invariant.
LEMMA ArtifactsInstalledKeeps ==
    ASSUME RolloutInv, NEW r \in Runtime, ArtifactsInstalled(r)
    PROVE  RolloutInv'
<1>1. RolloutTypes
  BY DEF RolloutInv
<1>2. known' \in [Runtime -> SUBSET enrolled]
  BY <1>1, HydrateIs DEF ArtifactsInstalled
<1>3. \A d \in Database : ~Migrating(r, d)
  BY DEF ArtifactsInstalled, Migrating
<1>4. /\ UNCHANGED <<exists, schema, recorded, lock, enrolled, ready, creating, stmt, manifest, serving>>
      /\ schema' \in [Database -> Nat] /\ serving' \in [Runtime -> Bundle] /\ manifest' \in Bundle
  BY <1>1 DEF ArtifactsInstalled, RolloutTypes, dbvars, tenvars
<1>5. CASE Answer(r)
  BY <1>2, <1>3, <1>4, <1>5, AnswerKeeps
<1>6. CASE \E stage \in {"landlord", "migLandlord"} : Proceed(r, stage) /\ Aim(r, {Landlord})
  <2>1. PICK stage \in {"landlord", "migLandlord"} : Proceed(r, stage) /\ Aim(r, {Landlord})
    BY <1>6
  <2>2. stage \in Stages /\ stage \notin {"migTenants", "activate"} /\ Goto(r, stage)
    BY <2>1 DEF Stages, Proceed
  <2>3. want' \in [Runtime -> Bundle] /\ \A q \in Runtime \ {r} : want'[q] = want[q]
    BY <1>1, <2>1 DEF Proceed, RolloutTypes
  <2> QED
    BY <1>2, <1>3, <1>4, <2>1, <2>2, <2>3, ProceedKeeps
<1> QED
  BY <1>5, <1>6 DEF ArtifactsInstalled

\* A stage ends and its databases stay its subject.
LEMMA SameAimKeeps ==
    ASSUME RolloutInv, NEW r \in Runtime, NEW stage \in Stages, Proceed(r, stage), SameAim,
           stage \notin {"migLandlord", "migTenants"},
           stage = "activate" => /\ pc[r] = "migTenants" /\ todo[r] = {} /\ failed[r] = {},
           \A d \in Database : ~Migrating(r, d),
           UNCHANGED <<exists, recorded, lock, enrolled, ready, creating, stmt, manifest, serving, known>>,
           schema' \in [Database -> Nat]
    PROVE  RolloutInv'
<1>1. RolloutTypes /\ StageOK(r)
  BY DEF RolloutInv
<1>2. pc'[r] = stage /\ pc' \in [Runtime -> Stages] /\ \A q \in Runtime \ {r} : pc'[q] = pc[q]
  BY <1>1, GoesIs DEF Proceed
<1>3. RolloutTypes'
  BY <1>1, <1>2 DEF RolloutTypes, Proceed, SameAim
<1>4. Untouched(r)
  BY <1>2 DEF Untouched, Proceed, SameAim
<1>5. StageOK(r)'
  BY <1>1, <1>2 DEF StageOK, Done, Migrated, Proceed, SameAim
<1> QED
  BY <1>3, <1>4, <1>5, StageStep DEF Proceed

\* ApplyLandlord keeps the invariant.
LEMMA ApplyLandlordKeeps ==
    ASSUME RolloutInv, NEW r \in Runtime, ApplyLandlord(r)
    PROVE  RolloutInv'
<1>1. RolloutTypes
  BY DEF RolloutInv
<1>2. \A d \in Database : ~Migrating(r, d)
  BY DEF ApplyLandlord, Migrating
<1>3. UNCHANGED <<exists, recorded, lock, enrolled, ready, creating, stmt, manifest, serving, known>>
  BY DEF ApplyLandlord, tenvars, rtvars
<1>4. CASE /\ schema' = [schema EXCEPT ![Landlord] = Higher(@, Schema(want[r]))]
           /\ Proceed(r, "targets") /\ SameAim
  <2>1. schema[Landlord] \in Nat /\ Schema(want[r]) \in Nat
    BY <1>1, BundleAssumption DEF RolloutTypes, Database
  <2>2. Higher(schema[Landlord], Schema(want[r])) \in Nat
    BY <2>1, HigherIs
  <2>3. schema' \in [Database -> Nat]
    BY <1>1, <1>4, <2>2 DEF RolloutTypes
  <2>4. "targets" \in Stages
    BY DEF Stages
  <2> QED
    BY <1>2, <1>3, <1>4, <2>3, <2>4, SameAimKeeps
<1>5. CASE UNCHANGED schema /\ Answer(r)
  BY <1>1, <1>2, <1>3, <1>5, AnswerKeeps DEF RolloutTypes
<1> QED
  BY <1>4, <1>5 DEF ApplyLandlord

\* SchemaTargets keeps the invariant.
LEMMA SchemaTargetsKeeps ==
    ASSUME RolloutInv, NEW r \in Runtime, SchemaTargets(r)
    PROVE  RolloutInv'
<1>1. RolloutTypes
  BY DEF RolloutInv
<1>2. \A d \in Database : ~Migrating(r, d)
  BY DEF SchemaTargets, Migrating
<1>3. /\ UNCHANGED <<exists, schema, recorded, lock, enrolled, ready, creating, stmt, manifest, serving>>
      /\ schema' \in [Database -> Nat] /\ serving' \in [Runtime -> Bundle] /\ manifest' \in Bundle
  BY <1>1 DEF SchemaTargets, RolloutTypes, dbvars, tenvars
<1>4. CASE Hydrate(r) /\ Aim(r, known'[r]) /\ Proceed(r, "tenants")
  <2>1. known' \in [Runtime -> SUBSET enrolled] /\ known'[r] \in SUBSET (enrolled \cup {Landlord})
    BY <1>1, <1>4, HydrateIs
  <2>2. "tenants" \in Stages /\ Goto(r, "tenants") /\ want' = want
    BY <1>4 DEF Stages, Proceed
  <2>3. want' \in [Runtime -> Bundle] /\ \A q \in Runtime \ {r} : want'[q] = want[q]
    BY <1>1, <2>2 DEF RolloutTypes
  <2> QED
    BY <1>2, <1>3, <1>4, <2>1, <2>2, <2>3, ProceedKeeps
<1>5. CASE UNCHANGED known /\ Answer(r)
  BY <1>1, <1>2, <1>3, <1>5, AnswerKeeps DEF RolloutTypes
<1> QED
  BY <1>4, <1>5 DEF SchemaTargets

\* ApplyTenantSchema keeps the invariant.
LEMMA ApplyTenantSchemaKeeps ==
    ASSUME RolloutInv, NEW r \in Runtime, NEW t \in Tenant, ApplyTenantSchema(r, t)
    PROVE  RolloutInv'
<1>1. RolloutTypes /\ StageOK(r)
  BY DEF RolloutInv
<1>2. pc[r] = "tenants" /\ t \in todo[r] /\ t \in Database
  BY DEF ApplyTenantSchema, Database
<1>3. /\ todo' = [todo EXCEPT ![r] = @ \ {t}]
      /\ UNCHANGED <<exists, recorded, lock, tenvars, rtvars, pc, want, targets, stmt>>
  BY DEF ApplyTenantSchema
<1>4. /\ failed' = failed \/ failed' = [failed EXCEPT ![r] = @ \cup {t}]
      /\ skipped' = skipped \/ skipped' = [skipped EXCEPT ![r] = @ \cup {t}]
  BY DEF ApplyTenantSchema
<1>5. schema' \in [Database -> Nat]
  <2>1. schema[t] \in Nat /\ Schema(want[r]) \in Nat
    BY <1>1, <1>2, BundleAssumption DEF RolloutTypes
  <2>2. Higher(schema[t], Schema(want[r])) \in Nat
    BY <2>1, HigherIs
  <2>3. \/ schema' = [schema EXCEPT ![t] = Higher(@, Schema(want[r]))]
        \/ schema' = schema
    BY DEF ApplyTenantSchema
  <2> QED
    BY <1>1, <2>2, <2>3 DEF RolloutTypes
<1>6. /\ todo' \in [Runtime -> SUBSET Database] /\ failed' \in [Runtime -> SUBSET Database]
      /\ skipped' \in [Runtime -> SUBSET Database]
      /\ todo'[r] \subseteq targets[r] /\ failed'[r] \subseteq targets[r] /\ skipped'[r] \subseteq targets[r]
      /\ \A q \in Runtime \ {r} : todo'[q] = todo[q] /\ failed'[q] = failed[q] /\ skipped'[q] = skipped[q]
  <2>1. /\ todo' \in [Runtime -> SUBSET Database] /\ todo'[r] \subseteq targets[r]
        /\ \A q \in Runtime \ {r} : todo'[q] = todo[q]
    BY <1>1, <1>3 DEF RolloutTypes, StageOK
  <2>2. t \in targets[r]
    BY <1>1, <1>2 DEF StageOK
  <2>3. /\ failed' \in [Runtime -> SUBSET Database] /\ failed'[r] \subseteq targets[r]
        /\ \A q \in Runtime \ {r} : failed'[q] = failed[q]
    <3>1. failed \in [Runtime -> SUBSET Database] /\ failed[r] \subseteq targets[r]
      BY <1>1 DEF RolloutTypes, StageOK
    <3>2. CASE failed' = failed
      BY <3>1, <3>2
    <3>3. CASE failed' = [failed EXCEPT ![r] = @ \cup {t}]
      BY <1>2, <2>2, <3>1, <3>3
    <3> QED
      BY <1>4, <3>2, <3>3
  <2>4. /\ skipped' \in [Runtime -> SUBSET Database] /\ skipped'[r] \subseteq targets[r]
        /\ \A q \in Runtime \ {r} : skipped'[q] = skipped[q]
    <3>1. skipped \in [Runtime -> SUBSET Database] /\ skipped[r] \subseteq targets[r]
      BY <1>1 DEF RolloutTypes, StageOK
    <3>2. CASE skipped' = skipped
      BY <3>1, <3>2
    <3>3. CASE skipped' = [skipped EXCEPT ![r] = @ \cup {t}]
      BY <1>2, <2>2, <3>1, <3>3
    <3> QED
      BY <1>4, <3>2, <3>3
  <2> QED
    BY <2>1, <2>3, <2>4
<1>7. RolloutTypes'
  BY <1>1, <1>3, <1>5, <1>6 DEF RolloutTypes, tenvars, rtvars
<1>8. StageOK(r)'
  BY <1>2, <1>3, <1>6 DEF StageOK
<1>9. Untouched(r)
  BY <1>3, <1>6 DEF Untouched
<1> QED
  BY <1>2, <1>3, <1>7, <1>8, <1>9, StageStep DEF Migrating, tenvars

\* SchemasApplied keeps the invariant.
LEMMA SchemasAppliedKeeps ==
    ASSUME RolloutInv, NEW r \in Runtime, SchemasApplied(r)
    PROVE  RolloutInv'
<1>1. RolloutTypes
  BY DEF RolloutInv
<1>2. \A d \in Database : ~Migrating(r, d)
  BY DEF SchemasApplied, Migrating
<1>3. /\ UNCHANGED <<exists, schema, recorded, lock, enrolled, ready, creating, stmt, manifest>>
      /\ schema' \in [Database -> Nat] /\ serving' \in [Runtime -> Bundle] /\ manifest' \in Bundle
      /\ known' \in [Runtime -> SUBSET enrolled]
  BY <1>1 DEF SchemasApplied, RolloutTypes, dbvars, tenvars
<1>4. CASE Answer(r)
  BY <1>2, <1>3, <1>4, AnswerKeeps
<1>5. CASE Proceed(r, "migLandlord") /\ Aim(r, {Landlord})
  <2>1. "migLandlord" \in Stages /\ Goto(r, "migLandlord") /\ want' = want
    BY <1>5 DEF Stages, Proceed
  <2>2. want' \in [Runtime -> Bundle] /\ \A q \in Runtime \ {r} : want'[q] = want[q]
    BY <1>1, <2>1 DEF RolloutTypes
  <2> QED
    BY <1>2, <1>3, <1>5, <2>1, <2>2, ProceedKeeps
<1> QED
  BY <1>4, <1>5 DEF SchemasApplied

\* LandlordMigrated keeps the invariant.
LEMMA LandlordMigratedKeeps ==
    ASSUME RolloutInv, NEW r \in Runtime, LandlordMigrated(r)
    PROVE  RolloutInv'
<1>1. RolloutTypes /\ StageOK(r) /\ pc[r] = "migLandlord" /\ todo[r] = {}
  BY DEF RolloutInv, LandlordMigrated
<1>2. \A d \in Database : ~Migrating(r, d)
  BY <1>1 DEF Migrating
<1>3. /\ UNCHANGED <<exists, schema, recorded, lock, enrolled, ready, creating, stmt, manifest, serving>>
      /\ schema' \in [Database -> Nat] /\ serving' \in [Runtime -> Bundle] /\ manifest' \in Bundle
  BY <1>1 DEF LandlordMigrated, RolloutTypes, dbvars, tenvars
<1>4. CASE Answer(r) /\ UNCHANGED known
  BY <1>1, <1>2, <1>3, <1>4, AnswerKeeps DEF RolloutTypes
<1>5. CASE failed[r] = {} /\ Hydrate(r) /\ Aim(r, known'[r]) /\ Proceed(r, "migTenants")
  <2>1. known' \in [Runtime -> SUBSET enrolled] /\ known'[r] \in SUBSET (enrolled \cup {Landlord})
    BY <1>1, <1>5, HydrateIs
  <2>2. "migTenants" \in Stages /\ Goto(r, "migTenants") /\ want' = want
    BY <1>5 DEF Stages, Proceed
  <2>3. want' \in [Runtime -> Bundle] /\ \A q \in Runtime \ {r} : want'[q] = want[q]
    BY <1>1, <2>2 DEF RolloutTypes
  <2>4. Migrated(r, Landlord)
    BY <1>1, <1>5 DEF StageOK, Done
  <2> QED
    BY <1>2, <1>3, <1>5, <2>1, <2>2, <2>3, <2>4, ProceedKeeps
<1> QED
  BY <1>4, <1>5 DEF LandlordMigrated

\* TenantsMigrated keeps the invariant.
LEMMA TenantsMigratedKeeps ==
    ASSUME RolloutInv, NEW r \in Runtime, TenantsMigrated(r)
    PROVE  RolloutInv'
<1>1. RolloutTypes /\ pc[r] = "migTenants" /\ todo[r] = {}
  BY DEF RolloutInv, TenantsMigrated
<1>2. \A d \in Database : ~Migrating(r, d)
  BY <1>1 DEF Migrating
<1>3. UNCHANGED <<exists, schema, recorded, lock, enrolled, ready, creating, stmt, manifest, serving, known>>
  BY DEF TenantsMigrated, dbvars, tenvars, rtvars
<1>4. CASE failed[r] = {} /\ Proceed(r, "activate") /\ SameAim
  <2>1. "activate" \in Stages /\ schema' \in [Database -> Nat]
    BY <1>1, <1>3 DEF Stages, RolloutTypes
  <2> QED
    BY <1>1, <1>2, <1>3, <1>4, <2>1, SameAimKeeps
<1>5. CASE Answer(r)
  BY <1>1, <1>2, <1>3, <1>5, AnswerKeeps DEF RolloutTypes
<1> QED
  BY <1>4, <1>5 DEF TenantsMigrated

\* Activate keeps the invariant.
LEMMA ActivateKeeps ==
    ASSUME RolloutInv, NEW r \in Runtime, Activate(r)
    PROVE  RolloutInv'
<1>1. RolloutTypes
  BY DEF RolloutInv
<1>2. \A d \in Database : ~Migrating(r, d)
  BY DEF Activate, Migrating
<1>3. /\ UNCHANGED <<exists, schema, recorded, lock, enrolled, ready, creating, stmt, manifest>>
      /\ schema' \in [Database -> Nat] /\ manifest' \in Bundle /\ known' \in [Runtime -> SUBSET enrolled]
  BY <1>1 DEF Activate, RolloutTypes, dbvars, tenvars
<1>4. CASE serving' = [serving EXCEPT ![r] = want[r]] /\ Proceed(r, "save") /\ Aim(r, {})
  <2>1. "save" \in Stages /\ Goto(r, "save") /\ want' = want
    BY <1>4 DEF Stages, Proceed
  <2>2. /\ want' \in [Runtime -> Bundle] /\ \A q \in Runtime \ {r} : want'[q] = want[q]
        /\ serving' \in [Runtime -> Bundle]
    BY <1>1, <1>4, <2>1 DEF RolloutTypes
  <2> QED
    BY <1>2, <1>3, <1>4, <2>1, <2>2, ProceedKeeps
<1>5. CASE UNCHANGED serving /\ Answer(r)
  BY <1>1, <1>2, <1>3, <1>5, AnswerKeeps DEF RolloutTypes
<1> QED
  BY <1>4, <1>5 DEF Activate

\* SaveManifest keeps the invariant.
LEMMA SaveManifestKeeps ==
    ASSUME RolloutInv, NEW r \in Runtime, SaveManifest(r)
    PROVE  RolloutInv'
<1>1. RolloutTypes
  BY DEF RolloutInv
<1>2. \A d \in Database : ~Migrating(r, d)
  BY DEF SaveManifest, Migrating
<1>3. /\ UNCHANGED <<exists, schema, recorded, lock, enrolled, ready, creating, stmt>>
      /\ serving' \in [Runtime -> Bundle] /\ known' \in [Runtime -> SUBSET enrolled]
      /\ manifest' \in Bundle /\ Answer(r)
  BY <1>1 DEF SaveManifest, RolloutTypes, dbvars, tenvars
<1> QED
  BY <1>2, <1>3, AnswerKeeps

-----------------------------------------------------------------------------
\* The migrations of one database.
LEMMA MigrationLockKeeps ==
    ASSUME RolloutInv, NEW r \in Runtime, NEW d \in Database, MigrationLock(r, d)
    PROVE  RolloutInv'
<1> USE DEF RolloutInv
<1>1. /\ RolloutTypes /\ StageOK(r) /\ d \in todo[r] /\ d \in targets[r] /\ lock[d] # r
      /\ pc[r] \in {"migLandlord", "migTenants"}
  BY DEF MigrationLock, Migrating, StageOK
<1>2. UNCHANGED <<exists, schema, recorded, tenvars, rtvars, pc, want, targets, failed, stmt>>
  BY DEF MigrationLock
<1>3. Enrolment'
  BY <1>2 DEF Enrolment, tenvars
<1>4. CASE /\ Filter(want[r], d) = {} \/ d \notin exists
           /\ todo' = [todo EXCEPT ![r] = @ \ {d}] /\ UNCHANGED lock
           /\ skipped' = [skipped EXCEPT ![r] = IF d \in exists THEN @ ELSE @ \cup {d}]
  <2>1. /\ todo' \in [Runtime -> SUBSET Database] /\ todo'[r] = todo[r] \ {d}
        /\ \A q \in Runtime \ {r} : todo'[q] = todo[q]
    BY <1>1, <1>4 DEF RolloutTypes
  <2>2. /\ skipped' \in [Runtime -> SUBSET Database]
        /\ skipped'[r] = IF d \in exists THEN skipped[r] ELSE skipped[r] \cup {d}
        /\ \A q \in Runtime \ {r} : skipped'[q] = skipped[q]
    BY <1>1, <1>4 DEF RolloutTypes
  <2>3. RolloutTypes'
    BY <1>1, <1>2, <1>4, <2>1, <2>2 DEF RolloutTypes, tenvars, rtvars
  <2>4. LocksHeldByLive'
    <3> SUFFICES ASSUME NEW e \in Database, lock[e] # NoRuntime
                 PROVE  pc[lock[e]] \in {"migLandlord", "migTenants"} /\ e \in todo'[lock[e]]
      BY <1>2, <1>4 DEF LocksHeldByLive, Migrating
    <3>1. lock[e] \in Runtime /\ pc[lock[e]] \in {"migLandlord", "migTenants"} /\ e \in todo[lock[e]]
      BY <1>1 DEF RolloutTypes, LocksHeldByLive, Migrating
    <3> QED
      BY <1>1, <2>1, <3>1
  <2>5. StatementsLocked'
    BY <1>2, <1>4 DEF StatementsLocked, Pending
  <2>6. StageOK(r)'
    <3>1. d \notin Done(r)' \/ Filter(want[r], d) = {}
      BY <1>4, <2>2 DEF Done
    <3>2. \A e \in Done(r)' : e = d \/ e \in Done(r)
      BY <1>2, <2>1, <2>2 DEF Done
    <3>3. \A e \in Done(r)' : Migrated(r, e)
      BY <3>1, <3>2, <1>1 DEF StageOK, Migrated
    <3>4. Landlord \in exists
      BY <1>1 DEF RolloutTypes
    <3> QED
      BY <1>1, <1>2, <2>1, <2>2, <3>3, <3>4 DEF StageOK, Migrated
  <2>7. Untouched(r)
    BY <1>2, <2>1, <2>2 DEF Untouched
  <2> QED
    BY <1>2, <1>3, <2>3, <2>4, <2>5, <2>6, <2>7, OthersStay
<1>5. CASE lock[d] = NoRuntime /\ lock' = [lock EXCEPT ![d] = r] /\ UNCHANGED <<todo, skipped>>
  <2>1. /\ lock' \in [Database -> Runtime \cup {NoRuntime}] /\ lock'[d] = r
        /\ \A e \in Database \ {d} : lock'[e] = lock[e]
    BY <1>1, <1>5 DEF RolloutTypes
  <2>2. RolloutTypes'
    BY <1>1, <1>2, <1>5, <2>1 DEF RolloutTypes, tenvars, rtvars
  <2>3. LocksHeldByLive'
    <3> SUFFICES ASSUME NEW e \in Database, lock'[e] # NoRuntime
                 PROVE  pc[lock'[e]] \in {"migLandlord", "migTenants"} /\ e \in todo[lock'[e]]
      BY <1>2, <1>5 DEF LocksHeldByLive, Migrating
    <3> QED
      BY <1>1, <2>1 DEF LocksHeldByLive, Migrating
  <2>4. StatementsLocked'
    <3>1. \A q \in Runtime : stmt[q][d] > 0 => FALSE
      BY <1>5, BundleAssumption DEF StatementsLocked
    <3> QED
      BY <1>2, <2>1, <3>1 DEF StatementsLocked, Pending
  <2>5. \A q \in Runtime : StageOK(q)'
    BY <1>2, <1>5 DEF StageOK, Done, Migrated
  <2> QED
    BY <1>3, <2>2, <2>3, <2>4, <2>5
<1> QED
  BY <1>4, <1>5 DEF MigrationLock

\* The holder of a lock records a migration that is pending: it is nobody
\* else's statement that is recorded, and nothing is taken back.
LEMMA RecordKeeps ==
    ASSUME RolloutInv, NEW r \in Runtime, NEW d \in Database, lock[d] = r, Pending(r, d) # {},
           recorded' = [recorded EXCEPT ![d] = @ \cup {FirstMigration(Pending(r, d))}],
           stmt' \in [Runtime -> [Database -> 0..2]], stmt'[r][d] = 0,
           \A q \in Runtime, e \in Database : stmt'[q][e] > 0 => stmt'[q][e] = stmt[q][e],
           UNCHANGED <<exists, schema, lock, tenvars, rtvars, pc, want, targets, todo, failed, skipped>>
    PROVE  RolloutInv'
<1> USE DEF RolloutInv
<1>1. RolloutTypes
  OBVIOUS
<1>2. FirstMigration(Pending(r, d)) \in Filter(want[r], d)
  <2>1. Filter(want[r], d) \in SUBSET AnyMigration
    BY <1>1, FilterIs DEF RolloutTypes
  <2>2. Pending(r, d) \in SUBSET AnyMigration /\ Pending(r, d) \subseteq Filter(want[r], d)
    BY <2>1 DEF Pending
  <2> QED
    BY <2>2, FirstIsPending
<1>3. PICK m \in Filter(want[r], d) : recorded' = [recorded EXCEPT ![d] = @ \cup {m}]
  BY <1>2
<1>4. want[r] \in Bundle /\ m \in AnyMigration /\ m \in UNION {Filter(b, d) : b \in Bundle}
  BY <1>1, FilterIs DEF RolloutTypes
<1>5. /\ recorded' \in [Database -> SUBSET AnyMigration] /\ recorded'[d] = recorded[d] \cup {m}
      /\ \A e \in Database \ {d} : recorded'[e] = recorded[e]
  BY <1>1, <1>3, <1>4 DEF RolloutTypes
<1>6. \A e \in Database : recorded'[e] \subseteq UNION {Filter(b, e) : b \in Bundle}
  <2> SUFFICES ASSUME NEW e \in Database, NEW x \in recorded'[e]
               PROVE  x \in UNION {Filter(b, e) : b \in Bundle}
    OBVIOUS
  <2>1. recorded[e] \subseteq UNION {Filter(b, e) : b \in Bundle}
    BY <1>1 DEF RolloutTypes
  <2>2. CASE x \in recorded[e]
    BY <2>1, <2>2
  <2>3. CASE e = d /\ x = m
    BY <1>4, <2>3
  <2> QED
    BY <1>5, <2>2, <2>3
<1>7. RolloutTypes'
  BY <1>1, <1>5, <1>6 DEF RolloutTypes, tenvars, rtvars
<1>8. Enrolment' /\ LocksHeldByLive'
  BY DEF Enrolment, LocksHeldByLive, Migrating, tenvars
<1>9. StatementsLocked'
  <2> SUFFICES ASSUME NEW q \in Runtime, NEW e \in Database, stmt'[q][e] > 0
               PROVE  lock[e] = q /\ Pending(q, e)' # {}
    BY DEF StatementsLocked
  <2>1. lock[e] = q /\ Pending(q, e) # {}
    BY DEF StatementsLocked
  <2>2. e # d
    BY <2>1, <1>1
  <2> QED
    BY <2>1, <2>2, <1>5 DEF Pending
<1>10. \A q \in Runtime : StageOK(q)'
  <2>1. \A e \in Database : recorded[e] \subseteq recorded'[e]
    BY <1>5
  <2>2. \A q \in Runtime : Done(q)' = Done(q) /\ Done(q) \subseteq Database /\ Landlord \in Database
    BY <1>1 DEF Done, RolloutTypes, Database
  <2>3. \A q \in Runtime, e \in Database : Migrated(q, e) => Migrated(q, e)'
    BY <2>1 DEF Migrated
  <2> QED
    BY <2>2, <2>3 DEF StageOK
<1> QED
  BY <1>7, <1>8, <1>9, <1>10

\* MigrateInTransaction keeps the invariant.
LEMMA MigrateInTransactionKeeps ==
    ASSUME RolloutInv, NEW r \in Runtime, NEW d \in Database, MigrateInTransaction(r, d)
    PROVE  RolloutInv'
<1>1. stmt' \in [Runtime -> [Database -> 0..2]] /\ stmt' = stmt /\ stmt'[r][d] = 0
  BY DEF MigrateInTransaction, RolloutInv, RolloutTypes
<1> QED
  BY <1>1, RecordKeeps DEF MigrateInTransaction, SameAim

\* MigrateRecord keeps the invariant.
LEMMA MigrateRecordKeeps ==
    ASSUME RolloutInv, NEW r \in Runtime, NEW d \in Database, MigrateRecord(r, d)
    PROVE  RolloutInv'
<1>1. stmt[r][d] = 2 /\ lock[d] = r /\ Pending(r, d) # {}
  BY DEF MigrateRecord, RolloutInv, StatementsLocked
<1>2. /\ stmt' \in [Runtime -> [Database -> 0..2]] /\ stmt'[r][d] = 0
      /\ \A q \in Runtime, e \in Database : stmt'[q][e] > 0 => stmt'[q][e] = stmt[q][e]
  BY DEF MigrateRecord, RolloutInv, RolloutTypes
<1> QED
  BY <1>1, <1>2, RecordKeeps DEF MigrateRecord, SameAim

\* MigrateStatement keeps the invariant.
LEMMA MigrateStatementKeeps ==
    ASSUME RolloutInv, NEW r \in Runtime, NEW d \in Database, MigrateStatement(r, d)
    PROVE  RolloutInv' /\ Pending(r, d) # {}
<1> USE DEF RolloutInv
<1>1. RolloutTypes /\ lock[d] = r
  BY DEF MigrateStatement
<1>2. stmt[r][d] \in {0, 1} /\ Pending(r, d) # {}
  BY DEF MigrateStatement, StatementsLocked
<1>3. /\ stmt' \in [Runtime -> [Database -> 0..2]]
      /\ \A q \in Runtime, e \in Database : (q = r /\ e = d) \/ stmt'[q][e] = stmt[q][e]
  BY <1>1, <1>2 DEF MigrateStatement, RolloutTypes
<1>4. UNCHANGED <<exists, schema, recorded, lock, tenvars, rtvars, pc, want, targets, todo, failed, skipped>>
  BY DEF MigrateStatement, SameAim
<1>5. RolloutTypes'
  BY <1>1, <1>3, <1>4 DEF RolloutTypes, tenvars, rtvars
<1>6. Enrolment' /\ LocksHeldByLive'
  BY <1>4 DEF Enrolment, LocksHeldByLive, Migrating, tenvars
<1>7. StatementsLocked'
  BY <1>1, <1>2, <1>3, <1>4 DEF StatementsLocked, Pending
<1>8. \A q \in Runtime : StageOK(q)'
  BY <1>4 DEF StageOK, Done, Migrated
<1> QED
  BY <1>2, <1>5, <1>6, <1>7, <1>8

\* MigrateEnd keeps the invariant.
LEMMA MigrateEndKeeps ==
    ASSUME RolloutInv, NEW r \in Runtime, NEW d \in Database, MigrateEnd(r, d)
    PROVE  RolloutInv'
<1> USE DEF RolloutInv
<1>1. /\ RolloutTypes /\ StageOK(r) /\ d \in todo[r] /\ d \in targets[r] /\ lock[d] = r
      /\ pc[r] \in {"migLandlord", "migTenants"}
  BY DEF MigrateEnd, Migrating, StageOK
<1>2. UNCHANGED <<exists, schema, recorded, tenvars, rtvars, pc, want, targets, skipped>>
  BY DEF MigrateEnd
<1>3. /\ todo' \in [Runtime -> SUBSET Database] /\ todo'[r] = todo[r] \ {d}
      /\ \A q \in Runtime \ {r} : todo'[q] = todo[q]
  BY <1>1 DEF MigrateEnd, RolloutTypes
<1>4. /\ lock' \in [Database -> Runtime \cup {NoRuntime}] /\ lock'[d] = NoRuntime
      /\ \A e \in Database \ {d} : lock'[e] = lock[e]
  BY <1>1 DEF MigrateEnd, RolloutTypes
<1>5. /\ stmt' \in [Runtime -> [Database -> 0..2]]
      /\ \A q \in Runtime, e \in Database : stmt'[q][e] > 0 => stmt'[q][e] = stmt[q][e]
      /\ stmt'[r][d] = 0
  BY <1>1 DEF MigrateEnd, RolloutTypes
<1>6. \/ Migrated(r, d) /\ failed' = failed
      \/ failed' = [failed EXCEPT ![r] = @ \cup {d}]
  <2>1. Pending(r, d) = {} /\ ~Edited(r, d) => Migrated(r, d)
    BY DEF Pending, Edited, Migrated
  <2> QED
    BY <2>1 DEF MigrateEnd, Outcome
<1>7. /\ failed' \in [Runtime -> SUBSET Database]
      /\ (failed'[r] = failed[r] /\ Migrated(r, d)) \/ failed'[r] = failed[r] \cup {d}
      /\ \A q \in Runtime \ {r} : failed'[q] = failed[q]
  BY <1>1, <1>6 DEF RolloutTypes
<1>8. RolloutTypes'
  BY <1>1, <1>2, <1>3, <1>4, <1>5, <1>7 DEF RolloutTypes, tenvars, rtvars
<1>9. Enrolment'
  BY <1>2 DEF Enrolment, tenvars
<1>10. LocksHeldByLive'
  <2> SUFFICES ASSUME NEW e \in Database, lock'[e] # NoRuntime
               PROVE  pc[lock'[e]] \in {"migLandlord", "migTenants"} /\ e \in todo'[lock'[e]]
    BY <1>2 DEF LocksHeldByLive, Migrating
  <2>1. e # d /\ lock'[e] = lock[e]
    BY <1>4
  <2>2. lock[e] \in Runtime /\ pc[lock[e]] \in {"migLandlord", "migTenants"} /\ e \in todo[lock[e]]
    BY <1>1, <2>1 DEF RolloutTypes, LocksHeldByLive, Migrating
  <2> QED
    BY <1>3, <2>1, <2>2
<1>11. StatementsLocked'
  <2> SUFFICES ASSUME NEW q \in Runtime, NEW e \in Database, stmt'[q][e] > 0
               PROVE  lock'[e] = q /\ Pending(q, e)' # {}
    BY DEF StatementsLocked
  <2>1. lock[e] = q /\ Pending(q, e) # {}
    BY <1>5 DEF StatementsLocked
  <2>2. e # d
    BY <1>1, <1>5, <2>1
  <2> QED
    BY <1>2, <1>4, <2>1, <2>2 DEF Pending
<1>12. StageOK(r)'
  <2>1. \A e \in Done(r)' : e \in Done(r) \/ (e = d /\ Migrated(r, d))
    BY <1>2, <1>3, <1>7 DEF Done
  <2>2. \A e \in Done(r)' : Migrated(r, e)
    BY <2>1, <1>1 DEF StageOK
  <2>3. todo'[r] \subseteq targets[r] /\ failed'[r] \subseteq targets[r]
    BY <1>1, <1>3, <1>7 DEF StageOK
  <2> QED
    BY <1>1, <1>2, <2>2, <2>3 DEF StageOK, Migrated
<1>13. Untouched(r)
  BY <1>2, <1>3, <1>7 DEF Untouched
<1> QED
  BY <1>2, <1>8, <1>9, <1>10, <1>11, <1>12, <1>13, OthersStay

\* Restart keeps the invariant.
LEMMA RestartKeeps ==
    ASSUME RolloutInv, NEW r \in Runtime, Restart(r)
    PROVE  RolloutInv'
<1> USE DEF RolloutInv
<1>1. RolloutTypes /\ Answer(r)
  BY DEF Restart
<1>2. UNCHANGED <<exists, schema, recorded, enrolled, ready, manifest>>
  BY DEF Restart
<1>3. /\ lock' \in [Database -> Runtime \cup {NoRuntime}]
      /\ \A d \in Database : lock'[d] = IF lock[d] = r THEN NoRuntime ELSE lock[d]
  BY <1>1 DEF Restart, RolloutTypes
<1>4. /\ stmt' \in [Runtime -> [Database -> 0..2]] /\ \A d \in Database : stmt'[r][d] = 0
      /\ \A q \in Runtime \ {r} : stmt'[q] = stmt[q]
  <2>1. [d \in Database |-> 0] \in [Database -> 0..2]
    OBVIOUS
  <2>2. PICK f \in [Database -> 0..2] : f = [d \in Database |-> 0]
    BY <2>1
  <2>3. stmt' = [stmt EXCEPT ![r] = f] /\ stmt \in [Runtime -> [Database -> 0..2]]
    BY <1>1, <2>2 DEF Restart, RolloutTypes
  <2> QED
    BY <2>2, <2>3
<1>5. /\ creating' \in [Tenant -> [step : {"none", "provision", "register", "ensure", "schema",
                                           "mark", "done", "failed"},
                                   by : Runtime \cup {NoRuntime}, bundle : Bundle]]
      /\ \A t \in Tenant : creating'[t].step \in {creating[t].step, "failed"}
  <2>1. \A t \in Tenant :
           /\ creating[t] \in [step : {"none", "provision", "register", "ensure", "schema",
                                       "mark", "done", "failed"},
                               by : Runtime \cup {NoRuntime}, bundle : Bundle]
    BY <1>1 DEF RolloutTypes
  <2>2. \A t \in Tenant :
           /\ [creating[t] EXCEPT !.step = "failed", !.by = NoRuntime] \in
                 [step : {"none", "provision", "register", "ensure", "schema",
                          "mark", "done", "failed"},
                  by : Runtime \cup {NoRuntime}, bundle : Bundle]
           /\ [creating[t] EXCEPT !.step = "failed", !.by = NoRuntime].step = "failed"
    BY <2>1
  <2>3. creating' = [t \in Tenant |-> IF creating[t].by # r THEN creating[t]
                                      ELSE [creating[t] EXCEPT !.step = "failed", !.by = NoRuntime]]
    BY DEF Restart
  <2> QED
    BY <2>1, <2>2, <2>3
<1>6. serving' \in [Runtime -> Bundle] /\ known' \in [Runtime -> SUBSET enrolled]
  BY <1>1 DEF Restart, RolloutTypes
<1>7. RolloutTypes'
  BY <1>1, <1>2, <1>3, <1>4, <1>5, <1>6, AnswerIs DEF RolloutTypes
<1>8. Enrolment'
  BY <1>2, <1>5 DEF Enrolment
<1>9. Untouched(r) /\ StageOK(r)'
  BY <1>1, AnswerIs
<1>10. LocksHeldByLive'
  <2> SUFFICES ASSUME NEW d \in Database, lock'[d] # NoRuntime
               PROVE  pc'[lock'[d]] \in {"migLandlord", "migTenants"} /\ d \in todo'[lock'[d]]
    BY DEF LocksHeldByLive, Migrating
  <2>1. lock'[d] = lock[d] /\ lock[d] # r /\ lock[d] \in Runtime
    BY <1>1, <1>3 DEF RolloutTypes
  <2>2. pc[lock[d]] \in {"migLandlord", "migTenants"} /\ d \in todo[lock[d]]
    BY <2>1, <1>3 DEF LocksHeldByLive, Migrating
  <2> QED
    BY <1>9, <2>1, <2>2 DEF Untouched
<1>11. StatementsLocked'
  <2> SUFFICES ASSUME NEW q \in Runtime, NEW d \in Database, stmt'[q][d] > 0
               PROVE  lock'[d] = q /\ Pending(q, d)' # {}
    BY DEF StatementsLocked
  <2>1. q # r /\ stmt[q][d] > 0
    BY <1>4
  <2>2. lock[d] = q /\ Pending(q, d) # {} /\ want'[q] = want[q]
    BY <1>9, <2>1 DEF StatementsLocked, Untouched
  <2> QED
    BY <1>2, <1>3, <2>1, <2>2 DEF Pending
<1> QED
  BY <1>2, <1>7, <1>8, <1>9, <1>10, <1>11, OthersStay

-----------------------------------------------------------------------------
\* Tenants that are created meanwhile.  A database that a creation migrates by
\* itself is no deploy's subject.
LEMMA TenantKeeps ==
    ASSUME RolloutInv, NEW t \in Tenant, UNCHANGED <<lock, depvars>>,
           \A d \in Database \ {t} : recorded'[d] = recorded[d],
           t \notin enrolled \/ recorded'[t] = recorded[t],
           RolloutTypes', Enrolment'
    PROVE  RolloutInv'
<1> USE DEF RolloutInv
<1>1. RolloutTypes /\ t # Landlord /\ Landlord \in Database
  BY BundleAssumption DEF Tenant, Database
<1>2. UNCHANGED <<pc, want, targets, todo, failed, skipped, stmt>>
  BY DEF depvars
<1>3. \A q \in Runtime : \A d \in targets[q] \cup {Landlord} : d \in Database /\ recorded'[d] = recorded[d]
  BY <1>1 DEF RolloutTypes, Database
<1>4. \A q \in Runtime : StageOK(q)'
  BY <1>2, <1>3 DEF StageOK, Done, Migrated
<1>5. LocksHeldByLive'
  BY <1>2 DEF LocksHeldByLive, Migrating
<1>6. StatementsLocked'
  <2> SUFFICES ASSUME NEW q \in Runtime, NEW d \in Database, stmt[q][d] > 0
               PROVE  lock[d] = q /\ Pending(q, d)' # {}
    BY <1>2 DEF StatementsLocked
  <2>1. lock[d] = q /\ Pending(q, d) # {}
    BY DEF StatementsLocked
  <2>2. d \in targets[q]
    BY <2>1, BundleAssumption DEF LocksHeldByLive, Migrating, StageOK
  <2> QED
    BY <1>2, <1>3, <2>1, <2>2 DEF Pending
<1> QED
  BY <1>4, <1>5, <1>6

CreationType == [step : {"none", "provision", "register", "ensure", "schema", "mark", "done", "failed"},
                 by : Runtime \cup {NoRuntime}, bundle : Bundle]

\* The steps of a creation, as far as the others are concerned.
LEMMA CreationSteps ==
    ASSUME RolloutInv, NEW t \in Tenant, NEW c \in CreationType,
           creating' = [creating EXCEPT ![t] = c],
           enrolled' \in {enrolled, enrolled \cup {t}}, ready \subseteq ready', ready' \subseteq ready \cup {t},
           c.step \in {"none", "provision", "register"} => t \notin enrolled',
           c.step \in {"ensure", "schema", "mark"} \/ t \in ready' => t \in enrolled',
           Landlord \in exists', exists' \subseteq Database, schema' \in [Database -> Nat],
           recorded' \in [Database -> SUBSET AnyMigration],
           \A d \in Database \ {t} : recorded'[d] = recorded[d],
           recorded'[t] = recorded[t]
             \/ (t \notin enrolled /\ recorded'[t] \subseteq UNION {Filter(b, t) : b \in Bundle}),
           UNCHANGED <<lock, depvars, manifest, serving>>, known' \in [Runtime -> SUBSET enrolled']
    PROVE  RolloutInv'
<1>1. RolloutTypes /\ Enrolment
  BY DEF RolloutInv
<1>2. creating \in [Tenant -> CreationType]
  BY <1>1 DEF RolloutTypes, CreationType
<1>3. /\ creating' \in [Tenant -> CreationType] /\ creating'[t] = c
      /\ \A u \in Tenant \ {t} : creating'[u] = creating[u]
  BY <1>2
<1>4. Enrolment'
  BY <1>1, <1>3 DEF Enrolment
<1>5. ready' \subseteq enrolled' /\ enrolled' \subseteq Tenant /\ enrolled \subseteq enrolled'
  BY <1>1 DEF RolloutTypes
<1>6. \A d \in Database : recorded'[d] \subseteq UNION {Filter(b, d) : b \in Bundle}
  <2> SUFFICES ASSUME NEW d \in Database
               PROVE  recorded'[d] \subseteq UNION {Filter(b, d) : b \in Bundle}
    OBVIOUS
  <2>1. recorded[d] \subseteq UNION {Filter(b, d) : b \in Bundle}
    BY <1>1 DEF RolloutTypes
  <2>2. CASE recorded'[d] = recorded[d]
    BY <2>1, <2>2
  <2>3. CASE recorded'[d] # recorded[d]
    BY <2>3
  <2> QED
    BY <2>2, <2>3
<1>7. targets' \in [Runtime -> SUBSET (enrolled' \cup {Landlord})]
  BY <1>1, <1>5 DEF RolloutTypes, depvars
<1>8. RolloutTypes'
  BY <1>1, <1>3, <1>5, <1>6, <1>7 DEF RolloutTypes, CreationType, depvars
<1> QED
  BY <1>4, <1>8, TenantKeeps

\* The creation of a tenant keeps the invariant.
LEMMA CreationsKeep ==
    ASSUME RolloutInv, NEW t \in NewTenant,
           \/ \E r \in Runtime : CreateTenant(r, t) \/ ImportTenant(r, t) \/ EnsureTenantDatabase(r, t)
           \/ ProvisionCreated(t) \/ RegisterTenant(t) \/ CreateTenantFails(t)
           \/ ProvisionImported(t) \/ MarkProvisioned(t)
    PROVE  RolloutInv'
<1>1. RolloutTypes /\ Enrolment
  BY DEF RolloutInv
<1>2. t \in Tenant /\ t \in Database /\ t # Landlord
  BY BundleAssumption DEF Tenant, Database
<1>3. /\ creating[t] \in CreationType /\ creating[t].bundle \in Bundle
      /\ serving \in [Runtime -> Bundle] /\ schema \in [Database -> Nat] /\ schema[t] \in Nat
      /\ recorded \in [Database -> SUBSET AnyMigration]
      /\ known \in [Runtime -> SUBSET enrolled] /\ ready \subseteq enrolled /\ enrolled \subseteq Tenant
      /\ Landlord \in exists /\ exists \subseteq Database
  BY <1>1, <1>2 DEF RolloutTypes, CreationType
<1>4. ASSUME NEW step \in {"none", "provision", "register", "ensure", "schema", "mark", "done", "failed"}
      PROVE  /\ Stands(t, step) \/ Closed(t, step) =>
                  \E c \in CreationType : c.step = step /\ creating' = [creating EXCEPT ![t] = c]
             /\ \A r \in Runtime, b \in Bundle : [step |-> step, by |-> r, bundle |-> b] \in CreationType
  <2>1. creating \in [Tenant -> CreationType]
    BY <1>1 DEF RolloutTypes, CreationType
  <2>2. ASSUME Stands(t, step)
        PROVE  \E c \in CreationType : c.step = step /\ creating' = [creating EXCEPT ![t] = c]
    <3>1. creating' = [creating EXCEPT ![t] = [creating[t] EXCEPT !.step = step]]
      BY <1>2, <2>1, <2>2 DEF Stands
    <3>2. [creating[t] EXCEPT !.step = step] \in CreationType /\ [creating[t] EXCEPT !.step = step].step = step
      BY <1>3 DEF CreationType
    <3> QED
      BY <3>1, <3>2
  <2>3. ASSUME Closed(t, step)
        PROVE  \E c \in CreationType : c.step = step /\ creating' = [creating EXCEPT ![t] = c]
    <3>1. creating' = [creating EXCEPT ![t] = [creating[t] EXCEPT !.step = step, !.by = NoRuntime]]
      BY <1>2, <2>1, <2>3 DEF Closed
    <3>2. /\ [creating[t] EXCEPT !.step = step, !.by = NoRuntime] \in CreationType
          /\ [creating[t] EXCEPT !.step = step, !.by = NoRuntime].step = step
      BY <1>3 DEF CreationType
    <3> QED
      BY <3>1, <3>2
  <2>4. \A r \in Runtime, b \in Bundle : [step |-> step, by |-> r, bundle |-> b] \in CreationType
    BY DEF CreationType
  <2> QED
    BY <2>2, <2>3, <2>4
<1>5. CASE \E r \in Runtime : CreateTenant(r, t)
  <2> PICK r \in Runtime : CreateTenant(r, t)
    BY <1>5
  <2>1. PICK c \in CreationType : c.step = "provision" /\ creating' = [creating EXCEPT ![t] = c]
    <3>1. creating' = [creating EXCEPT ![t] = [step |-> "provision", by |-> r, bundle |-> serving[r]]]
      BY DEF CreateTenant
    <3>2. [step |-> "provision", by |-> r, bundle |-> serving[r]] \in CreationType
      BY <1>3, <1>4
    <3> QED
      BY <3>1, <3>2
  <2>2. t \notin enrolled
    BY <1>1, <1>2 DEF CreateTenant, Enrolment
  <2> QED
    BY <1>2, <1>3, <2>1, <2>2, CreationSteps DEF CreateTenant, rtvars
<1>6. CASE \E r \in Runtime : ImportTenant(r, t)
  <2> PICK r \in Runtime : ImportTenant(r, t)
    BY <1>6
  <2>1. PICK c \in CreationType : c.step = "ensure" /\ creating' = [creating EXCEPT ![t] = c]
    <3>1. creating' = [creating EXCEPT ![t] = [step |-> "ensure", by |-> r, bundle |-> serving[r]]]
      BY DEF ImportTenant
    <3>2. [step |-> "ensure", by |-> r, bundle |-> serving[r]] \in CreationType
      BY <1>3, <1>4
    <3> QED
      BY <3>1, <3>2
  <2>2. known' \in [Runtime -> SUBSET enrolled'] /\ enrolled' = enrolled \cup {t}
    BY <1>3 DEF ImportTenant
  <2> QED
    BY <1>2, <1>3, <2>1, <2>2, CreationSteps DEF ImportTenant, dbvars
<1>7. CASE \E r \in Runtime : EnsureTenantDatabase(r, t)
  <2> PICK r \in Runtime : EnsureTenantDatabase(r, t)
    BY <1>7
  <2>1. PICK c \in CreationType : c.step = "schema" /\ creating' = [creating EXCEPT ![t] = c]
    <3>1. creating' = [creating EXCEPT ![t] = [step |-> "schema", by |-> r, bundle |-> serving[r]]]
      BY DEF EnsureTenantDatabase
    <3>2. [step |-> "schema", by |-> r, bundle |-> serving[r]] \in CreationType
      BY <1>3, <1>4
    <3> QED
      BY <3>1, <3>2
  <2> QED
    BY <1>2, <1>3, <2>1, CreationSteps DEF EnsureTenantDatabase, rtvars
<1>8. CASE ProvisionCreated(t)
  <2>1. PICK c \in CreationType : c.step = "register" /\ creating' = [creating EXCEPT ![t] = c]
    BY <1>4, <1>8 DEF ProvisionCreated
  <2>2. t \notin enrolled
    BY <1>1, <1>2, <1>8 DEF ProvisionCreated, Enrolment
  <2>3. schema' \in [Database -> Nat]
    BY <1>3, <1>8, BundleAssumption DEF ProvisionCreated
  <2>4. /\ Filter(creating[t].bundle, t) \in SUBSET AnyMigration
        /\ Filter(creating[t].bundle, t) \subseteq UNION {Filter(b, t) : b \in Bundle}
    BY <1>2, <1>3, FilterIs
  <2>5. /\ recorded' \in [Database -> SUBSET AnyMigration] /\ recorded'[t] = Filter(creating[t].bundle, t)
        /\ \A d \in Database \ {t} : recorded'[d] = recorded[d]
    BY <1>2, <1>3, <1>8, <2>4 DEF ProvisionCreated
  <2> QED
    BY <1>2, <1>3, <1>8, <2>1, <2>2, <2>3, <2>4, <2>5, CreationSteps DEF ProvisionCreated, rtvars
<1>9. CASE RegisterTenant(t)
  <2>1. PICK c \in CreationType : c.step = "done" /\ creating' = [creating EXCEPT ![t] = c]
    BY <1>4, <1>9 DEF RegisterTenant
  <2>2. known' \in [Runtime -> SUBSET enrolled'] /\ enrolled' = enrolled \cup {t}
    BY <1>3, <1>9 DEF RegisterTenant
  <2> QED
    BY <1>2, <1>3, <1>9, <2>1, <2>2, CreationSteps DEF RegisterTenant, dbvars
<1>10. CASE CreateTenantFails(t)
  <2>1. PICK c \in CreationType : c.step = "failed" /\ creating' = [creating EXCEPT ![t] = c]
    BY <1>4, <1>10 DEF CreateTenantFails
  <2>2. t \notin enrolled
    BY <1>1, <1>2, <1>10 DEF CreateTenantFails, Enrolment
  <2>3. /\ schema' \in [Database -> Nat] /\ recorded' \in [Database -> SUBSET AnyMigration]
        /\ recorded'[t] = {} /\ \A d \in Database \ {t} : recorded'[d] = recorded[d]
    BY <1>2, <1>3, <1>10 DEF CreateTenantFails
  <2> QED
    BY <1>2, <1>3, <1>10, <2>1, <2>2, <2>3, CreationSteps DEF CreateTenantFails, rtvars
<1>11. CASE ProvisionImported(t)
  <2>1. PICK c \in CreationType : c.step = "mark" /\ creating' = [creating EXCEPT ![t] = c]
    BY <1>4, <1>11 DEF ProvisionImported
  <2>2. t \in enrolled
    BY <1>1, <1>2, <1>11 DEF ProvisionImported, Enrolment
  <2>3. Higher(schema[t], Schema(creating[t].bundle)) \in Nat
    BY <1>3, BundleAssumption, HigherIs
  <2>4. schema' \in [Database -> Nat]
    BY <1>2, <1>3, <1>11, <2>3 DEF ProvisionImported
  <2> QED
    BY <1>2, <1>3, <1>11, <2>1, <2>2, <2>4, CreationSteps DEF ProvisionImported, rtvars
<1>12. CASE MarkProvisioned(t)
  <2>1. PICK c \in CreationType : c.step = "done" /\ creating' = [creating EXCEPT ![t] = c]
    BY <1>4, <1>12 DEF MarkProvisioned
  <2>2. t \in enrolled
    BY <1>1, <1>2, <1>12 DEF MarkProvisioned, Enrolment
  <2> QED
    BY <1>2, <1>3, <1>12, <2>1, <2>2, CreationSteps DEF MarkProvisioned, dbvars, rtvars
<1> QED
  BY <1>5, <1>6, <1>7, <1>8, <1>9, <1>10, <1>11, <1>12

-----------------------------------------------------------------------------
\* Every step keeps the invariant.
LEMMA RolloutStep ==
    ASSUME RolloutInv, [DeployNext]_rolloutVars
    PROVE  RolloutInv'
<1>1. CASE UNCHANGED rolloutVars
  <2>1. RolloutTypes' /\ Enrolment'
    BY <1>1 DEF RolloutInv, RolloutTypes, Enrolment, rolloutVars, dbvars, tenvars, rtvars, depvars
  <2>2. LocksHeldByLive' /\ StatementsLocked'
    BY <1>1 DEF RolloutInv, LocksHeldByLive, Migrating, StatementsLocked, Pending,
                rolloutVars, dbvars, depvars
  <2>3. \A r \in Runtime : StageOK(r)'
    BY <1>1 DEF RolloutInv, StageOK, Done, Migrated, rolloutVars, dbvars, depvars
  <2> QED
    BY <2>1, <2>2, <2>3 DEF RolloutInv
<1>2. ASSUME NEW r \in Runtime, NEW b \in Offered, DevSync(r, b) PROVE RolloutInv'
  BY <1>2, DevSyncKeeps
<1>3. ASSUME NEW r \in Runtime, DeployStep(r) PROVE RolloutInv'
  <2>1. CASE ArtifactsInstalled(r)
    BY <2>1, ArtifactsInstalledKeeps
  <2>2. CASE ApplyLandlord(r)
    BY <2>2, ApplyLandlordKeeps
  <2>3. CASE SchemaTargets(r)
    BY <2>3, SchemaTargetsKeeps
  <2>4. CASE \E t \in Tenant : ApplyTenantSchema(r, t)
    BY <2>4, ApplyTenantSchemaKeeps
  <2>5. CASE SchemasApplied(r)
    BY <2>5, SchemasAppliedKeeps
  <2>6. CASE MigrationStep(r)
    BY <2>6, MigrationLockKeeps, MigrateInTransactionKeeps, MigrateStatementKeeps,
       MigrateRecordKeeps, MigrateEndKeeps DEF MigrationStep
  <2>7. CASE LandlordMigrated(r) \/ TenantsMigrated(r)
    BY <2>7, LandlordMigratedKeeps, TenantsMigratedKeeps
  <2>8. CASE Activate(r) \/ SaveManifest(r)
    BY <2>8, ActivateKeeps, SaveManifestKeeps
  <2> QED
    BY <1>3, <2>1, <2>2, <2>3, <2>4, <2>5, <2>6, <2>7, <2>8 DEF DeployStep
<1>4. ASSUME NEW r \in Runtime, Restart(r) PROVE RolloutInv'
  BY <1>4, RestartKeeps
<1>5. ASSUME NEW r \in Runtime, NEW t \in NewTenant,
             CreateTenant(r, t) \/ ImportTenant(r, t) \/ EnsureTenantDatabase(r, t)
      PROVE  RolloutInv'
  BY <1>5, CreationsKeep
<1>6. ASSUME NEW t \in NewTenant,
             \/ ProvisionCreated(t) \/ RegisterTenant(t) \/ CreateTenantFails(t)
             \/ ProvisionImported(t) \/ MarkProvisioned(t)
      PROVE  RolloutInv'
  BY <1>6, CreationsKeep
<1> QED
  BY <1>1, <1>2, <1>3, <1>4, <1>5, <1>6 DEF DeployNext

\* Of the statements of a migration, only the holder of the lock runs one, and
\* while the migration has no tracking row.
LEMMA StatementsArePending ==
    ASSUME RolloutInv, [DeployNext]_rolloutVars, NEW r \in Runtime, NEW d \in Database,
           stmt'[r][d] > stmt[r][d]
    PROVE  Pending(r, d) # {}
<1>1. stmt \in [Runtime -> [Database -> 0..2]]
  BY DEF RolloutInv, RolloutTypes
<1>2. CASE stmt' = stmt
  BY <1>1, <1>2
<1>3. CASE \E q \in Runtime, e \in Database : MigrateStatement(q, e)
  <2>1. PICK q \in Runtime, e \in Database : MigrateStatement(q, e)
    BY <1>3
  <2>2. Pending(q, e) # {}
    BY <2>1, MigrateStatementKeeps
  <2>3. q = r /\ e = d
    BY <1>1, <2>1 DEF MigrateStatement
  <2> QED
    BY <2>2, <2>3
<1>4. CASE \E q \in Runtime, e \in Database : stmt' = [stmt EXCEPT ![q][e] = 0]
  BY <1>1, <1>4
<1>5. CASE \E q \in Runtime : stmt' = [stmt EXCEPT ![q] = [e \in Database |-> 0]]
  BY <1>1, <1>5
<1>6. \/ stmt' = stmt \/ \E q \in Runtime, e \in Database : MigrateStatement(q, e)
      \/ \E q \in Runtime, e \in Database : stmt' = [stmt EXCEPT ![q][e] = 0]
      \/ \E q \in Runtime : stmt' = [stmt EXCEPT ![q] = [e \in Database |-> 0]]
  <2>1. CASE UNCHANGED rolloutVars
    BY <2>1 DEF rolloutVars, depvars
  <2>2. ASSUME NEW q \in Runtime, MigrationStep(q)
        PROVE  \/ stmt' = stmt \/ \E e \in Database : MigrateStatement(q, e)
               \/ \E e \in Database : stmt' = [stmt EXCEPT ![q][e] = 0]
    BY <2>2 DEF MigrationStep, MigrationLock, MigrateInTransaction, MigrateRecord, MigrateEnd
  <2>3. ASSUME NEW q \in Runtime, DeployStep(q), ~MigrationStep(q)
        PROVE  stmt' = stmt
    BY <2>3 DEF DeployStep, ArtifactsInstalled, ApplyLandlord, SchemaTargets, ApplyTenantSchema,
                SchemasApplied, LandlordMigrated, TenantsMigrated, Activate, SaveManifest
  <2>4. ASSUME NEW q \in Runtime, Restart(q)
        PROVE  stmt' = [stmt EXCEPT ![q] = [e \in Database |-> 0]]
    BY <2>4 DEF Restart
  <2>5. ASSUME NEW q \in Runtime, \E b \in Offered : DevSync(q, b)
        PROVE  stmt' = stmt
    BY <2>5 DEF DevSync
  <2>6. ASSUME NEW q \in Runtime, NEW t \in NewTenant,
               \/ CreateTenant(q, t) \/ ImportTenant(q, t) \/ EnsureTenantDatabase(q, t)
        PROVE  stmt' = stmt
    BY <2>6 DEF CreateTenant, ImportTenant, EnsureTenantDatabase, depvars
  <2>7. ASSUME NEW t \in NewTenant,
               \/ ProvisionCreated(t) \/ RegisterTenant(t) \/ CreateTenantFails(t)
               \/ ProvisionImported(t) \/ MarkProvisioned(t)
        PROVE  stmt' = stmt
    BY <2>7 DEF ProvisionCreated, RegisterTenant, CreateTenantFails, ProvisionImported,
                MarkProvisioned, depvars
  <2> QED
    BY <2>1, <2>2, <2>3, <2>4, <2>5, <2>6, <2>7 DEF DeployNext
<1> QED
  BY <1>2, <1>3, <1>4, <1>5, <1>6

\* A bundle becomes active at the end of a rollout that has migrated the
\* landlord and every tenant that was there.
LEMMA ActivatedIsMigrated ==
    ASSUME RolloutInv, NEW r \in Runtime, pc[r] = "activate",
           NEW d \in (targets[r] \ skipped[r]) \cup {Landlord}
    PROVE  Filter(want[r], d) \subseteq recorded[d]
BY DEF RolloutInv, StageOK, Done, Migrated

\* Rollouts are safe: no statement of a recorded migration runs again, a bundle
\* is activated only when its databases have its migrations, a failed tenant
\* keeps nobody from them, and the locks are held by deploys at work
\* (sqlmigration.Apply, applyProjectSQLMigrations, handleDevSync).
THEOREM RolloutsAreSafe == DeployInit /\ [][DeployNext]_rolloutVars => RolloutSafe
<1> DEFINE Runs == \A r \in Runtime, d \in Database : stmt'[r][d] > stmt[r][d] => Pending(r, d) # {}
           Acts == \A r \in Runtime : pc[r] = "activate" /\ pc'[r] = "save" =>
                     \A d \in (targets[r] \ skipped[r]) \cup {Landlord} : Filter(want[r], d) \subseteq recorded[d]
<1>1. DeployInit /\ [][DeployNext]_rolloutVars => []RolloutInv
  BY RolloutInitial, RolloutStep, PTL
<1>2. RolloutInv => RolloutOK /\ RolloutContinues /\ LocksHeldByLive
  <2> SUFFICES ASSUME RolloutInv PROVE RolloutOK /\ RolloutContinues /\ LocksHeldByLive
    OBVIOUS
  <2>1. \A t \in Tenant : creating[t].step \in {"none", "provision", "register", "ensure",
                                                "schema", "mark", "done", "failed"}
    BY DEF RolloutInv, RolloutTypes
  <2>2. known \in [Runtime -> SUBSET Tenant]
    BY DEF RolloutInv, RolloutTypes
  <2>3. RolloutOK
    BY <2>1, <2>2 DEF RolloutInv, RolloutTypes, RolloutOK, StageOK
  <2>4. RolloutContinues
    BY DEF RolloutInv, StageOK, Done, Migrated, RolloutContinues
  <2> QED
    BY <2>3, <2>4 DEF RolloutInv
<1>3. RolloutInv /\ [DeployNext]_rolloutVars => [Runs]_rolloutVars
  BY StatementsArePending
<1>4. RolloutInv /\ [DeployNext]_rolloutVars => [Acts]_rolloutVars
  BY ActivatedIsMigrated
<1> QED
  BY <1>1, <1>2, <1>3, <1>4, PTL DEF RolloutSafe, AppliedNeverRuns, ActivatedMigrated

-----------------------------------------------------------------------------
(* The errors inbox.                                                       *)

\* The types.
GroupType == [count : Nat, status : Statuses, regression : BOOLEAN,
              releases : SUBSET {ReleaseOf[r] : r \in Report}]
FlightType == [at : {"free", "next", "inserted", "locked", "refused"}, batch : Seq(Report),
               next : Nat \ {0}, read : GroupType, of : Nat]
InboxTypes ==
    /\ durable \in BOOLEAN /\ page \in Nat
    /\ queued \in Seq(Report) /\ kept \in Seq(Report)
    /\ captured \subseteq Report /\ events \subseteq Report
    /\ flight \in [Flight -> FlightType] /\ group \in [GroupId -> GroupType]
    /\ export \in [at : {"idle", "page", "done"}, cursor : Nat, seen : SUBSET GroupId,
                   owed : SUBSET GroupId]

\* A group is what its events make of it.
Of(g) == {r \in events : Fingerprint[r] = g}
GroupOK(g) == group[g].count = Cardinality(Of(g)) /\ group[g].releases = {ReleaseOf[r] : r \in Of(g)}

\* What a transaction has read stands until it writes.
AtEvent(f) == flight[f].at \in {"inserted", "locked"}
FlightOK(f) ==
    /\ flight[f].at = "free" => flight[f].batch = <<>>
    /\ durable => \A i \in DOMAIN flight[f].batch : i < flight[f].next => flight[f].batch[i] \in events
    /\ AtEvent(f) => durable /\ flight[f].next \in DOMAIN flight[f].batch /\ Current(f) \notin events
    /\ flight[f].at = "locked" =>
          /\ flight[f].read.count = group[Fingerprint[Current(f)]].count
          /\ flight[f].read.releases = group[Fingerprint[Current(f)]].releases

\* Transactions exclude each other: by the event's key, then by the group's lock.
Apart(f, h) ==
    AtEvent(f) /\ AtEvent(h) =>
       /\ Current(f) # Current(h)
       /\ flight[f].at = "locked" /\ flight[h].at = "locked" => Fingerprint[Current(f)] # Fingerprint[Current(h)]

\* What the tab still has to send, in its queue or in an envelope of this load.
ToSend == ToSet(queued) \cup UNION {ToSet(flight[f].batch) : f \in {h \in Flight : flight[h].of = page}}
TabOK == durable => captured \ forgotten \subseteq events \cup ToSend

\* An export has shown what it owes up to its cursor.
ExportOK ==
    /\ \A g \in export.owed : group[g].count > 0
    /\ export.at = "page" => \A g \in export.owed : g <= export.cursor => g \in export.seen
    /\ export.at = "done" => export.owed \subseteq export.seen

InboxInv ==
    /\ InboxTypes /\ TabOK /\ ExportOK
    /\ \A g \in GroupId : GroupOK(g)
    /\ \A f \in Flight : FlightOK(f) /\ \A h \in Flight \ {f} : Apart(f, h)

-----------------------------------------------------------------------------
\* Reports and groups are finite in number.
LEMMA ReportsFinite ==
    /\ \A S \in SUBSET Report : IsFiniteSet(S) /\ Cardinality(S) \in Nat
    /\ \A S \in SUBSET GroupId : IsFiniteSet(S) /\ Cardinality(S) \in Nat
<1>1. IsFiniteSet(Report)
  BY FS_Interval, ErrorTrackingAssumption DEF Report
<1>2. [r \in Report |-> Fingerprint[r]] \in Surjection(Report, GroupId)
  BY DEF Surjection, GroupId
<1>3. IsFiniteSet(GroupId)
  BY <1>1, <1>2, FS_Surjection
<1> QED
  BY <1>1, <1>3, FS_Subset, FS_CardinalityType

\* The reports of a queue, of a queue with one more, of two in a row, and of the
\* front and the rest.
LEMMA SetOfQueue ==
    ASSUME NEW s \in Seq(Report)
    PROVE  /\ ToSet(s) \subseteq Report
           /\ \A i \in 1 .. Len(s) : s[i] \in ToSet(s)
           /\ \A x \in ToSet(s) : \E i \in 1 .. Len(s) : s[i] = x
<1>1. DOMAIN s = 1 .. Len(s) /\ \A i \in 1 .. Len(s) : s[i] \in Report
  BY LenProperties, ElementOfSeq
<1> QED
  BY <1>1 DEF ToSet

\* Those of a queue and one more.
LEMMA SetOfAppend ==
    ASSUME NEW s \in Seq(Report), NEW r \in Report
    PROVE  Append(s, r) \in Seq(Report) /\ ToSet(Append(s, r)) = ToSet(s) \cup {r}
<1>1. /\ Append(s, r) \in Seq(Report) /\ Len(Append(s, r)) = Len(s) + 1 /\ Len(s) \in Nat
      /\ Append(s, r)[Len(s) + 1] = r /\ \A i \in 1 .. Len(s) : Append(s, r)[i] = s[i]
  OBVIOUS
<1>2. ASSUME NEW x \in ToSet(Append(s, r)) PROVE x \in ToSet(s) \cup {r}
  <2>1. PICK i \in 1 .. Len(s) + 1 : Append(s, r)[i] = x
    BY <1>1, SetOfQueue
  <2> QED
    BY <1>1, <2>1, SetOfQueue
<1>3. ASSUME NEW x \in ToSet(s) \cup {r} PROVE x \in ToSet(Append(s, r))
  <2>1. CASE x = r
    <3>1. Len(s) + 1 \in 1 .. Len(Append(s, r)) /\ Append(s, r)[Len(s) + 1] = x
      BY <1>1, <2>1
    <3> QED
      BY <1>1, <3>1, SetOfQueue
  <2>2. CASE x \in ToSet(s)
    <3>1. PICK i \in 1 .. Len(s) : s[i] = x
      BY <2>2, SetOfQueue
    <3>2. i \in 1 .. Len(Append(s, r)) /\ Append(s, r)[i] = x
      BY <1>1, <3>1
    <3> QED
      BY <1>1, <3>2, SetOfQueue
  <2> QED
    BY <1>3, <2>1, <2>2
<1> QED
  BY <1>1, <1>2, <1>3

\* Those of two queues in a row.
LEMMA SetOfConcat ==
    ASSUME NEW s \in Seq(Report), NEW t \in Seq(Report)
    PROVE  s \o t \in Seq(Report) /\ ToSet(s) \cup ToSet(t) \subseteq ToSet(s \o t)
<1>1. /\ s \o t \in Seq(Report) /\ Len(s \o t) = Len(s) + Len(t)
      /\ \A i \in 1 .. Len(s) + Len(t) : (s \o t)[i] = IF i <= Len(s) THEN s[i] ELSE t[i - Len(s)]
  BY ConcatProperties
<1>2. Len(s) \in Nat /\ Len(t) \in Nat
  BY LenProperties
<1>3. PICK q \in Seq(Report) : q = s \o t
  BY <1>1
<1>4. ASSUME NEW i \in 1 .. Len(s) PROVE s[i] \in ToSet(q)
  <2>1. i \in 1 .. Len(q) /\ q[i] = s[i]
    BY <1>1, <1>2, <1>3
  <2> QED
    BY <2>1, SetOfQueue
<1>5. ASSUME NEW i \in 1 .. Len(t) PROVE t[i] \in ToSet(q)
  <2>1. /\ Len(s) + i \in 1 .. Len(q) /\ ~(Len(s) + i <= Len(s)) /\ Len(s) + i - Len(s) = i
    BY <1>1, <1>2, <1>3
  <2>2. q[Len(s) + i] = t[i]
    BY <1>1, <1>2, <1>3, <2>1
  <2> QED
    BY <2>1, <2>2, SetOfQueue
<1>6. ToSet(s) \subseteq ToSet(q)
  <2>1. ASSUME NEW x \in ToSet(s) PROVE x \in ToSet(q)
    <3>1. PICK i \in 1 .. Len(s) : s[i] = x
      BY SetOfQueue
    <3> QED
      BY <3>1, <1>4
  <2> QED
    BY <2>1
<1>7. ToSet(t) \subseteq ToSet(q)
  <2>1. ASSUME NEW x \in ToSet(t) PROVE x \in ToSet(q)
    <3>1. PICK i \in 1 .. Len(t) : t[i] = x
      BY SetOfQueue
    <3> QED
      BY <3>1, <1>5
  <2> QED
    BY <2>1
<1> QED
  BY <1>3, <1>6, <1>7

\* The elements of a part of a sequence.
LEMMA PartIs ==
    ASSUME NEW s \in Seq(Report), NEW m \in 1 .. Len(s) + 1, NEW n \in 0 .. Len(s), m <= n + 1
    PROVE  /\ SubSeq(s, m, n) \in Seq(Report) /\ Len(SubSeq(s, m, n)) = n - m + 1
           /\ \A i \in m .. n : s[i] \in ToSet(SubSeq(s, m, n))
<1>1. Len(s) \in Nat /\ \A i \in 1 .. Len(s) : s[i] \in Report
  BY LenProperties, ElementOfSeq
<1>2. \A i \in m .. n : s[i] \in Report
  BY <1>1
<1>3. /\ SubSeq(s, m, n) \in Seq(Report)
      /\ Len(SubSeq(s, m, n)) = (IF m <= n THEN n - m + 1 ELSE 0)
      /\ \A i \in 1 .. n - m + 1 : SubSeq(s, m, n)[i] = s[m + i - 1]
  BY <1>1, <1>2, SubSeqProperties
<1>4. PICK a \in Seq(Report) : a = SubSeq(s, m, n)
  BY <1>3
<1>5. Len(a) = n - m + 1
  BY <1>1, <1>3, <1>4
<1>6. ASSUME NEW i \in m .. n PROVE s[i] \in ToSet(a)
  <2>1. PICK j \in 1 .. n - m + 1 : j = i - m + 1
    BY <1>1
  <2>2. a[j] = s[m + j - 1] /\ m + j - 1 = i /\ j \in 1 .. Len(a)
    BY <1>1, <1>3, <1>4, <1>5, <2>1
  <2> QED
    BY <2>2, SetOfQueue
<1> QED
  BY <1>4, <1>5, <1>6

\* A queue is its front and the rest.
LEMMA FirstIs ==
    ASSUME NEW s \in Seq(Report), NEW n \in Nat
    PROVE  /\ First(n, s) \in Seq(Report)
           /\ SubSeq(s, Len(First(n, s)) + 1, Len(s)) \in Seq(Report)
           /\ ToSet(s) \subseteq ToSet(First(n, s)) \cup ToSet(SubSeq(s, Len(First(n, s)) + 1, Len(s)))
<1>1. Len(s) \in Nat
  BY LenProperties
<1>2. PICK k \in Nat : k = (IF Len(s) < n THEN Len(s) ELSE n) /\ k <= Len(s)
  BY <1>1
<1>4. First(n, s) = SubSeq(s, 1, k)
  BY <1>2 DEF First
<1>5. 1 \in 1 .. Len(s) + 1 /\ k \in 0 .. Len(s) /\ 1 <= k + 1
  BY <1>1, <1>2
<1>6. k + 1 \in 1 .. Len(s) + 1 /\ Len(s) \in 0 .. Len(s) /\ k + 1 <= Len(s) + 1
  BY <1>1, <1>2
<1>7. /\ SubSeq(s, 1, k) \in Seq(Report) /\ Len(SubSeq(s, 1, k)) = k - 1 + 1
      /\ \A i \in 1 .. k : s[i] \in ToSet(SubSeq(s, 1, k))
  BY <1>5, PartIs
<1>8. /\ SubSeq(s, k + 1, Len(s)) \in Seq(Report)
      /\ \A i \in k + 1 .. Len(s) : s[i] \in ToSet(SubSeq(s, k + 1, Len(s)))
  BY <1>6, PartIs
<1>9. Len(First(n, s)) = k
  BY <1>4, <1>7
<1>10. PICK a \in Seq(Report) : a = SubSeq(s, 1, k)
  BY <1>7
<1>11. PICK b \in Seq(Report) : b = SubSeq(s, k + 1, Len(s))
  BY <1>8
<1>12. ASSUME NEW x \in ToSet(s) PROVE x \in ToSet(a) \cup ToSet(b)
  <2>1. PICK i \in 1 .. Len(s) : s[i] = x
    BY SetOfQueue
  <2>2. i \in 1 .. k \/ i \in k + 1 .. Len(s)
    BY <1>1, <1>2
  <2> QED
    BY <1>7, <1>8, <1>10, <1>11, <2>1, <2>2
<1> QED
  BY <1>4, <1>9, <1>10, <1>11, <1>12

\* A set of numbers that is finite has a greatest one.
LEMMA GreatestIs ==
    ASSUME NEW S \in SUBSET Nat, IsFiniteSet(S), S # {}
    PROVE  Max(S) \in S /\ \A y \in S : y <= Max(S)
<1> DEFINE Above(x) == {y \in S : y > x}
           K == {Cardinality(Above(x)) : x \in S}
<1>1. \A x \in S : IsFiniteSet(Above(x)) /\ Cardinality(Above(x)) \in Nat
  BY FS_Subset, FS_CardinalityType
<1>2. K \in SUBSET Nat /\ K # {}
  BY <1>1
<1>3. \E k \in K : \A l \in K : ~(<<l, k>> \in OpToRel(<, Nat))
  <2> HIDE DEF K
  <2> QED
    BY <1>2, NatLessThanWellFounded, WFMin
<1>4. \A k, l \in K : <<l, k>> \in OpToRel(<, Nat) <=> l < k
  BY <1>2 DEF OpToRel
<1>5. PICK k \in K : \A l \in K : ~(l < k)
  <2> HIDE DEF K
  <2> QED
    BY <1>3, <1>4, Zenon
<1>6. PICK x \in S : k = Cardinality(Above(x))
  OBVIOUS
<1>7. ASSUME NEW y \in S, y > x PROVE FALSE
  <2>1. Above(y) \in SUBSET Above(x) /\ y \in Above(x) /\ y \notin Above(y)
    <3>1. x \in Nat /\ y \in Nat /\ y > x
      BY <1>7
    <3>2. ASSUME NEW z \in S, z > y PROVE z > x
      <4>1. z \in Nat
        OBVIOUS
      <4> QED
        BY <3>1, <3>2, <4>1
    <3>3. ~(y > y)
      BY <3>1
    <3> QED
      BY <3>1, <3>2, <3>3
  <2>2. Cardinality(Above(y)) <= Cardinality(Above(x)) /\ Cardinality(Above(y)) # Cardinality(Above(x))
    BY <1>1, <2>1, FS_Subset
  <2>3. Cardinality(Above(y)) \in K
    OBVIOUS
  <2> HIDE DEF Above, K
  <2> QED
    BY <1>1, <1>5, <1>6, <2>2, <2>3
<1>8. \A y \in S : x >= y
  BY <1>7
<1> QED
  BY <1>8 DEF Max

-----------------------------------------------------------------------------
(* What a step does to the envelopes.                                       *)

\* What the types say of an envelope.
LEMMA FlightIs ==
    ASSUME InboxTypes, NEW f \in Flight
    PROVE  /\ flight[f] \in FlightType /\ flight[f].batch \in Seq(Report) /\ flight[f].next \in Nat \ {0}
           /\ flight[f].read \in GroupType /\ flight[f].of \in Nat
           /\ flight[f].at \in {"free", "next", "inserted", "locked", "refused"}
           /\ Len(flight[f].batch) \in Nat /\ DOMAIN flight[f].batch = 1 .. Len(flight[f].batch)
           /\ flight[f].next \in DOMAIN flight[f].batch =>
                Current(f) \in Report /\ Fingerprint[Current(f)] \in GroupId
<1>1. flight[f] \in FlightType
  BY DEF InboxTypes
<1>2. /\ flight[f].batch \in Seq(Report) /\ flight[f].next \in Nat \ {0}
      /\ flight[f].read \in GroupType /\ flight[f].of \in Nat
      /\ flight[f].at \in {"free", "next", "inserted", "locked", "refused"}
  BY <1>1 DEF FlightType
<1>3. Len(flight[f].batch) \in Nat /\ DOMAIN flight[f].batch = 1 .. Len(flight[f].batch)
  BY <1>2, LenProperties
<1>4. ASSUME flight[f].next \in DOMAIN flight[f].batch PROVE Current(f) \in Report
  BY <1>2, <1>3, <1>4, ElementOfSeq DEF Current
<1> QED
  BY <1>1, <1>2, <1>3, <1>4 DEF GroupId

\* What setting one envelope does.
LEMMA FlightSet ==
    ASSUME InboxTypes, NEW f \in Flight, NEW x \in FlightType, flight' = [flight EXCEPT ![f] = x]
    PROVE  flight' \in [Flight -> FlightType] /\ flight'[f] = x /\ \A h \in Flight \ {f} : flight'[h] = flight[h]
BY DEF InboxTypes

\* An envelope that is free.
LEMMA FreeIs == /\ Free \in FlightType /\ Free.batch = <<>> /\ Free.at = "free" /\ Free.of = 0
                /\ NoGroup \in GroupType /\ NoGroup.count = 0 /\ NoGroup.releases = {}
<1>1. NoGroup \in GroupType /\ NoGroup.count = 0 /\ NoGroup.releases = {}
  BY DEF NoGroup, GroupType, Statuses
<1>2. <<>> \in Seq(Report)
  OBVIOUS
<1> QED
  BY <1>1, <1>2 DEF Free, FlightType

\* What GoTo sets.
LEMMA GoToIs ==
    ASSUME InboxTypes, NEW f \in Flight, NEW at \in {"inserted", "refused"}, GoTo(f, at)
    PROVE  /\ flight' \in [Flight -> FlightType] /\ \A h \in Flight \ {f} : flight'[h] = flight[h]
           /\ flight'[f].at = at /\ flight'[f].batch = flight[f].batch /\ flight'[f].next = flight[f].next
           /\ flight'[f].of = flight[f].of
<1>1. PICK x : x = [flight[f] EXCEPT !.at = at]
  OBVIOUS
<1>2. flight' = [flight EXCEPT ![f] = x]
  BY <1>1 DEF GoTo
<1>3. x \in FlightType
  BY <1>1, FlightIs DEF FlightType
<1>4. x.at = at /\ x.batch = flight[f].batch /\ x.next = flight[f].next /\ x.of = flight[f].of
  BY <1>1, FlightIs DEF FlightType
<1> QED
  BY <1>2, <1>3, <1>4, FlightSet

\* What GoOn sets.
LEMMA GoOnIs ==
    ASSUME InboxTypes, NEW f \in Flight, GoOn(f)
    PROVE  /\ flight' \in [Flight -> FlightType] /\ \A h \in Flight \ {f} : flight'[h] = flight[h]
           /\ flight'[f].at = "next" /\ flight'[f].batch = flight[f].batch
           /\ flight'[f].next = flight[f].next + 1 /\ flight'[f].of = flight[f].of
<1>1. PICK x : x = [flight[f] EXCEPT !.at = "next", !.next = @ + 1]
  OBVIOUS
<1>2. flight' = [flight EXCEPT ![f] = x]
  BY <1>1 DEF GoOn
<1>3. x \in FlightType
  <2>1. flight[f].next + 1 \in Nat \ {0}
    BY FlightIs
  <2> QED
    BY <1>1, <2>1, FlightIs DEF FlightType
<1>4. x.at = "next" /\ x.batch = flight[f].batch /\ x.next = flight[f].next + 1 /\ x.of = flight[f].of
  BY <1>1, FlightIs DEF FlightType
<1> QED
  BY <1>2, <1>3, <1>4, FlightSet

\* An envelope that does not move keeps its invariant, when what it has read
\* stands and its event is still not recorded.
LEMMA StaysOK ==
    ASSUME InboxTypes, NEW f \in Flight, FlightOK(f), flight'[f] = flight[f], durable' = durable,
           events \subseteq events',
           AtEvent(f) => Current(f) \notin events',
           flight[f].at = "locked" =>
              /\ group'[Fingerprint[Current(f)]].count = group[Fingerprint[Current(f)]].count
              /\ group'[Fingerprint[Current(f)]].releases = group[Fingerprint[Current(f)]].releases
    PROVE  FlightOK(f)'
<1>1. Current(f)' = Current(f) /\ (AtEvent(f)' <=> AtEvent(f))
  BY DEF Current, AtEvent
<1> QED
  BY <1>1 DEF FlightOK

\* Envelopes that do not move stay apart.
LEMMA StayApart ==
    ASSUME NEW f \in Flight, NEW h \in Flight, Apart(f, h), flight'[f] = flight[f], flight'[h] = flight[h]
    PROVE  Apart(f, h)'
BY DEF Apart, AtEvent, Current

\* Apart is symmetric.
LEMMA ApartBothWays ==
    ASSUME NEW f \in Flight, NEW h \in Flight, Apart(f, h)
    PROVE  Apart(h, f)
BY DEF Apart

\* What the tab has to send stays when the tab and its batches do.
LEMMA TabKeeps ==
    ASSUME TabOK, UNCHANGED <<durable, queued, captured, forgotten, page>>, events \subseteq events',
           \A h \in Flight : flight'[h].batch = flight[h].batch /\ flight'[h].of = flight[h].of
    PROVE  TabOK'
<1>1. ToSend' = ToSend
  BY DEF ToSend
<1> QED
  BY <1>1 DEF TabOK

\* An export keeps what it owes while groups only gain events.
LEMMA ExportKeeps ==
    ASSUME InboxTypes, ExportOK, export' = export, group' \in [GroupId -> GroupType],
           \A g \in GroupId : group[g].count > 0 => group'[g].count > 0
    PROVE  ExportOK'
<1>1. export.owed \subseteq GroupId
  BY DEF InboxTypes
<1> QED
  BY <1>1 DEF ExportOK

\* A group that keeps its count and releases agrees with events that do not change.
LEMMA GroupKeeps ==
    ASSUME NEW g \in GroupId, GroupOK(g), UNCHANGED events,
           group'[g].count = group[g].count, group'[g].releases = group[g].releases
    PROVE  GroupOK(g)'
BY DEF GroupOK, Of

-----------------------------------------------------------------------------
(* Steps that move one envelope and write nothing.                          *)

\* A step that takes one envelope further and changes nothing else keeps the invariant.
LEMMA OnlyMoves ==
    ASSUME InboxInv, NEW f \in Flight, UNCHANGED <<durable, tabVars, storeState, export>>,
           flight' \in [Flight -> FlightType], \A h \in Flight \ {f} : flight'[h] = flight[h],
           flight'[f].batch = flight[f].batch, flight'[f].of = flight[f].of,
           FlightOK(f)', \A h \in Flight \ {f} : Apart(f, h)'
    PROVE  InboxInv'
<1>0. /\ InboxTypes /\ TabOK /\ ExportOK /\ \A g \in GroupId : GroupOK(g)
      /\ \A h \in Flight : FlightOK(h)
      /\ \A h \in Flight : \A k \in Flight \ {h} : Apart(h, k)
  BY DEF InboxInv
<1>1. /\ durable' = durable /\ queued' = queued /\ kept' = kept /\ captured' = captured
      /\ forgotten' = forgotten /\ page' = page /\ events' = events /\ group' = group /\ export' = export
  BY DEF tabVars, storeState
<1>2. InboxTypes'
  BY <1>0, <1>1 DEF InboxTypes
<1>3. TabOK'
  BY <1>0, <1>1, TabKeeps
<1>4. ExportOK'
  BY <1>0, <1>1 DEF ExportOK
<1>5. ASSUME NEW g \in GroupId PROVE GroupOK(g)'
  BY <1>0, <1>1, GroupKeeps
<1>6. ASSUME NEW h \in Flight PROVE FlightOK(h)'
  <2>1. CASE h = f
    BY <2>1
  <2>2. CASE h # f
    <3>1. AtEvent(h) => Current(h) \notin events'
      BY <1>0, <1>1 DEF FlightOK
    <3> QED
      BY <1>0, <1>1, <2>2, <3>1, StaysOK
  <2> QED
    BY <2>1, <2>2
<1>7. ASSUME NEW h \in Flight, NEW k \in Flight \ {h} PROVE Apart(h, k)'
  <2>1. CASE h = f
    BY <2>1, <1>7
  <2>2. CASE k = f
    <3>1. Apart(f, h)'
      BY <1>7, <2>2
    <3> QED
      BY <2>2, <3>1 DEF Apart
  <2>3. CASE h # f /\ k # f
    BY <1>0, <1>7, <2>3, StayApart
  <2> QED
    BY <2>1, <2>2, <2>3
<1> QED
  BY <1>2, <1>3, <1>4, <1>5, <1>6, <1>7 DEF InboxInv

\* AnswerLost and RefuseReport keep the invariant.
LEMMA RefuseKeeps ==
    ASSUME InboxInv, NEW f \in Flight, AnswerLost(f) \/ RefuseReport(f)
    PROVE  InboxInv'
<1>1. InboxTypes /\ FlightOK(f)
  BY DEF InboxInv
<1>2. GoTo(f, "refused") /\ UNCHANGED <<durable, tabVars, storeState, export>>
  BY DEF AnswerLost, RefuseReport
<1>3. /\ flight' \in [Flight -> FlightType] /\ \A h \in Flight \ {f} : flight'[h] = flight[h]
      /\ flight'[f].at = "refused" /\ flight'[f].batch = flight[f].batch
      /\ flight'[f].next = flight[f].next /\ flight'[f].of = flight[f].of
  BY <1>1, <1>2, GoToIs
<1>4. FlightOK(f)'
  BY <1>1, <1>2, <1>3 DEF FlightOK, AtEvent, storeState
<1>5. \A h \in Flight \ {f} : Apart(f, h)'
  BY <1>3 DEF Apart, AtEvent
<1> QED
  BY <1>2, <1>3, <1>4, <1>5, OnlyMoves

\* Skip keeps the invariant.
LEMMA SkipKeeps ==
    ASSUME InboxInv, NEW f \in Flight, SkipKnown(f)
    PROVE  InboxInv'
<1>1. InboxTypes /\ FlightOK(f)
  BY DEF InboxInv
<1>2. /\ GoOn(f) /\ UNCHANGED <<durable, tabVars, storeState, export>> /\ Current(f) \in events
      /\ events' = events /\ durable' = durable /\ durable
  BY DEF SkipKnown, storeState
<1>3. /\ flight' \in [Flight -> FlightType] /\ \A h \in Flight \ {f} : flight'[h] = flight[h]
      /\ flight'[f].at = "next" /\ flight'[f].batch = flight[f].batch
      /\ flight'[f].next = flight[f].next + 1 /\ flight'[f].of = flight[f].of
  BY <1>1, <1>2, GoOnIs
<1>4. ASSUME NEW i \in DOMAIN flight'[f].batch, i < flight'[f].next PROVE flight'[f].batch[i] \in events'
  <2>1. i \in Nat /\ flight[f].next \in Nat
    BY <1>1, <1>3, FlightIs
  <2>2. i < flight[f].next \/ i = flight[f].next
    BY <1>3, <1>4, <2>1
  <2> QED
    BY <1>1, <1>2, <1>3, <2>2 DEF FlightOK, Current
<1>5. FlightOK(f)'
  BY <1>3, <1>4 DEF FlightOK, AtEvent
<1>6. \A h \in Flight \ {f} : Apart(f, h)'
  BY <1>3 DEF Apart, AtEvent
<1> QED
  BY <1>2, <1>3, <1>5, <1>6, OnlyMoves

\* Insert keeps the invariant.
LEMMA InsertKeeps ==
    ASSUME InboxInv, NEW f \in Flight, Insert(f)
    PROVE  InboxInv'
<1>1. InboxTypes /\ FlightOK(f)
  BY DEF InboxInv
<1>2. /\ GoTo(f, "inserted") /\ UNCHANGED <<durable, tabVars, storeState, export>>
      /\ Current(f) \notin events /\ Inserting(Current(f)) = {} /\ durable /\ flight[f].at = "next"
      /\ events' = events /\ durable' = durable /\ flight[f].next <= Len(flight[f].batch)
  BY DEF Insert, Handling, storeState
<1>3. /\ flight' \in [Flight -> FlightType] /\ \A h \in Flight \ {f} : flight'[h] = flight[h]
      /\ flight'[f].at = "inserted" /\ flight'[f].batch = flight[f].batch
      /\ flight'[f].next = flight[f].next /\ flight'[f].of = flight[f].of
  BY <1>1, <1>2, GoToIs
<1>4. Current(f)' = Current(f)
  BY <1>3 DEF Current
<1>5. flight[f].next \in DOMAIN flight[f].batch
  BY <1>1, <1>2, FlightIs
<1>6. FlightOK(f)'
  <2>1. flight'[f].at # "free" /\ flight'[f].at # "locked"
    BY <1>3
  <2>2. \A i \in DOMAIN flight'[f].batch : i < flight'[f].next => flight'[f].batch[i] \in events'
    BY <1>1, <1>2, <1>3 DEF FlightOK
  <2> QED
    BY <1>2, <1>3, <1>4, <1>5, <2>1, <2>2 DEF FlightOK
<1>7. ASSUME NEW h \in Flight \ {f}, AtEvent(h)' PROVE Current(f)' # Current(h)'
  <2>1. AtEvent(h) /\ Current(h)' = Current(h)
    BY <1>3, <1>7 DEF AtEvent, Current
  <2> QED
    BY <1>2, <1>4, <2>1 DEF Inserting, AtEvent
<1>8. \A h \in Flight \ {f} : Apart(f, h)'
  BY <1>3, <1>7 DEF Apart
<1> QED
  BY <1>2, <1>3, <1>6, <1>8, OnlyMoves

\* Lock keeps the invariant.
LEMMA LockKeeps ==
    ASSUME InboxInv, NEW f \in Flight, LockAndRead(f)
    PROVE  InboxInv'
<1>1. InboxTypes /\ FlightOK(f) /\ \A h \in Flight \ {f} : Apart(f, h)
  BY DEF InboxInv
<1>2. AtEvent(f) /\ flight[f].next \in DOMAIN flight[f].batch /\ durable /\ Current(f) \notin events
  BY <1>1 DEF LockAndRead, FlightOK, AtEvent
<1>3. PICK g \in GroupId : g = Fingerprint[Current(f)]
  BY <1>1, <1>2, FlightIs
<1>4. /\ UNCHANGED <<durable, tabVars, storeState, export>> /\ events' = events /\ group' = group
      /\ durable' = durable
      /\ \A h \in Flight : flight[h].at = "locked" => Fingerprint[Current(h)] # g
      /\ flight' = [flight EXCEPT ![f].at = "locked", ![f].read = group[g]]
  BY <1>3 DEF LockAndRead, storeState
<1>5. group[g] \in GroupType
  BY <1>1, <1>3 DEF InboxTypes
<1>6. PICK x : x = [flight[f] EXCEPT !.at = "locked", !.read = group[g]]
  OBVIOUS
<1>7. x \in FlightType
  BY <1>1, <1>5, <1>6, FlightIs DEF FlightType
<1>8. /\ x.at = "locked" /\ x.batch = flight[f].batch /\ x.next = flight[f].next /\ x.of = flight[f].of
      /\ x.read = group[g]
  BY <1>1, <1>6, FlightIs DEF FlightType
<1>9. flight' = [flight EXCEPT ![f] = x]
  BY <1>4, <1>6
<1>10. flight' \in [Flight -> FlightType] /\ flight'[f] = x /\ \A h \in Flight \ {f} : flight'[h] = flight[h]
  BY <1>1, <1>7, <1>9, FlightSet
<1>11. Current(f)' = Current(f)
  BY <1>8, <1>10 DEF Current
<1>12. FlightOK(f)'
  <2>1. \A i \in DOMAIN flight'[f].batch : i < flight'[f].next => flight'[f].batch[i] \in events'
    BY <1>1, <1>2, <1>4, <1>8, <1>10 DEF FlightOK
  <2>2. flight'[f].read = group'[Fingerprint[Current(f)']] /\ flight'[f].at = "locked"
    BY <1>3, <1>4, <1>8, <1>10, <1>11
  <2>3. durable' /\ flight'[f].next \in DOMAIN flight'[f].batch /\ Current(f)' \notin events'
    BY <1>2, <1>4, <1>8, <1>10, <1>11
  <2> QED
    BY <2>1, <2>2, <2>3 DEF FlightOK
<1>13. ASSUME NEW h \in Flight \ {f} PROVE Apart(f, h)'
  <2>1. Current(h)' = Current(h) /\ flight'[h] = flight[h] /\ (AtEvent(h)' <=> AtEvent(h))
    BY <1>10 DEF Current, AtEvent
  <2>2. Apart(f, h) /\ (flight[h].at = "locked" => Fingerprint[Current(h)] # g)
    BY <1>1, <1>4
  <2> QED
    BY <1>2, <1>3, <1>11, <2>1, <2>2 DEF Apart
<1> QED
  BY <1>4, <1>8, <1>10, <1>12, <1>13, OnlyMoves

-----------------------------------------------------------------------------
(* Steps of the tab.                                                        *)

\* The parts of the invariant.
LEMMA InboxParts ==
    ASSUME InboxInv
    PROVE  /\ InboxTypes /\ TabOK /\ ExportOK /\ \A g \in GroupId : GroupOK(g)
           /\ \A h \in Flight : FlightOK(h)
           /\ \A h \in Flight : \A k \in Flight \ {h} : Apart(h, k)
BY DEF InboxInv

\* A step that takes no envelope further and writes no event.
LEMMA TabStep ==
    ASSUME InboxInv, UNCHANGED <<durable, storeState>>, InboxTypes', TabOK', ExportOK',
           \A h \in Flight : flight'[h] = flight[h] \/ (FlightOK(h)' /\ ~AtEvent(h)')
    PROVE  InboxInv'
<1>1. durable' = durable /\ events' = events /\ group' = group
  BY DEF storeState
<1>2. ASSUME NEW g \in GroupId PROVE GroupOK(g)'
  BY <1>1, InboxParts, GroupKeeps
<1>3. ASSUME NEW h \in Flight PROVE FlightOK(h)'
  <2>1. CASE flight'[h] = flight[h]
    <3>1. AtEvent(h) => Current(h) \notin events'
      BY <1>1, InboxParts DEF FlightOK
    <3> QED
      BY <1>1, <2>1, <3>1, InboxParts, StaysOK
  <2> QED
    BY <2>1
<1>4. ASSUME NEW h \in Flight, NEW k \in Flight \ {h} PROVE Apart(h, k)'
  <2>1. CASE AtEvent(h)' /\ AtEvent(k)'
    BY <2>1, InboxParts, StayApart
  <2>2. CASE ~(AtEvent(h)' /\ AtEvent(k)')
    BY <2>2 DEF Apart
  <2> QED
    BY <2>1, <2>2
<1> QED
  BY <1>2, <1>3, <1>4 DEF InboxInv

\* An empty queue has no report.
LEMMA NothingQueued == ToSet(<<>>) = {}
BY DEF ToSet

\* Capture keeps the invariant.
LEMMA CaptureKeeps ==
    ASSUME InboxInv, NEW r \in Report, CaptureException(r)
    PROVE  InboxInv'
<1>1. /\ UNCHANGED <<durable, storeState, export>> /\ durable' = durable /\ export' = export
      /\ events' = events /\ group' = group /\ flight' = flight /\ page' = page
      /\ captured' = captured \cup {r} /\ forgotten' = forgotten
      /\ queued' = Append(queued, r) /\ kept' = First(QueueSize, queued')
  BY DEF CaptureException, storeState
<1>2. queued' \in Seq(Report) /\ ToSet(queued') = ToSet(queued) \cup {r}
  BY <1>1, InboxParts, SetOfAppend DEF InboxTypes
<1>3. QueueSize \in Nat
  BY ErrorTrackingAssumption
<1>4. kept' \in Seq(Report)
  BY <1>1, <1>2, <1>3, FirstIs
<1>5. InboxTypes'
  BY <1>1, <1>2, <1>4, InboxParts DEF InboxTypes
<1>6. ToSend' = ToSend \cup {r}
  BY <1>1, <1>2 DEF ToSend
<1>7. TabOK'
  BY <1>1, <1>6, InboxParts DEF TabOK
<1>8. ExportOK'
  BY <1>1, InboxParts DEF ExportOK
<1>9. \A h \in Flight : flight'[h] = flight[h]
  BY <1>1
<1> QED
  BY <1>1, <1>5, <1>7, <1>8, <1>9, TabStep

\* Reload keeps the invariant.
LEMMA ReloadKeeps ==
    ASSUME InboxInv, ReloadTab
    PROVE  InboxInv'
<1>1. /\ UNCHANGED <<durable, storeState, export>> /\ durable' = durable /\ export' = export
      /\ events' = events /\ group' = group /\ flight' = flight /\ page' = page + 1
      /\ captured' = captured /\ forgotten' = forgotten \cup (captured \ ToSet(kept))
      /\ queued' = kept /\ kept' = kept
  BY DEF ReloadTab, storeState
<1>2. InboxTypes'
  <2>1. page' \in Nat
    BY <1>1, InboxParts DEF InboxTypes
  <2> QED
    BY <1>1, <2>1, InboxParts DEF InboxTypes
<1>3. captured' \ forgotten' \subseteq ToSet(queued')
  BY <1>1
<1>4. TabOK'
  BY <1>3 DEF TabOK, ToSend
<1>5. ExportOK'
  BY <1>1, InboxParts DEF ExportOK
<1>6. \A h \in Flight : flight'[h] = flight[h]
  BY <1>1
<1> QED
  BY <1>1, <1>2, <1>4, <1>5, <1>6, TabStep

\* An envelope that starts, or that ends.
LEMMA AtStart ==
    ASSUME InboxInv, NEW f \in Flight, NEW x \in FlightType, x.at \in {"free", "next"}, x.next = 1,
           x.at = "free" => x.batch = <<>>, flight' = [flight EXCEPT ![f] = x]
    PROVE  /\ flight' \in [Flight -> FlightType] /\ flight'[f] = x
           /\ \A h \in Flight \ {f} : flight'[h] = flight[h]
           /\ FlightOK(f)' /\ ~AtEvent(f)'
<1>1. /\ flight' \in [Flight -> FlightType] /\ flight'[f] = x
      /\ \A h \in Flight \ {f} : flight'[h] = flight[h]
  BY InboxParts, FlightSet
<1>2. x.batch \in Seq(Report)
  BY DEF FlightType
<1>3. \A i \in DOMAIN x.batch : ~(i < 1)
  BY <1>2, LenProperties
<1>4. ~AtEvent(f)' /\ x.at # "locked"
  BY <1>1 DEF AtEvent
<1> QED
  BY <1>1, <1>3, <1>4 DEF FlightOK

\* Flush keeps the invariant.
LEMMA FlushKeeps ==
    ASSUME InboxInv, NEW f \in Flight, Flush(f)
    PROVE  InboxInv'
<1>1. /\ UNCHANGED <<durable, storeState, export>> /\ durable' = durable /\ export' = export
      /\ events' = events /\ group' = group /\ page' = page /\ captured' = captured
      /\ forgotten' = forgotten /\ kept' = kept /\ flight[f].at = "free"
      /\ queued' = SubSeq(queued, Len(First(BatchSize, queued)) + 1, Len(queued))
      /\ flight' = [flight EXCEPT ![f] = [Free EXCEPT !.at = "next", !.of = page,
                                                   !.batch = First(BatchSize, queued)]]
  BY DEF Flush, storeState
<1>2. queued \in Seq(Report) /\ BatchSize \in Nat /\ page \in Nat
  BY InboxParts, ErrorTrackingAssumption DEF InboxTypes
<1>3. /\ First(BatchSize, queued) \in Seq(Report) /\ queued' \in Seq(Report)
      /\ ToSet(queued) \subseteq ToSet(First(BatchSize, queued)) \cup ToSet(queued')
  BY <1>1, <1>2, FirstIs
<1>4. PICK b \in Seq(Report) : b = First(BatchSize, queued)
  BY <1>3
<1>5. PICK x : x = [Free EXCEPT !.at = "next", !.of = page, !.batch = b]
  OBVIOUS
<1>6. x \in FlightType
  BY <1>2, <1>5, FreeIs DEF FlightType
<1>7. x.at = "next" /\ x.of = page /\ x.batch = b /\ x.next = 1
  BY <1>5 DEF Free
<1>8. flight' = [flight EXCEPT ![f] = x]
  BY <1>1, <1>4, <1>5
<1>9. /\ flight' \in [Flight -> FlightType] /\ flight'[f] = x
      /\ \A h \in Flight \ {f} : flight'[h] = flight[h]
      /\ FlightOK(f)' /\ ~AtEvent(f)'
  BY <1>6, <1>7, <1>8, AtStart
<1>10. InboxTypes'
  BY <1>1, <1>3, <1>9, InboxParts DEF InboxTypes
<1>11. ToSet(b) \subseteq ToSend'
  BY <1>1, <1>7, <1>9 DEF ToSend
<1>12. ASSUME NEW z \in ToSend PROVE z \in ToSend'
  <2>1. CASE z \in ToSet(queued)
    BY <1>3, <1>4, <1>11, <2>1 DEF ToSend
  <2>2. CASE z \notin ToSet(queued)
    <3>1. PICK h \in Flight : flight[h].of = page /\ z \in ToSet(flight[h].batch)
      BY <1>12, <2>2 DEF ToSend
    <3>2. flight[f].batch = <<>>
      BY <1>1, InboxParts DEF FlightOK
    <3>3. h # f
      BY <3>1, <3>2, NothingQueued
    <3>4. flight'[h] = flight[h]
      BY <1>9, <3>3
    <3> QED
      BY <1>1, <3>1, <3>4 DEF ToSend
  <2> QED
    BY <2>1, <2>2
<1>13. TabOK'
  BY <1>1, <1>12, InboxParts DEF TabOK
<1>14. ExportOK'
  BY <1>1, InboxParts DEF ExportOK
<1> QED
  BY <1>1, <1>9, <1>10, <1>13, <1>14, TabStep

\* Accepted keeps the invariant.
LEMMA AcceptedKeeps ==
    ASSUME InboxInv, NEW f \in Flight, Accepted(f)
    PROVE  InboxInv'
<1>1. /\ UNCHANGED <<durable, storeState, export>> /\ durable' = durable /\ export' = export
      /\ events' = events /\ group' = group /\ page' = page /\ captured' = captured
      /\ forgotten' = forgotten /\ queued' = queued /\ flight[f].next > Len(flight[f].batch)
      /\ flight' = [flight EXCEPT ![f] = Free]
      /\ kept' = IF flight[f].of = page THEN First(QueueSize, queued) ELSE kept
  BY DEF Accepted, storeState
<1>2. queued \in Seq(Report) /\ kept \in Seq(Report) /\ QueueSize \in Nat
  BY InboxParts, ErrorTrackingAssumption DEF InboxTypes
<1>3. kept' \in Seq(Report)
  BY <1>1, <1>2, FirstIs
<1>4. Free \in FlightType /\ Free.at = "free" /\ Free.batch = <<>> /\ Free.next = 1
  BY FreeIs DEF Free
<1>5. /\ flight' \in [Flight -> FlightType] /\ flight'[f] = Free
      /\ \A h \in Flight \ {f} : flight'[h] = flight[h]
      /\ FlightOK(f)' /\ ~AtEvent(f)'
  BY <1>1, <1>4, AtStart
<1>6. InboxTypes'
  BY <1>1, <1>3, <1>5, InboxParts DEF InboxTypes
<1>7. ASSUME durable, NEW z \in ToSet(flight[f].batch) PROVE z \in events
  <2>1. /\ flight[f].batch \in Seq(Report) /\ flight[f].next \in Nat /\ Len(flight[f].batch) \in Nat
        /\ DOMAIN flight[f].batch = 1 .. Len(flight[f].batch)
    BY InboxParts, FlightIs
  <2>2. PICK i \in 1 .. Len(flight[f].batch) : flight[f].batch[i] = z
    BY <1>7, <2>1, SetOfQueue
  <2>3. i < flight[f].next
    BY <1>1, <2>1
  <2> QED
    BY <1>7, <2>1, <2>2, <2>3, InboxParts DEF FlightOK
<1>8. ASSUME durable, NEW z \in ToSend PROVE z \in events \cup ToSend'
  <2>1. CASE z \in ToSet(queued)
    BY <1>1, <2>1 DEF ToSend
  <2>2. CASE z \notin ToSet(queued)
    <3>1. PICK h \in Flight : flight[h].of = page /\ z \in ToSet(flight[h].batch)
      BY <1>8, <2>2 DEF ToSend
    <3>2. CASE h = f
      BY <1>7, <1>8, <3>1, <3>2
    <3>3. CASE h # f
      <4>1. flight'[h] = flight[h]
        BY <1>5, <3>3
      <4> QED
        BY <1>1, <3>1, <4>1 DEF ToSend
    <3> QED
      BY <3>2, <3>3
  <2> QED
    BY <2>1, <2>2
<1>9. TabOK'
  BY <1>1, <1>8, InboxParts DEF TabOK
<1>10. ExportOK'
  BY <1>1, InboxParts DEF ExportOK
<1> QED
  BY <1>1, <1>5, <1>6, <1>9, <1>10, TabStep

\* Requeue keeps the invariant.
LEMMA RequeueKeeps ==
    ASSUME InboxInv, NEW f \in Flight, Requeue(f)
    PROVE  InboxInv'
<1> DEFINE all == flight[f].batch \o queued
<1>1. /\ UNCHANGED <<durable, storeState, export>> /\ durable' = durable /\ export' = export
      /\ events' = events /\ group' = group /\ page' = page /\ captured' = captured
      /\ flight' = [flight EXCEPT ![f] = Free]
      /\ flight[f].of = page =>
            /\ queued' = First(QueueSize, all) /\ kept' = queued'
            /\ forgotten' = forgotten \cup (ToSet(all) \ ToSet(queued'))
      /\ flight[f].of # page => queued' = queued /\ kept' = kept /\ forgotten' = forgotten
  BY DEF Requeue, storeState
<1>2. queued \in Seq(Report) /\ kept \in Seq(Report) /\ QueueSize \in Nat /\ flight[f].batch \in Seq(Report)
  BY InboxParts, ErrorTrackingAssumption, FlightIs DEF InboxTypes
<1>3. all \in Seq(Report) /\ ToSet(flight[f].batch) \cup ToSet(queued) \subseteq ToSet(all)
  BY <1>2, SetOfConcat
<1> HIDE DEF all
<1>4. queued' \in Seq(Report) /\ kept' \in Seq(Report)
  <2>1. First(QueueSize, all) \in Seq(Report)
    BY <1>2, <1>3, FirstIs
  <2>2. CASE flight[f].of = page
    BY <1>1, <2>1, <2>2
  <2>3. CASE flight[f].of # page
    BY <1>1, <1>2, <2>3
  <2> QED
    BY <2>2, <2>3
<1>5. Free \in FlightType /\ Free.at = "free" /\ Free.batch = <<>> /\ Free.next = 1
  BY FreeIs DEF Free
<1>6. /\ flight' \in [Flight -> FlightType] /\ flight'[f] = Free
      /\ \A h \in Flight \ {f} : flight'[h] = flight[h]
      /\ FlightOK(f)' /\ ~AtEvent(f)'
  BY <1>1, <1>5, AtStart
<1>7. InboxTypes'
  BY <1>1, <1>4, <1>6, InboxParts DEF InboxTypes
<1>8. ASSUME NEW h \in Flight \ {f}, flight[h].of = page PROVE ToSet(flight[h].batch) \subseteq ToSend'
  <2>1. flight'[h] = flight[h]
    BY <1>6
  <2> QED
    BY <1>1, <1>8, <2>1 DEF ToSend
<1>9. ASSUME NEW z \in ToSend, z \notin forgotten' PROVE z \in ToSend'
  <2>1. CASE \E h \in Flight \ {f} : flight[h].of = page /\ z \in ToSet(flight[h].batch)
    BY <1>8, <2>1
  <2>2. CASE ~\E h \in Flight \ {f} : flight[h].of = page /\ z \in ToSet(flight[h].batch)
    <3>1. z \in ToSet(queued) \/ (flight[f].of = page /\ z \in ToSet(flight[f].batch))
      BY <1>9, <2>2 DEF ToSend
    <3>2. z \in ToSet(queued')
      BY <1>1, <1>3, <1>9, <3>1
    <3> QED
      BY <3>2 DEF ToSend
  <2> QED
    BY <2>1, <2>2
<1>10. forgotten \subseteq forgotten'
  BY <1>1
<1>11. TabOK'
  BY <1>1, <1>9, <1>10, InboxParts DEF TabOK
<1>12. ExportOK'
  BY <1>1, InboxParts DEF ExportOK
<1> QED
  BY <1>1, <1>6, <1>7, <1>11, <1>12, TabStep

-----------------------------------------------------------------------------
(* Steps that record a report.                                              *)

\* A report recorded upon a group as it is.
LEMMA Recorded ==
    ASSUME InboxInv, NEW r \in Report, r \notin events, NEW old \in GroupType,
           old.count = group[Fingerprint[r]].count, old.releases = group[Fingerprint[r]].releases,
           events' = events \cup {r}, group' = [group EXCEPT ![Fingerprint[r]] = Apply(old, r)]
    PROVE  /\ events' \subseteq Report /\ group' \in [GroupId -> GroupType]
           /\ \A k \in GroupId : GroupOK(k)'
           /\ \A k \in GroupId : group[k].count > 0 => group'[k].count > 0
           /\ \A k \in GroupId \ {Fingerprint[r]} : group'[k] = group[k]
<1>1. PICK g \in GroupId : g = Fingerprint[r]
  BY DEF GroupId
<1>2. PICK new : new = Apply(old, r)
  OBVIOUS
<1>3. ReleaseOf[r] \in {ReleaseOf[q] : q \in Report}
  OBVIOUS
<1>4. old.count \in Nat /\ old.status \in Statuses /\ old.regression \in BOOLEAN
      /\ old.releases \in SUBSET {ReleaseOf[q] : q \in Report}
  BY DEF GroupType
<1>5. new \in GroupType
  <2>1. /\ old.count + 1 \in Nat
        /\ (IF old.status = "resolved" THEN "unresolved" ELSE old.status) \in Statuses
        /\ (old.regression \/ old.status = "resolved") \in BOOLEAN
        /\ old.releases \cup {ReleaseOf[r]} \in SUBSET {ReleaseOf[q] : q \in Report}
    BY <1>3, <1>4 DEF Statuses
  <2> QED
    BY <1>2, <2>1 DEF Apply, GroupType
<1>6. new.count = group[g].count + 1 /\ new.releases = group[g].releases \cup {ReleaseOf[r]}
  BY <1>1, <1>2 DEF Apply
<1>7. group \in [GroupId -> GroupType] /\ events \subseteq Report
  BY InboxParts DEF InboxTypes
<1>8. group' = [group EXCEPT ![g] = new]
  BY <1>1, <1>2
<1>9. /\ group' \in [GroupId -> GroupType] /\ group'[g] = new
      /\ \A k \in GroupId \ {g} : group'[k] = group[k]
  BY <1>1, <1>5, <1>7, <1>8
<1>10. group[g].count \in Nat
  BY <1>1, <1>7 DEF GroupType
<1>11. GroupOK(g)'
  <2>1. Of(g)' = Of(g) \cup {r} /\ r \notin Of(g) /\ Of(g) \in SUBSET Report
    BY <1>1, <1>7 DEF Of
  <2>2. Cardinality(Of(g) \cup {r}) = Cardinality(Of(g)) + 1
    BY <2>1, ReportsFinite, FS_AddElement
  <2>3. group[g].count = Cardinality(Of(g)) /\ group[g].releases = {ReleaseOf[q] : q \in Of(g)}
    BY InboxParts DEF GroupOK
  <2>4. group'[g].count = Cardinality(Of(g)')
    BY <1>6, <1>9, <2>1, <2>2, <2>3
  <2>5. group'[g].releases = {ReleaseOf[q] : q \in Of(g)'}
    BY <1>6, <1>9, <2>1, <2>3
  <2> QED
    BY <2>4, <2>5 DEF GroupOK
<1>12. ASSUME NEW k \in GroupId \ {g} PROVE GroupOK(k)'
  <2>1. Of(k)' = Of(k)
    BY <1>1, <1>12 DEF Of
  <2> QED
    BY <1>9, <1>12, <2>1, InboxParts DEF GroupOK
<1>13. \A k \in GroupId : group[k].count > 0 => group'[k].count > 0
  BY <1>6, <1>9, <1>10
<1> QED
  BY <1>1, <1>7, <1>9, <1>11, <1>12, <1>13

\* CaptureInMemory keeps the invariant.
LEMMA InMemoryKeeps ==
    ASSUME InboxInv, NEW f \in Flight, CaptureInMemory(f)
    PROVE  InboxInv'
<1>1. /\ ~durable /\ GoOn(f) /\ UNCHANGED <<durable, tabVars, export>> /\ durable' = durable
      /\ export' = export /\ flight[f].next <= Len(flight[f].batch)
      /\ queued' = queued /\ kept' = kept /\ captured' = captured /\ forgotten' = forgotten /\ page' = page
  BY DEF CaptureInMemory, Handling, tabVars
<1>2. /\ flight' \in [Flight -> FlightType] /\ \A h \in Flight \ {f} : flight'[h] = flight[h]
      /\ flight'[f].at = "next" /\ flight'[f].batch = flight[f].batch
      /\ flight'[f].next = flight[f].next + 1 /\ flight'[f].of = flight[f].of
  BY <1>1, InboxParts, GoOnIs
<1>3. FlightOK(f)'
  BY <1>1, <1>2 DEF FlightOK, AtEvent
<1>4. \A h \in Flight \ {f} : Apart(f, h)'
  BY <1>2 DEF Apart, AtEvent
<1>5. CASE UNCHANGED storeState
  BY <1>1, <1>2, <1>3, <1>4, <1>5, OnlyMoves
<1>6. CASE ~UNCHANGED storeState
  <2>1. PICK r : r = Current(f)
    OBVIOUS
  <2>2. /\ r \notin events /\ events' = events \cup {r}
        /\ group' = [group EXCEPT ![Fingerprint[r]] = Apply(@, r)]
    BY <1>6, <2>1 DEF CaptureInMemory
  <2>3. flight[f].next \in DOMAIN flight[f].batch
    BY <1>1, InboxParts, FlightIs
  <2>4. r \in Report /\ Fingerprint[r] \in GroupId
    BY <2>1, <2>3, InboxParts, FlightIs
  <2>5. PICK old : old = group[Fingerprint[r]]
    OBVIOUS
  <2>6. old \in GroupType /\ group' = [group EXCEPT ![Fingerprint[r]] = Apply(old, r)]
    BY <2>2, <2>4, <2>5, InboxParts DEF InboxTypes
  <2>7. /\ events' \subseteq Report /\ group' \in [GroupId -> GroupType]
        /\ \A k \in GroupId : GroupOK(k)'
        /\ \A k \in GroupId : group[k].count > 0 => group'[k].count > 0
    BY <2>2, <2>4, <2>5, <2>6, Recorded
  <2>8. InboxTypes'
    BY <1>1, <1>2, <2>7, InboxParts DEF InboxTypes
  <2>9. TabOK'
    BY <1>1 DEF TabOK
  <2>10. ExportOK'
    BY <1>1, <2>7, InboxParts, ExportKeeps
  <2>11. ASSUME NEW h \in Flight PROVE FlightOK(h)' /\ ~AtEvent(h)'
    <3>1. CASE h = f
      BY <1>2, <1>3, <3>1 DEF AtEvent
    <3>2. CASE h # f
      <4>1. ~AtEvent(h) /\ flight'[h] = flight[h] /\ flight[h].at # "locked"
        BY <1>1, <1>2, <3>2, InboxParts DEF FlightOK, AtEvent
      <4> QED
        BY <1>1, <4>1, InboxParts DEF FlightOK, AtEvent
    <3> QED
      BY <3>1, <3>2
  <2>12. \A h \in Flight : \A k \in Flight \ {h} : Apart(h, k)'
    BY <2>11 DEF Apart
  <2> QED
    BY <2>7, <2>8, <2>9, <2>10, <2>11, <2>12 DEF InboxInv
<1> QED
  BY <1>5, <1>6

\* UpsertAndCommit keeps the invariant.
LEMMA CommitKeeps ==
    ASSUME InboxInv, NEW f \in Flight, UpsertAndCommit(f)
    PROVE  InboxInv'
<1>1. PICK r : r = Current(f)
  OBVIOUS
<1>2. /\ flight[f].at = "locked" /\ UNCHANGED <<durable, tabVars, export>> /\ durable' = durable
      /\ export' = export /\ events' = events \cup {r}
      /\ group' = [group EXCEPT ![Fingerprint[r]] = Apply(flight[f].read, r)]
      /\ flight' = [flight EXCEPT ![f].at = "next", ![f].next = @ + 1, ![f].read = NoGroup]
      /\ queued' = queued /\ kept' = kept /\ captured' = captured /\ forgotten' = forgotten /\ page' = page
  BY <1>1 DEF UpsertAndCommit, tabVars
<1>3. /\ AtEvent(f) /\ durable /\ flight[f].next \in DOMAIN flight[f].batch /\ r \notin events
      /\ flight[f].read.count = group[Fingerprint[r]].count
      /\ flight[f].read.releases = group[Fingerprint[r]].releases
  BY <1>1, <1>2, InboxParts DEF FlightOK, AtEvent
<1>4. r \in Report /\ Fingerprint[r] \in GroupId /\ flight[f].read \in GroupType
  BY <1>1, <1>3, InboxParts, FlightIs
<1>5. /\ events' \subseteq Report /\ group' \in [GroupId -> GroupType]
      /\ \A k \in GroupId : GroupOK(k)'
      /\ \A k \in GroupId : group[k].count > 0 => group'[k].count > 0
      /\ \A k \in GroupId \ {Fingerprint[r]} : group'[k] = group[k]
  BY <1>2, <1>3, <1>4, Recorded
<1>6. PICK x : x = [flight[f] EXCEPT !.at = "next", !.next = @ + 1, !.read = NoGroup]
  OBVIOUS
<1>7. flight' = [flight EXCEPT ![f] = x]
  BY <1>2, <1>6
<1>8. x \in FlightType
  <2>1. flight[f].next + 1 \in Nat \ {0}
    BY InboxParts, FlightIs
  <2> QED
    BY <1>6, <2>1, InboxParts, FlightIs, FreeIs DEF FlightType
<1>9. x.at = "next" /\ x.batch = flight[f].batch /\ x.next = flight[f].next + 1 /\ x.of = flight[f].of
  BY <1>6, InboxParts, FlightIs DEF FlightType
<1>10. flight' \in [Flight -> FlightType] /\ flight'[f] = x /\ \A h \in Flight \ {f} : flight'[h] = flight[h]
  BY <1>7, <1>8, InboxParts, FlightSet
<1>11. InboxTypes'
  BY <1>2, <1>5, <1>10, InboxParts DEF InboxTypes
<1>12. TabOK'
  BY <1>2, <1>9, <1>10, InboxParts, TabKeeps
<1>13. ExportOK'
  BY <1>2, <1>5, InboxParts, ExportKeeps
<1>14. ASSUME NEW i \in DOMAIN flight'[f].batch, i < flight'[f].next PROVE flight'[f].batch[i] \in events'
  <2>1. i \in Nat /\ flight[f].next \in Nat
    BY <1>9, <1>10, InboxParts, FlightIs
  <2>2. i < flight[f].next \/ i = flight[f].next
    BY <1>9, <1>10, <1>14, <2>1
  <2>3. CASE i < flight[f].next
    BY <1>2, <1>3, <1>9, <1>10, <1>14, <2>3, InboxParts DEF FlightOK
  <2>4. CASE i = flight[f].next
    BY <1>1, <1>2, <1>9, <1>10, <2>4 DEF Current
  <2> QED
    BY <2>2, <2>3, <2>4
<1>15. FlightOK(f)' /\ ~AtEvent(f)'
  BY <1>9, <1>10, <1>14 DEF FlightOK, AtEvent
<1>16. ASSUME NEW h \in Flight \ {f} PROVE FlightOK(h)'
  <2>1. Apart(f, h) /\ FlightOK(h) /\ flight'[h] = flight[h]
    BY <1>10, InboxParts
  <2>2. AtEvent(h) => Current(h) \notin events'
    BY <1>1, <1>2, <1>3, <2>1 DEF Apart, FlightOK
  <2>3. ASSUME flight[h].at = "locked" PROVE group'[Fingerprint[Current(h)]] = group[Fingerprint[Current(h)]]
    <3>1. AtEvent(h) /\ flight[h].next \in DOMAIN flight[h].batch
      BY <2>1, <2>3 DEF FlightOK, AtEvent
    <3>2. Fingerprint[Current(h)] \in GroupId
      BY <3>1, InboxParts, FlightIs
    <3>3. Fingerprint[Current(h)] # Fingerprint[r]
      BY <1>1, <1>2, <1>3, <2>1, <2>3, <3>1 DEF Apart
    <3> QED
      BY <1>5, <3>2, <3>3
  <2> QED
    BY <1>2, <2>1, <2>2, <2>3, InboxParts, StaysOK
<1>17. ASSUME NEW h \in Flight, NEW k \in Flight \ {h} PROVE Apart(h, k)'
  <2>1. CASE h = f \/ k = f
    BY <1>15, <2>1 DEF Apart
  <2>2. CASE h # f /\ k # f
    BY <1>10, <1>17, <2>2, InboxParts, StayApart
  <2> QED
    BY <2>1, <2>2
<1> QED
  BY <1>5, <1>11, <1>12, <1>13, <1>15, <1>16, <1>17 DEF InboxInv

-----------------------------------------------------------------------------
(* Steps of the dashboard.                                                  *)

\* Triage keeps the invariant.
LEMMA TriageKeeps ==
    ASSUME InboxInv, NEW g \in GroupId, NEW status \in Statuses, Triage(g, status)
    PROVE  InboxInv'
<1>1. /\ group' = [group EXCEPT ![g].status = status] /\ durable' = durable /\ export' = export
      /\ events' = events /\ flight' = flight
      /\ queued' = queued /\ kept' = kept /\ captured' = captured /\ forgotten' = forgotten /\ page' = page
  BY DEF Triage, tabVars
<1>2. group \in [GroupId -> GroupType] /\ group[g] \in GroupType
  BY InboxParts DEF InboxTypes
<1>3. PICK x : x = [group[g] EXCEPT !.status = status]
  OBVIOUS
<1>4. x \in GroupType /\ x.count = group[g].count /\ x.releases = group[g].releases
  BY <1>2, <1>3 DEF GroupType
<1>5. group' = [group EXCEPT ![g] = x]
  BY <1>1, <1>3
<1>6. /\ group' \in [GroupId -> GroupType]
      /\ \A k \in GroupId : group'[k].count = group[k].count /\ group'[k].releases = group[k].releases
  BY <1>2, <1>4, <1>5
<1>7. InboxTypes'
  BY <1>1, <1>6, InboxParts DEF InboxTypes
<1>8. TabOK'
  BY <1>1, InboxParts, TabKeeps
<1>9. ExportOK'
  BY <1>1, <1>6, InboxParts, ExportKeeps
<1>10. ASSUME NEW k \in GroupId PROVE GroupOK(k)'
  BY <1>1, <1>6, InboxParts, GroupKeeps
<1>11. ASSUME NEW h \in Flight PROVE FlightOK(h)'
  <2>1. AtEvent(h) => Current(h) \notin events' /\ flight[h].next \in DOMAIN flight[h].batch
    BY <1>1, InboxParts DEF FlightOK
  <2>2. ASSUME flight[h].at = "locked" PROVE Fingerprint[Current(h)] \in GroupId
    BY <2>1, <2>2, InboxParts, FlightIs DEF AtEvent
  <2> QED
    BY <1>1, <1>6, <2>1, <2>2, InboxParts, StaysOK
<1>12. ASSUME NEW h \in Flight, NEW k \in Flight \ {h} PROVE Apart(h, k)'
  BY <1>1, InboxParts, StayApart
<1> QED
  BY <1>7, <1>8, <1>9, <1>10, <1>11, <1>12 DEF InboxInv

\* StartExport keeps the invariant.
LEMMA StartExportKeeps ==
    ASSUME InboxInv, StartExport
    PROVE  InboxInv'
<1>1. /\ export' = [at |-> "page", cursor |-> 0, seen |-> {}, owed |-> Known]
      /\ UNCHANGED <<durable, storeState>> /\ UNCHANGED <<durable, tabVars, flight, storeState>>
      /\ durable' = durable /\ flight' = flight /\ events' = events /\ group' = group
      /\ queued' = queued /\ kept' = kept /\ captured' = captured /\ forgotten' = forgotten /\ page' = page
  BY DEF StartExport, tabVars, storeState
<1>2. PICK owed \in SUBSET GroupId : owed = Known
  BY DEF Known
<1>3. /\ export' \in [at : {"idle", "page", "done"}, cursor : Nat, seen : SUBSET GroupId, owed : SUBSET GroupId]
      /\ export'.at = "page" /\ export'.cursor = 0 /\ export'.owed = owed
  BY <1>1, <1>2
<1>4. InboxTypes'
  BY <1>1, <1>3, InboxParts DEF InboxTypes
<1>5. TabOK'
  BY <1>1, InboxParts, TabKeeps
<1>6. \A g \in owed : ~(g <= 0) /\ group'[g].count > 0
  BY <1>1, <1>2, ErrorTrackingAssumption DEF Known
<1>7. ExportOK'
  BY <1>3, <1>6 DEF ExportOK
<1>8. \A h \in Flight : flight'[h] = flight[h]
  BY <1>1
<1> QED
  BY <1>1, <1>4, <1>5, <1>7, <1>8, TabStep

\* A page is an initial part of what follows the cursor, and it is not empty.
PageOf(after) == {g \in after : Cardinality({h \in after : h < g}) < PageSize}
\* What Page is.
LEMMA PageIs ==
    ASSUME NEW after \in SUBSET GroupId, NEW rows, rows = PageOf(after), after # rows
    PROVE  /\ rows \in SUBSET GroupId /\ Max(rows) \in rows
           /\ \A g \in after : g <= Max(rows) => g \in rows
<1> DEFINE Below(g) == {h \in after : h < g}
<1>1. GroupId \subseteq Nat /\ PageSize \in Nat \ {0}
  BY ErrorTrackingAssumption
<1>2. \A g \in after : IsFiniteSet(Below(g)) /\ Cardinality(Below(g)) \in Nat
  BY ReportsFinite
<1>3. ASSUME NEW g \in after, NEW h \in after, h <= g PROVE Cardinality(Below(h)) <= Cardinality(Below(g))
  <2>1. h \in Nat /\ g \in Nat /\ \A k \in after : k \in Nat
    BY <1>1
  <2>2. Below(h) \in SUBSET Below(g)
    <3>1. ASSUME NEW k \in after, k < h PROVE k < g
      BY <1>3, <2>1, <3>1
    <3> QED
      BY <3>1
  <2> QED
    BY <1>2, <2>2, FS_Subset
<1>4. rows \subseteq after /\ \A g \in after : g \in rows <=> Cardinality(Below(g)) < PageSize
  BY DEF PageOf
<1>5. \A g \in rows, h \in after : h <= g => h \in rows
  <2> HIDE DEF Below
  <2>1. ASSUME NEW g \in rows, NEW h \in after, h <= g PROVE h \in rows
    <3>1. g \in after /\ Cardinality(Below(g)) < PageSize
      BY <1>4
    <3>2. /\ Cardinality(Below(h)) <= Cardinality(Below(g))
          /\ Cardinality(Below(h)) \in Nat /\ Cardinality(Below(g)) \in Nat
      BY <1>2, <1>3, <2>1, <3>1
    <3> QED
      BY <1>1, <1>4, <3>1, <3>2
  <2> QED
    BY <2>1
<1>6. rows # {}
  <2>1. SUFFICES ASSUME rows = {} PROVE FALSE
    OBVIOUS
  <2>2. after # {} /\ after \in SUBSET Nat
    BY <1>1, <2>1
  <2>3. PICK g \in after : \A h \in after : ~(<<h, g>> \in OpToRel(<, Nat))
    BY <2>2, NatLessThanWellFounded, WFMin
  <2>4. Below(g) = {}
    BY <2>2, <2>3 DEF OpToRel
  <2>5. Cardinality(Below(g)) = 0
    BY <2>4, FS_EmptySet
  <2>6. 0 < PageSize
    BY <1>1
  <2> HIDE DEF Below
  <2>7. g \in rows
    BY <1>4, <2>3, <2>5, <2>6
  <2> QED
    BY <2>1, <2>7
<1>7. rows \in SUBSET GroupId /\ rows \in SUBSET Nat /\ IsFiniteSet(rows)
  BY <1>1, ReportsFinite DEF PageOf
<1>8. Max(rows) \in rows
  BY <1>6, <1>7, GreatestIs
<1> QED
  BY <1>5, <1>7, <1>8

\* ExportPage keeps the invariant.
LEMMA ExportPageKeeps ==
    ASSUME InboxInv, ExportPage
    PROVE  InboxInv'
<1>1. PICK after : after = {g \in Known : g > export.cursor}
  OBVIOUS
<1>2. PICK rows : rows = PageOf(after)
  OBVIOUS
<1>3. PICK at : at = (IF after = rows THEN "done" ELSE "page")
  OBVIOUS
<1>4. PICK cursor : cursor = (IF after = rows THEN export.cursor ELSE Max(rows))
  OBVIOUS
<1>5. export.at = "page" /\ export' = [export EXCEPT !.seen = @ \cup rows, !.at = at, !.cursor = cursor]
  BY <1>1, <1>2, <1>3, <1>4 DEF ExportPage, PageOf
<1>6. /\ UNCHANGED <<durable, storeState>>
      /\ durable' = durable /\ flight' = flight /\ events' = events /\ group' = group
      /\ queued' = queued /\ kept' = kept /\ captured' = captured /\ forgotten' = forgotten /\ page' = page
  BY DEF ExportPage, tabVars, storeState
<1>7. /\ export \in [at : {"idle", "page", "done"}, cursor : Nat, seen : SUBSET GroupId, owed : SUBSET GroupId]
      /\ export.cursor \in Nat /\ export.seen \in SUBSET GroupId /\ export.owed \in SUBSET GroupId
  BY InboxParts DEF InboxTypes
<1>8. after \in SUBSET GroupId /\ rows \in SUBSET GroupId
  BY <1>1, <1>2 DEF Known, PageOf
<1>9. GroupId \subseteq Nat
  BY ErrorTrackingAssumption
<1>10. after # rows => Max(rows) \in rows /\ \A g \in after : g <= Max(rows) => g \in rows
  BY <1>2, <1>8, PageIs
<1>11. cursor \in Nat /\ at \in {"done", "page"}
  BY <1>3, <1>4, <1>7, <1>8, <1>9, <1>10
<1>12. /\ export' \in [at : {"idle", "page", "done"}, cursor : Nat, seen : SUBSET GroupId, owed : SUBSET GroupId]
  BY <1>5, <1>7, <1>8, <1>11
<1>13. /\ export'.at = at /\ export'.cursor = cursor /\ export'.seen = export.seen \cup rows
       /\ export'.owed = export.owed
  BY <1>5, <1>7
<1>14. InboxTypes'
  BY <1>6, <1>12, InboxParts DEF InboxTypes
<1>15. TabOK'
  BY <1>6, InboxParts, TabKeeps
<1>16. /\ \A g \in export.owed : group[g].count > 0
       /\ \A g \in export.owed : g <= export.cursor => g \in export.seen
  BY <1>5, InboxParts DEF ExportOK
<1>17. ASSUME NEW g \in export.owed, ~(g <= export.cursor) PROVE g \in after
  <2>1. g \in GroupId /\ g \in Nat
    BY <1>7, <1>9
  <2> QED
    BY <1>1, <1>7, <1>16, <1>17, <2>1 DEF Known
<1>18. ASSUME at = "done", NEW g \in export.owed PROVE g \in export.seen \cup rows
  BY <1>3, <1>16, <1>17, <1>18
<1>19. ASSUME at = "page", NEW g \in export.owed, g <= cursor PROVE g \in export.seen \cup rows
  <2>1. after # rows /\ cursor = Max(rows)
    BY <1>3, <1>4, <1>19
  <2> QED
    BY <1>10, <1>16, <1>17, <1>19, <2>1
<1>20. ExportOK'
  BY <1>6, <1>13, <1>16, <1>18, <1>19 DEF ExportOK
<1>21. \A h \in Flight : flight'[h] = flight[h]
  BY <1>6
<1> QED
  BY <1>6, <1>14, <1>15, <1>20, <1>21, TabStep

-----------------------------------------------------------------------------
\* Nothing is reported at the start.
LEMMA InboxInitial == ErrorInit => InboxInv
<1> SUFFICES ASSUME ErrorInit PROVE InboxInv
  OBVIOUS
<1>1. <<>> \in Seq(Report) /\ ToSet(<<>>) = {}
  BY NothingQueued
<1>2. \A f \in Flight : flight[f] = Free
  BY DEF ErrorInit
<1>3. \A g \in GroupId : group[g] = NoGroup
  BY DEF ErrorInit
<1>4. flight \in [Flight -> FlightType] /\ group \in [GroupId -> GroupType]
  BY FreeIs DEF ErrorInit
<1>5. export \in [at : {"idle", "page", "done"}, cursor : Nat, seen : SUBSET GroupId, owed : SUBSET GroupId]
  BY DEF ErrorInit
<1>6. InboxTypes
  BY <1>1, <1>4, <1>5 DEF InboxTypes, ErrorInit
<1>7. TabOK
  BY DEF TabOK, ErrorInit
<1>8. ExportOK
  BY DEF ExportOK, ErrorInit
<1>9. ASSUME NEW g \in GroupId PROVE GroupOK(g)
  <2>1. Of(g) = {}
    BY DEF Of, ErrorInit
  <2> QED
    BY <1>3, <2>1, FreeIs, FS_EmptySet DEF GroupOK
<1>10. ASSUME NEW f \in Flight PROVE FlightOK(f) /\ ~AtEvent(f)
  <2>1. flight[f].at = "free" /\ flight[f].batch = <<>>
    BY <1>2, FreeIs
  <2> QED
    BY <2>1 DEF FlightOK, AtEvent
<1> QED
  BY <1>6, <1>7, <1>8, <1>9, <1>10 DEF InboxInv, Apart

\* Every step keeps the invariant.
LEMMA InboxStep == InboxInv /\ [ErrorNext]_errorVars => InboxInv'
<1> SUFFICES ASSUME InboxInv, [ErrorNext]_errorVars PROVE InboxInv'
  OBVIOUS
<1>1. CASE UNCHANGED errorVars
  <2>1. /\ durable' = durable /\ flight' = flight /\ events' = events /\ group' = group /\ export' = export
        /\ queued' = queued /\ kept' = kept /\ captured' = captured /\ forgotten' = forgotten /\ page' = page
    BY <1>1 DEF errorVars, storeState
  <2>2. UNCHANGED <<durable, storeState>>
    BY <2>1 DEF storeState
  <2>3. InboxTypes'
    BY <2>1, InboxParts DEF InboxTypes
  <2>4. TabOK'
    BY <2>1, InboxParts, TabKeeps
  <2>5. ExportOK'
    BY <2>1, InboxParts DEF ExportOK
  <2>6. \A h \in Flight : flight'[h] = flight[h]
    BY <2>1
  <2> QED
    BY <2>2, <2>3, <2>4, <2>5, <2>6, TabStep
<1>2. CASE \E r \in Report : CaptureException(r)
  BY <1>2, CaptureKeeps
<1>3. CASE \E f \in Flight : EnvelopeStep(f)
  BY <1>3, FlushKeeps, AcceptedKeeps, RequeueKeeps, RefuseKeeps, InMemoryKeeps, SkipKeeps, InsertKeeps,
     LockKeeps, CommitKeeps DEF EnvelopeStep
<1>4. CASE ReloadTab \/ StartExport \/ ExportPage
  BY <1>4, ReloadKeeps, StartExportKeeps, ExportPageKeeps
<1>5. CASE \E g \in GroupId, s \in Statuses : Triage(g, s)
  BY <1>5, TriageKeeps
<1> QED
  BY <1>1, <1>2, <1>3, <1>4, <1>5 DEF ErrorNext

\* The invariant makes the inbox sound.
LEMMA InboxImplied == InboxInv => InboxSound
<1> SUFFICES ASSUME InboxInv PROVE InboxSound
  OBVIOUS
<1>1. CountsAgree
  BY InboxParts DEF GroupOK, Of, CountsAgree
<1>2. ToSend \subseteq ToSet(queued) \cup InFlight
  BY DEF ToSend, InFlight
<1>3. ReportsSurvive
  BY <1>2, InboxParts DEF TabOK, ReportsSurvive
<1>4. \A g \in GroupId : group[g].releases = {ReleaseOf[q] : q \in {r \in events : Fingerprint[r] = g}}
  BY InboxParts DEF GroupOK, Of
<1>5. events \subseteq Report
  BY InboxParts DEF InboxTypes
<1>6. ReleaseViewsAgree
  BY <1>4, <1>5 DEF ReleaseViewsAgree, ListedByLog, ListedBySQL, GroupId
<1>7. ExportComplete
  BY InboxParts DEF ExportOK, ExportComplete
<1> QED
  BY <1>1, <1>3, <1>6, <1>7 DEF InboxSound

\* InboxSound: a report is counted once in its group however often its envelope
\* is sent and however many runtimes record at once, it leaves the tab only when
\* it is recorded or when the tab gives it up, and the listings and the exports
\* have every group they owe (persistError, flush, handleErrorGroups).
THEOREM InboxIsSound == ErrorInit /\ [][ErrorNext]_errorVars => []InboxSound
<1>1. ErrorInit /\ [][ErrorNext]_errorVars => []InboxInv
  BY InboxInitial, InboxStep, PTL
<1> QED
  BY <1>1, InboxImplied, PTL
=============================================================================
