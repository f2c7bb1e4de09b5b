---- MODULE MCPlatform ----
(***************************************************************************)
(* The control plane and the accounts: the project registry, a project's   *)
(* environment, the tenant registry, the app-session requirement of a      *)
(* project, the logins of an account, the members of a tenant, the first   *)
(* workspace of an account and the members of a project.  No two of them   *)
(* change the same state: a behaviour is one of a single part, and leaves  *)
(* the rest as it was initially.                                           *)
(***************************************************************************)
EXTENDS ProjectRegistry, ProjectEnv, TenantRegistry,
        AuthRequirement, AuthSessions, Memberships, PersonalWorkspace, ProjectMembers

VARIABLE part

controlVars == <<projectVars, envVars, tenantVars>>
accountVars == <<requirementVars, sessionVars, memberVars, workspaceVars, projectMemberVars>>
platformVars == <<part, controlVars, accountVars>>

Init ==
    /\ part \in {"projects", "environment", "tenants",
                 "requirement", "sessions", "members", "workspace", "project"}
    /\ ProjectsInit /\ EnvInit /\ TenantsInit
    /\ RequirementInit /\ (part # "requirement" => provider = FALSE)
    /\ SessionsInit /\ WorkspacesInit /\ ProjectMembersInit
    /\ MembershipsInit /\ role[CHOOSE u \in User : TRUE] = "owner"

Control ==
    \/ part = "projects" /\ ProjectsNext /\ UNCHANGED <<envVars, tenantVars>>
    \/ part = "environment" /\ EnvNext /\ UNCHANGED <<projectVars, tenantVars>>
    \/ part = "tenants" /\ TenantsNext /\ UNCHANGED <<projectVars, envVars>>

Accounts ==
    \/ /\ part = "requirement" /\ RequirementNext
       /\ UNCHANGED <<sessionVars, memberVars, workspaceVars, projectMemberVars>>
    \/ /\ part = "sessions" /\ SessionsNext
       /\ UNCHANGED <<requirementVars, memberVars, workspaceVars, projectMemberVars>>
    \/ /\ part = "members" /\ MembershipsNext
       /\ UNCHANGED <<requirementVars, sessionVars, workspaceVars, projectMemberVars>>
    \/ /\ part = "workspace" /\ WorkspacesNext
       /\ UNCHANGED <<requirementVars, sessionVars, memberVars, projectMemberVars>>
    \/ /\ part = "project" /\ ProjectMembersNext
       /\ UNCHANGED <<requirementVars, sessionVars, memberVars, workspaceVars>>

Next ==
    /\ UNCHANGED part
    /\ \/ Control /\ UNCHANGED accountVars
       \/ Accounts /\ UNCHANGED controlVars

\* The step A of the tenant registry or of a project's requirement.
Tenants(A) == part = "tenants" /\ A /\ UNCHANGED <<part, projectVars, envVars, accountVars>>
Requirement(A) ==
    /\ part = "requirement" /\ A
    /\ UNCHANGED <<part, controlVars, sessionVars, memberVars, workspaceVars, projectMemberVars>>

\* A runtime goes on with the hydration and the provisioning it has begun, and
\* hydrates again when the last one is old enough (tenants.go: the caller waits
\* for either; any request hydrates).  The single-flight lookup runs on a
\* goroutine of its own, and a caller whose answer was of a passed generation
\* loops (app_auth.go).
Fairness ==
    /\ \A r \in Runtime :
        /\ WF_platformVars(Tenants(HydrationStep(r)))
        /\ WF_platformVars(Tenants(HydrationLapses(r)))
        /\ WF_platformVars(Tenants(EnsureStep(r)))
    /\ WF_platformVars(Requirement(ReadProvider)) /\ WF_platformVars(Requirement(FinishLookup))
    /\ \A c \in Client : WF_platformVars(Requirement(AskAgain(c)))

Spec == Init /\ [][Next]_platformVars /\ Fairness

\* A retired key opens nothing, what was created survives (projects.go).
ProjectsSound == ProjectsOK /\ EnvOK /\ RotationSticks /\ CreatedSurvives

\* Every registry keeps its shape and, besides, a tenant has one database and is
\* ready only with it (tenants.go).
ControlPlaneSound == ProjectsSound /\ TenantsOK /\ OneHome /\ ReadyIsThere

\* A switch of the provider holds for whoever asks after it, a login has one
\* token that can be exchanged, and tabs do not present another's (app_auth.go,
\* index.tsx).
SessionsSound ==
    /\ RequirementOK /\ SessionsOK
    /\ RequirementCurrent /\ EnableIsFinal /\ OneHead /\ TabsNeverReuse

\* The registry and the tenant database name the same members, an account gets
\* one workspace and no debris, who was invited is a member
\* (app_auth_memberships.go, dashboard_auth.go).
MembersSound ==
    /\ MembershipsOK /\ WorkspacesOK /\ ProjectMembersOK
    /\ MirrorMatches /\ OneWorkspace /\ NothingLeftBehind /\ InvitedIsMember

\* No step takes back what others rely on: an edit that was served, a tab's
\* session, the last owner of a tenant, an invitation.
NothingTakenBack == EnvNeverGoesBack /\ StaysSignedIn /\ OwnerKept /\ InvitationNotLost

\* Whoever waits for a tenant or for a requirement is answered.
EveryoneAnswered == CreatedTenantsServed /\ CallsAnswered
====
