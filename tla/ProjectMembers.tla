--------------------------- MODULE ProjectMembers ---------------------------
(***************************************************************************)
(* Invitations to a dashboard project (dashboard_auth.go): one e-mail      *)
(* address that administrators invite and for which an account is created, *)
(* without a lock or a transaction between the two.                        *)
(***************************************************************************)
EXTENDS Integers

CONSTANTS Handler,         \* requests under way
          MaxInvitations   \* bound on invitations and account requests

ASSUME ProjectMembersAssumption == MaxInvitations \in Nat

VARIABLES
    dashboardUser,  \* gonvex_dashboard_users has the address
    invitations,    \* gonvex_project_invitations: [role, accepted] rows
    projectRole,    \* gonvex_project_members: the address's role
    ownerEmail,     \* owner_email of the project is the address
    handler,        \* each request: its step, its role, the rows it has read
    handled

projectMemberVars == <<dashboardUser, invitations, projectRole, ownerEmail, handler, handled>>

IdleHandler == [step |-> "idle", role |-> "none", rows |-> {}]
ProjectRoles == {"owner", "dev"}

ProjectMembersOK ==
    /\ dashboardUser \in BOOLEAN /\ ownerEmail \in BOOLEAN
    /\ \A i \in invitations : i.role \in ProjectRoles /\ i.accepted \in BOOLEAN
    /\ projectRole \in ProjectRoles \cup {"none"}
    /\ projectRole # "none" => dashboardUser /\ invitations # {}

ProjectMembersInit ==
    /\ dashboardUser = FALSE /\ invitations = {} /\ projectRole = "none" /\ ownerEmail = FALSE
    /\ handler = [h \in Handler |-> IdleHandler] /\ handled = 0

Takes(h, step, new) ==
    /\ handler[h] = IdleHandler /\ handled < MaxInvitations /\ handled' = handled + 1
    /\ handler' = [handler EXCEPT ![h] = [step |-> step, role |-> new, rows |-> {}]]

\* inviteProjectMember: the invitation first, then addProjectMemberIfUserExists.
InviteToProject(h, new) ==
    /\ Takes(h, "exists", new)
    /\ invitations' = invitations \cup {[role |-> new, accepted |-> FALSE, id |-> handled]}
    /\ UNCHANGED <<dashboardUser, projectRole, ownerEmail>>

UserExists(h) ==
    /\ handler[h].step = "exists"
    /\ IF dashboardUser THEN handler' = [handler EXCEPT ![h].step = "add"]
       ELSE handler' = [handler EXCEPT ![h] = IdleHandler]
    /\ UNCHANGED <<dashboardUser, invitations, projectRole, ownerEmail, handled>>

\* The member, and a project without an owner gets one.
Becomes(new) ==
    /\ projectRole' = new
    /\ ownerEmail' = (ownerEmail \/ new = "owner")

AddMember(h) ==
    /\ handler[h].step = "add" /\ Becomes(handler[h].role)
    /\ handler' = [handler EXCEPT ![h] = IdleHandler]
    /\ UNCHANGED <<dashboardUser, invitations, handled>>

\* createDashboardUser, then acceptPendingProjectInvitations.
CreateUser(h) ==
    /\ Takes(h, "pending", "none") /\ dashboardUser' = TRUE
    /\ UNCHANGED <<invitations, projectRole, ownerEmail>>

ReadPending(h) ==
    /\ handler[h].step = "pending"
    /\ handler' = [handler EXCEPT ![h].step = "accept",
                                  ![h].rows = {i \in invitations : ~i.accepted}]
    /\ UNCHANGED <<dashboardUser, invitations, projectRole, ownerEmail, handled>>

\* One row: the member, and every invitation of the address is accepted.
Accept(h) ==
    /\ handler[h].step = "accept"
    /\ IF handler[h].rows = {} THEN /\ handler' = [handler EXCEPT ![h] = IdleHandler]
                                    /\ UNCHANGED <<invitations, projectRole, ownerEmail>>
       ELSE \E i \in handler[h].rows :
              /\ Becomes(i.role)
              /\ invitations' = {[j EXCEPT !.accepted = TRUE] : j \in invitations}
              /\ handler' = [handler EXCEPT ![h].rows = @ \ {i}]
    /\ UNCHANGED <<dashboardUser, handled>>

ProjectMembersNext == \E h \in Handler :
    \/ \E new \in ProjectRoles : InviteToProject(h, new)
    \/ UserExists(h) \/ AddMember(h) \/ CreateUser(h) \/ ReadPending(h) \/ Accept(h)

-----------------------------------------------------------------------------
\* An address that was invited and has an account is a member, in whichever
\* order the two requests ran.
InvitedIsMember ==
    (\A h \in Handler : handler[h] = IdleHandler) /\ dashboardUser /\ invitations # {}
        => projectRole # "none"
=============================================================================
