----------------------------- MODULE Memberships -----------------------------
(***************************************************************************)
(* The members of one tenant of a project with app authentication          *)
(* (app_auth_memberships.go): central memberships and invitations in the   *)
(* registry, their mirror in the tenant database, the accounts that can be *)
(* disabled and deleted, and the requests that change them under the       *)
(* project's advisory lock.                                                *)
(***************************************************************************)
EXTENDS Integers

CONSTANTS User,
          Request,           \* requests that can be under way at a time
          MaxChanges,        \* bound on requests
          MaxMemberFaults    \* bound on failing statements

Unheld == "free"

ASSUME MembershipAssumption ==
    MaxChanges \in Nat /\ MaxMemberFaults \in Nat /\ Unheld \notin Request

VARIABLES
    account,     \* gonvex_auth_users: "none", "active", "disabled" or "deleted"
    role,        \* gonvex_auth_memberships
    mirror,      \* members in the tenant database
    invited,     \* gonvex_auth_membership_invitations
    request,     \* each request's step
    memberLock,  \* the request that holds the advisory lock
    changes, memberFaults,
    skewed       \* users whose mirror a failed clean-up has left behind

memberVars == <<account, role, mirror, invited, request, memberLock, changes,
                memberFaults, skewed>>

Roles == {"none", "member", "owner"}
NoRequest == [op |-> "none", user |-> Unheld, role |-> "none", before |-> "none",
              step |-> "idle"]

MembershipsOK ==
    /\ account \in [User -> {"none", "active", "disabled", "deleted"}]
    /\ role \in [User -> Roles] /\ mirror \in [User -> Roles] /\ invited \in [User -> Roles]
    /\ memberLock \in Request \cup {Unheld} /\ skewed \subseteq User
    /\ \A u \in User : role[u] # "none" => account[u] \in {"active", "disabled"}
    /\ \A r \in Request : memberLock = r => request[r].step # "idle"

\* createAppAuthTenant has made one account the owner.
MembershipsInit ==
    /\ \E founder \in User :
         /\ role = [u \in User |-> IF u = founder THEN "owner" ELSE "none"]
         /\ account = [u \in User |-> IF u = founder THEN "active" ELSE "none"]
    /\ mirror = role /\ invited = [u \in User |-> "none"]
    /\ request = [r \in Request |-> NoRequest] /\ memberLock = Unheld
    /\ changes = 0 /\ memberFaults = 0 /\ skewed = {}

-----------------------------------------------------------------------------
\* Another owner whose account is not disabled.
OtherOwner(u) == \E v \in User \ {u} : role[v] = "owner" /\ account[v] = "active"

Starts(r, op, u, new) ==
    /\ request[r] = NoRequest /\ changes < MaxChanges /\ changes' = changes + 1
    /\ request' = [request EXCEPT ![r] =
           [op |-> op, user |-> u, role |-> new, before |-> "none", step |-> "lock"]]

Steps(r, step) == request' = [request EXCEPT ![r].step = step]
Ends(r) == request' = [request EXCEPT ![r] = NoRequest] /\ memberLock' = Unheld

\* inviteAppAuthMemberAs: a known account gets its membership, anyone else an
\* invitation; which it is, is asked before the lock.
Invite(r, u, new) ==
    /\ Starts(r, IF account[u] = "active" THEN "grant" ELSE "invite", u, new)
    /\ UNCHANGED <<account, role, mirror, invited, memberLock, memberFaults, skewed>>

\* handleGoogleCallback: the account, and claimAppAuthInvitations, which takes
\* the invitation before it grants it.
SignsIn(r, u) ==
    /\ account[u] \in {"none", "active"}
    /\ account' = [account EXCEPT ![u] = "active"]
    /\ IF invited[u] = "none" THEN UNCHANGED <<request, changes, invited>>
       ELSE Starts(r, "claim", u, invited[u]) /\ invited' = [invited EXCEPT ![u] = "none"]
    /\ UNCHANGED <<role, mirror, memberLock, memberFaults, skewed>>

Asks(r, u, op) ==
    /\ op \in {"remove", "cancel", "disable", "delete"} /\ Starts(r, op, u, "none")
    /\ UNCHANGED <<account, role, mirror, invited, memberLock, memberFaults, skewed>>

\* handleProjectAuthUser with disabled false.
EnableAccount(u) ==
    /\ memberLock = Unheld /\ account[u] = "disabled"
    /\ account' = [account EXCEPT ![u] = "active"]
    /\ UNCHANGED <<role, mirror, invited, request, memberLock, changes, memberFaults, skewed>>

\* lockAppAuthMembershipChanges.
Locks(r) ==
    /\ request[r].step = "lock" /\ memberLock = Unheld /\ memberLock' = r
    /\ Steps(r, "locked")
    /\ UNCHANGED <<account, role, mirror, invited, changes, memberFaults, skewed>>

Granting(r) == request[r].op \in {"grant", "claim"}

\* upsertAppAuthMembershipAs: the last active owner keeps the role.
MayGrant(r) == LET q == request[r] IN
    role[q.user] = "owner" /\ q.role # "owner" => OtherOwner(q.user)

\* A request that fails lets go of the lock; a claim then puts its invitation
\* back (restoreAppAuthInvitations).
Refused(r) ==
    IF request[r].op = "claim" THEN Steps(r, "reinvite") /\ memberLock' = Unheld
    ELSE Ends(r)

ReadsPrevious(r) ==
    /\ request[r].step = "locked" /\ Granting(r)
    /\ IF MayGrant(r)
       THEN /\ request' = [request EXCEPT ![r].before = role[request[r].user],
                                          ![r].step = "mirror"]
            /\ UNCHANGED memberLock
       ELSE Refused(r)
    /\ UNCHANGED <<account, role, mirror, invited, changes, memberFaults, skewed>>

Faults == memberFaults < MaxMemberFaults /\ memberFaults' = memberFaults + 1
NoFault == UNCHANGED memberFaults

\* syncAppAuthMembershipToTenant.
WritesMirror(r) ==
    /\ request[r].step = "mirror"
    /\ \/ /\ mirror' = [mirror EXCEPT ![request[r].user] = request[r].role]
          /\ Steps(r, "central") /\ UNCHANGED memberLock /\ NoFault
       \/ Faults /\ Refused(r) /\ UNCHANGED mirror
    /\ UNCHANGED <<account, role, invited, changes, skewed>>

\* Mutant: a failed central write leaves the mirror as it is.
WritesCentralOnly(r) ==
    LET u == request[r].user IN
    /\ request[r].step = "central"
    /\ \/ /\ account[u] # "deleted" /\ NoFault
          /\ role' = [role EXCEPT ![u] = request[r].role] /\ Ends(r)
       \/ /\ \/ account[u] = "deleted" /\ NoFault
             \/ Faults
          /\ Refused(r) /\ UNCHANGED role
    /\ UNCHANGED <<account, mirror, invited, changes, skewed>>

\* The central row.  An account deleted meanwhile fails its foreign key.
WritesCentral(r) ==
    LET u == request[r].user IN
    /\ request[r].step = "central"
    /\ \/ /\ account[u] # "deleted" /\ NoFault
          /\ role' = [role EXCEPT ![u] = request[r].role] /\ Ends(r)
       \/ /\ \/ account[u] = "deleted" /\ NoFault
             \/ Faults
          /\ Steps(r, "restore") /\ UNCHANGED <<role, memberLock>>
    /\ UNCHANGED <<account, mirror, invited, changes, skewed>>

\* The mirror goes back to the previous role, or the row is deleted.
RestoresMirror(r) ==
    /\ request[r].step = "restore" /\ Refused(r)
    /\ \/ /\ mirror' = [mirror EXCEPT ![request[r].user] = request[r].before]
          /\ NoFault /\ UNCHANGED skewed
       \/ Faults /\ skewed' = skewed \cup {request[r].user} /\ UNCHANGED mirror
    /\ UNCHANGED <<account, role, invited, changes>>

Reinvites(r) ==
    LET u == request[r].user IN
    /\ request[r].step = "reinvite" /\ request' = [request EXCEPT ![r] = NoRequest]
    /\ \/ /\ NoFault
          /\ invited' = [invited EXCEPT ![u] = IF @ = "none" THEN request[r].role ELSE @]
       \/ Faults /\ UNCHANGED invited
    /\ UNCHANGED <<account, role, mirror, memberLock, changes, skewed>>

-----------------------------------------------------------------------------
\* Mutant: any other owner will do, disabled or not.
MayLeaveToAny(u) == role[u] = "owner" => \E v \in User \ {u} : role[v] = "owner"

\* removeAppAuthMembership and ensureAppAuthUserCanBeDeactivated.
MayLeave(u) == role[u] = "owner" => OtherOwner(u)

RemovesCentral(r) ==
    LET u == request[r].user IN
    /\ request[r].step = "locked" /\ request[r].op \in {"remove", "delete"}
    /\ IF ~MayLeave(u) THEN Ends(r) /\ UNCHANGED <<role, account>>
       ELSE /\ role' = [role EXCEPT ![u] = "none"]
            /\ account' = IF request[r].op = "remove" THEN account
                          ELSE [account EXCEPT ![u] = "deleted"]
            /\ IF role[u] = "none" THEN Ends(r)
               ELSE Steps(r, "unmirror") /\ UNCHANGED memberLock
    /\ UNCHANGED <<mirror, invited, changes, memberFaults, skewed>>

\* deleteAppAuthTenantMember: the central rows are gone whether it works or not.
Unmirrors(r) ==
    /\ request[r].step = "unmirror" /\ Ends(r)
    /\ \/ mirror' = [mirror EXCEPT ![request[r].user] = "none"] /\ NoFault /\ UNCHANGED skewed
       \/ Faults /\ skewed' = skewed \cup {request[r].user} /\ UNCHANGED mirror
    /\ UNCHANGED <<account, role, invited, changes>>

Disables(r) ==
    LET u == request[r].user IN
    /\ request[r].step = "locked" /\ request[r].op = "disable" /\ Ends(r)
    /\ account' = IF account[u] = "active" /\ MayLeave(u)
                  THEN [account EXCEPT ![u] = "disabled"] ELSE account
    /\ UNCHANGED <<role, mirror, invited, changes, memberFaults, skewed>>

\* inviteAppAuthMemberAs under the lock, and deleteAppAuthInvitationAs.
SetsInvitation(r) ==
    /\ request[r].step = "locked" /\ request[r].op \in {"invite", "cancel"} /\ Ends(r)
    /\ invited' = [invited EXCEPT ![request[r].user] = request[r].role]
    /\ UNCHANGED <<account, role, mirror, changes, memberFaults, skewed>>

\* The runtime dies; its connection goes and the advisory lock with it.
RequestDies(r) ==
    /\ request[r].step # "idle" /\ Faults
    /\ request' = [request EXCEPT ![r] = NoRequest]
    /\ memberLock' = IF memberLock = r THEN Unheld ELSE memberLock
    /\ skewed' = IF request[r].step \in {"central", "restore", "unmirror"}
                 THEN skewed \cup {request[r].user} ELSE skewed
    /\ UNCHANGED <<account, role, mirror, invited, changes>>

MembershipsNext ==
    \/ \E r \in Request, u \in User :
         \/ \E new \in {"member", "owner"} : Invite(r, u, new)
         \/ \E op \in {"remove", "cancel", "disable", "delete"} : Asks(r, u, op)
         \/ SignsIn(r, u)
    \/ \E u \in User : EnableAccount(u)
    \/ \E r \in Request :
         \/ Locks(r) \/ ReadsPrevious(r) \/ WritesMirror(r) \/ WritesCentral(r)
         \/ RestoresMirror(r) \/ Reinvites(r) \/ RemovesCentral(r) \/ Unmirrors(r)
         \/ Disables(r) \/ SetsInvitation(r) \/ RequestDies(r)

-----------------------------------------------------------------------------
ActiveOwner == \E u \in User : role[u] = "owner" /\ account[u] = "active"

\* "A tenant must keep at least one owner": no order of removals, demotions,
\* disabled and deleted accounts leaves a tenant without an owner who can act.
OwnerKept == [][ActiveOwner => ActiveOwner']_memberVars

\* Whoever does not hold up the lock sees the same members in the registry and
\* in the tenant database, but for users a failed clean-up has left behind.
MirrorMatches == memberLock = Unheld => \A u \in User \ skewed : mirror[u] = role[u]

\* An invitation that a sign-in takes is granted, or it is there again.
InvitationNotLost ==
    [][\A r \in Request :
        request[r].op = "claim" /\ request'[r] = NoRequest /\ memberFaults' = memberFaults =>
          LET u == request[r].user IN
          role'[u] = request[r].role \/ invited'[u] # "none"]_memberVars
=============================================================================
