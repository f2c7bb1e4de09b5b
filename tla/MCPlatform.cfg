SPECIFICATION Spec
CONSTANTS
    Project = {p1, p2, p3}
    Configured = {p1}
    Synced = {p2}
    MaxKeys = 2
    MaxProjectFaults = 1
    MaxEdits = 3
    MaxEnvFaults = 1
    Runtime = {r1}
    Tenant = {t1}
    Names = 2
    MaxTenantFaults = 1
    Client = {c1, c2}
    Admin = {a1, a2}
    MaxToggles = 2
    Tab = {t1, t2}
    MaxTokens = 3
    MaxLost = 1
    User = {u1, u2}
    Request = {q1, q2}
    MaxChanges = 4
    MaxMemberFaults = 1
    SignInRequest = {r1, r2}
    MaxWorkspaces = 3
    MaxWorkspaceFaults = 1
    Handler = {h1, h2}
    MaxInvitations = 4
INVARIANTS ControlPlaneSound  MembersSound
PROPERTIES  EveryoneAnswered
CHECK_DEADLOCK FALSE
