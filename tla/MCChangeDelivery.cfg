SPECIFICATION Spec
CONSTANTS
    t1 = t1
    t2 = t2
    u = u
    TenantTable = {t1, t2}
    LandlordTable = {u}
    Reads = {t1, u}
    Caller = {}
    Cached = FALSE
    Changes <- EveryChange
    MaxCommits = 2
    Bounds <- OneCut
CHECK_DEADLOCK FALSE
INVARIANTS SubscriptionFresh
