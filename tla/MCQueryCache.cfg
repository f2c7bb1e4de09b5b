SPECIFICATION FairSpec
CONSTANTS
    t1 = t1
    t2 = t2
    u = u
    TenantTable = {t1, t2}
    LandlordTable = {u}
    Reads = {t1}
    Caller = {c}
    Cached = TRUE
    Changes <- OneTable
    MaxCommits = 2
    Bounds <- CallOrClear
CHECK_DEADLOCK FALSE
INVARIANTS NoPreCommitHit LastingCacheFresh
PROPERTIES CommitReaches
