SPECIFICATION Spec
CONSTANTS
    MaxWorkers = 3
    Request = {"h", "s"}
    Socket = {"s"}
    MaxCrashes = 1
    MaxRecycles = 1
    Limit = 2
    Caller = {"c1", "c2", "c3", "c4"}
    Pool = {"p", "q", "r"}
    Needs <- MCNeeds
    Asker = {"x", "y", "z"}
    Url = {"u", "v"}
    MaxPools = 4
    MaxOpenFails = 1
    ListenTenant = {"t", "t2"}
    Route = {"a", "b"}
    Group = {"g", "h"}
    Sync = {"s"}
    TenantOf <- MCTenantOf
    ListenerLimit = 1
    MaxListeners = 3
    MaxReroutes = 1
    MaxBreaks = 1
    newRuntime = newRuntime
    oldRuntime = oldRuntime
    jobA = jobA
    cronA = cronA
    Runtime = {newRuntime, oldRuntime}
    Legacy = {oldRuntime}
    OneShot = {jobA}
    Cron = {cronA}
    Interval = 2
    Offset <- Staggered
    Due <- AtOnce
    Mixed0 <- OldCron
    BatchLimit = 1
    MaxConcurrent = 1
    Horizon = 1
    FaultKinds = {"crash", "stop", "stall", "error"}
    MaxJobFaults = 1
    NoToken = NoToken
INVARIANTS BudgetSound PoolsSound ListenersKept ExecutionsFenced
PROPERTIES StopsInOrder NeverAgain EveryoneServed
CHECK_DEADLOCK FALSE
