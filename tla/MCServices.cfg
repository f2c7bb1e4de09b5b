SPECIFICATION Spec
CONSTANTS
    MaxReports = 3
    Fingerprint <- MCFingerprint
    ReleaseOf <- MCReleaseOf
    Flight = {"f1", "f2"}
    BatchSize = 2
    QueueSize = 2
    MaxEvents = 2
    PageSize = 1
    MaxFaults = 1
    MaxTriages = 1
    Recorder = {"a", "b"}
    KindOf <- MCKindOf
    RingSize = 2
    WriteQueue = 1
    StreamSize = 1
    MaxRestarts = 1
    MaxWriteFails = 1
    OpKey = {"k1", "k2", "k3"}
    Cooldown = 2
    AlertQueue = 1
    KeyLimit = 2
    MaxTime = 3
    MaxObservations = 4
    EphKey = {"e1", "e2"}
    EphCaller = {"w1", "w2"}
    Ttl = {1, 2}
    MaxTicks = 2
    Signals = {1, 2}
    Computeds = {3, 4}
    Effects = {5}
    Watched = {3, 4}
    Formula <- MCFormula
    Target <- MCTarget
    MaxRuns = 2
    MaxThrows = 1
    Task = {"t1", "t2"}
    Link = {"l1"}
    Workspace = {"w", "v"}
    Arg = "w"
    ChosenTask = "t1"
    Kinds = {"list", "window", "one", "joined", "board"}
    MaxChanges = 2
    RowSet <- MCRows
    Odd = {3}
    MaxLength = 3
    MaxPair = 2
    Property = {"next"}
    Member = {"u1", "u2"}
    VisKey = {"a", "b"}
    ResultRow = {1}
    MaxVisChanges = 3
    MaxVisFails = 1
    Runtime = {r1, r2}
    Landlord = landlord
    OldTenant = {t1}
    NewTenant = {t2}
    Bundle = {1, 2, 3}
    Offered = {2, 3}
    Migs <- BundleMigs
    Schema <- BundleSchema
    MaxDeploys = 2
    MaxDeployFaults = 1
INVARIANTS InboxSound  LiveStateShown ResultsArrive
PROPERTY RolloutSafe
CHECK_DEADLOCK FALSE
