SPECIFICATION SubscriptionsSpec
CONSTANTS
    Listener = {l1, l2}
    Values = {v1, v2}
    None = None
    Corrupt = Corrupt
    RetainSnapshot = FALSE
    Forms = {"patch", "result"}
    Notices = 2
    MaxCommits = 2
    MaxJoins = 2
    MaxLeaves = 0
    MaxExpiries = 1
    MaxDrops = 1
    MaxFailures = 0
CHECK_DEADLOCK FALSE
INVARIANTS OneRunner CommitsServed  ViewFresh
PROPERTIES EveryCommitReaches
