SPECIFICATION Spec
CONSTANTS
    Task = {"t1", "t2"}
    Link = {"l1"}
    Workspace = {"w", "v"}
    Arg = "w"
    ChosenTask = "t1"
    Kinds = {"list"}
    MaxChanges = 2
CHECK_DEADLOCK FALSE
INVARIANT NoMissedUpdate
