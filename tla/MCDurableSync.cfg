SPECIFICATION Spec
CONSTANTS
    Collection = {"A", "B"}
    Table = {"a", "b"}
    Source <- MCSource
    Visibility <- MCVisibility
    Progressive = {}
    Large = {"B"}
    MaxRevision = 2
    FaultLimit <- MCFaultLimit
    MaxFaults = 1
    MaxFrames = 2
CHECK_DEADLOCK FALSE
INVARIANTS UpToDateIsComplete CursorsHonest
PROPERTIES Converges
