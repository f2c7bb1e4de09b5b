SPECIFICATION Spec
CONSTANTS
    N = 1
    Client = {c1, c2}
    Source = {}
    Optimistic = {}
    Queueable = {1}
    MaxConns = 1
    MaxFaults = 1
    Faults = {"reload", "restart", "failure", "sweep", "slow"}
CHECK_DEADLOCK FALSE
SYMMETRY Symmetry
INVARIANTS ToldIsTrue
PROPERTIES ExactlyOnce
