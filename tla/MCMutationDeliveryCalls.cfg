SPECIFICATION FairSpec
CONSTANTS
    N = 1
    Client = {c1}
    Source = {s1}
    Optimistic = {1}
    Queueable = {1}
    MaxConns = 2
    MaxFaults = 1
    Faults = {"reload", "restart", "failure", "sweep", "slow", "break"}
CHECK_DEADLOCK FALSE
PROPERTIES
    NoFlicker
    
