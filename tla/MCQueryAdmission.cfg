SPECIFICATION FairSpec
CONSTANTS
    Proc = {p1, p2, p3, p4}
    Tenant = {t1}
    Offered = {"reactive", "foreground", "bootstrap"}
    TotalPermits = 2
    BootstrapConfigured = 0
    AgingThreshold = 0
    MaxQueue = 1
    None = None
INVARIANTS PermitAccounting WorkConserving
PROPERTIES ClassRules NoClassStarves
