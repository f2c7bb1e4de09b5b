SPECIFICATION RSpec
CONSTANTS
    Proc = {p1, p2, p3, p4, p5}
    Tenant = {t1, t2, t3}
    Offered = {"reactive"}
    TotalPermits = 1
    BootstrapConfigured = 0
    AgingThreshold = 0
    MaxQueue = 2
    None = None
SYMMETRY RSymmetry
INVARIANTS QueueCoherent
PROPERTIES RotationFair TenantFifo
