SPECIFICATION Spec
CONSTANTS
    None = None
    Tenant = Tenant
    Idle = Idle
    Ids = {c1}
    MaxLag = 2
    MaxFaults = 1
    MaxTenants = 1
    StaysAvailable = TRUE
    ReportsAreLost = TRUE
    WipeMayFail = FALSE
    SameSecond = FALSE
    WithWiring = TRUE
    WithPublisher = TRUE
INVARIANT NetworkReadyIsCurrent
CHECK_DEADLOCK FALSE
