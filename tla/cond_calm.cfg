SPECIFICATION LiveSpec
CONSTANTS
    None = None
    Tenant = Tenant
    Idle = Idle
    Ids = {c1, c2, c3}
    MaxLag = 2
    MaxFaults = 1
    MaxTenants = 2
    StaysAvailable = TRUE
    ReportsAreLost = FALSE
    WipeMayFail = FALSE
    SameSecond = FALSE
    WithWiring = FALSE
    WithPublisher = FALSE
INVARIANT TenantFindsCleanDisks
PROPERTY ReleasedIsSanitized
PROPERTY ClaimsGo
CHECK_DEADLOCK FALSE
