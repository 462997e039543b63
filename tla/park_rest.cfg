SPECIFICATION FairSpec
CONSTANTS
    m1 = m1
    m2 = m2
    m3 = m3
    None = None
    Idle = Idle
    NoClaim = NoClaim
    Maintenances = {m1, m2, m3}
    Priority <- FirstFirst
    Policy <- FirstApproval
    CreatedAt <- InOrder
    KeyRank <- InOrder
    MaxLag = 1
    MaxFaults = 1
    MaxClaims = 0
    EarlyDelete = FALSE
    StaleDelete = FALSE
INVARIANT RestingPendingHasReason
PROPERTY EnforcedStarts
CHECK_DEADLOCK FALSE
