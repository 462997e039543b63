SPECIFICATION FairSpec
CONSTANTS
    m1 = m1
    m2 = m2
    m3 = m3
    None = None
    Idle = Idle
    NoClaim = NoClaim
    Maintenances = {m1}
    Priority <- SamePriority
    Policy <- AllApproval
    CreatedAt <- InOrder
    KeyRank <- InOrder
    MaxLag = 1
    MaxFaults = 1
    MaxClaims = 1
    EarlyDelete = TRUE
    StaleDelete = TRUE
PROPERTY DeletionCompletes
CHECK_DEADLOCK FALSE
