SPECIFICATION Spec
CONSTANTS
    m1 = m1
    m2 = m2
    m3 = m3
    None = None
    Idle = Idle
    NoClaim = NoClaim
    Maintenances = {m1, m2}
    Priority <- SecondFirst
    Policy <- FirstApproval
    CreatedAt <- InOrder
    KeyRank <- InOrder
    MaxLag = 2
    MaxFaults = 1
    MaxClaims = 0
    EarlyDelete = TRUE
    StaleDelete = TRUE
INVARIANT TypeOK
INVARIANT ActiveOwnsServer
INVARIANT OwnershipInv
INVARIANT RestingActiveIsParked
PROPERTY ImplementsParkLock
CHECK_DEADLOCK FALSE
