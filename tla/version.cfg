SPECIFICATION FairSpec
CONSTANTS
    None = None
    Idle = Idle
    v1 = v1
    v2 = v2
    Versions = {v1, v2}
    Installed = v1
    Wanted = v2
    LazyRestart = FALSE
    AtOnce = TRUE
    StaleObject = FALSE
    Gated = TRUE
    Cooldown = TRUE
    ChecksPending = TRUE
    FatalStarts = FALSE
    User = {"retry", "change", "delete"}
    MaxLag = 1
    MaxFaults = 2
    MaxUpgrades = 5
    MaxAttempts = 1
    MaxRequests = 1
INVARIANT VersionInv
PROPERTY CommandsUnderMaintenance
PROPERTY UpgradeUndisturbed
PROPERTY ReturnedReady
PROPERTY UpgradeEnds
CHECK_DEADLOCK FALSE
