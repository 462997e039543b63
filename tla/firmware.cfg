SPECIFICATION FairSpec
CONSTANTS
    None = None
    Idle = Idle
    s = s
    a = a
    b = b
    Servers = {s}
    Catalogs = {a, b}
    Installed = a
    Wanted = b
    Vendors = {"", "Dell", "HPE", "other"}
    Home = TRUE
    TTL = FALSE
    Deadline = TRUE
    Cooldown = TRUE
    Races = {}
    Reference = "status"
    Gated = FALSE
    User = {"retry", "change", "delete", "drift"}
    MaxLag = 1
    MaxFaults = 1
    MaxPasses = 2
    MaxJobs = 12
    MaxAttempts = 1
    MaxRequests = 1
INVARIANT TypeOK
PROPERTY DisturbedOnlyParked
PROPERTY UpdateUndisturbed
PROPERTY ReturnedDone
PROPERTY UpdateEnds
CHECK_DEADLOCK FALSE
