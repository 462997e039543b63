SPECIFICATION FairSpec
CONSTANTS
    None = None
    Idle = Idle
    s1 = s1
    s2 = s2
    v1 = v1
    v2 = v2
    a = a
    b = b
    c = c
    Kinds = {"BMCVersion", "BIOSSettings", "BMCSettings"}
    Servers = {s1, s2}
    Versions = {v1, v2}
    InstalledVersion = v1
    WantedVersion = v2
    AtOnce = TRUE
    MaxUpgrades = 5
    VersionRaces = {"earlyDelete"}
    VersionFaults = 2
    Groups = 2
    Values = {a, b, c}
    Installed <- AllInstalled
    Wanted <- TwoGroups
    Invalid = {c}
    Cooldown = TRUE
    BIOSFlows <- FewerGroups
    NoReboot = {2}
    LazyRestart = FALSE
    BIOSRaces = {"lostGate", "earlyDelete"}
    BMCFlows <- RefusedGroup
    NoReset = {2}
    Tagged = {2}
    SharedURI = FALSE
    BMCRaces = {}
    Races = {}
    Reference = "spec"
    Gated = TRUE
    User = {"retry", "change", "delete", "drift"}
    MaxLag = 1
    MaxFaults = 1
    MaxAttempts = 1
    MaxRequests = 1
INVARIANT ResourceInv
PROPERTY DisturbedOnlyParked
PROPERTY UpgradeUndisturbed
PROPERTY AppliedInOrder
PROPERTY ReturnedReady
PROPERTY ResourcesEnd
CHECK_DEADLOCK FALSE
