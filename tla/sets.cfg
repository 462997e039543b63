SPECIFICATION FairSpec
CONSTANTS
    None = None
    Idle = Idle
    u = u
    v = v
    a = a
    b = b
    Targets = {u}
    Relabelled = {u}
    Templates = {a, b}
    First = a
    Kinds = {"BMCVersionSet","BMCSettingsSet","FirmwareUpdateSet"}
    TTL = TRUE
    User = {"label", "template", "annotate", "delete"}
    Annotations = {"", "retry-child", "ignore-child"}
    Races = {}
    MaxLag = 1
    MaxFaults = 1
    MaxRequests = 1
INVARIANT TypeOK
PROPERTY ChildrenUndisturbed
PROPERTY DeletedWhenDone
PROPERTY RetriedOnce
PROPERTY Converges
CHECK_DEADLOCK FALSE
