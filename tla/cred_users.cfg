SPECIFICATION LiveSpec
CONSTANTS
    None = None
    Idle = Idle
    a = a
    b = b
    Admins = {a, b}
    Services = {s}
    Lagging = {"bmc"}
    Overlap = TRUE
    Bootstrapped = FALSE
    Deletable = {s}
    Annotatable = {}
    Repointable = {a}
    PickyFirmware = FALSE
    MaxRetries = 2
    MaxSecrets = 7
    MaxRotations = 0
    MaxFaults = 0
PROPERTY EffectiveFollows
CHECK_DEADLOCK FALSE
