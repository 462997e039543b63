SPECIFICATION LiveSpec
CONSTANTS
    None = None
    Idle = Idle
    a = a
    b = b
    Admins = {a, b}
    Services = {}
    Lagging = {}
    Overlap = FALSE
    Bootstrapped = TRUE
    Deletable = {}
    Annotatable = {a}
    Repointable = {}
    PickyFirmware = FALSE
    MaxRetries = 2
    MaxSecrets = 6
    MaxRotations = 2
    MaxFaults = 1
PROPERTY RotationsEnd
CHECK_DEADLOCK FALSE
