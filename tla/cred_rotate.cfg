SPECIFICATION MCSpec
CONSTANTS
    None = None
    Idle = Idle
    a = a
    b = b
    Admins = {a, b}
    Services = {s}
    Lagging = {}
    Overlap = TRUE
    Bootstrapped = TRUE
    Deletable = {s}
    Annotatable = {}
    Repointable = {}
    PickyFirmware = TRUE
    MaxRetries = 1
    MaxSecrets = 6
    MaxRotations = 2
    MaxFaults = 1
INVARIANT AdminInv
INVARIANT DeletedAccountsGone
INVARIANT InFlightSecretsKept
PROPERTY PersistedFirst
PROPERTY RetryReusesSecret
CONSTRAINT OneWithService
SYMMETRY EitherAdmin
CHECK_DEADLOCK FALSE
