SPECIFICATION HooksFairSpec
CONSTANTS
    a = a
    b = b
    none = none
    Endpoints <- MCEndpoints
    Unsafe <- MCUnsafe
    MaxTasks = 3
    MaxOpen = 2
    Offered <- MCOffered
    MaxAttempts = 2
    Threshold = 2
    NoEndpoint = none
CHECK_DEADLOCK FALSE
INVARIANTS
    LogTellsRequests
    DisabledRightly
PROPERTIES
    SenderReturns
