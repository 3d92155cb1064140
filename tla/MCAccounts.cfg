CONSTANTS
    u1 = u1
    u2 = u2
    Users <- MCUsers
    Emails <- MCEmails
    Passwords <- MCPasswords
    MaxRequests = 3
    MaxOpen = 2
    MaxAttempts = 2
    Offered <- MCOffered
    NoUser = NoUser
    Gone = Gone
    None = None
    Processes = {p1, p2}
    Limit = 2
    LimitWindow = 2
    LockAt = 2
    LockWindow = 2
    MaxShift = 2
    MaxTime = 4
    MaxTries = 4
    MaxRestarts = 1
SPECIFICATION MCSpec
CHECK_DEADLOCK FALSE
INVARIANTS
    TokensAreCurrent
    CodesProve
PROPERTIES
    RemovalIsSafe
    LoginsThrottled
