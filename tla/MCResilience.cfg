CONSTANTS
    Callers = {c1, c2, c3}
    Threshold = 2
    ResetTimeout = 2
    MaxAttempts = 3
SPECIFICATION FairSpec
INVARIANTS
    AtMostOneStray
PROPERTIES
    Recovers
