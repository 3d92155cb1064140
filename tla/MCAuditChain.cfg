SPECIFICATION AuditSpec
CONSTANTS
    w1 = w1
    w2 = w2
    nobody = nobody
    nohead = nohead
    Writers <- MCWriters
    Actions = {"login", "withdraw"}
    Legacy <- MCLegacy
    MaxRows = 4
    MaxTampers = 2
    NoWriter = nobody
    NoHead = nohead
INVARIANTS
    ChainIsLinear
    VerdictIsTrue
PROPERTIES
    LogSpec
