SPECIFICATION Spec
CONSTANTS
    Ids <- MCIds
    ServerCustody <- MCServerCustody
    Registered <- MCRegistered
    Busy <- MCBusy
    Refs = {x1}
    NoRef = NoRef
    Keys = {k1}
    NoKey = NoKey
    Bodies = {b1, b2}
    Mixes <- MCMixes
    MaxRequests = 3
    MaxBatch = 2
    PageSize = 1
    Ranks <- MCRanks
    MaxExpiries = 1
    Nobody = Nobody
    Runs = {t1, t2}
    BatchSize = 1
    MaxRotations = 2
    MaxCrashes = 1
SYMMETRY MCSymmetry
CHECK_DEADLOCK FALSE
INVARIANTS
    GivenOnce
    KeyMakesOneLink
    WalkSeesAll
    RotationSafe
