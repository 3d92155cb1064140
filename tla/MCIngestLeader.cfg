CONSTANTS
    Replicas = {r1, r2}
    MaxPages = 2
    MaxFaults = 1
    Nobody = Nobody
SPECIFICATION LeaderFairSpec
INVARIANTS
    MarkHasStream
PROPERTIES
    LeaderMovesOn
