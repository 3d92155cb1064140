CONSTANTS
    Workers = {w1, w2}
    N = 3
    PageLimit = 2
    MaxAborts = 1
    MaxLostReplies = 1
SPECIFICATION FairSpec
INVARIANTS
    NoSkippedDeposit
    NotifiedAtMostOnce
PROPERTIES
    CatchesUp
