CONSTANTS
    Wallets = {w1, w2}
    Txs = {t1, t2}
    w1 = w1
    w2 = w2
    t1 = t1
    t2 = t2
    Fee <- FeeMC
    InnerSeq <- InnerSeqMC
    Servers = {s1, s2}
    Budgets = {2, Off}
    NoLimit = NoLimit
    Off = Off
    Free = Free
    MaxDay = 1
    MaxSeq = 1
SPECIFICATION MCSpec
INVARIANTS
    ReservedWithinBudget
    BumpedOnce
PROPERTIES
    ReservationEnds
