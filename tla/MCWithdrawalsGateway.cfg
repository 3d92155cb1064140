CONSTANTS
    Txs = {t1, t2}
    t2 = t2
    Bounded = {t1}
    Servers = {s1}
    Sweepers = {r1}
    Grace = 0
    AbandonAfter = 2
    Batch = 1
    MaxUnlogged = 1
    NoTx = NoTx
SPECIFICATION MCSpec
PROPERTIES
    RelayFailureIsKnown
