CONSTANTS
    Intents = {i1, i2}
    LinkAddress = LinkAddress
    Deposits = {d1, d2, d3}
    Transfer <- TransferMC
    Amounts = {1, 2}
    Flexible = Flexible
    NoIntent = NoIntent
    NoDeposit = NoDeposit
    i1 = i1
    d1 = d1
    d2 = d2
SPECIFICATION FairSpec
INVARIANTS
    OneVerdict
    SettledByItsDeposit
PROPERTIES
    IntentsEnd
