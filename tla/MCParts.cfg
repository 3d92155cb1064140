SPECIFICATION MCSpec
CONSTANTS
    Sides = {"formats", "rpc", "fees", "ask", "export", "backfill", "codes", "list", "polling"}
    None = None
    Decimals = 2
    MaxInt = 1999
    BaseReserve = 50
    MaxOperations = 3
    MinFee = 2
    MaxWindow = 2
    SnippetMax = 4
    SlugMin = 2
    SlugMax = 3
    NameMin = 2
    NameMax = 3
    MinBaseFee = 100
    AddressLength = 3
    Order = 13
    HashBit <- MCHashBit
    MaxHardened = 4
    Callers = {}
    Threshold = 2
    ResetTimeout = 1
    MaxAttempts = 2
    Clients = {k1, k2}
    Offered = {"chain_id", "get_transaction_receipt", "call"}
    Readers = {r1, r2}
    FeeTtl = 3
    FetchTime = 2
    MaxClock = 8
    BatchSize = 2
    MaxRows = 3
    MaxAt = 2
    Statuses = {"pending", "confirmed"}
    MaxCreated = 3
    MaxDeposits = 4
    Modes <- MCModes
    Jobs = {j1}
    Unset = Unset
    KeyLength = 4
    JwtFloor = 2
    MainnetJwtLength = 4
    MinEntropy = 6400
    TokenLength = 2
    ByteRange = 4
    Marker = 9
    Handlers = {h1, h2}
    Transfers <- MCTransfers
    Destinations <- MCDestinations
    MaxCodes = 2
    CodeAttempts = 2
    Polled = {1, 2, 3}
    FanoutPage = 1
    Permits = 1
    PageRecords = 2
    MaxPages = 2
    MaxRecords = 3
    ActiveAfter = 1
    IdleEvery = 2
    DormantAfter = 3
    DormantEvery = 3
    PollRows <- MCPollRows
    PollStart = 5
    MaxBacklog = 4
    MaxPasses = 1
    MaxEvents = 1
    MaxPollFaults = 1
CHECK_DEADLOCK FALSE
INVARIANTS
    CodeSpentOnce
    ListDecides
    PassHolds
    ExportFaithful
    BackfillComplete
    AnswersHold
    CallsAreTrue
    AmountsRight
    FormatsRight
