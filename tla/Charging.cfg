SPECIFICATION LiveSpec
CONSTANTS
    QuoteResponseMs = 1
    QuoteTtlMs = 2
    SettleResponseMs = 1
    SyncResponseMs = 1
    AsyncFulfillmentMs = 2
    BaseDelayMs = 1
    Factor = 2
    MaxDelayMs = 2
    WindowMs = 2
    Modes = {"sync", "async"}
    AuthLife = 2
    MaxPayments = 2
    MaxHandOvers = 1
    MaxFaults = 2
    LastAct = 1
    MaxTime = 5
INVARIANTS
    ChargedAtMostOnce
    BooksAgreeWithTheChain
PROPERTIES
    ChargeIsAccountedFor
    OrderDoesNotHang
CHECK_DEADLOCK FALSE
