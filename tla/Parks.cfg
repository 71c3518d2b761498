SPECIFICATION Spec
CONSTANTS
    QuoteResponseMs = 1
    QuoteTtlMs = 2
    SettleResponseMs = 1
    SyncResponseMs = 1
    AsyncFulfillmentMs = 2
    BaseDelayMs = 1
    Factor = 2
    MaxDelayMs = 2
    WindowMs = 3
    Calls = {c1, c2}
    SyncBudgetMs = 2
    LastAct = 2
    MaxTime = 4
SYMMETRY CallSymmetry
INVARIANTS
    NobodySleepsOnAnAnswer
PROPERTIES
    UnderWayMeansCharging
CHECK_DEADLOCK FALSE
