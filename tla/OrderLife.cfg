SPECIFICATION LiveSpec
CONSTANTS
    QuoteResponseMs = 1
    QuoteTtlMs = 2
    SettleResponseMs = 1
    SyncResponseMs = 2
    AsyncFulfillmentMs = 3
    BaseDelayMs = 1
    Factor = 2
    MaxDelayMs = 2
    WindowMs = 3
    Modes = {"sync", "async", "ship"}
    MaxTime = 9
    MaxLateness = 1
    LastSale = 2
    MaxAttempts = 2
INVARIANTS
    NoMoneyViolation
    PaymentTellsTheTruth
    ChargeAnswerIsTaken
    OneReceiptPerSale
    PaidOrderIsNotForgotten
PROPERTIES
    LateGoodsAreNotCharged
    InProgressEnds
CHECK_DEADLOCK FALSE
