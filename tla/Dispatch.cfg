SPECIFICATION LiveSpec
CONSTANTS
    QuoteResponseMs = 1
    QuoteTtlMs = 2
    SettleResponseMs = 1
    SyncResponseMs = 3
    AsyncFulfillmentMs = 9
    BaseDelayMs = 1
    Factor = 2
    MaxDelayMs = 2
    WindowMs = 3
    Modes = {"sync", "async", "ship"}
    Polls = {p1, p2}
    HandlerAnswerMs = 1
    SettleInFlightRetryMs = 1
    SweepDispatchGraceMs = 1
    MaxHandOvers = 3
    MaxQueued = 4
    MaxFaults = 1
    LastAct = 2
    MaxTime = 3
INVARIANTS
    AddressIsNowhereAfterErasure
    HandOverIsNotForgotten
PROPERTIES
    EndedOrderIsNotHandedOut
    PaidOrderIsHandedOver
CHECK_DEADLOCK FALSE
