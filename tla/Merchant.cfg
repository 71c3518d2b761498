SPECIFICATION MerchantSpec
CONSTANTS
    c1 = c1
    c2 = c2
    c3 = c3
    c4 = c4
    alice = alice
    bob = bob
    NoPayer = NoPayer
    Unbounded = Unbounded
    Callers = {c1, c2, c3, c4, c5, c6}
    PayerOf <- MCPayerOf
    AtOnce = 2
    PerSecond = 2
    WaitingAtMost = 3
    Wallets = {a, b, c}
    NoWallet = none
    Sessions = {s1, s2}
    WaitMs = 2
    LastInstant = 5
    MaxAsked = 4
SYMMETRY Symmetry
INVARIANTS
    LimitsHold
    NobodyWaitsForAFreePlace
    MoneyIsPaidOut
    InForceWasAnnounced
PROPERTIES
    PlacesGoInTurn
CHECK_DEADLOCK FALSE
