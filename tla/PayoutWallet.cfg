SPECIFICATION WalletSpec
CONSTANTS
    Wallets = {a, b, c}
    NoWallet = none
    Sessions = {s1, s2}
    WaitMs = 2
    LastInstant = 5
    MaxAsked = 4
SYMMETRY Symmetry
PROPERTIES
    ReplacedOnlyAsAnnounced
CHECK_DEADLOCK FALSE
