SPECIFICATION ChainLiveSpec
CONSTANTS
    ValidAfter = 0
    ValidBefore = 6
    NotBefore = 1
    BlocksPerPoll = 2
    MaxHeight = 6
    MaxGap = 2
INVARIANTS
    CursorNotPastTheUse
PROPERTIES
    VerdictIsReached
CHECK_DEADLOCK FALSE
