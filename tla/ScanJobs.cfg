SPECIFICATION ScanLiveSpec
CONSTANTS
    Checks = {1, 7, 12}
    DeadlineMs = 2
    ExpireMs = 3
    LostAfterMs = 5
INVARIANTS
    ScoreIsOfItsChecks
PROPERTIES
    ResultStands
    ScanEnds
