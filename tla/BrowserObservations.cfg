SPECIFICATION ObservationSpec
CONSTANTS
    Observations = {o1, o2}
    Workers = {w1, w2}
    MaxRunUsd = 1
    DailyBudgetUsd = 1
    MaxBillUsd = 2
    LastDay = 2
    MaxFaults = 1
SYMMETRY WorkerSymmetry
INVARIANTS
    BreakerCoversTheBill
    OverBudgetOnlyByTheBills
    OnePaidRun
CHECK_DEADLOCK FALSE
