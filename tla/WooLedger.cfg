CONSTANTS
    HandOvers = {h1, h2}
    Presses = {p1, p2}
    MaxRevision = 2
    Processes = 2
    NoOrder = NoOrder
SPECIFICATION Spec
SYMMETRY Symmetry
CHECK_DEADLOCK FALSE
INVARIANTS OneCreatePerSale AnswersRestOnTheShop
