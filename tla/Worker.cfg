SPECIFICATION LiveSpec
CONSTANTS
    first = first
    again = again
    event = event
    later = later
    price = price
    o1 = o1
    NoOrder = none
    NoDelivery = nobody
    Deliveries = {first, again, event, later, price}
    KindOf <- MCKindOf
    OrderOf <- MCOrderOf
    HandlersAtOnce = 3
    MaxBatch = 2
INVARIANTS
    OneHandlerPerOrder
    GivenUpStaysGivenUp
PROPERTIES
    StopEnds
CHECK_DEADLOCK FALSE
