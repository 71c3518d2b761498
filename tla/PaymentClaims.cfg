SPECIFICATION LiveSpec
CONSTANTS
    o1 = o1
    p1 = p1
    p2 = p2
    alice = alice
    bob = bob
    Orders = {o1, o2}
    Payments = {p1, p2}
    Payers = {alice, bob}
    Requests = {r1, r2}
    Nobody = Nobody
    ChargedAfter <- MCChargedAfter
    PayerOf <- MCPayerOf
    ValidBefore <- MCValidBefore
    Asked = 1
    ClaimRetention = 1
    LastRequest = 2
    MaxTime = 4
INVARIANTS
    OnePaymentBuysOneOrder
    TakenPaymentIsKept
    ChargedPaymentWasChecked
    ReturnPaysForNothingElse
PROPERTIES
    UnkeptClaimGoes
CHECK_DEADLOCK FALSE
