--------------------------- MODULE MCPaymentClaims ---------------------------
(* Two prices and two authorizations of one wallet, so that an order's     *)
(* owner pays again and a payment meets two orders.                        *)
EXTENDS PaymentClaims

CONSTANTS o1, p1, p2, alice, bob

MCPayerOf == [p \in Payments |-> IF p \in {p1, p2} THEN alice ELSE bob]
MCValidBefore == [p \in Payments |-> IF p = p1 THEN 2 ELSE 1]
MCChargedAfter == {o1}
=============================================================================
