--------------------------- MODULE OrderLifeProofs ---------------------------
(***************************************************************************)
(* Proofs about OrderLife, for every policy, clock bound and set of modes. *)
(***************************************************************************)
EXTENDS OrderLife, OrderMachineProofs

\* A paid order is closed by a merchant who knew, or shows when it was paid.
ClosureKnown ==
    order.state = "fulfillment_closed" /\ order.payment = "settled" =>
      order.paymentCompletedAt # Null \/ closedKnowing = TRUE

(* The inductive invariant: the accounts of the payment layer, of the      *)
(* receipts and of the closures, and the money of every state, which the   *)
(* accounts alone do not carry from step to step.                          *)
IInv ==
    /\ TypeOK
    /\ Consistent(order)
    /\ PaymentTellsTheTruth
    /\ OneReceiptPerSale
    /\ ClosureKnown

LEMMA InitIInv == Init => IInv
<1> SUFFICES ASSUME Init PROVE IInv
  OBVIOUS
<1>1. PICK mode \in Modes, priceCheck \in {"merchant", "card"} :
        order = CreateOrder(mode, priceCheck, 0).order
  BY DEF Init
<1>2. mode \in FulfillmentMode
  BY LifeAssumption
<1> DEFINE base == [state |-> "created", mode |-> mode, payment |-> "none",
                 attempts |-> 0, accepted |-> FALSE, heldFulfillment |-> FALSE,
                 closure |-> "none", closedAt |-> Null,
                 paymentCompletedAt |-> Null, createdAt |-> 0,
                 quotedAt |-> Null, paymentPresentedAt |-> Null,
                 settleStartedAt |-> Null, paidAt |-> Null,
                 dispatchedAt |-> Null, firstDispatchedAt |-> Null]
           quoted == [base EXCEPT !.state = "quoted", !.quotedAt = 0]
<1>3. order = base \/ order = quoted
  BY <1>1 DEF CreateOrder, Ok, Result
<1>4. base \in Order /\ base.state = "created" /\ base.payment = "none"
  BY <1>2 DEF Order, OrderState, PaymentStage, Closure, Instant, Null
<1>5. base.heldFulfillment = FALSE
  OBVIOUS
<1> HIDE DEF base
<1>6. quoted \in Order /\ quoted.state = "quoted" /\ quoted.payment = "none"
  BY <1>4, ZenonT(40) DEF Order, OrderState, Instant
<1>7. quoted.heldFulfillment = FALSE
  BY <1>4, <1>5 DEF Order
<1> HIDE DEF quoted
<1>8. /\ order \in Order /\ order.state \in {"created", "quoted"} /\ order.payment = "none"
      /\ order.heldFulfillment = FALSE
  BY <1>3, <1>4, <1>5, <1>6, <1>7
<1>9. Consistent(order)
  BY <1>8 DEF Consistent
<1>10. TypeOK
  BY <1>8 DEF Init, TypeOK
<1>11. PaymentTellsTheTruth /\ OneReceiptPerSale /\ ClosureKnown
  BY <1>8 DEF Init, PaymentTellsTheTruth, OneReceiptPerSale, PaymentUnresolved, ClosureKnown
<1> QED BY <1>9, <1>10, <1>11 DEF IInv

\* An event that reports no charge, or the answer of the one charge that is out.
LEMMA CarryStep ==
    ASSUME IInv, NEW e \in Event, NEW answered, NEW settled,
           Carry(Transition(order, e), answered, settled),
           closedKnowing' \in BOOLEAN,
           closedKnowing = TRUE => closedKnowing' = TRUE,
           e.kind = "close_called" /\ order.payment = "settled" /\ order' # order
             => closedKnowing' = TRUE,
           \/ /\ e.kind \notin {"payment_settled", "payment_settle_failed"}
              /\ answered = 0 /\ settled = 0
           \/ e.kind = "payment_settled" /\ answered = 1 /\ settled = 1 /\ inFlight > 0
           \/ e.kind = "payment_settle_failed" /\ answered = 1 /\ settled = 0 /\ inFlight > 0
    PROVE  IInv'
<1> DEFINE r == Transition(order, e)
<1>1. Step(order, e.kind, r) /\ r.code = "none"
  BY TransitionStep DEF IInv, TypeOK, Carry, IsOk
<1> HIDE DEF r
<1>2. /\ r.order \in Order /\ Consistent(r.order)
      /\ ChargeAccount(order, e.kind, r) /\ ReceiptAccount(order, r)
      /\ ClosureAccount(order, e.kind, r)
  BY <1>1 DEF Step
<1>3. /\ order' = r.order /\ now' = now
      /\ inFlight' = inFlight - answered
                     + (IF "execute_payment" \in r.effects THEN 1 ELSE 0)
      /\ taken' = taken + settled
      /\ receipts' = receipts + (IF "issue_receipt" \in r.effects THEN 1 ELSE 0)
      /\ erasures' = erasures + (IF "erase_ship_to" \in r.effects THEN 1 ELSE 0)
  BY DEF Carry, r
<1>4. /\ inFlight \in Nat /\ taken \in Nat /\ receipts \in Nat /\ erasures \in Nat
      /\ now \in Nat
  BY DEF IInv, TypeOK
<1>5. PaymentTellsTheTruth'
  <2>1. /\ inFlight = IF PaymentUnresolved(order) THEN 1 ELSE 0
        /\ taken = IF order.payment = "settled" THEN 1 ELSE 0
    BY DEF IInv, PaymentTellsTheTruth
  <2>2. CASE "execute_payment" \in r.effects
    BY <1>2, <1>3, <2>1, <2>2 DEF PaymentTellsTheTruth, ChargeAccount, PaymentUnresolved
  <2>3. CASE "execute_payment" \notin r.effects
    <3>1. CASE e.kind = "payment_settled"
      BY <1>2, <1>3, <2>1, <2>3, <3>1 DEF PaymentTellsTheTruth, ChargeAccount,
                                          PaymentUnresolved
    <3>2. CASE e.kind = "payment_settle_failed"
      BY <1>2, <1>3, <2>1, <2>3, <3>2 DEF PaymentTellsTheTruth, ChargeAccount,
                                          PaymentUnresolved
    <3>3. CASE e.kind \notin {"payment_settled", "payment_settle_failed"}
      <4>1. inFlight' = inFlight /\ taken' = taken
        BY <1>3, <1>4, <2>3, <3>3
      <4>2. /\ PaymentUnresolved(order') <=> PaymentUnresolved(order)
            /\ (order'.payment = "settled") <=> (order.payment = "settled")
        BY <1>2, <1>3, <2>3, <3>3 DEF ChargeAccount
      <4>3. inFlight' = IF PaymentUnresolved(order') THEN 1 ELSE 0
        BY <2>1, <4>1, <4>2
      <4>4. taken' = IF order'.payment = "settled" THEN 1 ELSE 0
        BY <2>1, <4>1, <4>2
      <4> QED BY <4>3, <4>4 DEF PaymentTellsTheTruth, PaymentUnresolved
    <3> QED BY <3>1, <3>2, <3>3
  <2> QED BY <2>2, <2>3
<1>6. OneReceiptPerSale'
  BY <1>2, <1>3 DEF IInv, OneReceiptPerSale, ReceiptAccount
<1>7. inFlight' \in Nat /\ taken' \in Nat /\ receipts' \in Nat
  BY <1>5, <1>6 DEF PaymentTellsTheTruth, OneReceiptPerSale
<1>8. erasures' \in Nat /\ now' \in Nat
  BY <1>3, <1>4
<1>9. order' \in Order /\ Consistent(order')
  BY <1>2, <1>3
<1>10. TypeOK'
  BY <1>7, <1>8, <1>9 DEF TypeOK
<1>11. ClosureKnown'
  <2> SUFFICES ASSUME order'.state = "fulfillment_closed", order'.payment = "settled",
                      closedKnowing' # TRUE
               PROVE  order'.paymentCompletedAt # Null
    BY DEF ClosureKnown
  <2>1. closedKnowing # TRUE
    OBVIOUS
  <2>2. CASE e.kind = "close_called"
    <3>1. order.payment = "settled"
      BY <1>2, <1>3, <2>2 DEF ChargeAccount
    <3>2. order' = order
      BY <2>2, <3>1
    <3> QED BY <2>1, <3>2 DEF IInv, ClosureKnown
  <2>3. CASE e.kind # "close_called"
    BY <1>2, <1>3, <2>1, <2>3 DEF ClosureAccount, IInv, ClosureKnown
  <2> QED BY <2>2, <2>3
<1> QED BY <1>5, <1>6, <1>9, <1>10, <1>11 DEF IInv

LEMMA AppliedStep ==
    ASSUME IInv, NEW kind \in EventKind, NEW detail \in Detail, Applied(kind, detail),
           kind \notin {"payment_settled", "payment_settle_failed", "close_called"}
    PROVE  IInv'
<1> DEFINE e == [kind |-> kind, at |-> now, detail |-> detail]
<1>1. e \in Event /\ e.kind = kind
  BY DEF Event, IInv, TypeOK
<1>2. Carry(Transition(order, e), 0, 0) /\ closedKnowing' = closedKnowing
      /\ closedKnowing \in BOOLEAN
  BY DEF Applied, Happens, IInv, TypeOK
<1> HIDE DEF e
<1> QED BY <1>1, <1>2, CarryStep

LEMMA NextIInv == IInv /\ [Next]_vars => IInv'
<1> SUFFICES ASSUME IInv, [Next]_vars PROVE IInv'
  OBVIOUS
<1>1. CASE QuoteAnswered
  <2>1. PICK answer \in QuoteAnswer : Applied("quote_answered", answer)
    BY <1>1 DEF QuoteAnswered
  <2> QED BY <2>1, AppliedStep DEF EventKind, Detail
<1>2. CASE QuoteSilent
  BY <1>2, AppliedStep DEF QuoteSilent, EventKind, Detail
<1>3. CASE BuyerPresents
  BY <1>3, AppliedStep DEF BuyerPresents, EventKind, Detail
<1>4. CASE BuyerVerified
  BY <1>4, AppliedStep DEF BuyerVerified, EventKind, Detail
<1>5. CASE BuyerRepeats
  BY <1>5, AppliedStep DEF BuyerRepeats, EventKind, Detail
<1>6. CASE ChargeSettled
  <2> DEFINE e == [kind |-> "payment_settled", at |-> now, detail |-> "none"]
  <2>1. e \in Event /\ e.kind = "payment_settled"
    BY DEF Event, EventKind, Detail, IInv, TypeOK
  <2>2. Carry(Transition(order, e), 1, 1) /\ inFlight > 0 /\ closedKnowing' = closedKnowing
        /\ closedKnowing \in BOOLEAN
    BY <1>6 DEF ChargeSettled, Happens, IInv, TypeOK
  <2> HIDE DEF e
  <2> QED BY <2>1, <2>2, CarryStep
<1>7. CASE ChargeFailed
  <2> DEFINE e == [kind |-> "payment_settle_failed", at |-> now, detail |-> "none"]
  <2>1. e \in Event /\ e.kind = "payment_settle_failed"
    BY DEF Event, EventKind, Detail, IInv, TypeOK
  <2>2. Carry(Transition(order, e), 1, 0) /\ inFlight > 0 /\ closedKnowing' = closedKnowing
        /\ closedKnowing \in BOOLEAN
    BY <1>7 DEF ChargeFailed, Happens, IInv, TypeOK
  <2> HIDE DEF e
  <2> QED BY <2>1, <2>2, CarryStep
<1>8. CASE Dispatched
  BY <1>8, AppliedStep DEF Dispatched, EventKind, Detail
<1>9. CASE Undelivered
  BY <1>9, AppliedStep DEF Undelivered, EventKind, Detail
<1>10. CASE HandlerAccepts
  BY <1>10, AppliedStep DEF HandlerAccepts, EventKind, Detail
<1>11. CASE HandlerDelivers
  <2>1. PICK goods \in Goods : Applied("handler_delivered", goods)
    BY <1>11 DEF HandlerDelivers
  <2> QED BY <2>1, AppliedStep DEF EventKind, Detail
<1>12. CASE HandlerRefuses
  BY <1>12, AppliedStep DEF HandlerRefuses, EventKind, Detail
<1>13. CASE DeliverCalled
  <2>1. PICK goods \in Goods : Applied("deliver_called", goods)
    BY <1>13 DEF DeliverCalled
  <2> QED BY <2>1, AppliedStep DEF EventKind, Detail
<1>14. CASE RefuseCalled
  BY <1>14, AppliedStep DEF RefuseCalled, EventKind, Detail
<1>15. CASE MerchantCloses
  <2> DEFINE e == [kind |-> "close_called", at |-> now, detail |-> "none"]
  <2>1. e \in Event /\ e.kind = "close_called"
    BY DEF Event, EventKind, Detail, IInv, TypeOK
  <2>2. Carry(Transition(order, e), 0, 0)
    BY <1>15 DEF MerchantCloses, Happens
  <2>3. closedKnowing' = (closedKnowing \/ (order.payment = "settled" /\ order' # order))
    BY <1>15 DEF MerchantCloses, Carry
  <2>4. /\ closedKnowing' \in BOOLEAN
        /\ closedKnowing = TRUE => closedKnowing' = TRUE
        /\ order.payment = "settled" /\ order' # order => closedKnowing' = TRUE
    BY <2>3, Zenon
  <2> HIDE DEF e
  <2> QED BY <2>1, <2>2, <2>4, CarryStep
<1>16. CASE TimerFires
  <2>1. PICK deadline \in DeadlineKind, at \in 0 .. now :
          /\ Carry(Transition(order, [kind |-> "deadline_expired", at |-> at,
                                      detail |-> deadline]), 0, 0)
          /\ UNCHANGED closedKnowing
    BY <1>16 DEF TimerFires
  <2> DEFINE e == [kind |-> "deadline_expired", at |-> at, detail |-> deadline]
  <2>2. e \in Event /\ e.kind = "deadline_expired"
    BY DEF Event, EventKind, Detail, IInv, TypeOK
  <2>3. Carry(Transition(order, e), 0, 0) /\ closedKnowing' = closedKnowing
        /\ closedKnowing \in BOOLEAN
    BY <2>1 DEF IInv, TypeOK
  <2> HIDE DEF e
  <2> QED BY <2>2, <2>3, CarryStep
<1>17. CASE Tick
  BY <1>17 DEF Tick, IInv, TypeOK, PaymentTellsTheTruth, OneReceiptPerSale,
       ClosureKnown
<1>18. CASE UNCHANGED vars
  BY <1>18 DEF vars, IInv, TypeOK, PaymentTellsTheTruth, OneReceiptPerSale,
       ClosureKnown
<1> QED BY <1>1, <1>2, <1>3, <1>4, <1>5, <1>6, <1>7, <1>8, <1>9, <1>10, <1>11,
           <1>12, <1>13, <1>14, <1>15, <1>16, <1>17, <1>18 DEF Next

(* Every reachable state is one the money rules of money.ts and the        *)
(* accounts hold in: the inductive invariant of the order's life.          *)
THEOREM OrderInvariant == Spec => []IInv
<1> QED BY InitIInv, NextIInv, PTL DEF Spec

(* Every event of machine.ts's union leaves a well-formed order, whatever  *)
(* the policy and however many events the order has seen.                  *)
THEOREM TypeCorrect == Spec => []TypeOK
<1>1. IInv => TypeOK
  BY DEF IInv
<1> QED BY <1>1, OrderInvariant, PTL

(* The runner's last check before a write, moneyInvariantViolations, never *)
(* finds anything: no sequence of events writes an impossible order.       *)
THEOREM MoneyRulesHold == Spec => []NoMoneyViolation
<1>1. IInv => NoMoneyViolation
  BY DEF IInv, TypeOK, Consistent, NoMoneyViolation, MoneyInvariant, Order, OrderState
<1> QED BY <1>1, OrderInvariant, PTL

(* The buyer is never charged twice and never charged unrecorded: a charge *)
(* is out exactly while the order says so, and taken exactly when settled. *)
THEOREM NobodyIsChargedTwice == Spec => []PaymentTellsTheTruth
<1>1. IInv => PaymentTellsTheTruth
  BY DEF IInv
<1> QED BY <1>1, OrderInvariant, PTL

(* A receipt is issued with the sale, exactly once per delivered order.    *)
THEOREM ReceiptWithTheSale == Spec => []OneReceiptPerSale
<1>1. IInv => OneReceiptPerSale
  BY DEF IInv
<1> QED BY <1>1, OrderInvariant, PTL

(* A charge may be answered long after the merchant closed the purchase or *)
(* a timer gave it up; the machine always takes the answer and records it. *)
THEOREM AnswersAreTaken == Spec => []ChargeAnswerIsTaken
<1>1. ASSUME IInv, inFlight > 0, NEW kind \in {"payment_settled", "payment_settle_failed"}
      PROVE  /\ IsOk(Happens(kind, "none"))
             /\ Happens(kind, "none").order.payment =
                  IF kind = "payment_settled" THEN "settled" ELSE "settle_failed"
  <2> DEFINE e == [kind |-> kind, at |-> now, detail |-> "none"]
  <2>1. e \in Event /\ e.kind = kind
    BY <1>1 DEF Event, EventKind, Detail, IInv, TypeOK
  <2>2. PaymentUnresolved(order) /\ order \in Order /\ Consistent(order)
    BY <1>1 DEF IInv, PaymentTellsTheTruth, TypeOK
  <2>3. Happens(kind, "none") = Transition(order, e)
    BY DEF Happens
  <2> HIDE DEF e
  <2> QED BY <2>1, <2>2, <2>3, AnswerIsTaken
<1>2. IInv => ChargeAnswerIsTaken
  BY <1>1 DEF ChargeAnswerIsTaken
<1> QED BY <1>2, OrderInvariant, PTL

(* Money that was taken leads somewhere: delivered goods, the merchant's   *)
(* open list, or a closure by a merchant who knew of the payment.          *)
THEOREM PaidIsRemembered == Spec => []PaidOrderIsNotForgotten
<1>1. IInv => PaidOrderIsNotForgotten
  <2> SUFFICES ASSUME IInv, taken > 0 PROVE PaidOrderIsNotForgotten
    BY DEF PaidOrderIsNotForgotten
  <2>1. order.payment = "settled"
    BY DEF IInv, PaymentTellsTheTruth
  <2>2. order.state \in {"paid", "dispatched", "delivered", "unfulfilled",
                         "fulfillment_closed"}
    BY <2>1 DEF IInv, TypeOK, Consistent, Order, OrderState
  <2>3. CASE order.state = "fulfillment_closed" /\ order.paymentCompletedAt = Null
    BY <2>1, <2>3 DEF IInv, ClosureKnown, PaidOrderIsNotForgotten
  <2>4. CASE order.state = "fulfillment_closed" /\ order.paymentCompletedAt # Null
    BY <2>1, <2>4 DEF PaidOrderIsNotForgotten, OnTheMerchantsOpenList, ListedAsOpen,
         PaidAfterClosure
  <2>5. CASE order.state # "fulfillment_closed"
    BY <2>2, <2>5 DEF PaidOrderIsNotForgotten, OnTheMerchantsOpenList, ListedAsOpen,
         IsOpen, OpenStates
  <2> QED BY <2>3, <2>4, <2>5
<1> QED BY <1>1, OrderInvariant, PTL

-----------------------------------------------------------------------------
(* The goods that start a charge *)

GoodsAreInTime ==
    order.state \in {"paid", "dispatched"} /\ order'.state = "fulfilled"
      => now < order.paidAt + SyncResponseMs

LEMMA CarriedInTime ==
    ASSUME IInv, NEW e \in Event, NEW answered, NEW settled,
           Carry(Transition(order, e), answered, settled),
           e.kind = "handler_delivered" => e.at = now
    PROVE  GoodsAreInTime
<1>1. Transition(order, e).code = "none" /\ order' = Transition(order, e).order
  BY DEF Carry, IsOk
<1>2. order \in Order /\ Consistent(order)
  BY DEF IInv, TypeOK
<1> QED BY <1>1, <1>2, GoodsInTime DEF GoodsAreInTime

\* An event of the model's clock: all of them but a timer's.
LEMMA HappensInTime ==
    ASSUME IInv, NEW kind \in EventKind, NEW detail \in Detail, NEW answered, NEW settled,
           Carry(Happens(kind, detail), answered, settled)
    PROVE  GoodsAreInTime
<1> DEFINE e == [kind |-> kind, at |-> now, detail |-> detail]
<1>1. e \in Event /\ e.at = now
  BY DEF Event, IInv, TypeOK
<1>2. Carry(Transition(order, e), answered, settled)
  BY DEF Happens
<1> HIDE DEF e
<1> QED BY <1>1, <1>2, CarriedInTime

LEMMA NextInTime == IInv /\ [Next]_vars => [GoodsAreInTime]_vars
<1> SUFFICES ASSUME IInv, Next PROVE GoodsAreInTime
  OBVIOUS
<1>1. ASSUME NEW kind \in EventKind, NEW detail \in Detail, Applied(kind, detail)
      PROVE  GoodsAreInTime
  BY <1>1, HappensInTime DEF Applied
<1>2. CASE QuoteAnswered \/ QuoteSilent \/ BuyerPresents \/ BuyerVerified \/ BuyerRepeats
  BY <1>1, <1>2 DEF QuoteAnswered, QuoteSilent, BuyerPresents, BuyerVerified, BuyerRepeats,
       EventKind, Detail
<1>3. CASE ChargeSettled \/ ChargeFailed
  BY <1>3, HappensInTime DEF ChargeSettled, ChargeFailed, EventKind, Detail
<1>4. CASE Dispatched \/ Undelivered \/ HandlerAccepts \/ HandlerRefuses \/ RefuseCalled
  BY <1>1, <1>4 DEF Dispatched, Undelivered, HandlerAccepts, HandlerRefuses, RefuseCalled,
       EventKind, Detail
<1>5. CASE HandlerDelivers \/ DeliverCalled
  BY <1>1, <1>5 DEF HandlerDelivers, DeliverCalled, EventKind, Detail
<1>6. CASE MerchantCloses
  BY <1>6, HappensInTime DEF MerchantCloses, EventKind, Detail
<1>7. CASE TimerFires
  <2>1. PICK deadline \in DeadlineKind, at \in 0 .. now :
          Carry(Transition(order, [kind |-> "deadline_expired", at |-> at,
                                   detail |-> deadline]), 0, 0)
    BY <1>7 DEF TimerFires
  <2> DEFINE e == [kind |-> "deadline_expired", at |-> at, detail |-> deadline]
  <2>2. e \in Event /\ e.kind = "deadline_expired"
    BY DEF Event, EventKind, Detail, IInv, TypeOK
  <2>3. Carry(Transition(order, e), 0, 0)
    BY <2>1
  <2> HIDE DEF e
  <2> QED BY <2>2, <2>3, CarriedInTime
<1>8. CASE Tick
  BY <1>8 DEF Tick, GoodsAreInTime
<1> QED BY <1>2, <1>3, <1>4, <1>5, <1>6, <1>7, <1>8 DEF Next

(* No purchase is settled for goods that came at or past its synchronous   *)
(* deadline, whichever of the goods and the timer came first.              *)
THEOREM LateGoodsAreFree == Spec => LateGoodsAreNotCharged
<1>1. Spec => [][GoodsAreInTime]_vars
  BY OrderInvariant, NextInTime, PTL DEF Spec
<1> QED BY <1>1 DEF LateGoodsAreNotCharged, GoodsAreInTime

=============================================================================
