------------------------------ MODULE OrderLife ------------------------------
(***************************************************************************)
(* One order under every interpreter that is allowed to drive it: a buyer, *)
(* a merchant, timers that fire early, late or twice, and a payment layer  *)
(* that answers a charge once, late or never.  The order only changes by   *)
(* Transition; the other variables record what its effects have set off.   *)
(***************************************************************************)
EXTENDS OrderMachine

CONSTANTS Modes,         \* the fulfillment modes an order is created in
          MaxTime,       \* bound: the last instant of the clock
          LastSale,      \* bound: the last instant a buyer or the price check acts at
          MaxLateness,   \* bound: how late a due timer is noticed
          MaxAttempts    \* bound: hand-overs of one order

ASSUME LifeAssumption ==
    /\ Modes \subseteq FulfillmentMode
    /\ MaxTime \in Nat /\ LastSale \in Nat /\ MaxAttempts \in Nat
    /\ MaxLateness \in Nat

VARIABLES
    now,            \* the clock
    order,          \* the stored order
    inFlight,       \* charges sent for execution and not answered
    taken,          \* charges the payment layer said went through
    receipts,       \* receipts issued
    erasures,       \* times the buyer's address was said to be erased
    closedKnowing   \* the merchant closed the order knowing it was paid

vars == <<now, order, inFlight, taken, receipts, erasures, closedKnowing>>

Init ==
    /\ now = 0
    /\ \E mode \in Modes, priceCheck \in {"merchant", "card"} :
         order = CreateOrder(mode, priceCheck, 0).order
    /\ inFlight = 0 /\ taken = 0 /\ receipts = 0 /\ erasures = 0
    /\ closedKnowing = FALSE

\* What a transition and its effects leave behind; `answered` charges reported
\* in with this event, `settled` of them as gone through.
Carry(result, answered, settled) ==
    /\ IsOk(result)
    /\ order' = result.order
    /\ inFlight' = inFlight - answered
                   + (IF "execute_payment" \in result.effects THEN 1 ELSE 0)
    /\ taken' = taken + settled
    /\ receipts' = receipts + (IF "issue_receipt" \in result.effects THEN 1 ELSE 0)
    /\ erasures' = erasures + (IF "erase_ship_to" \in result.effects THEN 1 ELSE 0)
    /\ now' = now

Happens(kind, detail) == Transition(order, [kind |-> kind, at |-> now, detail |-> detail])

Applied(kind, detail) ==
    Carry(Happens(kind, detail), 0, 0) /\ UNCHANGED closedKnowing

\* The price check answers, or is silent.
QuoteAnswered == now <= LastSale /\ \E answer \in QuoteAnswer : Applied("quote_answered", answer)
QuoteSilent == now <= LastSale /\ Applied("quote_silent", "none")

\* The buyer presents a payment, it verifies, or the purchase is repeated.
BuyerPresents == now <= LastSale /\ Applied("payment_presented", "none")
BuyerVerified == now <= LastSale /\ Applied("payment_verified", "none")
BuyerRepeats == now <= LastSale /\ Applied("purchase_repeated", "none")

\* The payment layer answers a charge it was sent.
ChargeSettled ==
    /\ inFlight > 0
    /\ Carry(Happens("payment_settled", "none"), 1, 1)
    /\ UNCHANGED closedKnowing
ChargeFailed ==
    /\ inFlight > 0
    /\ Carry(Happens("payment_settle_failed", "none"), 1, 0)
    /\ UNCHANGED closedKnowing

\* The gateway records a hand-over, or gives up waiting for its answer.
Dispatched == order.attempts < MaxAttempts /\ Applied("order_dispatched", "none")
Undelivered == Applied("handler_undelivered", "none")

\* The merchant's handler answers, or the merchant calls.
HandlerAccepts == Applied("handler_accepted", "none")
HandlerDelivers == \E goods \in Goods : Applied("handler_delivered", goods)
HandlerRefuses == Applied("handler_refused", "none")
DeliverCalled == \E goods \in Goods : Applied("deliver_called", goods)
RefuseCalled == Applied("refuse_called", "none")
MerchantCloses ==
    LET result == Happens("close_called", "none")
    IN  /\ Carry(result, 0, 0)
        /\ closedKnowing' = (closedKnowing \/ (order.payment = "settled"
                                               /\ result.order # order))

\* A timer fires for some deadline, claiming an instant that is not ahead.
TimerFires ==
    \E deadline \in DeadlineKind, at \in 0 .. now :
        /\ Carry(Transition(order, [kind |-> "deadline_expired", at |-> at,
                                    detail |-> deadline]), 0, 0)
        /\ UNCHANGED closedKnowing

Tick ==
    /\ now < MaxTime
    /\ \A d \in Deadlines(order) : now < d.at + MaxLateness
    /\ now' = now + 1
    /\ UNCHANGED <<order, inFlight, taken, receipts, erasures, closedKnowing>>

Next ==
    \/ QuoteAnswered \/ QuoteSilent
    \/ BuyerPresents \/ BuyerVerified \/ BuyerRepeats
    \/ ChargeSettled \/ ChargeFailed
    \/ Dispatched \/ Undelivered
    \/ HandlerAccepts \/ HandlerDelivers \/ HandlerRefuses
    \/ DeliverCalled \/ RefuseCalled \/ MerchantCloses
    \/ TimerFires
    \/ Tick

Spec == Init /\ [][Next]_vars

(* The clock moves and a due timer is noticed: the reminder queue delivers *)
(* at least once and the sweep asks again.  Nobody else owes the order a   *)
(* step.                                                                   *)
Fairness == WF_vars(Tick) /\ WF_vars(TimerFires /\ order' # order)
LiveSpec == Spec /\ Fairness

-----------------------------------------------------------------------------
(* Every variable has its type, on every event sequence.                   *)
TypeOK ==
    /\ now \in Nat
    /\ order \in Order
    /\ inFlight \in Nat /\ taken \in Nat /\ receipts \in Nat /\ erasures \in Nat
    /\ closedKnowing \in BOOLEAN

(* money.ts never has anything to report, so the runner's refusal to write *)
(* an impossible order (refuseToWriteAnImpossibleOrder) never fires.       *)
NoMoneyViolation == MoneyInvariant(order)

(* The recorded payment stage is what the payment layer knows: a charge is *)
(* out exactly while the order says its money is settling or unaccounted   *)
(* for, and money was taken exactly while it says settled.  No charge is   *)
(* sent beside an unanswered or a successful one.                          *)
PaymentTellsTheTruth ==
    /\ inFlight = IF PaymentUnresolved(order) THEN 1 ELSE 0
    /\ taken = IF order.payment = "settled" THEN 1 ELSE 0

(* However late a charge's answer is and whatever the merchant, the buyer  *)
(* and the timers did meanwhile, the machine takes it and records it.      *)
ChargeAnswerIsTaken ==
    inFlight > 0 =>
      /\ IsOk(Happens("payment_settled", "none"))
      /\ Happens("payment_settled", "none").order.payment = "settled"
      /\ IsOk(Happens("payment_settle_failed", "none"))
      /\ Happens("payment_settle_failed", "none").order.payment = "settle_failed"

(* The receipt goes out with the sale, once: an order has one exactly when *)
(* its goods were delivered and its money taken.                           *)
OneReceiptPerSale == receipts = IF order.state = "delivered" THEN 1 ELSE 0

(* A paid order is delivered, or on the merchant's open list, or was       *)
(* closed by a merchant who knew it was paid: a payment that completes     *)
(* after a closure brings the order back to the list.                      *)
PaidOrderIsNotForgotten ==
    taken > 0 => \/ order.state = "delivered"
                 \/ OnTheMerchantsOpenList(order) /\ ListedAsOpen(order)
                 \/ closedKnowing

(* Whether a synchronous buyer is charged does not hang on whether the     *)
(* goods or the timer came first: goods past the deadline are never        *)
(* settled by the purchase whose deadline it was.                          *)
LateGoodsAreNotCharged ==
    [][order.state \in {"paid", "dispatched"} /\ order'.state = "fulfilled"
         => now < order.paidAt + SyncResponseMs]_vars

(* No buyer reads `in progress` for ever while a clock runs: every order   *)
(* whose payment is not being verified comes to an outcome by its timers   *)
(* alone, with the merchant and the payment layer silent.                  *)
InProgressEnds ==
    (OutcomeFor(order) = "in_progress" /\ Deadlines(order) # {})
      ~> \/ OutcomeFor(order) # "in_progress"
         \/ order.state = "quoted" /\ order.paymentPresentedAt # Null
=============================================================================
