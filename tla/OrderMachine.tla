---------------------------- MODULE OrderMachine ----------------------------
(***************************************************************************)
(* The order state machine of packages/core/src/orders: a pure function    *)
(* from an order and an event to a new order and a list of effects, or a   *)
(* refusal.  One operator per function of machine.ts, deadlines.ts,        *)
(* redelivery.ts, create.ts, outcome.ts and money.ts; no variables.        *)
(*                                                                         *)
(* Data left out: prices, ids, wording, test flag, the merchant's refusal  *)
(* code and messages.  A null timestamp is Null.                           *)
(***************************************************************************)
EXTENDS Integers

CONSTANTS
    QuoteResponseMs,     \* policy.deadlines, one instant of the model's clock
    QuoteTtlMs,          \* per unit
    SettleResponseMs,
    SyncResponseMs,
    AsyncFulfillmentMs,
    BaseDelayMs,         \* policy.redelivery
    Factor,
    MaxDelayMs,
    WindowMs

ASSUME PolicyAssumption ==
    /\ QuoteResponseMs \in Nat \ {0} /\ QuoteTtlMs \in Nat \ {0}
    /\ SettleResponseMs \in Nat \ {0}
    /\ SyncResponseMs \in Nat \ {0} /\ AsyncFulfillmentMs \in Nat \ {0}
    /\ BaseDelayMs \in Nat \ {0} /\ Factor \in Nat \ {0}
    /\ MaxDelayMs \in Nat \ {0} /\ WindowMs \in Nat \ {0}

Null == -1
Instant == Nat \cup {Null}

-----------------------------------------------------------------------------
(* model.ts: the vocabulary *)

OrderState == {"created", "quoted", "paid", "dispatched", "fulfilled",
               "delivered", "delivered_unpaid", "unfulfilled",
               "fulfillment_closed", "failed", "rejected", "expired"}
OpenStates == {"created", "quoted", "paid", "dispatched", "fulfilled",
               "unfulfilled", "delivered_unpaid"}
PaymentStage == {"none", "verified", "settling", "outcome_unknown",
                 "settled", "settle_failed"}
FulfillmentMode == {"sync", "async", "ship"}
DeadlineKind == {"quote_response", "quote_expiry", "settle_response",
                 "sync_response", "async_fulfillment"}

\* A closure's cause; one that names a deadline is that deadline.
Closure == {"none", "unavailable", "quote_silent", "payment_not_verified",
            "payment_not_settled", "payment_outcome_unknown",
            "merchant_refused"} \cup DeadlineKind

Order == [state : OrderState, mode : FulfillmentMode, payment : PaymentStage,
          attempts : Nat, accepted : BOOLEAN, heldFulfillment : BOOLEAN,
          closure : Closure,
          closedAt : Instant,            \* merchantClosure.at
          paymentCompletedAt : Instant,  \* merchantClosure.paymentCompletedAt
          createdAt : Nat, quotedAt : Instant, paymentPresentedAt : Instant,
          settleStartedAt : Instant, paidAt : Instant,
          dispatchedAt : Instant, firstDispatchedAt : Instant]

(* An event carries its instant and at most one more word: the deadline    *)
(* that expired, what the price check answered, or whether a repeated      *)
(* delivery carries the goods the order already has.                       *)
QuoteAnswer == {"available", "unavailable", "other_currency"}
Goods == {"same_goods", "other_goods"}
Detail == {"none"} \cup DeadlineKind \cup QuoteAnswer \cup Goods
EventKind == {"quote_answered", "quote_silent", "payment_presented",
              "payment_verified", "payment_settled", "payment_settle_failed",
              "purchase_repeated", "order_dispatched", "handler_accepted",
              "handler_delivered", "handler_refused", "handler_undelivered",
              "deliver_called", "refuse_called", "close_called",
              "deadline_expired"}
Event == [kind : EventKind, at : Nat, detail : Detail]

Effect == {"request_quote", "verify_payment", "execute_payment",
           "dispatch_order", "redeliver_order", "release_goods_to_agent",
           "issue_receipt", "hold_fulfillment", "mark_unfulfilled",
           "emit_unfulfilled", "emit_payment_failed_after_delivery",
           "withdraw_hand_overs", "erase_ship_to"}

\* The word the merchant is answered with, and the refusals of an event.
Answer == {"none", "accepted", "delivered", "delivered_late", "refused",
           "already_delivered", "already_delivered_other_goods",
           "purchase_already_closed", "not_applicable_in_mode",
           "order_already_closed", "fulfillment_complete",
           "fulfillment_closed", "nothing_to_close"}
RejectionCode == {"event_not_applicable", "deadline_not_armed",
                  "deadline_not_yet_due", "settle_in_flight",
                  "currency_changed"}

IsOpen(state) == state \in OpenStates
AfterFulfillment(order) == order.mode = "sync"
IsParcel(order) == order.mode = "ship"

EndedWithNothingHeld(order) ==
    \/ order.state \in {"failed", "rejected"}
    \/ order.state = "expired" /\ ~order.heldFulfillment

HoldsShipTo(order) ==
    /\ IsParcel(order)
    /\ order.payment # "none"
    /\ IsOpen(order.state) /\ order.state # "unfulfilled"
    /\ ~order.accepted

-----------------------------------------------------------------------------
(* The answers of machine.ts.  `delay` is the pause of a redeliver_order.  *)

Result(order, effects, answer, delay) ==
    [order |-> order, effects |-> effects, answer |-> answer, delay |-> delay,
     code |-> "none"]
Ok(order, effects) == Result(order, effects, "none", 0)
AnswerMerchant(order, answer) == Result(order, {}, answer, 0)
Reject(order, code) ==
    [order |-> order, effects |-> {}, answer |-> "none", delay |-> 0,
     code |-> code]
IsOk(result) == result.code = "none"
\* The same result with other effects, or another answer.
With(result, effects, answer) ==
    [order |-> result.order, effects |-> effects, answer |-> answer,
     delay |-> result.delay, code |-> result.code]
NotApplicable(order) == Reject(order, "event_not_applicable")
NotInThisMode(order) == AnswerMerchant(order, "not_applicable_in_mode")
ClosedToMerchant(order) == AnswerMerchant(order, "order_already_closed")
\* Mutant: a repeated delivery issues the receipt again.
RepeatedDeliveryWithReceipt(order, event) ==
    Result(order, {"issue_receipt"}, "already_delivered", 0)

RepeatedDelivery(order, event) ==
    AnswerMerchant(order, IF event.detail = "other_goods"
                          THEN "already_delivered_other_goods"
                          ELSE "already_delivered")

-----------------------------------------------------------------------------
(* deadlines.ts and redelivery.ts: the clocks running on an order, a set   *)
(* of at most one deadline.                                                *)

FulfillmentDeadline(order) ==
    IF order.paidAt = Null THEN {}
    ELSE IF AfterFulfillment(order)
         THEN {[kind |-> "sync_response", at |-> order.paidAt + SyncResponseMs]}
         ELSE {[kind |-> "async_fulfillment",
                at |-> order.paidAt + AsyncFulfillmentMs]}

\* Mutant: recording the hand-over drops the fulfillment clock.
DeadlinesNotWhileDispatched(order) ==
    IF order.payment = "settling"
    THEN {[kind |-> "settle_response",
           at |-> order.settleStartedAt + SettleResponseMs]}
    ELSE IF order.state = "paid" THEN FulfillmentDeadline(order)
    ELSE IF order.state = "created"
    THEN {[kind |-> "quote_response", at |-> order.createdAt + QuoteResponseMs]}
    ELSE IF order.state = "quoted" /\ order.paymentPresentedAt = Null
    THEN {[kind |-> "quote_expiry", at |-> order.quotedAt + QuoteTtlMs]} ELSE {}

Deadlines(order) ==
    IF order.payment = "settling"
    THEN {[kind |-> "settle_response",
           at |-> IF order.settleStartedAt = Null THEN order.createdAt
                  ELSE order.settleStartedAt + SettleResponseMs]}
    ELSE CASE order.state = "created" ->
                {[kind |-> "quote_response",
                  at |-> order.createdAt + QuoteResponseMs]}
           [] order.state = "quoted" ->
                IF order.payment = "none" /\ order.paymentPresentedAt = Null
                   /\ order.quotedAt # Null
                THEN {[kind |-> "quote_expiry", at |-> order.quotedAt + QuoteTtlMs]}
                ELSE {}
           [] order.state \in {"paid", "dispatched"} -> FulfillmentDeadline(order)
           [] OTHER -> {}

\* The pause before the delivery that follows `attempts` of them.
RedeliveryDelay(attempts) ==
    LET growth == BaseDelayMs * Factor ^ (IF attempts > 1 THEN attempts - 1 ELSE 0)
    IN  IF growth \in 0 .. MaxDelayMs THEN growth ELSE MaxDelayMs

\* Whether an undelivered order is delivered again.
NextRedelivery(order, now) ==
    LET next == now + RedeliveryDelay(order.attempts)
    IN  /\ \A deadline \in FulfillmentDeadline(order) : next < deadline.at
        /\ order.firstDispatchedAt # Null
        /\ next < order.firstDispatchedAt + WindowMs

-----------------------------------------------------------------------------
(* The moves several states share *)

PaymentUnresolved(order) == order.payment \in {"settling", "outcome_unknown"}

EnterQuoted(order, at) ==
    Ok([order EXCEPT !.state = "quoted", !.quotedAt = at], {"verify_payment"})

CloseWithoutMoney(order, state, closure) ==
    [order EXCEPT !.state = state, !.closure = closure]

OnQuoteSilence(order, at) ==
    IF AfterFulfillment(order) THEN EnterQuoted(order, at)
    ELSE Ok(CloseWithoutMoney(order, "rejected", "quote_silent"), {})

StartSettle(order, at, state) ==
    Ok([order EXCEPT !.state = state, !.payment = "settling",
                     !.settleStartedAt = at], {"execute_payment"})

EnterPaid(order, at, payment) ==
    Ok([order EXCEPT !.state = "paid", !.payment = payment, !.attempts = 0,
                     !.accepted = FALSE, !.paidAt = at], {"dispatch_order"})

\* Mutant: the money is not looked at.
ResolveFulfillmentFailureBlind(order, closure) ==
    Ok(CloseWithoutMoney(order, IF closure = "merchant_refused"
                                THEN "failed" ELSE "expired", closure), {})

ResolveFulfillmentFailure(order, closure) ==
    IF order.payment = "settled"
    THEN Ok([order EXCEPT !.state = "unfulfilled", !.closure = closure],
            {"mark_unfulfilled", "emit_unfulfilled"})
    ELSE Ok(CloseWithoutMoney(order, IF closure = "merchant_refused"
                                     THEN "failed" ELSE "expired", closure), {})

DeliverGoods(order, at) ==
    IF AfterFulfillment(order) THEN StartSettle(order, at, "fulfilled")
    ELSE Ok([order EXCEPT !.state = "delivered", !.closure = "none"],
            {"release_goods_to_agent", "issue_receipt"})

Redeliver(order, at) ==
    IF NextRedelivery(order, at)
    THEN Result(order, {"redeliver_order"}, "none", RedeliveryDelay(order.attempts))
    ELSE IF FulfillmentDeadline(order) # {} THEN Ok(order, {})
    ELSE ResolveFulfillmentFailure(order,
            IF AfterFulfillment(order) THEN "sync_response" ELSE "async_fulfillment")

-----------------------------------------------------------------------------
(* Deadlines *)

\* The execution of the payment never reported back.
OnSilentSettle(order) ==
    LET silent == [order EXCEPT !.payment = "outcome_unknown"]
    IN  CASE order.state \in {"fulfillment_closed", "delivered_unpaid"} ->
               Ok(silent, {})
          [] order.state = "fulfilled" ->
               Ok([silent EXCEPT !.state = "delivered_unpaid", !.closure = "none"],
                  {"emit_payment_failed_after_delivery"})
          [] OTHER ->
               Ok(CloseWithoutMoney(silent, "rejected", "payment_outcome_unknown"), {})

OnDeadline(order, event) ==
    LET armed == {d \in Deadlines(order) : d.kind = event.detail}
    IN  IF armed = {} THEN Reject(order, "deadline_not_armed")
        ELSE IF \E d \in armed : event.at < d.at
             THEN Reject(order, "deadline_not_yet_due")
        ELSE CASE event.detail = "quote_response" -> OnQuoteSilence(order, event.at)
               [] event.detail = "quote_expiry" ->
                    Ok(CloseWithoutMoney(order, "expired", "quote_expiry"), {})
               [] event.detail = "settle_response" -> OnSilentSettle(order)
               [] OTHER -> ResolveFulfillmentFailure(order, event.detail)

-----------------------------------------------------------------------------
(* The states.  An event a state does not list has no meaning there.       *)

FromCreated(order, event) ==
    CASE event.kind = "quote_answered" ->
           CASE event.detail = "unavailable" ->
                  Ok(CloseWithoutMoney(order, "rejected", "unavailable"), {})
             [] event.detail = "other_currency" -> Reject(order, "currency_changed")
             [] OTHER -> EnterQuoted(order, event.at)
      [] event.kind = "quote_silent" -> OnQuoteSilence(order, event.at)
      [] event.kind = "purchase_repeated" -> Ok(order, {})
      [] OTHER -> NotApplicable(order)

FromQuoted(order, event) ==
    CASE event.kind = "payment_verified" ->
           IF AfterFulfillment(order) THEN EnterPaid(order, event.at, "verified")
           ELSE StartSettle(order, event.at, order.state)
      [] event.kind = "payment_settled" /\ order.payment = "settling" ->
           EnterPaid(order, event.at, "settled")
      [] event.kind = "payment_settle_failed" /\ order.payment = "settling" ->
           Ok([order EXCEPT !.state = "rejected", !.closure = "payment_not_settled",
                            !.payment = "settle_failed"], {})
      [] event.kind = "purchase_repeated" -> Ok(order, {})
      [] OTHER -> NotApplicable(order)

\* Goods arriving now are the late end of a fulfillment the order waited for.
AwaitedLateGoods(order) ==
    AfterFulfillment(order) /\ order.closure = "sync_response"

FromExpired(order, event) ==
    CASE event.kind = "handler_delivered" /\ AwaitedLateGoods(order) ->
           Result([order EXCEPT !.heldFulfillment = TRUE],
                  IF order.heldFulfillment THEN {} ELSE {"hold_fulfillment"},
                  "purchase_already_closed", 0)
      [] event.kind = "purchase_repeated" ->
           IF order.heldFulfillment
           THEN Ok([order EXCEPT !.payment = "none"], {"verify_payment"})
           ELSE Ok(order, {})
      [] event.kind = "payment_verified" /\ order.heldFulfillment
         /\ order.payment = "none" -> StartSettle(order, event.at, "fulfilled")
      [] event.kind \in {"deliver_called", "refuse_called"} -> ClosedToMerchant(order)
      [] OTHER -> NotApplicable(order)

\* Mutant: the deadline's own instant still counts as in time.
OverdueSynchronouslyAfter(order, at) ==
    AfterFulfillment(order) /\ \E d \in FulfillmentDeadline(order) : at > d.at

(* A synchronous order answered at or past its deadline is closed as its   *)
(* timer would have closed it, whichever of the two arrives first, and the *)
(* answer is then taken by the closed order.                               *)
OverdueSynchronously(order, at) ==
    AfterFulfillment(order) /\ \E d \in FulfillmentDeadline(order) : at >= d.at

ClosedOnTheClock(order) ==
    OnDeadline(order, [kind |-> "deadline_expired", detail |-> "sync_response",
                       at |-> order.paidAt + SyncResponseMs])

\* The closure, then the answer of the order it left.
ThenAnswered(closed, late) ==
    IF ~IsOk(closed) THEN closed
    ELSE IF ~IsOk(late) THEN late
    ELSE With(late, closed.effects \cup late.effects, late.answer)

OverdueSynchronousGoods(order, event) ==
    LET closed == ClosedOnTheClock(order)
    IN  ThenAnswered(closed, FromExpired(closed.order, event))

OverdueSynchronousRefusal(order) ==
    LET closed == ClosedOnTheClock(order)
    IN  ThenAnswered(closed, ClosedToMerchant(closed.order))

FromDispatched(order, event) ==
    CASE event.kind = "handler_accepted" ->
           IF AfterFulfillment(order) THEN NotInThisMode(order)
           ELSE Result([order EXCEPT !.accepted = TRUE], {"withdraw_hand_overs"},
                       "accepted", 0)
      [] event.kind = "handler_delivered" ->
           IF OverdueSynchronously(order, event.at)
           THEN OverdueSynchronousGoods(order, event)
           ELSE DeliverGoods(order, event.at)
      [] event.kind = "handler_refused" ->
           IF OverdueSynchronously(order, event.at)
           THEN OverdueSynchronousRefusal(order)
           ELSE ResolveFulfillmentFailure(order, "merchant_refused")
      [] event.kind = "handler_undelivered" ->
           IF order.accepted THEN Ok(order, {}) ELSE Redeliver(order, event.at)
      [] event.kind = "deliver_called" ->
           IF AfterFulfillment(order) THEN NotInThisMode(order)
           ELSE LET delivered == DeliverGoods(order, event.at)
                IN  With(delivered, delivered.effects, "delivered")
      [] event.kind = "refuse_called" ->
           IF AfterFulfillment(order) THEN NotInThisMode(order)
           ELSE LET refused == ResolveFulfillmentFailure(order, "merchant_refused")
                IN  With(refused, refused.effects, "refused")
      [] event.kind = "order_dispatched" ->
           Ok([order EXCEPT
                 !.attempts = IF order.dispatchedAt # Null THEN @ + 1 ELSE @,
                 !.dispatchedAt = event.at,
                 !.firstDispatchedAt = IF @ = Null THEN event.at ELSE @], {})
      [] event.kind = "purchase_repeated" -> Ok(order, {})
      [] OTHER -> NotApplicable(order)

\* The hand-over the gateway recorded itself, with its instant...
DispatchedOrder(order, at) ==
    [order EXCEPT !.state = "dispatched", !.attempts = @ + 1, !.accepted = FALSE,
                  !.dispatchedAt = at, !.firstDispatchedAt = at]
\* ...and the one it learned of from the handler's answer, without one.
HandedOver(order) ==
    [order EXCEPT !.state = "dispatched", !.attempts = IF @ < 1 THEN 1 ELSE @]

FromPaid(order, event) ==
    CASE event.kind = "order_dispatched" -> Ok(DispatchedOrder(order, event.at), {})
      [] event.kind \in {"deliver_called", "refuse_called"} ->
           IF AfterFulfillment(order) THEN NotInThisMode(order)
           ELSE FromDispatched([order EXCEPT !.state = "dispatched"], event)
      [] event.kind = "handler_accepted" ->
           IF AfterFulfillment(order) THEN NotInThisMode(order)
           ELSE FromDispatched(HandedOver(order), event)
      [] event.kind \in {"handler_delivered", "handler_refused",
                         "handler_undelivered"} ->
           FromDispatched(HandedOver(order), event)
      [] event.kind = "purchase_repeated" -> Ok(order, {})
      [] OTHER -> NotApplicable(order)

FromFulfilled(order, event) ==
    CASE event.kind = "payment_settled" /\ order.payment = "settling" ->
           Ok([order EXCEPT !.state = "delivered", !.payment = "settled",
                            !.closure = "none"],
              {"release_goods_to_agent", "issue_receipt"})
      [] event.kind = "payment_settle_failed" /\ order.payment = "settling" ->
           Ok([order EXCEPT !.state = "delivered_unpaid", !.payment = "settle_failed",
                            !.closure = "none"],
              {"emit_payment_failed_after_delivery"})
      [] event.kind \in {"deliver_called", "handler_delivered"} ->
           RepeatedDelivery(order, event)
      [] event.kind = "refuse_called" -> NotInThisMode(order)
      [] event.kind = "purchase_repeated" -> Ok(order, {})
      [] OTHER -> NotApplicable(order)

FromDelivered(order, event) ==
    CASE event.kind \in {"deliver_called", "handler_delivered"} ->
           RepeatedDelivery(order, event)
      [] event.kind = "handler_accepted" -> AnswerMerchant(order, "already_delivered")
      [] event.kind = "refuse_called" -> ClosedToMerchant(order)
      [] event.kind = "purchase_repeated" -> Ok(order, {})
      [] OTHER -> NotApplicable(order)

\* Mutant: a repeat does not wait for the unaccounted charge.
FromDeliveredUnpaidUnguarded(order, event) ==
    CASE event.kind = "purchase_repeated" ->
           Ok([order EXCEPT !.payment = "none"], {"verify_payment"})
      [] event.kind = "payment_verified" /\ order.payment = "none" ->
           StartSettle(order, event.at, order.state)
      [] event.kind = "payment_settled" /\ PaymentUnresolved(order) ->
           Ok([order EXCEPT !.state = "delivered", !.payment = "settled"],
              {"release_goods_to_agent", "issue_receipt"})
      [] OTHER -> NotApplicable(order)

FromDeliveredUnpaid(order, event) ==
    CASE event.kind = "purchase_repeated" ->
           IF order.payment = "outcome_unknown" THEN Reject(order, "settle_in_flight")
           ELSE Ok([order EXCEPT !.payment = "none"], {"verify_payment"})
      [] event.kind = "payment_verified" /\ order.payment = "none" ->
           StartSettle(order, event.at, order.state)
      [] event.kind = "payment_settled" /\ PaymentUnresolved(order) ->
           Ok([order EXCEPT !.state = "delivered", !.payment = "settled"],
              {"release_goods_to_agent", "issue_receipt"})
      [] event.kind = "payment_settle_failed" /\ PaymentUnresolved(order) ->
           Ok([order EXCEPT !.payment = "settle_failed"], {})
      [] event.kind \in {"deliver_called", "handler_delivered"} ->
           RepeatedDelivery(order, event)
      [] event.kind = "refuse_called" -> NotInThisMode(order)
      [] OTHER -> NotApplicable(order)

FromUnfulfilled(order, event) ==
    CASE event.kind \in {"deliver_called", "handler_delivered"} ->
           Result([order EXCEPT !.state = "delivered", !.closure = "none"],
                  {"release_goods_to_agent", "issue_receipt"},
                  IF event.kind = "deliver_called" THEN "delivered_late" ELSE "none", 0)
      [] event.kind = "refuse_called" -> AnswerMerchant(order, "refused")
      [] event.kind \in {"handler_refused", "handler_accepted", "handler_undelivered",
                         "order_dispatched", "purchase_repeated"} -> Ok(order, {})
      [] OTHER -> NotApplicable(order)

\* Mutant: a payment that completes after the closure leaves no mark.
FromFulfillmentClosedUnmarked(order, event) ==
    IF event.kind = "payment_settled" /\ PaymentUnresolved(order)
    THEN Ok([order EXCEPT !.payment = "settled"], {"emit_unfulfilled"})
    ELSE IF event.kind = "payment_settle_failed" /\ PaymentUnresolved(order)
    THEN Ok([order EXCEPT !.payment = "settle_failed"], {})
    ELSE NotApplicable(order)

FromFulfillmentClosed(order, event) ==
    CASE event.kind = "payment_settled" /\ PaymentUnresolved(order) ->
           Ok([order EXCEPT !.payment = "settled",
                            !.paymentCompletedAt = IF order.closedAt = Null THEN @
                                                   ELSE event.at],
              {"emit_unfulfilled"})
      [] event.kind = "payment_settle_failed" /\ PaymentUnresolved(order) ->
           Ok([order EXCEPT !.payment = "settle_failed"], {})
      [] event.kind \in {"deliver_called", "handler_delivered"} ->
           AnswerMerchant(order, "fulfillment_closed")
      [] event.kind = "refuse_called" -> ClosedToMerchant(order)
      [] event.kind = "purchase_repeated" -> Ok(order, {})
      [] OTHER -> NotApplicable(order)

FromFailed(order, event) ==
    CASE event.kind \in {"deliver_called", "refuse_called"} -> ClosedToMerchant(order)
      [] event.kind = "purchase_repeated" -> Ok(order, {})
      [] OTHER -> NotApplicable(order)

\* Mutant: a rejected order is final, its late charge unheard.
FromClosedWithoutMoneyDeaf(order, event) ==
    IF event.kind \in {"deliver_called", "refuse_called"} THEN ClosedToMerchant(order)
    ELSE NotApplicable(order)

\* `rejected`: closed, and nobody is known to have been charged.
FromClosedWithoutMoney(order, event) ==
    CASE event.kind \in {"deliver_called", "refuse_called"} -> ClosedToMerchant(order)
      [] event.kind = "payment_settled" /\ order.closure = "payment_outcome_unknown" ->
           Ok([order EXCEPT !.state = "unfulfilled", !.payment = "settled"],
              {"mark_unfulfilled", "emit_unfulfilled"})
      [] event.kind = "payment_settle_failed"
         /\ order.closure = "payment_outcome_unknown" ->
           Ok([order EXCEPT !.payment = "settle_failed",
                            !.closure = "payment_not_settled"], {})
      [] event.kind = "purchase_repeated" -> Ok(order, {})
      [] OTHER -> NotApplicable(order)

-----------------------------------------------------------------------------
(* The entry points: transition, createOrder, and what the order says.     *)

\* The payment completed after the merchant closed, and he has not closed since.
PaidAfterClosure(order) ==
    /\ order.state = "fulfillment_closed" /\ order.payment = "settled"
    /\ order.paymentCompletedAt # Null

PaymentPresented(order, event) ==
    IF \/ order.state # "quoted" \/ order.payment # "none" \/ order.quotedAt = Null
       \/ event.at < order.quotedAt \/ event.at >= order.quotedAt + QuoteTtlMs
    THEN NotApplicable(order)
    ELSE IF order.paymentPresentedAt # Null THEN Ok(order, {})
    ELSE Ok([order EXCEPT !.createdAt = event.at, !.paymentPresentedAt = event.at], {})

CloseCalled(order, event) ==
    IF order.state = "delivered" THEN AnswerMerchant(order, "fulfillment_complete")
    ELSE IF EndedWithNothingHeld(order) /\ ~PaymentUnresolved(order)
    THEN AnswerMerchant(order, "nothing_to_close")
    ELSE IF order.closedAt # Null /\ ~PaidAfterClosure(order)
    THEN AnswerMerchant(order, "purchase_already_closed")
    ELSE AnswerMerchant([order EXCEPT !.state = "fulfillment_closed",
                                      !.closedAt = event.at,
                                      !.paymentCompletedAt = Null],
                        "purchase_already_closed")

AllowedWhileSettling(order, event) ==
    \/ event.kind \in {"payment_settled", "payment_settle_failed"}
    \/ /\ order.state \in {"fulfilled", "delivered_unpaid"}
       /\ event.kind \in {"deliver_called", "refuse_called"}

TransitionIn(order, event) ==
    IF event.kind = "payment_presented" THEN PaymentPresented(order, event)
    ELSE IF event.kind = "close_called" THEN CloseCalled(order, event)
    ELSE IF event.kind = "deadline_expired" THEN OnDeadline(order, event)
    ELSE IF order.state = "fulfillment_closed" THEN FromFulfillmentClosed(order, event)
    ELSE IF order.payment = "settling" /\ ~AllowedWhileSettling(order, event)
    THEN Reject(order, "settle_in_flight")
    ELSE CASE order.state = "created" -> FromCreated(order, event)
           [] order.state = "quoted" -> FromQuoted(order, event)
           [] order.state = "paid" -> FromPaid(order, event)
           [] order.state = "dispatched" -> FromDispatched(order, event)
           [] order.state = "fulfilled" -> FromFulfilled(order, event)
           [] order.state = "delivered" -> FromDelivered(order, event)
           [] order.state = "delivered_unpaid" -> FromDeliveredUnpaid(order, event)
           [] order.state = "unfulfilled" -> FromUnfulfilled(order, event)
           [] order.state = "failed" -> FromFailed(order, event)
           [] order.state = "expired" -> FromExpired(order, event)
           [] order.state = "rejected" -> FromClosedWithoutMoney(order, event)

Transition(order, event) ==
    LET result == TransitionIn(order, event)
    IN  IF /\ IsParcel(order) /\ event.kind = "order_dispatched"
           /\ ~HoldsShipTo(order)
        THEN NotApplicable(order)
        ELSE IF IsOk(result) /\ HoldsShipTo(order) /\ ~HoldsShipTo(result.order)
        THEN With(result, result.effects \cup {"erase_ship_to"}, result.answer)
        ELSE result

\* What the gateway tells the machine: a deadline has run out, an event occurs.
Expired(order, deadline) ==
    Transition(order, [kind |-> "deadline_expired", at |-> deadline.at, detail |-> deadline.kind])
Occurs(order, kind, at) == Transition(order, [kind |-> kind, at |-> at, detail |-> "none"])

\* An order on sale; priceCheck is "merchant" or "card".
CreateOrder(mode, priceCheck, at) ==
    LET base == [state |-> "created", mode |-> mode, payment |-> "none",
                 attempts |-> 0, accepted |-> FALSE, heldFulfillment |-> FALSE,
                 closure |-> "none", closedAt |-> Null,
                 paymentCompletedAt |-> Null, createdAt |-> at,
                 quotedAt |-> Null, paymentPresentedAt |-> Null,
                 settleStartedAt |-> Null, paidAt |-> Null,
                 dispatchedAt |-> Null, firstDispatchedAt |-> Null]
    IN  IF priceCheck = "merchant" THEN Ok(base, {"request_quote"})
        ELSE Ok([base EXCEPT !.state = "quoted", !.quotedAt = at],
                {"verify_payment"})

\* outcome.ts: the one word an agent reads, and the merchant's open list.
OutcomeFor(order) ==
    CASE \/ order.payment = "outcome_unknown"
         \/ order.state = "fulfillment_closed" /\ order.payment = "settling" ->
           "payment_unresolved"
      [] OTHER ->
           CASE order.state \in {"created", "quoted", "paid", "dispatched",
                                 "fulfilled"} -> "in_progress"
             [] order.state = "delivered" ->
                  IF IsParcel(order) THEN "shipped" ELSE "delivered"
             [] order.state \in {"failed", "rejected"} -> "rejected"
             [] OTHER -> order.state

OnTheMerchantsOpenList(order) ==
    \/ order.payment = "outcome_unknown" /\ IsOpen(order.state)
    \/ PaidAfterClosure(order)
    \/ order.state \in {"paid", "dispatched", "fulfilled", "unfulfilled",
                        "delivered_unpaid"}

ListedAsOpen(order) == IsOpen(order.state) \/ PaidAfterClosure(order)

\* money.ts: what the gateway refuses to write.
MoneyInvariant(order) ==
    /\ order.payment = "settled" =>
         order.state \in {"paid", "dispatched", "delivered", "unfulfilled",
                          "fulfillment_closed"}
    /\ order.state \in {"unfulfilled", "delivered"} => order.payment = "settled"
    /\ order.state = "delivered_unpaid" => order.payment # "settled"
    /\ order.payment = "settling" =>
         /\ order.state \in {"quoted", "fulfilled", "delivered_unpaid",
                             "fulfillment_closed"}
         /\ order.settleStartedAt # Null
    /\ order.payment = "outcome_unknown" =>
         order.state \in {"rejected", "delivered_unpaid", "fulfillment_closed"}

=============================================================================
