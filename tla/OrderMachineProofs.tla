------------------------- MODULE OrderMachineProofs -------------------------
(***************************************************************************)
(* What one transition of the order machine does to the money, and to an   *)
(* order on its way to the merchant, for every policy: proved operator by  *)
(* operator, a lemma for each state, then one for Transition.  The proofs  *)
(* of OrderLife, Charging, Dispatch and Parks rest on it.                  *)
(***************************************************************************)
EXTENDS OrderMachine, TLAPS

(* Where the money is in each state: what makes the money rules inductive. *)
Consistent(o) ==
    /\ o.state = "created" => o.payment = "none"
    /\ o.state = "quoted" =>
         /\ o.payment \in {"none", "settling"}
         /\ o.payment = "settling" => o.mode # "sync"
    /\ o.state \in {"paid", "dispatched"} =>
         /\ o.payment = IF o.mode = "sync" THEN "verified" ELSE "settled"
         /\ o.paidAt # Null
    /\ o.state = "fulfilled" => o.mode = "sync" /\ o.payment = "settling"
    /\ o.state = "delivered" => o.payment = "settled"
    /\ o.state = "delivered_unpaid" =>
         /\ o.mode = "sync"
         /\ o.payment \in {"none", "settling", "outcome_unknown", "settle_failed"}
    /\ o.state = "unfulfilled" => o.payment = "settled" /\ o.mode # "sync"
    /\ o.state = "failed" => o.payment = "verified"
    /\ o.state = "rejected" =>
         /\ o.payment \in {"none", "outcome_unknown", "settle_failed"}
         /\ (o.payment = "outcome_unknown") <=> (o.closure = "payment_outcome_unknown")
         /\ o.payment = "outcome_unknown" => o.mode # "sync"
    /\ o.state = "expired" => o.payment \in {"none", "verified"}
    /\ o.state = "fulfillment_closed" => o.closedAt # Null
    /\ o.heldFulfillment = TRUE => o.mode = "sync"
    /\ o.payment = "settling" => o.settleStartedAt # Null

\* A charge's own answer moves the money; anything else only by sending one.
ChargeAccount(o, kind, r) ==
    /\ "execute_payment" \in r.effects =>
         /\ ~PaymentUnresolved(o) /\ o.payment # "settled"
         /\ r.order.payment = "settling"
         /\ kind \notin {"payment_settled", "payment_settle_failed"}
    /\ "execute_payment" \notin r.effects =>
         \/ kind = "payment_settled" /\ r.order.payment = "settled"
         \/ kind = "payment_settle_failed" /\ r.order.payment = "settle_failed"
         \/ /\ kind \notin {"payment_settled", "payment_settle_failed"}
            /\ PaymentUnresolved(r.order) <=> PaymentUnresolved(o)
            /\ (r.order.payment = "settled") <=> (o.payment = "settled")
    /\ kind # "payment_verified" =>
         /\ "execute_payment" \in r.effects => o.payment = "verified"
         /\ r.order.payment = "verified" => o.payment = "verified"

ReceiptAccount(o, r) ==
    IF "issue_receipt" \in r.effects
    THEN o.state # "delivered" /\ r.order.state = "delivered"
    ELSE (o.state = "delivered") <=> (r.order.state = "delivered")

\* A paid order the merchant has closed was closed by this event, or shows when
\* its payment completed, or was one before.
ClosureAccount(o, kind, r) ==
    r.order.state = "fulfillment_closed" /\ r.order.payment = "settled" =>
      \/ kind = "close_called"
      \/ r.order.paymentCompletedAt # Null
      \/ /\ o.state = "fulfillment_closed" /\ o.payment = "settled"
         /\ r.order.paymentCompletedAt = o.paymentCompletedAt

Step(o, kind, r) ==
    r.code = "none" =>
      /\ r.order \in Order
      /\ r.order.mode = o.mode
      /\ Consistent(r.order)
      /\ ChargeAccount(o, kind, r)
      /\ ReceiptAccount(o, r)
      /\ ClosureAccount(o, kind, r)

-----------------------------------------------------------------------------
(* The moves several states share *)


LEMMA EventType ==
    ASSUME NEW e \in Event
    PROVE  e.at \in Nat /\ e.kind \in EventKind /\ e.detail \in Detail
  BY DEF Event

\* An order with the state, payment, closure and held goods given.
LEMMA UpdateTypes ==
    ASSUME NEW o \in Order, NEW s \in OrderState, NEW p \in PaymentStage,
           NEW c \in Closure
    PROVE  /\ [o EXCEPT !.state = s] \in Order
           /\ [o EXCEPT !.payment = p] \in Order
           /\ [o EXCEPT !.state = s, !.payment = p] \in Order
           /\ [o EXCEPT !.state = s, !.closure = c] \in Order
           /\ [o EXCEPT !.payment = p, !.closure = c] \in Order
           /\ [o EXCEPT !.state = s, !.payment = p, !.closure = c] \in Order
           /\ [o EXCEPT !.state = s, !.closure = c, !.payment = p] \in Order
           /\ [o EXCEPT !.heldFulfillment = TRUE] \in Order
  BY ZenonT(40) DEF Order

\* A refusal writes nothing.
LEMMA RejectStep ==
    ASSUME NEW o, NEW kind, NEW code, code # "none"
    PROVE  Step(o, kind, Reject(o, code))
  BY DEF Step, Reject

LEMMA NotApplicableStep ==
    ASSUME NEW o, NEW kind
    PROVE  Step(o, kind, NotApplicable(o))
  BY RejectStep DEF NotApplicable

\* An event taken without touching the order leaves its accounts alone.
LEMMA StandsStep ==
    ASSUME NEW o \in Order, NEW kind, Consistent(o),
           kind \notin {"payment_settled", "payment_settle_failed"},
           NEW effects, NEW answer, NEW delay,
           "execute_payment" \notin effects, "issue_receipt" \notin effects
    PROVE  Step(o, kind, Result(o, effects, answer, delay))
  BY DEF Step, Result, ChargeAccount, ReceiptAccount, ClosureAccount

LEMMA OkStands ==
    ASSUME NEW o \in Order, NEW kind, Consistent(o),
           kind \notin {"payment_settled", "payment_settle_failed"}
    PROVE  Step(o, kind, Ok(o, {}))
  BY StandsStep DEF Ok

LEMMA AnswerStands ==
    ASSUME NEW o \in Order, NEW kind, Consistent(o), NEW answer,
           kind \notin {"payment_settled", "payment_settle_failed"}
    PROVE  Step(o, kind, AnswerMerchant(o, answer))
  BY StandsStep DEF AnswerMerchant

LEMMA AnswersStand ==
    ASSUME NEW o \in Order, NEW e \in Event, Consistent(o),
           e.kind \notin {"payment_settled", "payment_settle_failed"}
    PROVE  /\ Step(o, e.kind, NotInThisMode(o))
           /\ Step(o, e.kind, ClosedToMerchant(o))
           /\ Step(o, e.kind, RepeatedDelivery(o, e))
  BY AnswerStands DEF NotInThisMode, ClosedToMerchant, RepeatedDelivery

-----------------------------------------------------------------------------
(* The moves several states share *)

LEMMA StartSettleStep ==
    ASSUME NEW o \in Order, Consistent(o), NEW at \in Nat, NEW s \in OrderState, NEW kind,
           ~PaymentUnresolved(o), o.payment # "settled", o.state # "delivered",
           (s = "quoted" /\ o.mode # "sync") \/ (s \in {"fulfilled", "delivered_unpaid"} /\ o.mode = "sync"),
           kind = "payment_verified" \/ o.payment = "verified",
           kind \notin {"payment_settled", "payment_settle_failed"}
    PROVE  Step(o, kind, StartSettle(o, at, s))
<1> DEFINE n == [o EXCEPT !.state = s, !.payment = "settling", !.settleStartedAt = at]
<1>1. /\ n \in Order /\ n.mode = o.mode /\ n.heldFulfillment = o.heldFulfillment
      /\ n.state = s /\ n.payment = "settling"
      /\ n.settleStartedAt = at
  BY ZenonT(40) DEF Order, Instant, PaymentStage
<1> HIDE DEF n
<1>2. Step(o, kind, Ok(n, {"execute_payment"}))
  BY <1>1 DEF Step, Ok, Result, Consistent, ChargeAccount, ReceiptAccount, ClosureAccount, Null
<1> QED BY <1>2 DEF StartSettle, n

LEMMA EnterPaidStep ==
    ASSUME NEW o \in Order, Consistent(o), NEW at \in Nat, NEW kind, o.state = "quoted",
           NEW p,
           \/ /\ o.mode = "sync" /\ o.payment = "none" /\ p = "verified"
              /\ kind = "payment_verified"
           \/ /\ o.mode # "sync" /\ o.payment = "settling" /\ p = "settled"
              /\ kind = "payment_settled"
    PROVE  Step(o, kind, EnterPaid(o, at, p))
<1> DEFINE n == [o EXCEPT !.state = "paid", !.payment = p, !.attempts = 0,
                          !.accepted = FALSE, !.paidAt = at]
<1>1. /\ n \in Order /\ n.mode = o.mode /\ n.state = "paid" /\ n.payment = p
      /\ n.paidAt = at /\ n.heldFulfillment = o.heldFulfillment
  <2>1. p \in PaymentStage BY DEF PaymentStage
  <2>2. n \in Order
    BY <2>1 DEF Order, Instant, OrderState
  <2>3. n.heldFulfillment = o.heldFulfillment
    BY DEF Order
  <2>4. /\ n.mode = o.mode /\ n.state = "paid" /\ n.payment = p /\ n.paidAt = at
    BY DEF Order
  <2> QED BY <2>2, <2>3, <2>4
<1> HIDE DEF n
<1>2. Step(o, kind, Ok(n, {"dispatch_order"}))
  BY <1>1 DEF Step, Ok, Result, Consistent, ChargeAccount, ReceiptAccount, ClosureAccount, Null,
             PaymentUnresolved
<1> QED BY <1>2 DEF EnterPaid, n

LEMMA EnterQuotedStep ==
    ASSUME NEW o \in Order, NEW at \in Nat, NEW kind, o.state = "created",
           Consistent(o), kind \notin {"payment_settled", "payment_settle_failed"}
    PROVE  Step(o, kind, EnterQuoted(o, at))
<1> DEFINE n == [o EXCEPT !.state = "quoted", !.quotedAt = at]
<1>1. /\ n \in Order /\ n.mode = o.mode /\ n.heldFulfillment = o.heldFulfillment
      /\ n.state = "quoted"
      /\ n.payment = o.payment
  BY ZenonT(40) DEF Order, Instant, OrderState
<1> HIDE DEF n
<1>2. Step(o, kind, Ok(n, {"verify_payment"}))
  BY <1>1 DEF Step, Ok, Result, Consistent, ChargeAccount, ReceiptAccount, ClosureAccount,
             PaymentUnresolved
<1> QED BY <1>2 DEF EnterQuoted, n

\* A purchase that is closed with no money taken.
LEMMA CloseStep ==
    ASSUME NEW o \in Order, Consistent(o), NEW s \in OrderState, NEW c \in Closure, NEW kind,
           \/ s = "rejected" /\ o.payment = "none" /\ c # "payment_outcome_unknown"
           \/ s = "expired" /\ o.payment \in {"none", "verified"}
           \/ s = "failed" /\ o.payment = "verified",
           o.state # "delivered",
           kind \notin {"payment_settled", "payment_settle_failed"}
    PROVE  Step(o, kind, Ok(CloseWithoutMoney(o, s, c), {}))
<1> DEFINE n == CloseWithoutMoney(o, s, c)
<1>1. n \in Order
  BY ZenonT(40) DEF CloseWithoutMoney, Order
<1>2. /\ n.mode = o.mode /\ n.heldFulfillment = o.heldFulfillment
      /\ n.state = s /\ n.closure = c
      /\ n.payment = o.payment
  BY DEF CloseWithoutMoney, Order
<1> HIDE DEF n
<1>3. Step(o, kind, Ok(n, {}))
  BY <1>1, <1>2 DEF Step, Ok, Result, Consistent, ChargeAccount, ReceiptAccount, ClosureAccount,
             PaymentUnresolved
<1> QED BY <1>3 DEF n

LEMMA QuoteSilenceStep ==
    ASSUME NEW o \in Order, NEW at \in Nat, NEW kind, o.state = "created",
           Consistent(o), kind \notin {"payment_settled", "payment_settle_failed"}
    PROVE  Step(o, kind, OnQuoteSilence(o, at))
<1>1. Step(o, kind, Ok(CloseWithoutMoney(o, "rejected", "quote_silent"), {}))
  BY CloseStep DEF OrderState, Closure, Consistent
<1> QED BY <1>1, EnterQuotedStep DEF OnQuoteSilence

LEMMA ResolveStep ==
    ASSUME NEW o \in Order, NEW c \in Closure, NEW kind, Consistent(o),
           o.state \in {"paid", "dispatched"},
           kind \notin {"payment_settled", "payment_settle_failed"}
    PROVE  Step(o, kind, ResolveFulfillmentFailure(o, c))
<1>1. CASE o.payment = "settled"
  <2> DEFINE n == [o EXCEPT !.state = "unfulfilled", !.closure = c]
  <2>1. /\ n \in Order /\ n.mode = o.mode /\ n.heldFulfillment = o.heldFulfillment
        /\ n.state = "unfulfilled"
        /\ n.payment = o.payment
    BY ZenonT(40) DEF Order, OrderState
  <2>2. o.mode # "sync"
    BY <1>1 DEF Consistent
  <2> HIDE DEF n
  <2>3. Step(o, kind, Ok(n, {"mark_unfulfilled", "emit_unfulfilled"}))
    BY <1>1, <2>1, <2>2 DEF Step, Ok, Result, Consistent, ChargeAccount, ReceiptAccount, ClosureAccount,
               PaymentUnresolved
  <2> QED BY <1>1, <2>3 DEF ResolveFulfillmentFailure, n
<1>2. CASE o.payment # "settled"
  <2>1. o.payment = "verified" /\ o.state # "delivered"
    BY <1>2 DEF Consistent
  <2>2. /\ Step(o, kind, Ok(CloseWithoutMoney(o, "failed", c), {}))
        /\ Step(o, kind, Ok(CloseWithoutMoney(o, "expired", c), {}))
    BY <2>1, CloseStep DEF OrderState
  <2> QED BY <1>2, <2>2 DEF ResolveFulfillmentFailure
<1> QED BY <1>1, <1>2

\* The money is taken and the goods go out.
LEMMA SaleStep ==
    ASSUME NEW o \in Order, Consistent(o), NEW n \in Order, NEW kind, o.state # "delivered",
           n.mode = o.mode, n.heldFulfillment = o.heldFulfillment,
           n.state = "delivered", n.payment = "settled",
           \/ kind = "payment_settled"
           \/ o.payment = "settled" /\ kind # "payment_settle_failed",
           NEW answer, NEW delay
    PROVE  Step(o, kind, Result(n, {"release_goods_to_agent", "issue_receipt"},
                                answer, delay))
  BY DEF Step, Result, Consistent, ChargeAccount, ReceiptAccount, ClosureAccount, PaymentUnresolved

LEMMA DeliverGoodsStep ==
    ASSUME NEW o \in Order, NEW at \in Nat, NEW kind, Consistent(o),
           o.state \in {"paid", "dispatched"},
           kind \notin {"payment_settled", "payment_settle_failed"}
    PROVE  Step(o, kind, DeliverGoods(o, at))
<1>1. CASE o.mode = "sync"
  <2>1. ~PaymentUnresolved(o) /\ o.payment = "verified" /\ o.state # "delivered"
    BY <1>1 DEF Consistent, PaymentUnresolved
  <2>2. Step(o, kind, StartSettle(o, at, "fulfilled"))
    BY <1>1, <2>1, StartSettleStep DEF OrderState
  <2> QED BY <1>1, <2>2 DEF DeliverGoods, AfterFulfillment
<1>2. CASE o.mode # "sync"
  <2> DEFINE n == [o EXCEPT !.state = "delivered", !.closure = "none"]
  <2>1. /\ n \in Order /\ n.mode = o.mode /\ n.heldFulfillment = o.heldFulfillment
        /\ n.state = "delivered" /\ n.payment = o.payment
    BY ZenonT(40) DEF Order, OrderState, Closure
  <2>2. o.payment = "settled"
    BY <1>2 DEF Consistent
  <2> HIDE DEF n
  <2>3. Step(o, kind, Ok(n, {"release_goods_to_agent", "issue_receipt"}))
    BY <2>1, <2>2, SaleStep DEF Ok
  <2> QED BY <1>2, <2>3 DEF DeliverGoods, AfterFulfillment, n
<1> QED BY <1>1, <1>2

LEMMA WithStep ==
    ASSUME NEW o, NEW kind, NEW r, Step(o, kind, r), NEW answer
    PROVE  Step(o, kind, With(r, r.effects, answer))
  BY DEF Step, With, ChargeAccount, ReceiptAccount, ClosureAccount

-----------------------------------------------------------------------------
(* Deadlines *)

LEMMA SilentSettleStep ==
    ASSUME NEW o \in Order, NEW kind, Consistent(o), o.payment = "settling",
           kind \notin {"payment_settled", "payment_settle_failed"}
    PROVE  Step(o, kind, OnSilentSettle(o))
<1> DEFINE silent == [o EXCEPT !.payment = "outcome_unknown"]
           unpaid == [silent EXCEPT !.state = "delivered_unpaid", !.closure = "none"]
           closed == CloseWithoutMoney(silent, "rejected", "payment_outcome_unknown")
<1>1. /\ silent \in Order /\ silent.mode = o.mode /\ silent.heldFulfillment = o.heldFulfillment
      /\ silent.state = o.state
      /\ silent.payment = "outcome_unknown" /\ silent.closedAt = o.closedAt
  BY DEF Order, PaymentStage
<1>2. /\ unpaid \in Order /\ unpaid.mode = o.mode /\ unpaid.heldFulfillment = o.heldFulfillment
      /\ unpaid.state = "delivered_unpaid" /\ unpaid.payment = "outcome_unknown"
  BY ZenonT(40) DEF Order, OrderState, Closure, PaymentStage
<1>3. /\ closed \in Order /\ closed.mode = o.mode /\ closed.heldFulfillment = o.heldFulfillment
      /\ closed.state = "rejected"
      /\ closed.payment = "outcome_unknown" /\ closed.closure = "payment_outcome_unknown"
  BY ZenonT(40) DEF CloseWithoutMoney, Order, OrderState, Closure, PaymentStage
<1> HIDE DEF silent, unpaid, closed
<1>4. CASE o.state \in {"fulfillment_closed", "delivered_unpaid"}
  <2>1. Step(o, kind, Ok(silent, {}))
    BY <1>1, <1>4 DEF Step, Ok, Result, Consistent, ChargeAccount, ReceiptAccount, ClosureAccount,
               PaymentUnresolved
  <2>2. OnSilentSettle(o) = Ok(silent, {})
    BY <1>4 DEF OnSilentSettle, silent
  <2> QED BY <2>1, <2>2
<1>5. CASE o.state = "fulfilled"
  <2>1. Step(o, kind, Ok(unpaid, {"emit_payment_failed_after_delivery"}))
    BY <1>2, <1>5 DEF Step, Ok, Result, Consistent, ChargeAccount, ReceiptAccount, ClosureAccount,
               PaymentUnresolved
  <2>2. OnSilentSettle(o) = Ok(unpaid, {"emit_payment_failed_after_delivery"})
    BY <1>5 DEF OnSilentSettle, silent, unpaid
  <2> QED BY <2>1, <2>2
<1>6. CASE o.state \notin {"fulfillment_closed", "delivered_unpaid", "fulfilled"}
  <2>0. o.state = "quoted"
    BY <1>6 DEF Consistent, Order, OrderState
  <2>1. Step(o, kind, Ok(closed, {}))
    BY <1>3, <2>0 DEF Step, Ok, Result, Consistent, ChargeAccount, ReceiptAccount, ClosureAccount,
               PaymentUnresolved
  <2>2. OnSilentSettle(o) = Ok(closed, {})
    BY <1>6 DEF OnSilentSettle, silent, closed
  <2> QED BY <2>1, <2>2
<1> QED BY <1>4, <1>5, <1>6

\* The deadline an expiry is weighed against, and the state it finds.
LEMMA DeadlineArmed ==
    ASSUME NEW o \in Order, Consistent(o), NEW d \in Deadlines(o)
    PROVE  \/ d.kind = "settle_response" /\ o.payment = "settling"
           \/ d.kind = "quote_response" /\ o.state = "created"
           \/ d.kind = "quote_expiry" /\ o.state = "quoted" /\ o.payment = "none"
           \/ /\ d.kind \in {"sync_response", "async_fulfillment"}
              /\ o.state \in {"paid", "dispatched"}
<1>1. CASE o.payment = "settling"
  BY <1>1 DEF Deadlines
<1>2. CASE o.payment # "settling"
  BY <1>2 DEF Deadlines, FulfillmentDeadline
<1> QED BY <1>1, <1>2

LEMMA OnDeadlineStep ==
    ASSUME NEW o \in Order, NEW e \in Event, Consistent(o),
           e.kind = "deadline_expired"
    PROVE  Step(o, e.kind, OnDeadline(o, e))
<1> DEFINE armed == {d \in Deadlines(o) : d.kind = e.detail}
<1>1. CASE armed = {}
  BY <1>1, RejectStep DEF OnDeadline
<1>2. CASE armed # {} /\ \E d \in armed : e.at < d.at
  BY <1>2, RejectStep DEF OnDeadline
<1>3. CASE armed # {} /\ ~\E d \in armed : e.at < d.at
  <2>1. PICK d \in Deadlines(o) : d.kind = e.detail
    BY <1>3
  <2>2. e.detail = "quote_response" => Step(o, e.kind, OnQuoteSilence(o, e.at))
    BY <2>1, DeadlineArmed, QuoteSilenceStep, EventType
  <2>3. e.detail = "quote_expiry" =>
           Step(o, e.kind, Ok(CloseWithoutMoney(o, "expired", "quote_expiry"), {}))
    BY <2>1, DeadlineArmed, CloseStep DEF OrderState, Closure, DeadlineKind
  <2>4. e.detail = "settle_response" => Step(o, e.kind, OnSilentSettle(o))
    BY <2>1, DeadlineArmed, SilentSettleStep
  <2>5. e.detail \in {"sync_response", "async_fulfillment"} =>
           Step(o, e.kind, ResolveFulfillmentFailure(o, e.detail))
    BY <2>1, DeadlineArmed, ResolveStep DEF Closure, DeadlineKind
  <2>6. e.detail \in {"quote_response", "quote_expiry", "settle_response",
                      "sync_response", "async_fulfillment"}
    BY <2>1, DeadlineArmed
  <2>7. \/ e.detail = "quote_response" /\ OnDeadline(o, e) = OnQuoteSilence(o, e.at)
        \/ /\ e.detail = "quote_expiry"
           /\ OnDeadline(o, e) = Ok(CloseWithoutMoney(o, "expired", "quote_expiry"), {})
        \/ e.detail = "settle_response" /\ OnDeadline(o, e) = OnSilentSettle(o)
        \/ /\ e.detail \in {"sync_response", "async_fulfillment"}
           /\ OnDeadline(o, e) = ResolveFulfillmentFailure(o, e.detail)
    <3> DEFINE taken_ == CASE e.detail = "quote_response" -> OnQuoteSilence(o, e.at)
               [] e.detail = "quote_expiry" ->
                    Ok(CloseWithoutMoney(o, "expired", "quote_expiry"), {})
               [] e.detail = "settle_response" -> OnSilentSettle(o)
               [] OTHER -> ResolveFulfillmentFailure(o, e.detail)
    <3>1. OnDeadline(o, e) = taken_
      BY <1>3 DEF OnDeadline
    <3> QED BY <2>6, <3>1
  <2> QED BY <2>2, <2>3, <2>4, <2>5, <2>7
<1> QED BY <1>1, <1>2, <1>3

-----------------------------------------------------------------------------
(* The states *)

LEMMA FromCreatedStep ==
    ASSUME NEW o \in Order, NEW e \in Event, Consistent(o), o.state = "created"
    PROVE  Step(o, e.kind, FromCreated(o, e))
<1>1. CASE e.kind = "quote_answered"
  <2>1. Step(o, e.kind, Ok(CloseWithoutMoney(o, "rejected", "unavailable"), {}))
    BY <1>1, CloseStep DEF OrderState, Closure, Consistent
  <2>2. Step(o, e.kind, EnterQuoted(o, e.at))
    BY <1>1, EnterQuotedStep, EventType
  <2> QED BY <1>1, <2>1, <2>2, RejectStep DEF FromCreated
<1>2. CASE e.kind = "quote_silent"
  BY <1>2, QuoteSilenceStep, EventType DEF FromCreated
<1>3. CASE e.kind = "purchase_repeated"
  BY <1>3, OkStands DEF FromCreated
<1>4. CASE e.kind \notin {"quote_answered", "quote_silent", "purchase_repeated"}
  BY <1>4, NotApplicableStep DEF FromCreated
<1> QED BY <1>1, <1>2, <1>3, <1>4

LEMMA FromQuotedStep ==
    ASSUME NEW o \in Order, NEW e \in Event, Consistent(o), o.state = "quoted",
           o.payment = "settling" => AllowedWhileSettling(o, e)
    PROVE  Step(o, e.kind, FromQuoted(o, e))
<1>0. o.payment \in {"none", "settling"}
  BY DEF Consistent
<1>1. CASE e.kind = "payment_verified"
  <2>1. o.payment = "none"
    BY <1>0, <1>1 DEF AllowedWhileSettling
  <2>2. CASE o.mode = "sync"
    BY <1>1, <2>1, <2>2, EnterPaidStep, EventType DEF FromQuoted, AfterFulfillment
  <2>3. CASE o.mode # "sync"
    <3>1. Step(o, e.kind, StartSettle(o, e.at, "quoted"))
      BY <1>1, <2>1, <2>3, StartSettleStep, EventType DEF OrderState, PaymentUnresolved
    <3> QED BY <1>1, <2>3, <3>1 DEF FromQuoted, AfterFulfillment
  <2> QED BY <2>2, <2>3
<1>2. CASE e.kind = "payment_settled" /\ o.payment = "settling"
  <2>1. CASE o.mode # "sync"
    BY <1>2, <2>1, EnterPaidStep, EventType DEF FromQuoted
  <2>2. CASE o.mode = "sync"
    BY <1>2, <2>2 DEF Consistent
  <2> QED BY <2>1, <2>2
<1>3. CASE e.kind = "payment_settle_failed" /\ o.payment = "settling"
  <2> DEFINE n == [o EXCEPT !.state = "rejected", !.closure = "payment_not_settled",
                            !.payment = "settle_failed"]
  <2>1. /\ n \in Order /\ n.mode = o.mode /\ n.heldFulfillment = o.heldFulfillment
        /\ n.state = "rejected"
        /\ n.closure = "payment_not_settled" /\ n.payment = "settle_failed"
    BY ZenonT(40) DEF Order, OrderState, Closure, PaymentStage
  <2> HIDE DEF n
  <2>2. Step(o, e.kind, Ok(n, {}))
    BY <1>3, <2>1 DEF Step, Ok, Result, Consistent, ChargeAccount, ReceiptAccount, ClosureAccount
  <2> QED BY <1>3, <2>2 DEF FromQuoted, n
<1>4. CASE e.kind = "purchase_repeated"
  BY <1>4, OkStands DEF FromQuoted
<1>5. CASE /\ e.kind \notin {"payment_verified", "purchase_repeated"}
           /\ ~(e.kind \in {"payment_settled", "payment_settle_failed"}
                /\ o.payment = "settling")
  BY <1>5, NotApplicableStep DEF FromQuoted
<1> QED BY <1>1, <1>2, <1>3, <1>4, <1>5

LEMMA FromExpiredStep ==
    ASSUME NEW o \in Order, NEW e \in Event, Consistent(o), o.state = "expired"
    PROVE  Step(o, e.kind, FromExpired(o, e))
<1>1. CASE e.kind = "handler_delivered" /\ AwaitedLateGoods(o)
  <2> DEFINE n == [o EXCEPT !.heldFulfillment = TRUE]
             held == IF o.heldFulfillment THEN {} ELSE {"hold_fulfillment"}
  <2>1. /\ n \in Order /\ n.mode = o.mode /\ n.state = o.state
        /\ n.payment = o.payment /\ n.closure = o.closure
    BY ZenonT(40) DEF Order
  <2>2. "execute_payment" \notin held /\ "issue_receipt" \notin held
    OBVIOUS
  <2> HIDE DEF n, held
  <2>3. Step(o, e.kind, Result(n, held, "purchase_already_closed", 0))
    BY <1>1, <2>1, <2>2 DEF Step, Result, Consistent, ChargeAccount, ReceiptAccount, ClosureAccount,
               PaymentUnresolved, AwaitedLateGoods, AfterFulfillment
  <2> QED BY <1>1, <2>3 DEF FromExpired, n, held
<1>2. CASE e.kind = "purchase_repeated"
  <2> DEFINE n == [o EXCEPT !.payment = "none"]
  <2>1. /\ n \in Order /\ n.mode = o.mode /\ n.heldFulfillment = o.heldFulfillment
        /\ n.state = o.state /\ n.payment = "none"
    BY DEF Order, PaymentStage
  <2> HIDE DEF n
  <2>2. Step(o, e.kind, Ok(n, {"verify_payment"}))
    BY <1>2, <2>1 DEF Step, Ok, Result, Consistent, ChargeAccount, ReceiptAccount, ClosureAccount,
               PaymentUnresolved
  <2> QED BY <1>2, <2>2, OkStands DEF FromExpired, n
<1>3. CASE e.kind = "payment_verified" /\ o.heldFulfillment /\ o.payment = "none"
           /\ o.mode = "sync"
  <2>1. Step(o, e.kind, StartSettle(o, e.at, "fulfilled"))
    BY <1>3, StartSettleStep, EventType DEF OrderState, PaymentUnresolved
  <2> QED BY <1>3, <2>1 DEF FromExpired
<1>4. CASE e.kind \in {"deliver_called", "refuse_called"}
  BY <1>4, AnswersStand DEF FromExpired
<1>5. CASE /\ e.kind \notin {"purchase_repeated", "deliver_called", "refuse_called"}
           /\ ~(e.kind = "handler_delivered" /\ AwaitedLateGoods(o))
           /\ ~(e.kind = "payment_verified" /\ o.heldFulfillment /\ o.payment = "none")
  BY <1>5, NotApplicableStep DEF FromExpired
<1>6. o.heldFulfillment => o.mode = "sync"
  BY DEF Consistent
<1> QED BY <1>1, <1>2, <1>3, <1>4, <1>5, <1>6

\* Two orders with the same money are charged alike.
LEMMA SameAccountsStep ==
    ASSUME NEW o, NEW c, NEW kind, NEW r, Step(c, kind, r),
           c.mode = o.mode, c.payment = o.payment,
           c.state \notin {"delivered", "fulfillment_closed"}, o.state # "delivered"
    PROVE  Step(o, kind, r)
  BY DEF Step, ChargeAccount, ReceiptAccount, ClosureAccount, PaymentUnresolved

\* What the passed deadline makes of a synchronous order.
LEMMA ClosedByItsDeadline ==
    ASSUME NEW o \in Order, Consistent(o), o.state = "dispatched", o.mode = "sync"
    PROVE  OnDeadline(o, [kind |-> "deadline_expired", detail |-> "sync_response",
                          at |-> o.paidAt + SyncResponseMs])
             = Ok(CloseWithoutMoney(o, "expired", "sync_response"), {})
<1> DEFINE due == o.paidAt + SyncResponseMs
           e == [kind |-> "deadline_expired", detail |-> "sync_response", at |-> due]
<1>1. o.payment = "verified" /\ o.paidAt # Null /\ o.paidAt \in Nat
  BY DEF Consistent, Order, Instant
<1>2. Deadlines(o) = {[kind |-> "sync_response", at |-> due]}
  BY <1>1 DEF Deadlines, FulfillmentDeadline, AfterFulfillment
<1>3. due \in Nat
  BY <1>1, PolicyAssumption
<1> HIDE DEF due
<1>4. {d \in Deadlines(o) : d.kind = e.detail} # {}
  <2> DEFINE d0 == [kind |-> "sync_response", at |-> due]
  <2>1. d0 \in Deadlines(o) /\ d0.kind = e.detail
    BY <1>2
  <2> HIDE DEF d0, e
  <2> QED BY <2>1
<1>5. ~\E d \in {x \in Deadlines(o) : x.kind = e.detail} : e.at < d.at
  BY <1>2, <1>3
<1>6. OnDeadline(o, e) = ResolveFulfillmentFailure(o, "sync_response")
  BY <1>4, <1>5 DEF OnDeadline
<1>7. ResolveFulfillmentFailure(o, "sync_response")
        = Ok(CloseWithoutMoney(o, "expired", "sync_response"), {})
  BY <1>1 DEF ResolveFulfillmentFailure
<1> QED BY <1>6, <1>7 DEF due

LEMMA OverdueSteps ==
    ASSUME NEW o \in Order, NEW e \in Event, Consistent(o), o.state = "dispatched",
           o.mode = "sync", e.kind \in {"handler_delivered", "handler_refused"}
    PROVE  /\ Step(o, e.kind, OverdueSynchronousGoods(o, e))
           /\ Step(o, e.kind, OverdueSynchronousRefusal(o))
<1> DEFINE c == CloseWithoutMoney(o, "expired", "sync_response")
           late == FromExpired(c, e)
           refused == ClosedToMerchant(c)
<1>1. c \in Order /\ c.mode = o.mode /\ c.payment = o.payment /\ c.state = "expired"
  <2>1. "expired" \in OrderState /\ "sync_response" \in Closure
    BY DEF OrderState, Closure, DeadlineKind
  <2> QED BY <2>1 DEF CloseWithoutMoney, Order
<1>2. Step(o, e.kind, Ok(c, {}))
  BY CloseStep DEF OrderState, Closure, DeadlineKind, Consistent
<1>3. Consistent(c)
  BY <1>2 DEF Step, Ok, Result
<1>4. OnDeadline(o, [kind |-> "deadline_expired", detail |-> "sync_response",
                     at |-> o.paidAt + SyncResponseMs]) = Ok(c, {})
  BY ClosedByItsDeadline
<1> HIDE DEF c
<1>5. Step(o, e.kind, late) /\ Step(o, e.kind, refused)
  BY <1>1, <1>3, FromExpiredStep, AnswersStand, SameAccountsStep
<1> HIDE DEF late, refused
<1>6. /\ Step(o, e.kind, With(late, late.effects, late.answer))
      /\ Step(o, e.kind, With(refused, refused.effects, refused.answer))
  BY <1>5, WithStep
<1>7. /\ {} \cup late.effects = late.effects
      /\ {} \cup refused.effects = refused.effects
  OBVIOUS
<1>8. /\ Ok(c, {}).order = c /\ Ok(c, {}).effects = {} /\ IsOk(Ok(c, {}))
  BY DEF Ok, Result, IsOk
<1>9. OverdueSynchronousGoods(o, e)
        = IF ~IsOk(late) THEN late ELSE With(late, late.effects, late.answer)
  BY <1>4, <1>7, <1>8 DEF OverdueSynchronousGoods, ClosedOnTheClock, ThenAnswered, late
<1>10. OverdueSynchronousRefusal(o)
        = IF ~IsOk(refused) THEN refused ELSE With(refused, refused.effects, refused.answer)
  BY <1>4, <1>7, <1>8 DEF OverdueSynchronousRefusal, ClosedOnTheClock, ThenAnswered, refused
<1> QED BY <1>5, <1>6, <1>9, <1>10

LEMMA RedeliverStep ==
    ASSUME NEW o \in Order, NEW at \in Nat, NEW kind, Consistent(o),
           o.state \in {"paid", "dispatched"},
           kind \notin {"payment_settled", "payment_settle_failed"}
    PROVE  Step(o, kind, Redeliver(o, at))
<1>1. Step(o, kind, Result(o, {"redeliver_order"}, "none", RedeliveryDelay(o.attempts)))
  BY StandsStep
<1>2. \A c \in {"sync_response", "async_fulfillment"} :
        Step(o, kind, ResolveFulfillmentFailure(o, c))
  BY ResolveStep DEF Closure, DeadlineKind
<1> QED BY <1>1, <1>2, OkStands DEF Redeliver

LEMMA FromDispatchedStep ==
    ASSUME NEW o \in Order, NEW e \in Event, Consistent(o), o.state = "dispatched"
    PROVE  Step(o, e.kind, FromDispatched(o, e))
<1>1. CASE e.kind = "handler_accepted"
  <2> DEFINE n == [o EXCEPT !.accepted = TRUE]
  <2>1. /\ n \in Order /\ n.mode = o.mode /\ n.state = o.state /\ n.payment = o.payment
        /\ n.paidAt = o.paidAt /\ n.heldFulfillment = o.heldFulfillment
    BY ZenonT(40) DEF Order
  <2> HIDE DEF n
  <2>2. Step(o, e.kind, Result(n, {"withdraw_hand_overs"}, "accepted", 0))
    BY <1>1, <2>1 DEF Step, Result, Consistent, ChargeAccount, ReceiptAccount, ClosureAccount,
               PaymentUnresolved
  <2> QED BY <1>1, <2>2, AnswersStand DEF FromDispatched, n
<1>2. CASE e.kind = "handler_delivered"
  <2>1. Step(o, e.kind, DeliverGoods(o, e.at))
    BY <1>2, DeliverGoodsStep, EventType
  <2>2. OverdueSynchronously(o, e.at) => Step(o, e.kind, OverdueSynchronousGoods(o, e))
    BY <1>2, OverdueSteps DEF OverdueSynchronously, AfterFulfillment
  <2> QED BY <1>2, <2>1, <2>2 DEF FromDispatched
<1>3. CASE e.kind = "handler_refused"
  <2>1. Step(o, e.kind, ResolveFulfillmentFailure(o, "merchant_refused"))
    BY <1>3, ResolveStep DEF Closure
  <2>2. OverdueSynchronously(o, e.at) => Step(o, e.kind, OverdueSynchronousRefusal(o))
    BY <1>3, OverdueSteps DEF OverdueSynchronously, AfterFulfillment
  <2> QED BY <1>3, <2>1, <2>2 DEF FromDispatched
<1>4. CASE e.kind = "handler_undelivered"
  BY <1>4, OkStands, RedeliverStep, EventType DEF FromDispatched
<1>5. CASE e.kind = "deliver_called"
  <2>1. Step(o, e.kind, DeliverGoods(o, e.at))
    BY <1>5, DeliverGoodsStep, EventType
  <2>2. Step(o, e.kind, With(DeliverGoods(o, e.at), DeliverGoods(o, e.at).effects, "delivered"))
    BY <2>1, WithStep
  <2> QED BY <1>5, <2>2, AnswersStand DEF FromDispatched
<1>6. CASE e.kind = "refuse_called"
  <2> DEFINE r == ResolveFulfillmentFailure(o, "merchant_refused")
  <2>1. Step(o, e.kind, r)
    BY <1>6, ResolveStep DEF Closure
  <2>2. Step(o, e.kind, With(r, r.effects, "refused"))
    BY <2>1, WithStep
  <2> QED BY <1>6, <2>2, AnswersStand DEF FromDispatched
<1>7. CASE e.kind = "order_dispatched"
  <2> DEFINE n == [o EXCEPT
                 !.attempts = IF o.dispatchedAt # Null THEN @ + 1 ELSE @,
                 !.dispatchedAt = e.at,
                 !.firstDispatchedAt = IF @ = Null THEN e.at ELSE @]
  <2>0. /\ (IF o.dispatchedAt # Null THEN o.attempts + 1 ELSE o.attempts) \in Nat
        /\ e.at \in Instant
        /\ (IF o.firstDispatchedAt = Null THEN e.at ELSE o.firstDispatchedAt) \in Instant
    BY EventType DEF Order, Instant
  <2>1. /\ n \in Order /\ n.mode = o.mode /\ n.state = o.state /\ n.payment = o.payment
        /\ n.paidAt = o.paidAt
    BY <2>0 DEF Order
  <2>2. n.heldFulfillment = o.heldFulfillment
    BY DEF Order
  <2> HIDE DEF n
  <2>3. Step(o, e.kind, Ok(n, {}))
    BY <1>7, <2>1, <2>2 DEF Step, Ok, Result, Consistent, ChargeAccount, ReceiptAccount, ClosureAccount,
               PaymentUnresolved
  <2> QED BY <1>7, <2>3 DEF FromDispatched, n
<1>8. CASE e.kind = "purchase_repeated"
  BY <1>8, OkStands DEF FromDispatched
<1>9. CASE e.kind \notin {"handler_accepted", "handler_delivered", "handler_refused",
                          "handler_undelivered", "deliver_called", "refuse_called",
                          "order_dispatched", "purchase_repeated"}
  BY <1>9, NotApplicableStep DEF FromDispatched
<1> QED BY <1>1, <1>2, <1>3, <1>4, <1>5, <1>6, <1>7, <1>8, <1>9

LEMMA FromPaidStep ==
    ASSUME NEW o \in Order, NEW e \in Event, Consistent(o), o.state = "paid"
    PROVE  Step(o, e.kind, FromPaid(o, e))
<1> DEFINE d == DispatchedOrder(o, e.at)
           m == [o EXCEPT !.state = "dispatched"]
           h == HandedOver(o)
<1>0. /\ e.at \in Instant /\ o.attempts + 1 \in Nat
      /\ (IF o.attempts < 1 THEN 1 ELSE o.attempts) \in Nat
  BY EventType DEF Order, Instant
<1>1. /\ d \in Order /\ d.mode = o.mode /\ d.state = "dispatched" /\ d.payment = o.payment
      /\ d.paidAt = o.paidAt
  BY <1>0 DEF DispatchedOrder, Order, OrderState
<1>2. d.heldFulfillment = o.heldFulfillment
  BY DEF DispatchedOrder, Order
<1>3. /\ m \in Order /\ m.mode = o.mode /\ m.state = "dispatched" /\ m.payment = o.payment
      /\ m.paidAt = o.paidAt /\ m.heldFulfillment = o.heldFulfillment
  BY DEF Order, OrderState
<1>4. /\ h \in Order /\ h.mode = o.mode /\ h.state = "dispatched" /\ h.payment = o.payment
      /\ h.paidAt = o.paidAt
  BY <1>0 DEF HandedOver, Order, OrderState
<1>5. h.heldFulfillment = o.heldFulfillment
  BY DEF HandedOver, Order
<1> HIDE DEF d, m, h
<1>6. Consistent(m) /\ Consistent(h)
  BY <1>3, <1>4, <1>5 DEF Consistent
<1>7. Step(o, e.kind, FromDispatched(m, e)) /\ Step(o, e.kind, FromDispatched(h, e))
  <2>1. Step(m, e.kind, FromDispatched(m, e)) /\ Step(h, e.kind, FromDispatched(h, e))
    BY <1>3, <1>4, <1>6, FromDispatchedStep
  <2> QED BY <2>1, <1>3, <1>4, SameAccountsStep
<1>8. CASE e.kind = "order_dispatched"
  <2>1. Step(o, e.kind, Ok(d, {}))
    BY <1>1, <1>2, <1>8 DEF Step, Ok, Result, Consistent, ChargeAccount, ReceiptAccount, ClosureAccount,
               PaymentUnresolved
  <2> QED BY <1>8, <2>1 DEF FromPaid, d
<1>9. CASE e.kind \in {"deliver_called", "refuse_called"}
  BY <1>7, <1>9, AnswersStand DEF FromPaid, m
<1>10. CASE e.kind = "handler_accepted"
  BY <1>7, <1>10, AnswersStand DEF FromPaid, h
<1>11. CASE e.kind \in {"handler_delivered", "handler_refused", "handler_undelivered"}
  BY <1>7, <1>11 DEF FromPaid, h
<1>12. CASE e.kind = "purchase_repeated"
  BY <1>12, OkStands DEF FromPaid
<1>13. CASE e.kind \notin {"order_dispatched", "deliver_called", "refuse_called",
                           "handler_accepted", "handler_delivered", "handler_refused",
                           "handler_undelivered", "purchase_repeated"}
  BY <1>13, NotApplicableStep DEF FromPaid
<1> QED BY <1>8, <1>9, <1>10, <1>11, <1>12, <1>13

LEMMA FromFulfilledStep ==
    ASSUME NEW o \in Order, NEW e \in Event, Consistent(o), o.state = "fulfilled"
    PROVE  Step(o, e.kind, FromFulfilled(o, e))
<1>0. o.payment = "settling" /\ o.mode = "sync"
  BY DEF Consistent
<1>1. CASE e.kind = "payment_settled"
  <2> DEFINE n == [o EXCEPT !.state = "delivered", !.payment = "settled", !.closure = "none"]
  <2>1. /\ n \in Order /\ n.mode = o.mode /\ n.heldFulfillment = o.heldFulfillment
        /\ n.state = "delivered" /\ n.payment = "settled"
    BY ZenonT(40) DEF Order, OrderState, PaymentStage, Closure
  <2> HIDE DEF n
  <2>2. Step(o, e.kind, Ok(n, {"release_goods_to_agent", "issue_receipt"}))
    BY <1>1, <2>1, SaleStep DEF Ok
  <2> QED BY <1>0, <1>1, <2>2 DEF FromFulfilled, n
<1>2. CASE e.kind = "payment_settle_failed"
  <2> DEFINE n == [o EXCEPT !.state = "delivered_unpaid", !.payment = "settle_failed",
                            !.closure = "none"]
  <2>1. /\ n \in Order /\ n.mode = o.mode /\ n.heldFulfillment = o.heldFulfillment
        /\ n.state = "delivered_unpaid" /\ n.payment = "settle_failed"
    BY ZenonT(40) DEF Order, OrderState, PaymentStage, Closure
  <2> HIDE DEF n
  <2>2. Step(o, e.kind, Ok(n, {"emit_payment_failed_after_delivery"}))
    BY <1>0, <1>2, <2>1 DEF Step, Ok, Result, Consistent, ChargeAccount, ReceiptAccount, ClosureAccount
  <2> QED BY <1>0, <1>2, <2>2 DEF FromFulfilled, n
<1>3. CASE e.kind \in {"deliver_called", "handler_delivered", "refuse_called"}
  BY <1>3, AnswersStand DEF FromFulfilled
<1>4. CASE e.kind = "purchase_repeated"
  BY <1>4, OkStands DEF FromFulfilled
<1>5. CASE e.kind \notin {"payment_settled", "payment_settle_failed", "deliver_called",
                          "handler_delivered", "refuse_called", "purchase_repeated"}
  BY <1>5, NotApplicableStep DEF FromFulfilled
<1> QED BY <1>1, <1>2, <1>3, <1>4, <1>5

LEMMA FromDeliveredStep ==
    ASSUME NEW o \in Order, NEW e \in Event, Consistent(o), o.state = "delivered"
    PROVE  Step(o, e.kind, FromDelivered(o, e))
<1>1. CASE e.kind \in {"deliver_called", "handler_delivered", "handler_accepted",
                       "refuse_called", "purchase_repeated"}
  BY <1>1, AnswersStand, AnswerStands, OkStands DEF FromDelivered
<1>2. CASE e.kind \notin {"deliver_called", "handler_delivered", "handler_accepted",
                          "refuse_called", "purchase_repeated"}
  BY <1>2, NotApplicableStep DEF FromDelivered
<1> QED BY <1>1, <1>2

LEMMA FromDeliveredUnpaidStep ==
    ASSUME NEW o \in Order, NEW e \in Event, Consistent(o), o.state = "delivered_unpaid",
           o.payment = "settling" => AllowedWhileSettling(o, e)
    PROVE  Step(o, e.kind, FromDeliveredUnpaid(o, e))
<1>0. /\ o.mode = "sync"
      /\ o.payment \in {"none", "settling", "outcome_unknown", "settle_failed"}
  BY DEF Consistent
<1>1. CASE e.kind = "purchase_repeated"
  <2> DEFINE n == [o EXCEPT !.payment = "none"]
  <2>0. o.payment # "settling"
    BY <1>1 DEF AllowedWhileSettling
  <2>1. /\ n \in Order /\ n.mode = o.mode /\ n.heldFulfillment = o.heldFulfillment
        /\ n.state = o.state /\ n.payment = "none"
    BY DEF Order, PaymentStage
  <2> HIDE DEF n
  <2>2. o.payment # "outcome_unknown" => Step(o, e.kind, Ok(n, {"verify_payment"}))
    BY <1>0, <1>1, <2>0, <2>1 DEF Step, Ok, Result, Consistent, ChargeAccount,
               ReceiptAccount, ClosureAccount, PaymentUnresolved
  <2> QED BY <1>1, <2>2, RejectStep DEF FromDeliveredUnpaid, n
<1>2. CASE e.kind = "payment_verified" /\ o.payment = "none"
  <2>1. Step(o, e.kind, StartSettle(o, e.at, o.state))
    BY <1>0, <1>2, StartSettleStep, EventType DEF OrderState, PaymentUnresolved
  <2> QED BY <1>2, <2>1 DEF FromDeliveredUnpaid
<1>3. CASE e.kind = "payment_settled" /\ PaymentUnresolved(o)
  <2> DEFINE n == [o EXCEPT !.state = "delivered", !.payment = "settled"]
  <2>1. /\ n \in Order /\ n.mode = o.mode /\ n.heldFulfillment = o.heldFulfillment
        /\ n.state = "delivered" /\ n.payment = "settled"
    BY ZenonT(40) DEF Order, OrderState, PaymentStage
  <2> HIDE DEF n
  <2>2. Step(o, e.kind, Ok(n, {"release_goods_to_agent", "issue_receipt"}))
    BY <1>3, <2>1, SaleStep DEF Ok
  <2> QED BY <1>3, <2>2 DEF FromDeliveredUnpaid, n
<1>4. CASE e.kind = "payment_settle_failed" /\ PaymentUnresolved(o)
  <2> DEFINE n == [o EXCEPT !.payment = "settle_failed"]
  <2>1. /\ n \in Order /\ n.mode = o.mode /\ n.heldFulfillment = o.heldFulfillment
        /\ n.state = o.state /\ n.payment = "settle_failed"
    BY DEF Order, PaymentStage
  <2> HIDE DEF n
  <2>2. Step(o, e.kind, Ok(n, {}))
    BY <1>0, <1>4, <2>1 DEF Step, Ok, Result, Consistent, ChargeAccount, ReceiptAccount, ClosureAccount
  <2> QED BY <1>4, <2>2 DEF FromDeliveredUnpaid, n
<1>5. CASE e.kind \in {"deliver_called", "handler_delivered", "refuse_called"}
  BY <1>5, AnswersStand DEF FromDeliveredUnpaid
<1>6. CASE /\ e.kind \notin {"purchase_repeated", "deliver_called", "handler_delivered",
                             "refuse_called"}
           /\ ~(e.kind = "payment_verified" /\ o.payment = "none")
           /\ ~(e.kind \in {"payment_settled", "payment_settle_failed"}
                /\ PaymentUnresolved(o))
  BY <1>6, NotApplicableStep DEF FromDeliveredUnpaid
<1> QED BY <1>1, <1>2, <1>3, <1>4, <1>5, <1>6

LEMMA FromUnfulfilledStep ==
    ASSUME NEW o \in Order, NEW e \in Event, Consistent(o), o.state = "unfulfilled"
    PROVE  Step(o, e.kind, FromUnfulfilled(o, e))
<1>0. o.payment = "settled"
  BY DEF Consistent
<1>1. CASE e.kind \in {"deliver_called", "handler_delivered"}
  <2> DEFINE n == [o EXCEPT !.state = "delivered", !.closure = "none"]
             answer == IF e.kind = "deliver_called" THEN "delivered_late" ELSE "none"
  <2>1. /\ n \in Order /\ n.mode = o.mode /\ n.heldFulfillment = o.heldFulfillment
        /\ n.state = "delivered" /\ n.payment = "settled"
    BY <1>0 DEF Order, OrderState, Closure
  <2> HIDE DEF n, answer
  <2>2. Step(o, e.kind, Result(n, {"release_goods_to_agent", "issue_receipt"}, answer, 0))
    BY <1>0, <1>1, <2>1, SaleStep
  <2> QED BY <1>1, <2>2 DEF FromUnfulfilled, n, answer
<1>2. CASE e.kind \in {"refuse_called", "handler_refused", "handler_accepted",
                       "handler_undelivered", "order_dispatched", "purchase_repeated"}
  BY <1>2, AnswerStands, OkStands DEF FromUnfulfilled
<1>3. CASE e.kind \notin {"deliver_called", "handler_delivered", "refuse_called",
                          "handler_refused", "handler_accepted", "handler_undelivered",
                          "order_dispatched", "purchase_repeated"}
  BY <1>3, NotApplicableStep DEF FromUnfulfilled
<1> QED BY <1>1, <1>2, <1>3

LEMMA FromFulfillmentClosedStep ==
    ASSUME NEW o \in Order, NEW e \in Event, Consistent(o), o.state = "fulfillment_closed"
    PROVE  Step(o, e.kind, FromFulfillmentClosed(o, e))
<1>1. CASE e.kind = "payment_settled" /\ PaymentUnresolved(o)
  <2> DEFINE at == IF o.closedAt = Null THEN o.paymentCompletedAt ELSE e.at
             n == [o EXCEPT !.payment = "settled", !.paymentCompletedAt = at]
  <2>0. at \in Instant
    BY EventType DEF Order, Instant
  <2> HIDE DEF at
  <2>1. /\ n \in Order /\ n.mode = o.mode /\ n.state = o.state /\ n.payment = "settled"
        /\ n.closedAt = o.closedAt /\ n.paymentCompletedAt = at
    BY <2>0 DEF Order, PaymentStage
  <2>2. n.heldFulfillment = o.heldFulfillment
    BY DEF Order
  <2>3. n = [o EXCEPT !.payment = "settled",
                      !.paymentCompletedAt = IF o.closedAt = Null THEN @ ELSE e.at]
    BY DEF at, Order
  <2> HIDE DEF n
  <2>4. Step(o, e.kind, Ok(n, {"emit_unfulfilled"}))
    <3>1. at # Null
      BY EventType DEF at, Consistent, Null
    <3> QED BY <1>1, <2>1, <2>2, <3>1 DEF Step, Ok, Result, Consistent, ChargeAccount,
               ReceiptAccount, ClosureAccount
  <2> QED BY <1>1, <2>3, <2>4 DEF FromFulfillmentClosed
<1>2. CASE e.kind = "payment_settle_failed" /\ PaymentUnresolved(o)
  <2> DEFINE n == [o EXCEPT !.payment = "settle_failed"]
  <2>1. /\ n \in Order /\ n.mode = o.mode /\ n.heldFulfillment = o.heldFulfillment
        /\ n.state = o.state /\ n.payment = "settle_failed" /\ n.closedAt = o.closedAt
    BY DEF Order, PaymentStage
  <2> HIDE DEF n
  <2>2. Step(o, e.kind, Ok(n, {}))
    BY <1>2, <2>1 DEF Step, Ok, Result, Consistent, ChargeAccount, ReceiptAccount, ClosureAccount
  <2> QED BY <1>2, <2>2 DEF FromFulfillmentClosed, n
<1>3. CASE e.kind \in {"deliver_called", "handler_delivered", "refuse_called",
                       "purchase_repeated"}
  BY <1>3, AnswersStand, AnswerStands, OkStands DEF FromFulfillmentClosed
<1>4. CASE /\ e.kind \notin {"deliver_called", "handler_delivered", "refuse_called",
                             "purchase_repeated"}
           /\ ~(e.kind \in {"payment_settled", "payment_settle_failed"}
                /\ PaymentUnresolved(o))
  BY <1>4, NotApplicableStep DEF FromFulfillmentClosed
<1> QED BY <1>1, <1>2, <1>3, <1>4

LEMMA FromFailedStep ==
    ASSUME NEW o \in Order, NEW e \in Event, Consistent(o), o.state = "failed"
    PROVE  Step(o, e.kind, FromFailed(o, e))
<1>1. CASE e.kind \in {"deliver_called", "refuse_called", "purchase_repeated"}
  BY <1>1, AnswersStand, OkStands DEF FromFailed
<1>2. CASE e.kind \notin {"deliver_called", "refuse_called", "purchase_repeated"}
  BY <1>2, NotApplicableStep DEF FromFailed
<1> QED BY <1>1, <1>2

LEMMA FromClosedWithoutMoneyStep ==
    ASSUME NEW o \in Order, NEW e \in Event, Consistent(o), o.state = "rejected"
    PROVE  Step(o, e.kind, FromClosedWithoutMoney(o, e))
<1>1. CASE e.kind \in {"deliver_called", "refuse_called", "purchase_repeated"}
  BY <1>1, AnswersStand, OkStands DEF FromClosedWithoutMoney
<1>2. CASE e.kind = "payment_settled" /\ o.closure = "payment_outcome_unknown"
  <2> DEFINE n == [o EXCEPT !.state = "unfulfilled", !.payment = "settled"]
  <2>0. o.mode # "sync"
    BY <1>2 DEF Consistent
  <2>1. /\ n \in Order /\ n.mode = o.mode /\ n.heldFulfillment = o.heldFulfillment
        /\ n.state = "unfulfilled" /\ n.payment = "settled"
    BY ZenonT(40) DEF Order, OrderState, PaymentStage
  <2> HIDE DEF n
  <2>2. Step(o, e.kind, Ok(n, {"mark_unfulfilled", "emit_unfulfilled"}))
    BY <1>2, <2>0, <2>1 DEF Step, Ok, Result, Consistent, ChargeAccount, ReceiptAccount, ClosureAccount
  <2> QED BY <1>2, <2>2 DEF FromClosedWithoutMoney, n
<1>3. CASE e.kind = "payment_settle_failed" /\ o.closure = "payment_outcome_unknown"
  <2> DEFINE n == [o EXCEPT !.payment = "settle_failed", !.closure = "payment_not_settled"]
  <2>1. /\ n \in Order /\ n.mode = o.mode /\ n.heldFulfillment = o.heldFulfillment
        /\ n.state = o.state /\ n.payment = "settle_failed"
        /\ n.closure = "payment_not_settled"
    BY ZenonT(40) DEF Order, Closure, PaymentStage
  <2> HIDE DEF n
  <2>2. Step(o, e.kind, Ok(n, {}))
    BY <1>3, <2>1 DEF Step, Ok, Result, Consistent, ChargeAccount, ReceiptAccount, ClosureAccount
  <2> QED BY <1>3, <2>2 DEF FromClosedWithoutMoney, n
<1>4. CASE /\ e.kind \notin {"deliver_called", "refuse_called", "purchase_repeated"}
           /\ ~(e.kind \in {"payment_settled", "payment_settle_failed"}
                /\ o.closure = "payment_outcome_unknown")
  BY <1>4, NotApplicableStep DEF FromClosedWithoutMoney
<1> QED BY <1>1, <1>2, <1>3, <1>4

-----------------------------------------------------------------------------
(* The entry points *)

LEMMA PaymentPresentedStep ==
    ASSUME NEW o \in Order, NEW e \in Event, Consistent(o), e.kind = "payment_presented"
    PROVE  Step(o, e.kind, PaymentPresented(o, e))
<1> DEFINE n == [o EXCEPT !.createdAt = e.at, !.paymentPresentedAt = e.at]
<1>1. /\ n \in Order /\ n.mode = o.mode /\ n.state = o.state /\ n.payment = o.payment
      /\ n.settleStartedAt = o.settleStartedAt
  BY EventType DEF Order, Instant
<1>2. n.heldFulfillment = o.heldFulfillment
  BY DEF Order
<1> HIDE DEF n
<1>3. o.state = "quoted" => Step(o, e.kind, Ok(n, {}))
  BY <1>1, <1>2 DEF Step, Ok, Result, Consistent, ChargeAccount, ReceiptAccount, ClosureAccount,
             PaymentUnresolved
<1>4. CASE o.state = "quoted"
  BY <1>3, <1>4, NotApplicableStep, OkStands DEF PaymentPresented, n
<1>5. CASE o.state # "quoted"
  BY <1>5, NotApplicableStep DEF PaymentPresented
<1> QED BY <1>4, <1>5

LEMMA CloseCalledStep ==
    ASSUME NEW o \in Order, NEW e \in Event, Consistent(o), e.kind = "close_called"
    PROVE  Step(o, e.kind, CloseCalled(o, e))
<1> DEFINE n == [o EXCEPT !.state = "fulfillment_closed", !.closedAt = e.at,
                          !.paymentCompletedAt = Null]
<1>1. /\ n \in Order /\ n.mode = o.mode /\ n.state = "fulfillment_closed"
      /\ n.payment = o.payment /\ n.settleStartedAt = o.settleStartedAt
      /\ n.closedAt = e.at
  <2>1. e.at \in Instant /\ Null \in Instant
    BY EventType DEF Instant
  <2> QED BY <2>1 DEF Order, OrderState
<1>0. e.at # Null
  BY EventType DEF Null
<1>2. n.heldFulfillment = o.heldFulfillment
  BY DEF Order
<1> HIDE DEF n
<1>3. CASE o.state = "delivered"
  BY <1>3, AnswerStands DEF CloseCalled
<1>4. CASE o.state # "delivered"
  <2>1. Step(o, e.kind, AnswerMerchant(n, "purchase_already_closed"))
    BY <1>0, <1>1, <1>2, <1>4 DEF Step, AnswerMerchant, Result, Consistent, ChargeAccount,
               ReceiptAccount, ClosureAccount, PaymentUnresolved
  <2> QED BY <1>4, <2>1, AnswerStands DEF CloseCalled, n
<1> QED BY <1>3, <1>4

LEMMA TransitionInStep ==
    ASSUME NEW o \in Order, NEW e \in Event, Consistent(o)
    PROVE  Step(o, e.kind, TransitionIn(o, e))
<1>1. CASE e.kind = "payment_presented"
  BY <1>1, PaymentPresentedStep DEF TransitionIn
<1>2. CASE e.kind = "close_called"
  BY <1>2, CloseCalledStep DEF TransitionIn
<1>3. CASE e.kind = "deadline_expired"
  BY <1>3, OnDeadlineStep DEF TransitionIn
<1>4. CASE e.kind \notin {"payment_presented", "close_called", "deadline_expired"}
  <2>1. CASE o.state = "fulfillment_closed"
    BY <1>4, <2>1, FromFulfillmentClosedStep DEF TransitionIn
  <2>2. CASE o.state # "fulfillment_closed" /\ o.payment = "settling"
             /\ ~AllowedWhileSettling(o, e)
    BY <1>4, <2>2, RejectStep DEF TransitionIn
  <2>3. CASE /\ o.state # "fulfillment_closed"
             /\ o.payment = "settling" => AllowedWhileSettling(o, e)
    <3>1. o.state = "created" => Step(o, e.kind, TransitionIn(o, e))
      BY <1>4, <2>3, FromCreatedStep DEF TransitionIn
    <3>2. o.state = "quoted" => Step(o, e.kind, TransitionIn(o, e))
      BY <1>4, <2>3, FromQuotedStep DEF TransitionIn
    <3>3. o.state = "paid" => Step(o, e.kind, TransitionIn(o, e))
      BY <1>4, <2>3, FromPaidStep DEF TransitionIn
    <3>4. o.state = "dispatched" => Step(o, e.kind, TransitionIn(o, e))
      BY <1>4, <2>3, FromDispatchedStep DEF TransitionIn
    <3>5. o.state = "fulfilled" => Step(o, e.kind, TransitionIn(o, e))
      BY <1>4, <2>3, FromFulfilledStep DEF TransitionIn
    <3>6. o.state = "delivered" => Step(o, e.kind, TransitionIn(o, e))
      BY <1>4, <2>3, FromDeliveredStep DEF TransitionIn
    <3>7. o.state = "delivered_unpaid" => Step(o, e.kind, TransitionIn(o, e))
      BY <1>4, <2>3, FromDeliveredUnpaidStep DEF TransitionIn
    <3>8. o.state = "unfulfilled" => Step(o, e.kind, TransitionIn(o, e))
      BY <1>4, <2>3, FromUnfulfilledStep DEF TransitionIn
    <3>9. o.state = "failed" => Step(o, e.kind, TransitionIn(o, e))
      BY <1>4, <2>3, FromFailedStep DEF TransitionIn
    <3>10. o.state = "expired" => Step(o, e.kind, TransitionIn(o, e))
      BY <1>4, <2>3, FromExpiredStep DEF TransitionIn
    <3>11. o.state = "rejected" => Step(o, e.kind, TransitionIn(o, e))
      BY <1>4, <2>3, FromClosedWithoutMoneyStep DEF TransitionIn
    <3>12. o.state \in OrderState
      BY DEF Order
    <3> QED BY <2>3, <3>1, <3>2, <3>3, <3>4, <3>5, <3>6, <3>7, <3>8, <3>9, <3>10,
               <3>11, <3>12 DEF OrderState
  <2> QED BY <2>1, <2>2, <2>3
<1> QED BY <1>1, <1>2, <1>3, <1>4

\* Every event leaves the order typed and its money where the state says.
LEMMA TransitionStep ==
    ASSUME NEW o \in Order, NEW e \in Event, Consistent(o)
    PROVE  Step(o, e.kind, Transition(o, e))
<1> DEFINE r == TransitionIn(o, e)
           w == With(r, r.effects \cup {"erase_ship_to"}, r.answer)
<1>1. Step(o, e.kind, r)
  BY TransitionInStep
<1> HIDE DEF r
<1>2. Step(o, e.kind, w)
  BY <1>1 DEF Step, With, ChargeAccount, ReceiptAccount, ClosureAccount
<1> HIDE DEF w
<1> QED BY <1>1, <1>2, NotApplicableStep DEF Transition, r, w

-----------------------------------------------------------------------------
(* What single transitions promise *)

\* An event that is taken leaves the order its state wrote.
LEMMA TransitionOrder ==
    ASSUME NEW o, NEW e, Transition(o, e).code = "none"
    PROVE  /\ TransitionIn(o, e).code = "none"
           /\ Transition(o, e).order = TransitionIn(o, e).order
  BY DEF Transition, NotApplicable, Reject, With

\* Where a charge can be out.
LEMMA UnresolvedStates ==
    ASSUME NEW o \in Order, Consistent(o), PaymentUnresolved(o)
    PROVE  \/ o.state = "quoted" /\ o.payment = "settling"
           \/ o.state = "fulfilled" /\ o.payment = "settling"
           \/ o.state \in {"delivered_unpaid", "fulfillment_closed"}
           \/ o.state = "rejected" /\ o.closure = "payment_outcome_unknown"
                                   /\ o.payment = "outcome_unknown"
  BY DEF Consistent, PaymentUnresolved, Order, OrderState

(* However an order with a charge out came to where it is, it takes the    *)
(* charge's answer and records it.                                         *)
LEMMA AnswerIsTaken ==
    ASSUME NEW o \in Order, NEW e \in Event, Consistent(o), PaymentUnresolved(o),
           e.kind \in {"payment_settled", "payment_settle_failed"}
    PROVE  /\ IsOk(Transition(o, e))
           /\ Transition(o, e).order.payment =
                IF e.kind = "payment_settled" THEN "settled" ELSE "settle_failed"
<1>1. TransitionIn(o, e).code = "none"
  <2>1. CASE o.state = "quoted" /\ o.payment = "settling"
    BY <2>1 DEF TransitionIn, AllowedWhileSettling, FromQuoted, EnterPaid, Ok, Result
  <2>2. CASE o.state = "fulfilled" /\ o.payment = "settling"
    BY <2>2 DEF TransitionIn, AllowedWhileSettling, FromFulfilled, Ok, Result
  <2>3. CASE o.state = "delivered_unpaid"
    BY <2>3 DEF TransitionIn, AllowedWhileSettling, FromDeliveredUnpaid, Ok, Result
  <2>4. CASE o.state = "fulfillment_closed"
    BY <2>4 DEF TransitionIn, FromFulfillmentClosed, Ok, Result
  <2>5. CASE /\ o.state = "rejected" /\ o.closure = "payment_outcome_unknown"
             /\ o.payment = "outcome_unknown"
    BY <2>5 DEF TransitionIn, FromClosedWithoutMoney, Ok, Result
  <2> QED BY <2>1, <2>2, <2>3, <2>4, <2>5, UnresolvedStates
<1>2. Transition(o, e).code = "none"
  <2> DEFINE r == TransitionIn(o, e)
             w == With(r, r.effects \cup {"erase_ship_to"}, r.answer)
  <2>1. w.code = r.code
    BY DEF With
  <2>2. Transition(o, e) \in {r, w}
    BY DEF Transition
  <2> HIDE DEF r, w
  <2> QED BY <1>1, <2>1, <2>2 DEF r
<1>3. ChargeAccount(o, e.kind, Transition(o, e))
  BY <1>2, TransitionStep DEF Step
<1> QED BY <1>2, <1>3 DEF ChargeAccount, IsOk

\* Goods past their deadline find the purchase closed by it.
LEMMA OverdueGoodsExpire ==
    ASSUME NEW o \in Order, NEW e \in Event, Consistent(o), o.state = "dispatched",
           o.mode = "sync", e.kind = "handler_delivered",
           OverdueSynchronousGoods(o, e).code = "none"
    PROVE  OverdueSynchronousGoods(o, e).order.state = "expired"
<1> DEFINE c == CloseWithoutMoney(o, "expired", "sync_response")
           late == FromExpired(c, e)
<1>1. c \in Order /\ c.state = "expired" /\ c.closure = "sync_response" /\ c.mode = "sync"
  <2>1. "expired" \in OrderState /\ "sync_response" \in Closure
    BY DEF OrderState, Closure, DeadlineKind
  <2> QED BY <2>1 DEF CloseWithoutMoney, Order
<1>2. ClosedOnTheClock(o) = Ok(c, {})
  BY ClosedByItsDeadline DEF ClosedOnTheClock
<1> HIDE DEF c
<1>3. late.order = [c EXCEPT !.heldFulfillment = TRUE] /\ late.code = "none"
  BY <1>1 DEF FromExpired, AwaitedLateGoods, AfterFulfillment, Result
<1>4. late.order.state = "expired"
  BY <1>1, <1>3 DEF Order
<1> HIDE DEF late
<1>5. OverdueSynchronousGoods(o, e).order = late.order
  BY <1>2, <1>3 DEF OverdueSynchronousGoods, ThenAnswered, With, IsOk, Ok, Result, late
<1> QED BY <1>4, <1>5

\* The moves of a fulfillment that do not start a charge.
LEMMA NotFulfilled ==
    ASSUME NEW o \in Order, Consistent(o), o.state \in {"paid", "dispatched"},
           NEW c, NEW at
    PROVE  /\ ResolveFulfillmentFailure(o, c).order.state # "fulfilled"
           /\ Redeliver(o, at).order.state # "fulfilled"
           /\ o.mode # "sync" => DeliverGoods(o, at).order.state # "fulfilled"
<1>1. /\ [o EXCEPT !.state = "unfulfilled", !.closure = c].state = "unfulfilled"
      /\ CloseWithoutMoney(o, "failed", c).state = "failed"
      /\ CloseWithoutMoney(o, "expired", c).state = "expired"
      /\ [o EXCEPT !.state = "delivered", !.closure = "none"].state = "delivered"
  BY DEF Order, CloseWithoutMoney
<1>2. ASSUME NEW d PROVE ResolveFulfillmentFailure(o, d).order.state # "fulfilled"
  <2>1. /\ [o EXCEPT !.state = "unfulfilled", !.closure = d].state = "unfulfilled"
        /\ CloseWithoutMoney(o, "failed", d).state = "failed"
        /\ CloseWithoutMoney(o, "expired", d).state = "expired"
    BY DEF Order, CloseWithoutMoney
  <2> QED BY <2>1 DEF ResolveFulfillmentFailure, Ok, Result
<1>3. Redeliver(o, at).order.state # "fulfilled"
  BY <1>2 DEF Redeliver, Ok, Result
<1>4. o.mode # "sync" => DeliverGoods(o, at).order.state # "fulfilled"
  BY <1>1 DEF DeliverGoods, AfterFulfillment, Ok, Result
<1> QED BY <1>2, <1>3, <1>4

(* Goods that start a charge came from the handler, before the deadline of *)
(* the synchronous purchase they answer.                                   *)
LEMMA GoodsInTimeDispatched ==
    ASSUME NEW o \in Order, NEW e \in Event, Consistent(o), o.state = "dispatched",
           FromDispatched(o, e).code = "none", FromDispatched(o, e).order.state = "fulfilled"
    PROVE  e.kind = "handler_delivered" /\ e.at < o.paidAt + SyncResponseMs
<1>1. CASE e.kind = "handler_accepted"
  <2>1. [o EXCEPT !.accepted = TRUE].state = o.state
    BY DEF Order
  <2> QED BY <1>1, <2>1 DEF FromDispatched, NotInThisMode, AnswerMerchant, Result
<1>2. CASE e.kind = "handler_delivered"
  <2>1. o.mode = "sync"
    <3>1. CASE o.mode # "sync"
      <4>1. FromDispatched(o, e) = DeliverGoods(o, e.at)
        BY <1>2, <3>1 DEF FromDispatched, OverdueSynchronously, AfterFulfillment
      <4> QED BY <3>1, <4>1, NotFulfilled
    <3> QED BY <3>1
  <2>2. ~OverdueSynchronously(o, e.at)
    BY <1>2, <2>1, OverdueGoodsExpire DEF FromDispatched
  <2>3. o.paidAt # Null /\ o.paidAt \in Nat
    BY DEF Consistent, Order, Instant
  <2>4. FulfillmentDeadline(o) = {[kind |-> "sync_response", at |-> o.paidAt + SyncResponseMs]}
    BY <2>1, <2>3 DEF FulfillmentDeadline, AfterFulfillment
  <2>5. ~(e.at >= o.paidAt + SyncResponseMs)
    BY <2>1, <2>2, <2>4 DEF OverdueSynchronously, AfterFulfillment
  <2> QED BY <1>2, <2>3, <2>5, EventType, PolicyAssumption
<1>3. CASE e.kind = "handler_refused"
  <2>1. CASE OverdueSynchronously(o, e.at)
    <3> DEFINE c == CloseWithoutMoney(o, "expired", "sync_response")
    <3>1. ClosedOnTheClock(o) = Ok(c, {}) /\ c.state = "expired"
      BY <2>1, ClosedByItsDeadline DEF ClosedOnTheClock, OverdueSynchronously,
           AfterFulfillment, CloseWithoutMoney, Order
    <3> HIDE DEF c
    <3>2. OverdueSynchronousRefusal(o).order.state = "expired"
      BY <3>1 DEF OverdueSynchronousRefusal, ThenAnswered, ClosedToMerchant,
           AnswerMerchant, With, IsOk, Ok, Result
    <3> QED BY <1>3, <2>1, <3>2 DEF FromDispatched
  <2> QED BY <1>3, <2>1, NotFulfilled DEF FromDispatched
<1>4. CASE e.kind = "handler_undelivered"
  BY <1>4, NotFulfilled DEF FromDispatched, Ok, Result
<1>5. CASE e.kind = "deliver_called"
  BY <1>5, NotFulfilled DEF FromDispatched, NotInThisMode, AnswerMerchant, Result, With,
       AfterFulfillment
<1>6. CASE e.kind = "refuse_called"
  BY <1>6, NotFulfilled DEF FromDispatched, NotInThisMode, AnswerMerchant, Result, With
<1>7. CASE e.kind = "order_dispatched"
  <2> DEFINE n == [o EXCEPT
                 !.attempts = IF o.dispatchedAt # Null THEN @ + 1 ELSE @,
                 !.dispatchedAt = e.at,
                 !.firstDispatchedAt = IF @ = Null THEN e.at ELSE @]
  <2>1. n.state = o.state
    BY DEF Order
  <2>2. FromDispatched(o, e) = Ok(n, {})
    BY <1>7 DEF FromDispatched
  <2> HIDE DEF n
  <2> QED BY <2>1, <2>2 DEF Ok, Result
<1>8. CASE e.kind \notin {"handler_accepted", "handler_delivered", "handler_refused",
                          "handler_undelivered", "deliver_called", "refuse_called",
                          "order_dispatched"}
  BY <1>8 DEF FromDispatched, Ok, Result, NotApplicable, Reject
<1> QED BY <1>1, <1>2, <1>3, <1>4, <1>5, <1>6, <1>7, <1>8

LEMMA GoodsInTimePaid ==
    ASSUME NEW o \in Order, NEW e \in Event, Consistent(o), o.state = "paid",
           FromPaid(o, e).code = "none", FromPaid(o, e).order.state = "fulfilled"
    PROVE  e.kind = "handler_delivered" /\ e.at < o.paidAt + SyncResponseMs
<1> DEFINE d == DispatchedOrder(o, e.at)
           m == [o EXCEPT !.state = "dispatched"]
           h == HandedOver(o)
<1>0. (IF o.attempts < 1 THEN 1 ELSE o.attempts) \in Nat
  BY DEF Order
<1>1. d.state = "dispatched"
  BY DEF DispatchedOrder, Order
<1>2. /\ m \in Order /\ m.mode = o.mode /\ m.state = "dispatched" /\ m.payment = o.payment
      /\ m.paidAt = o.paidAt /\ m.heldFulfillment = o.heldFulfillment
  BY DEF Order, OrderState
<1>3. /\ h \in Order /\ h.mode = o.mode /\ h.state = "dispatched" /\ h.payment = o.payment
      /\ h.paidAt = o.paidAt
  BY <1>0 DEF HandedOver, Order, OrderState
<1>4. h.heldFulfillment = o.heldFulfillment
  BY DEF HandedOver, Order
<1> HIDE DEF d, m, h
<1>5. Consistent(m) /\ Consistent(h)
  BY <1>2, <1>3, <1>4 DEF Consistent
<1>6. CASE e.kind = "order_dispatched"
  BY <1>1, <1>6 DEF FromPaid, Ok, Result, d
<1>7. CASE e.kind \in {"deliver_called", "refuse_called"}
  <2>1. CASE AfterFulfillment(o)
    BY <1>7, <2>1 DEF FromPaid, NotInThisMode, AnswerMerchant, Result
  <2>2. CASE ~AfterFulfillment(o)
    <3>1. FromPaid(o, e) = FromDispatched(m, e)
      BY <1>7, <2>2 DEF FromPaid, m
    <3> QED BY <1>2, <1>5, <1>7, <3>1, GoodsInTimeDispatched
  <2> QED BY <2>1, <2>2
<1>8. CASE e.kind \in {"handler_accepted", "handler_delivered", "handler_refused",
                       "handler_undelivered"}
  <2>1. CASE e.kind = "handler_accepted" /\ AfterFulfillment(o)
    BY <2>1 DEF FromPaid, NotInThisMode, AnswerMerchant, Result
  <2>2. CASE ~(e.kind = "handler_accepted" /\ AfterFulfillment(o))
    <3>1. FromPaid(o, e) = FromDispatched(h, e)
      BY <1>8, <2>2 DEF FromPaid, h
    <3> QED BY <1>3, <1>5, <1>8, <3>1, GoodsInTimeDispatched
  <2> QED BY <2>1, <2>2
<1>9. CASE e.kind \notin {"order_dispatched", "deliver_called", "refuse_called",
                          "handler_accepted", "handler_delivered", "handler_refused",
                          "handler_undelivered"}
  BY <1>9 DEF FromPaid, Ok, Result, NotApplicable, Reject
<1> QED BY <1>6, <1>7, <1>8, <1>9

LEMMA GoodsInTime ==
    ASSUME NEW o \in Order, NEW e \in Event, Consistent(o),
           o.state \in {"paid", "dispatched"},
           Transition(o, e).code = "none", Transition(o, e).order.state = "fulfilled"
    PROVE  e.kind = "handler_delivered" /\ e.at < o.paidAt + SyncResponseMs
<1>1. TransitionIn(o, e).code = "none" /\ TransitionIn(o, e).order.state = "fulfilled"
  BY TransitionOrder
<1>2. o.payment # "settling"
  BY DEF Consistent
<1>3. CASE e.kind = "payment_presented"
  BY <1>1, <1>3 DEF TransitionIn, PaymentPresented, NotApplicable, Reject
<1>4. CASE e.kind = "close_called"
  <2>1. [o EXCEPT !.state = "fulfillment_closed", !.closedAt = e.at,
                  !.paymentCompletedAt = Null].state = "fulfillment_closed"
    BY DEF Order
  <2> QED BY <1>1, <1>4, <2>1 DEF TransitionIn, CloseCalled, AnswerMerchant, Result
<1>5. CASE e.kind = "deadline_expired"
  <2> DEFINE armed == {d \in Deadlines(o) : d.kind = e.detail}
  <2>1. TransitionIn(o, e) = OnDeadline(o, e)
    BY <1>5 DEF TransitionIn
  <2>2. armed # {} /\ ~\E d \in armed : e.at < d.at
    BY <1>1, <2>1 DEF OnDeadline, Reject
  <2>3. PICK d \in Deadlines(o) : d.kind = e.detail
    BY <2>2
  <2>4. e.detail \in {"sync_response", "async_fulfillment"}
    BY <1>2, <2>3, DeadlineArmed
  <2>5. OnDeadline(o, e) = ResolveFulfillmentFailure(o, e.detail)
    BY <2>2, <2>4 DEF OnDeadline
  <2> QED BY <1>1, <2>1, <2>5, NotFulfilled
<1>6. CASE e.kind \notin {"payment_presented", "close_called", "deadline_expired"}
  BY <1>1, <1>2, <1>6, GoodsInTimePaid, GoodsInTimeDispatched DEF TransitionIn
<1> QED BY <1>3, <1>4, <1>5, <1>6

-----------------------------------------------------------------------------
(* The first steps of an order *)

LEMMA OccursStep ==
    ASSUME NEW o \in Order, Consistent(o), NEW kind \in EventKind, NEW at \in Nat
    PROVE  Step(o, kind, Occurs(o, kind, at))
<1> DEFINE e == [kind |-> kind, at |-> at, detail |-> "none"]
<1>1. e \in Event /\ e.kind = kind
  BY DEF Event, Detail
<1>2. Occurs(o, kind, at) = Transition(o, e)
  BY DEF Occurs
<1> HIDE DEF e
<1> QED BY <1>1, <1>2, TransitionStep

\* An order of a card's price is on sale at once.
LEMMA CardOrder ==
    ASSUME NEW mode \in FulfillmentMode, NEW at \in Nat
    PROVE  LET quoted == CreateOrder(mode, "card", at).order
           IN  /\ quoted \in Order /\ quoted.state = "quoted" /\ quoted.payment = "none"
               /\ quoted.mode = mode /\ Consistent(quoted)
<1> DEFINE base == [state |-> "created", mode |-> mode, payment |-> "none",
                 attempts |-> 0, accepted |-> FALSE, heldFulfillment |-> FALSE,
                 closure |-> "none", closedAt |-> Null,
                 paymentCompletedAt |-> Null, createdAt |-> at,
                 quotedAt |-> Null, paymentPresentedAt |-> Null,
                 settleStartedAt |-> Null, paidAt |-> Null,
                 dispatchedAt |-> Null, firstDispatchedAt |-> Null]
           quoted == [base EXCEPT !.state = "quoted", !.quotedAt = at]
<1>1. CreateOrder(mode, "card", at).order = quoted
  BY DEF CreateOrder, Ok, Result
<1>2. base \in Order
  BY DEF Order, OrderState, PaymentStage, Closure, Instant, Null
<1>3. base.heldFulfillment = FALSE
  OBVIOUS
<1>4. quoted \in Order /\ quoted.state = "quoted" /\ quoted.payment = "none" /\ quoted.mode = mode
  <2>1. base.payment = "none" /\ base.mode = mode
    OBVIOUS
  <2>2. at \in Instant /\ "quoted" \in OrderState
    BY DEF Instant, OrderState
  <2> HIDE DEF base
  <2> QED BY <1>2, <2>1, <2>2, ZenonT(40) DEF Order
<1>5. quoted.heldFulfillment = FALSE
  <2> HIDE DEF base
  <2> QED BY <1>2, <1>3 DEF Order
<1> HIDE DEF quoted
<1>6. Consistent(quoted)
  BY <1>4, <1>5 DEF Consistent
<1> QED BY <1>1, <1>4, <1>6

\* Presented, in time or not, it is still a quoted order without a payment.
LEMMA PresentedOrder ==
    ASSUME NEW o \in Order, Consistent(o), o.state = "quoted", o.payment = "none", NEW at \in Nat
    PROVE  LET shown == Occurs(o, "payment_presented", at).order
           IN  /\ shown \in Order /\ shown.state = "quoted" /\ shown.payment = "none"
               /\ shown.mode = o.mode /\ Consistent(shown)
<1> DEFINE e == [kind |-> "payment_presented", at |-> at, detail |-> "none"]
           n == [o EXCEPT !.createdAt = at, !.paymentPresentedAt = at]
           r == Occurs(o, "payment_presented", at)
<1>1. n.state = "quoted" /\ n.payment = "none" /\ n.mode = o.mode
  BY DEF Order
<1> HIDE DEF n
<1>2. PaymentPresented(o, e) \in {NotApplicable(o), Ok(o, {}), Ok(n, {})}
  BY DEF PaymentPresented, n
<1>3. TransitionIn(o, e) = PaymentPresented(o, e)
  BY DEF TransitionIn
<1>4. r = PaymentPresented(o, e)
  <2>1. ~HoldsShipTo(o)
    BY DEF HoldsShipTo
  <2> QED BY <1>3, <2>1 DEF Occurs, Transition
<1>5. Step(o, "payment_presented", r)
  BY OccursStep DEF EventKind
<1> HIDE DEF r, e
<1>6. CASE r = NotApplicable(o)
  BY <1>6 DEF NotApplicable, Reject, r
<1>7. CASE r \in {Ok(o, {}), Ok(n, {})}
  BY <1>1, <1>5, <1>7 DEF Ok, Result, Step, r
<1> QED BY <1>2, <1>4, <1>6, <1>7

-----------------------------------------------------------------------------
(* What a transition does to an order on its way to the merchant, and to   *)
(* its envelopes.                                                          *)

OnItsWay == {"paid", "dispatched"}

\* An order that is off its way comes back to it by no event but a payment's.
OffItsWay(r) ==
    r.code = "none" =>
      /\ r.order.state \notin OnItsWay \cup {"created", "quoted"}
      /\ r.effects \cap {"dispatch_order", "redeliver_order", "withdraw_hand_overs",
                         "erase_ship_to"} = {}
      /\ r.delay = 0

LEMMA OffFulfilled ==
    ASSUME NEW o \in Order, NEW e \in Event, o.state = "fulfilled"
    PROVE  OffItsWay(FromFulfilled(o, e))
BY DEF OffItsWay, OnItsWay, FromFulfilled, RepeatedDelivery, AnswerMerchant, NotInThisMode,
       NotApplicable, Reject, Ok, Result, Order

LEMMA OffDelivered ==
    ASSUME NEW o \in Order, NEW e \in Event, o.state = "delivered"
    PROVE  OffItsWay(FromDelivered(o, e))
BY DEF OffItsWay, OnItsWay, FromDelivered, RepeatedDelivery, AnswerMerchant, ClosedToMerchant,
       NotApplicable, Reject, Ok, Result, Order

LEMMA OffDeliveredUnpaid ==
    ASSUME NEW o \in Order, NEW e \in Event, o.state = "delivered_unpaid"
    PROVE  OffItsWay(FromDeliveredUnpaid(o, e))
BY DEF OffItsWay, OnItsWay, FromDeliveredUnpaid, RepeatedDelivery, AnswerMerchant, NotInThisMode,
       StartSettle, NotApplicable, Reject, Ok, Result, Order

LEMMA OffUnfulfilled ==
    ASSUME NEW o \in Order, NEW e \in Event, o.state = "unfulfilled"
    PROVE  OffItsWay(FromUnfulfilled(o, e))
BY DEF OffItsWay, OnItsWay, FromUnfulfilled, AnswerMerchant,
       NotApplicable, Reject, Ok, Result, Order

LEMMA OffClosed ==
    ASSUME NEW o \in Order, NEW e \in Event, o.state = "fulfillment_closed"
    PROVE  OffItsWay(FromFulfillmentClosed(o, e))
BY DEF OffItsWay, OnItsWay, FromFulfillmentClosed, AnswerMerchant, ClosedToMerchant,
       NotApplicable, Reject, Ok, Result, Order

LEMMA OffFailed ==
    ASSUME NEW o \in Order, NEW e \in Event, o.state = "failed"
    PROVE  OffItsWay(FromFailed(o, e))
BY DEF OffItsWay, OnItsWay, FromFailed, AnswerMerchant, ClosedToMerchant,
       NotApplicable, Reject, Ok, Result, Order

LEMMA OffRejected ==
    ASSUME NEW o \in Order, NEW e \in Event, o.state = "rejected"
    PROVE  OffItsWay(FromClosedWithoutMoney(o, e))
BY DEF OffItsWay, OnItsWay, FromClosedWithoutMoney, AnswerMerchant, ClosedToMerchant,
       NotApplicable, Reject, Ok, Result, Order

LEMMA OffExpired ==
    ASSUME NEW o \in Order, NEW e \in Event, o.state = "expired"
    PROVE  OffItsWay(FromExpired(o, e))
BY DEF OffItsWay, OnItsWay, FromExpired, AnswerMerchant, ClosedToMerchant, StartSettle,
       NotApplicable, Reject, Ok, Result, Order

LEMMA OffByFailure ==
    ASSUME NEW o \in Order, NEW c
    PROVE  OffItsWay(ResolveFulfillmentFailure(o, c))
BY DEF OffItsWay, OnItsWay, ResolveFulfillmentFailure, CloseWithoutMoney, Ok, Result, Order

LEMMA OffByGoods ==
    ASSUME NEW o \in Order, NEW at
    PROVE  OffItsWay(DeliverGoods(o, at))
BY DEF OffItsWay, OnItsWay, DeliverGoods, StartSettle, Ok, Result, Order

LEMMA OffByDeadline ==
    ASSUME NEW o \in Order, NEW e \in Event, o.state \notin {"created", "quoted"}
    PROVE  OffItsWay(OnDeadline(o, e))
<1> DEFINE armed == {d \in Deadlines(o) : d.kind = e.detail}
<1>1. CASE armed = {}
  BY <1>1 DEF OnDeadline, OffItsWay, Reject
<1>2. CASE armed # {} /\ \E d \in armed : e.at < d.at
  BY <1>2 DEF OnDeadline, OffItsWay, Reject
<1>3. CASE armed # {} /\ ~\E d \in armed : e.at < d.at
  <2>1. e.detail # "quote_response"
    BY <1>3 DEF Deadlines, FulfillmentDeadline
  <2>2. OffItsWay(Ok(CloseWithoutMoney(o, "expired", "quote_expiry"), {}))
    BY DEF OffItsWay, OnItsWay, CloseWithoutMoney, Ok, Result, Order
  <2>3. OffItsWay(OnSilentSettle(o))
    BY DEF OffItsWay, OnItsWay, OnSilentSettle, CloseWithoutMoney, Ok, Result, Order
  <2>4. OnDeadline(o, e) \in {Ok(CloseWithoutMoney(o, "expired", "quote_expiry"), {}),
                              OnSilentSettle(o), ResolveFulfillmentFailure(o, e.detail)}
    BY <1>3, <2>1 DEF OnDeadline
  <2> QED BY <2>2, <2>3, <2>4, OffByFailure
<1> QED BY <1>1, <1>2, <1>3

(* What a transition leaves of an order that is on its way: it stays there *)
(* unless it leaves it for good, it is not accepted twice, only a silence  *)
(* sends it out again, and a silence that does not has come too late.      *)
StreamAccount(o, e, r) ==
    r.code = "none" =>
      /\ r.order.state \notin {"created", "quoted"}
      /\ r.effects \cap {"dispatch_order", "erase_ship_to"} = {}
      /\ r.delay \in Nat
      /\ "redeliver_order" \in r.effects =>
           e.kind = "handler_undelivered" /\ o.state \in OnItsWay /\ o.accepted = FALSE
      /\ "withdraw_hand_overs" \in r.effects => r.order.accepted = TRUE
      /\ r.order.state \in OnItsWay =>
           /\ o.state \in OnItsWay
           /\ o.accepted = TRUE => r.order.accepted = TRUE
           /\ r.order.state = "paid" => r.order = o
           /\ r.order.paidAt = o.paidAt
           /\ e.kind \notin {"payment_settled", "payment_settle_failed", "deadline_expired"}
           /\ e.kind = "handler_undelivered" /\ r.order.accepted = FALSE =>
                "redeliver_order" \in r.effects \/ ~NextRedelivery(r.order, e.at)

LEMMA OffAccount ==
    ASSUME NEW o, NEW e, NEW r, OffItsWay(r)
    PROVE  StreamAccount(o, e, r)
BY DEF OffItsWay, StreamAccount, OnItsWay

LEMMA DelayType == ASSUME NEW n \in Nat PROVE RedeliveryDelay(n) \in Nat
BY PolicyAssumption DEF RedeliveryDelay

\* An event that leaves the order as it is.
LEMMA StandsAccount ==
    ASSUME NEW o \in Order, NEW e \in Event, NEW answer, o.state \notin {"created", "quoted"},
           e.kind \notin {"handler_undelivered", "payment_settled", "payment_settle_failed",
                          "deadline_expired"}
    PROVE  StreamAccount(o, e, AnswerMerchant(o, answer)) /\ StreamAccount(o, e, Ok(o, {}))
BY DEF StreamAccount, AnswerMerchant, Ok, Result, OnItsWay

LEMMA CloseAccount ==
    ASSUME NEW o \in Order, NEW e \in Event, o.state \notin {"created", "quoted"},
           e.kind = "close_called"
    PROVE  StreamAccount(o, e, CloseCalled(o, e))
<1> DEFINE n == [o EXCEPT !.state = "fulfillment_closed", !.closedAt = e.at,
                          !.paymentCompletedAt = Null]
<1>1. OffItsWay(AnswerMerchant(n, "purchase_already_closed"))
  BY DEF OffItsWay, OnItsWay, AnswerMerchant, Result, Order
<1> HIDE DEF n
<1>2. \/ CloseCalled(o, e) = AnswerMerchant(n, "purchase_already_closed")
      \/ \E answer : CloseCalled(o, e) = AnswerMerchant(o, answer)
  BY DEF CloseCalled, n
<1> QED BY <1>1, <1>2, OffAccount, StandsAccount

\* A synchronous order answered past its deadline is off its way.
LEMMA OffByClock ==
    ASSUME NEW o \in Order, NEW e \in Event, Consistent(o), o.state = "dispatched",
           o.mode = "sync", e.kind \in {"handler_delivered", "handler_refused"}
    PROVE  /\ OffItsWay(OverdueSynchronousGoods(o, e))
           /\ OffItsWay(OverdueSynchronousRefusal(o))
<1> DEFINE c == CloseWithoutMoney(o, "expired", "sync_response")
<1>1. ClosedOnTheClock(o) = Ok(c, {})
  BY ClosedByItsDeadline DEF ClosedOnTheClock
<1>2. c \in Order /\ c.state = "expired"
  <2>1. "expired" \in OrderState /\ "none" \in PaymentStage /\ "sync_response" \in Closure
    BY DEF OrderState, PaymentStage, Closure, DeadlineKind
  <2>2. c \in Order
    BY <2>1, UpdateTypes DEF CloseWithoutMoney
  <2> QED BY <2>2 DEF CloseWithoutMoney, Order
<1> HIDE DEF c
<1>3. OffItsWay(FromExpired(c, e)) /\ OffItsWay(ClosedToMerchant(c))
  BY <1>2, OffExpired DEF OffItsWay, OnItsWay, ClosedToMerchant, AnswerMerchant, Result
<1>4. ASSUME NEW late, OffItsWay(late) PROVE OffItsWay(ThenAnswered(Ok(c, {}), late))
  BY <1>4 DEF OffItsWay, ThenAnswered, With, Ok, Result, IsOk
<1>5. /\ OverdueSynchronousGoods(o, e) = ThenAnswered(Ok(c, {}), FromExpired(c, e))
      /\ OverdueSynchronousRefusal(o) = ThenAnswered(Ok(c, {}), ClosedToMerchant(c))
  BY <1>1 DEF OverdueSynchronousGoods, OverdueSynchronousRefusal, Ok, Result
<1> QED BY <1>3, <1>4, <1>5

LEMMA DispatchedAccount ==
    ASSUME NEW o \in Order, NEW e \in Event, Consistent(o), o.state = "dispatched"
    PROVE  StreamAccount(o, e, FromDispatched(o, e))
<1> DEFINE r == FromDispatched(o, e)
<1>1. o.accepted \in BOOLEAN /\ o.attempts \in Nat /\ o.mode \in FulfillmentMode
      /\ o.paidAt # Null /\ e.at \in Nat
  BY DEF Order, Event, Consistent
<1>2. CASE e.kind = "handler_accepted"
  <2>1. CASE o.mode = "sync"
    BY <1>2, <2>1, StandsAccount DEF FromDispatched, NotInThisMode, AfterFulfillment
  <2>2. CASE o.mode # "sync"
    <3> DEFINE n == [o EXCEPT !.accepted = TRUE]
    <3>1. n.accepted = TRUE /\ n.state = "dispatched" /\ n.paidAt = o.paidAt
      BY DEF Order
    <3> HIDE DEF n
    <3>2. r = Result(n, {"withdraw_hand_overs"}, "accepted", 0)
      BY <1>2, <2>2 DEF FromDispatched, AfterFulfillment, n
    <3> QED BY <1>2, <3>1, <3>2 DEF StreamAccount, Result, OnItsWay
  <2> QED BY <2>1, <2>2
<1>3. CASE e.kind = "handler_delivered"
  BY <1>3, OffByClock, OffByGoods, OffAccount
     DEF FromDispatched, OverdueSynchronously, AfterFulfillment
<1>4. CASE e.kind = "handler_refused"
  BY <1>4, OffByClock, OffByFailure, OffAccount
     DEF FromDispatched, OverdueSynchronously, AfterFulfillment
<1>5. CASE e.kind = "handler_undelivered"
  <2>1. CASE o.accepted = TRUE
    <3>1. r = Ok(o, {})
      BY <1>5, <2>1 DEF FromDispatched
    <3> QED BY <2>1, <1>5, <3>1 DEF StreamAccount, Ok, Result, OnItsWay
  <2>2. CASE o.accepted = FALSE
    <3>1. r = Redeliver(o, e.at)
      BY <1>5, <2>2 DEF FromDispatched
    <3>2. CASE NextRedelivery(o, e.at)
      BY <1>1, <1>5, <2>2, <3>1, <3>2, DelayType DEF Redeliver, StreamAccount, Result, OnItsWay
    <3>3. CASE ~NextRedelivery(o, e.at)
      <4>1. r = Ok(o, {})
        BY <1>1, <3>1, <3>3 DEF Redeliver, FulfillmentDeadline
      <4> QED BY <1>5, <2>2, <3>3, <4>1 DEF StreamAccount, Ok, Result, OnItsWay
    <3> QED BY <3>2, <3>3
  <2> QED BY <1>1, <2>1, <2>2
<1>6. CASE e.kind = "deliver_called"
  <2>1. OffItsWay(DeliverGoods(o, e.at))
    BY OffByGoods
  <2>2. OffItsWay(With(DeliverGoods(o, e.at), DeliverGoods(o, e.at).effects, "delivered"))
    BY <2>1 DEF OffItsWay, With
  <2> QED BY <1>6, <2>2, OffAccount, StandsAccount DEF FromDispatched, NotInThisMode
<1>7. CASE e.kind = "refuse_called"
  <2> DEFINE f == ResolveFulfillmentFailure(o, "merchant_refused")
  <2>1. OffItsWay(f)
    BY OffByFailure
  <2>2. OffItsWay(With(f, f.effects, "refused"))
    BY <2>1 DEF OffItsWay, With
  <2> QED BY <1>7, <2>2, OffAccount, StandsAccount DEF FromDispatched, NotInThisMode
<1>8. CASE e.kind = "order_dispatched"
  <2> DEFINE n == [o EXCEPT
                 !.attempts = IF o.dispatchedAt # Null THEN @ + 1 ELSE @,
                 !.dispatchedAt = e.at,
                 !.firstDispatchedAt = IF @ = Null THEN e.at ELSE @]
  <2>1. n.state = "dispatched" /\ n.paidAt = o.paidAt
    BY DEF Order
  <2>2. n.accepted = o.accepted
    BY DEF Order
  <2> HIDE DEF n
  <2>3. r = Ok(n, {})
    BY <1>8 DEF FromDispatched, n
  <2> QED BY <1>8, <2>1, <2>2, <2>3 DEF StreamAccount, Ok, Result, OnItsWay
<1>9. CASE e.kind = "purchase_repeated"
  BY <1>9, StandsAccount DEF FromDispatched
<1>10. CASE e.kind \notin {"handler_accepted", "handler_delivered", "handler_refused",
                           "handler_undelivered", "deliver_called", "refuse_called",
                           "order_dispatched", "purchase_repeated"}
  <2>1. r = NotApplicable(o)
    BY <1>10 DEF FromDispatched
  <2> QED BY <2>1 DEF StreamAccount, NotApplicable, Reject
<1> QED BY <1>2, <1>3, <1>4, <1>5, <1>6, <1>7, <1>8, <1>9, <1>10

LEMMA PaidAccount ==
    ASSUME NEW o \in Order, NEW e \in Event, Consistent(o), o.state = "paid", o.accepted = FALSE
    PROVE  StreamAccount(o, e, FromPaid(o, e))
<1> DEFINE d == DispatchedOrder(o, e.at)
           m == [o EXCEPT !.state = "dispatched"]
           h == HandedOver(o)
<1>1. /\ d.state = "dispatched" /\ m.state = "dispatched" /\ h.state = "dispatched"
      /\ m.mode = o.mode /\ h.mode = o.mode /\ m.payment = o.payment /\ h.payment = o.payment
      /\ m.paidAt = o.paidAt /\ h.paidAt = o.paidAt /\ d.paidAt = o.paidAt
      /\ m.settleStartedAt = o.settleStartedAt /\ h.settleStartedAt = o.settleStartedAt
  BY DEF DispatchedOrder, HandedOver, Order
<1>2. /\ m.accepted = o.accepted /\ h.accepted = o.accepted
      /\ m.heldFulfillment = o.heldFulfillment /\ h.heldFulfillment = o.heldFulfillment
  BY DEF HandedOver, Order
<1>3. m \in Order
  <2>1. "dispatched" \in OrderState /\ "none" \in PaymentStage /\ "none" \in Closure
    BY DEF OrderState, PaymentStage, Closure
  <2> QED BY <2>1, UpdateTypes
<1>4. h \in Order
  <2>1. (IF o.attempts < 1 THEN 1 ELSE o.attempts) \in Nat
    BY DEF Order
  <2> QED BY <2>1, ZenonT(40) DEF HandedOver, Order, OrderState
<1>5. Consistent(m) /\ Consistent(h)
  BY <1>1, <1>2 DEF Consistent
<1> HIDE DEF d, m, h
<1>6. StreamAccount(m, e, FromDispatched(m, e)) /\ StreamAccount(h, e, FromDispatched(h, e))
  BY <1>1, <1>3, <1>4, <1>5, DispatchedAccount
<1>7. ASSUME NEW c \in {m, h}, NEW r, StreamAccount(c, e, r), r.order.state # "paid"
      PROVE  StreamAccount(o, e, r)
  BY <1>1, <1>2, <1>7 DEF StreamAccount, OnItsWay
<1>8. ASSUME NEW c \in {m, h}, FromDispatched(c, e).code = "none"
      PROVE  FromDispatched(c, e).order.state # "paid"
  BY <1>1, <1>6, <1>8 DEF StreamAccount, OnItsWay
<1>9. ASSUME NEW c \in {m, h} PROVE StreamAccount(o, e, FromDispatched(c, e))
  BY <1>6, <1>7, <1>8, <1>9 DEF StreamAccount
<1>10. CASE e.kind = "order_dispatched"
  <2>1. FromPaid(o, e) = Ok(d, {})
    BY <1>10 DEF FromPaid, d
  <2> QED BY <1>1, <1>10, <2>1 DEF StreamAccount, Ok, Result, OnItsWay
<1>11. CASE e.kind \in {"deliver_called", "refuse_called"}
  BY <1>9, <1>11, StandsAccount DEF FromPaid, NotInThisMode, m
<1>12. CASE e.kind \in {"handler_accepted", "handler_delivered", "handler_refused",
                        "handler_undelivered"}
  BY <1>9, <1>12, StandsAccount DEF FromPaid, NotInThisMode, h
<1>13. CASE e.kind = "purchase_repeated"
  BY <1>13, StandsAccount DEF FromPaid
<1>14. CASE e.kind \notin {"order_dispatched", "deliver_called", "refuse_called",
                           "handler_accepted", "handler_delivered", "handler_refused",
                           "handler_undelivered", "purchase_repeated"}
  <2>1. FromPaid(o, e) = NotApplicable(o)
    BY <1>14 DEF FromPaid
  <2> QED BY <2>1 DEF StreamAccount, NotApplicable, Reject
<1> QED BY <1>10, <1>11, <1>12, <1>13, <1>14

(* One transition of an order that has been paid for, as the stream sees it. *)
LEMMA TransitionInAccount ==
    ASSUME NEW o \in Order, NEW e \in Event, Consistent(o), o.state \notin {"created", "quoted"},
           o.state = "paid" => o.accepted = FALSE
    PROVE  StreamAccount(o, e, TransitionIn(o, e))
<1>1. CASE e.kind = "payment_presented"
  <2>1. TransitionIn(o, e) = NotApplicable(o)
    BY <1>1 DEF TransitionIn, PaymentPresented
  <2> QED BY <2>1 DEF StreamAccount, NotApplicable, Reject
<1>2. CASE e.kind = "close_called"
  BY <1>2, CloseAccount DEF TransitionIn
<1>3. CASE e.kind = "deadline_expired"
  BY <1>3, OffByDeadline, OffAccount DEF TransitionIn
<1>4. CASE e.kind \notin {"payment_presented", "close_called", "deadline_expired"}
  <2>1. CASE o.state = "fulfillment_closed"
    BY <1>4, <2>1, OffClosed, OffAccount DEF TransitionIn
  <2>2. CASE o.state # "fulfillment_closed" /\ o.payment = "settling" /\ ~AllowedWhileSettling(o, e)
    BY <1>4, <2>2 DEF TransitionIn, StreamAccount, Reject
  <2>3. CASE o.state # "fulfillment_closed" /\ ~(o.payment = "settling" /\ ~AllowedWhileSettling(o, e))
    <3>1. o.state \in OrderState
      BY DEF Order
    <3> QED BY <1>4, <2>3, <3>1, PaidAccount, DispatchedAccount, OffFulfilled, OffDelivered,
               OffDeliveredUnpaid, OffUnfulfilled, OffFailed, OffExpired, OffRejected, OffAccount
            DEF TransitionIn, OrderState
  <2> QED BY <2>1, <2>2, <2>3
<1> QED BY <1>1, <1>2, <1>3, <1>4

\* An order that has been sold: its price is past and its money has a place.
InHand(o) ==
    /\ o \in Order /\ Consistent(o)
    /\ o.state \notin {"created", "quoted"}
    /\ o.state = "paid" => o.accepted = FALSE

\* A parcel's address is held exactly while the parcel is on its way and not accepted.
LEMMA HeldOnItsWay ==
    ASSUME NEW o, InHand(o)
    PROVE  HoldsShipTo(o) <=> o.mode = "ship" /\ o.state \in OnItsWay /\ o.accepted = FALSE
<1>1. o.state \in OrderState /\ o.accepted \in BOOLEAN
  BY DEF InHand, Order
<1>2. o.mode = "ship" /\ o.state \in OpenStates /\ o.state # "unfulfilled" => o.state \in OnItsWay
  BY DEF InHand, Consistent, OpenStates, OnItsWay
<1>3. o.mode = "ship" /\ o.state \in OnItsWay => o.payment = "settled"
  BY DEF InHand, Consistent, OnItsWay
<1> QED BY <1>1, <1>2, <1>3 DEF HoldsShipTo, IsParcel, IsOpen, OpenStates, OnItsWay

LEMMA KindsOfEvents ==
    ASSUME NEW at \in Nat, NEW kind \in EventKind, NEW detail \in Detail
    PROVE  [kind |-> kind, at |-> at, detail |-> detail] \in Event
BY DEF Event

LEMMA DeadlineTypes ==
    ASSUME NEW o, InHand(o), NEW d \in Deadlines(o)
    PROVE  d.at \in Nat /\ d.kind \in DeadlineKind
<1>1. /\ o.createdAt \in Nat /\ o.quotedAt \in Nat \cup {Null} /\ o.settleStartedAt \in Nat \cup {Null}
      /\ o.paidAt \in Nat \cup {Null} /\ (o.payment = "settling" => o.settleStartedAt # Null)
  BY DEF InHand, Order, Instant, Consistent
<1>2. \A f \in FulfillmentDeadline(o) : f.at \in Nat /\ f.kind \in DeadlineKind
  BY <1>1, PolicyAssumption DEF FulfillmentDeadline, DeadlineKind
<1>3. CASE o.payment = "settling"
  BY <1>1, <1>3, PolicyAssumption DEF Deadlines, DeadlineKind
<1>4. CASE o.payment # "settling"
  BY <1>1, <1>2, <1>4, PolicyAssumption DEF Deadlines, DeadlineKind, InHand
<1> QED BY <1>3, <1>4

(* An order in hand stays in hand; it stays on its way with its clock, or  *)
(* leaves it for good; and neither a deadline nor a charge's answer leaves *)
(* it there.                                                               *)
LEMMA StaysInHand ==
    ASSUME NEW o, InHand(o), NEW e \in Event, NEW r, r = Transition(o, e), r.code = "none"
    PROVE  /\ InHand(r.order) /\ r.order.mode = o.mode
           /\ r.order.state \in OnItsWay =>
                /\ o.state \in OnItsWay /\ r.order.paidAt = o.paidAt
                /\ e.kind \notin {"payment_settled", "payment_settle_failed", "deadline_expired"}
<1>1. /\ r.order \in Order /\ Consistent(r.order) /\ r.order.mode = o.mode
      /\ TransitionIn(o, e).code = "none" /\ r.order = TransitionIn(o, e).order
  BY TransitionStep, TransitionOrder DEF Step, InHand
<1>2. StreamAccount(o, e, TransitionIn(o, e))
  BY TransitionInAccount DEF InHand
<1> QED BY <1>1, <1>2 DEF InHand, StreamAccount, OnItsWay

\* An order whose payment is in, or may be taken once the goods are there, is in hand.
LEMMA EntersPaid ==
    ASSUME NEW o \in Order, Consistent(o), NEW p, NEW at, NEW r, r = EnterPaid(o, at, p),
           Step(o, "payment_verified", r) \/ Step(o, "payment_settled", r)
    PROVE  r.order.state = "paid" /\ InHand(r.order) /\ r.order.mode = o.mode
<1> DEFINE n == [o EXCEPT !.state = "paid", !.payment = p, !.attempts = 0,
                          !.accepted = FALSE, !.paidAt = at]
<1>1. n.state = "paid" /\ n.mode = o.mode
  BY DEF Order
<1>2. n.accepted = FALSE
  BY DEF Order
<1> HIDE DEF n
<1>3. r.order = n /\ r.code = "none"
  BY DEF EnterPaid, Ok, Result, n
<1> QED BY <1>1, <1>2, <1>3 DEF Step, InHand

LEMMA VerifiedOrder ==
    ASSUME NEW o \in Order, Consistent(o), o.state = "quoted", o.payment = "none",
           o.mode = "sync", NEW at \in Nat, NEW r, r = Occurs(o, "payment_verified", at)
    PROVE  r.code = "none" /\ r.order.state = "paid" /\ InHand(r.order) /\ r.order.mode = "sync"
<1> DEFINE v == [kind |-> "payment_verified", at |-> at, detail |-> "none"]
<1>1. TransitionIn(o, v) = EnterPaid(o, at, "verified")
  BY DEF TransitionIn, FromQuoted, AfterFulfillment
<1>2. ~HoldsShipTo(o)
  BY DEF HoldsShipTo
<1>3. r = EnterPaid(o, at, "verified")
  BY <1>1, <1>2 DEF Occurs, Transition
<1>4. Step(o, "payment_verified", r)
  BY OccursStep DEF EventKind
<1>5. r.code = "none"
  BY <1>3 DEF EnterPaid, Ok, Result
<1> QED BY <1>3, <1>4, <1>5, EntersPaid
=============================================================================
