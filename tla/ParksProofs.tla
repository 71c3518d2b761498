------------------------------ MODULE ParksProofs ------------------------------
(***************************************************************************)
(* Proofs about Parks, for every policy, budget and number of calls: why a *)
(* call is awake, and what its order can be by then.                       *)
(***************************************************************************)
EXTENDS Parks, OrderMachineProofs

Parking == {"parked", "charging", "recharging", "presented", "giving_up", "waiting"}

\* The order is on sale until the first payment, and in hand from then on.
OrderOK ==
    /\ order \in Order /\ order.mode = "sync" /\ Consistent(order)
    /\ stored = FALSE => order.state = "quoted" /\ order.payment = "none"
    /\ stored = TRUE => InHand(order)

(* A call asleep is between its park and its answer, and has a wake-up to  *)
(* come once there is one.  A call awake while the goods are awaited has   *)
(* waited for as long as its park lasts, and reads the order only once the *)
(* goods' clock is applied.                                                *)
CallOK(c) ==
    /\ at[c] # "idle" => stored = TRUE
    /\ c \in parked => at[c] \in Parking \cup {"done"}
    /\ c \in parked /\ at[c] = "waiting" /\ ~InProgress(order) => waking = TRUE
    /\ at[c] \in {"giving_up", "recharging"} => order.state \notin OnItsWay
    /\ c \notin parked /\ at[c] \in Parking \cup {"closing"} /\ order.state \in OnItsWay =>
         stopped = TRUE \/ until[c] <= now
    /\ at[c] = "reading" /\ order.state \in OnItsWay =>
         stopped = TRUE \/ order.paidAt + SyncResponseMs > until[c]

RestOK ==
    /\ now \in 0 .. MaxTime /\ stored \in BOOLEAN
    /\ charging \in BOOLEAN /\ stopped \in BOOLEAN /\ waking \in BOOLEAN
    /\ at \in [Calls -> Steps] /\ told \in [Calls -> Told]
    /\ until \in [Calls -> Nat] /\ parked \subseteq Calls

(* The inductive invariant: a wake-up to come, too, means that goods are   *)
(* no longer awaited, since an order never comes back to its way.          *)
IInv ==
    /\ RestOK
    /\ OrderOK
    /\ waking = TRUE => stored = TRUE /\ order.state \notin OnItsWay
    /\ \A c \in Calls : CallOK(c)

-----------------------------------------------------------------------------
(* The order.                                                              *)

\* Goods are awaited while the purchase is in progress and no charge is out.
LEMMA OnItsWayIsInProgress ==
    ASSUME NEW o, InHand(o)
    PROVE  /\ o.state \in OnItsWay => InProgress(o)
           /\ InProgress(o) /\ o.mode = "sync" => o.state \in OnItsWay \/ o.payment = "settling"
<1>1. o.state \in OrderState /\ Consistent(o) /\ o.state \notin {"created", "quoted"}
  BY DEF InHand, Order
<1>2. ASSUME o.state \in OnItsWay PROVE InProgress(o)
  <2>1. o.payment \in {"verified", "settled"}
    BY <1>1, <1>2 DEF Consistent, OnItsWay
  <2> QED BY <1>2, <2>1 DEF InProgress, OutcomeFor, OnItsWay
<1>3. ASSUME InProgress(o) PROVE o.state \in {"paid", "dispatched", "fulfilled"}
  <2>1. o.state \in {"created", "quoted", "paid", "dispatched", "fulfilled"}
    BY <1>1, <1>3 DEF InProgress, OutcomeFor, OrderState
  <2> QED BY <1>1, <2>1
<1>4. o.state = "fulfilled" => o.payment = "settling"
  BY <1>1 DEF Consistent
<1> QED BY <1>2, <1>3, <1>4 DEF OnItsWay

\* Of an order that is not being charged, only goods awaited start a charge.
Uncharged(o) == o \in Order /\ o.payment # "settling"
ChargesForGoods(r) == r.order.payment = "settling" => r.order.state = "fulfilled"

\* A result that leaves the payment as it was.
LEMMA StandsUncharged ==
    ASSUME NEW o, Uncharged(o), NEW n, n.payment = o.payment
    PROVE  /\ \A code : ChargesForGoods(Reject(n, code))
           /\ \A effects, answer, delay : ChargesForGoods(Result(n, effects, answer, delay))
           /\ \A effects : ChargesForGoods(Ok(n, effects))
           /\ \A answer : ChargesForGoods(AnswerMerchant(n, answer))
           /\ ChargesForGoods(NotApplicable(n)) /\ ChargesForGoods(NotInThisMode(n))
           /\ ChargesForGoods(ClosedToMerchant(n))
BY DEF Uncharged, ChargesForGoods, Reject, NotApplicable, NotInThisMode, Ok, AnswerMerchant, Result,
       ClosedToMerchant

LEMMA GoodsUncharged ==
    ASSUME NEW o, Uncharged(o), NEW when, NEW closure
    PROVE  /\ ChargesForGoods(DeliverGoods(o, when))
           /\ ChargesForGoods(ResolveFulfillmentFailure(o, closure))
<1>1. ChargesForGoods(DeliverGoods(o, when))
  BY DEF Uncharged, Order, ChargesForGoods, DeliverGoods, StartSettle, Ok, Result
<1>2. ChargesForGoods(ResolveFulfillmentFailure(o, closure))
  BY DEF Uncharged, Order, ChargesForGoods, ResolveFulfillmentFailure, CloseWithoutMoney, Ok, Result
<1> QED BY <1>1, <1>2

LEMMA DeadlineUncharged ==
    ASSUME NEW o, Uncharged(o), NEW e
    PROVE  ChargesForGoods(OnDeadline(o, e))
<1>1. ChargesForGoods(OnQuoteSilence(o, e.at))
  BY DEF Uncharged, Order, ChargesForGoods, OnQuoteSilence, EnterQuoted, CloseWithoutMoney, Ok, Result
<1>2. ChargesForGoods(Ok(CloseWithoutMoney(o, "expired", "quote_expiry"), {}))
  BY DEF Uncharged, Order, ChargesForGoods, CloseWithoutMoney, Ok, Result
<1>3. ChargesForGoods(OnSilentSettle(o))
  BY DEF Uncharged, Order, ChargesForGoods, OnSilentSettle, CloseWithoutMoney, Ok, Result
<1>4. \A code : ChargesForGoods(Reject(o, code))
  BY StandsUncharged
<1>5. ChargesForGoods(ResolveFulfillmentFailure(o, e.detail))
  BY GoodsUncharged
<1> QED BY <1>1, <1>2, <1>3, <1>4, <1>5 DEF OnDeadline

\* Goods, or a refusal, past the deadline: the order expired before it heard them.
LEMMA OverdueUncharged ==
    ASSUME NEW o, Uncharged(o), Consistent(o), o.state = "dispatched", o.mode = "sync",
           NEW e, e.kind \in {"handler_delivered", "handler_refused"}
    PROVE  /\ ChargesForGoods(OverdueSynchronousGoods(o, e))
           /\ ChargesForGoods(OverdueSynchronousRefusal(o))
<1> DEFINE c == CloseWithoutMoney(o, "expired", "sync_response")
<1>1. c.payment = o.payment /\ c.heldFulfillment = o.heldFulfillment
  BY DEF CloseWithoutMoney, Uncharged, Order
<1>2. ClosedOnTheClock(o) = Ok(c, {})
  BY ClosedByItsDeadline DEF ClosedOnTheClock, Uncharged
<1>3. [c EXCEPT !.heldFulfillment = TRUE].payment = o.payment
  BY DEF CloseWithoutMoney, Uncharged, Order
<1> HIDE DEF c
<1>4. ChargesForGoods(FromExpired(c, e)) /\ ChargesForGoods(ClosedToMerchant(c))
  BY <1>1, <1>3, StandsUncharged DEF FromExpired
<1>5. Ok(c, {}).order = c
  BY DEF Ok, Result
<1>6. ASSUME NEW late, ChargesForGoods(late) PROVE ChargesForGoods(ThenAnswered(Ok(c, {}), late))
  BY <1>6 DEF ThenAnswered, ChargesForGoods, With, Ok, Result, IsOk
<1> QED BY <1>2, <1>4, <1>5, <1>6 DEF OverdueSynchronousGoods, OverdueSynchronousRefusal

LEMMA DispatchedUncharged ==
    ASSUME NEW o, Uncharged(o), Consistent(o), o.state = "dispatched", o.mode = "sync", NEW e
    PROVE  ChargesForGoods(FromDispatched(o, e))
<1>1. e.kind \in {"handler_delivered", "handler_refused"} =>
        /\ ChargesForGoods(OverdueSynchronousGoods(o, e))
        /\ ChargesForGoods(OverdueSynchronousRefusal(o))
  BY OverdueUncharged
<1>2. /\ ChargesForGoods(DeliverGoods(o, e.at))
      /\ \A closure : ChargesForGoods(ResolveFulfillmentFailure(o, closure))
  BY GoodsUncharged
<1>3. /\ \A effects : ChargesForGoods(Ok(o, effects))
      /\ \A effects, answer, delay : ChargesForGoods(Result(o, effects, answer, delay))
      /\ ChargesForGoods(NotApplicable(o)) /\ ChargesForGoods(NotInThisMode(o))
  BY StandsUncharged
<1>4. ChargesForGoods(Redeliver(o, e.at))
  BY <1>2, <1>3 DEF Redeliver
<1>5. CASE e.kind = "order_dispatched"
  <2> DEFINE n == [o EXCEPT !.attempts = IF o.dispatchedAt # Null THEN @ + 1 ELSE @,
                            !.dispatchedAt = e.at,
                            !.firstDispatchedAt = IF @ = Null THEN e.at ELSE @]
  <2>1. n.payment = o.payment
    BY DEF Uncharged, Order
  <2> HIDE DEF n
  <2>2. ChargesForGoods(Ok(n, {}))
    BY <2>1, StandsUncharged
  <2>3. FromDispatched(o, e) = Ok(n, {})
    BY <1>5 DEF FromDispatched, n
  <2> QED BY <2>2, <2>3
<1>6. CASE e.kind # "order_dispatched"
  BY <1>1, <1>2, <1>3, <1>4, <1>6 DEF FromDispatched, AfterFulfillment
<1> QED BY <1>5, <1>6

\* Goods that are awaited and then charged for leave the order fulfilled.
LEMMA ChargedGoodsAreFulfilled ==
    ASSUME NEW o, InHand(o), o.mode = "sync", o.state \in OnItsWay, Uncharged(o), NEW e
    PROVE  ChargesForGoods(TransitionIn(o, e))
<1>1. Consistent(o)
  BY DEF InHand
<1>2. ChargesForGoods(OnDeadline(o, e))
  BY DeadlineUncharged
<1>3. /\ \A effects : ChargesForGoods(Ok(o, effects))
      /\ \A answer : ChargesForGoods(AnswerMerchant(o, answer))
      /\ ChargesForGoods(NotApplicable(o)) /\ ChargesForGoods(NotInThisMode(o))
  BY StandsUncharged
<1>4. ChargesForGoods(PaymentPresented(o, e))
  BY <1>3 DEF PaymentPresented, OnItsWay
<1>5. ChargesForGoods(CloseCalled(o, e))
  <2> DEFINE n == [o EXCEPT !.state = "fulfillment_closed", !.closedAt = e.at,
                            !.paymentCompletedAt = Null]
  <2>1. n.payment = o.payment
    BY DEF Uncharged, Order
  <2> HIDE DEF n
  <2>2. \A answer : ChargesForGoods(AnswerMerchant(n, answer))
    BY <2>1, StandsUncharged
  <2> QED BY <1>3, <2>2 DEF CloseCalled, n
<1>6. CASE o.state = "dispatched"
  BY <1>1, <1>2, <1>4, <1>5, <1>6, DispatchedUncharged DEF TransitionIn, Uncharged
<1>7. CASE o.state = "paid"
  <2> DEFINE h == HandedOver(o)
             d == DispatchedOrder(o, e.at)
  <2>1. /\ h \in Order /\ h.payment = o.payment /\ h.state = "dispatched" /\ h.mode = "sync"
        /\ h.paidAt = o.paidAt /\ h.heldFulfillment = o.heldFulfillment
    BY DEF HandedOver, Uncharged, Order, OrderState
  <2>2. d.payment = o.payment
    BY DEF DispatchedOrder, Uncharged, Order
  <2> HIDE DEF h, d
  <2>3. Consistent(h) /\ Uncharged(h)
    BY <1>1, <1>7, <2>1 DEF Consistent, Uncharged
  <2>4. ChargesForGoods(FromDispatched(h, e)) /\ ChargesForGoods(Ok(d, {}))
    BY <2>1, <2>2, <2>3, DispatchedUncharged, StandsUncharged
  <2>5. ChargesForGoods(FromPaid(o, e))
    BY <1>3, <2>4 DEF FromPaid, AfterFulfillment, h, d
  <2> QED BY <1>2, <1>4, <1>5, <1>7, <2>5 DEF TransitionIn, Uncharged
<1> QED BY <1>6, <1>7 DEF OnItsWay

\* A change that charges has its answer only where the order had one before.
LEMMA ChargeIsAwaited ==
    ASSUME NEW o, InHand(o), o.mode = "sync", InProgress(o), NEW e \in Event,
           NEW r, r = Transition(o, e), r.code = "none", "execute_payment" \in r.effects
    PROVE  InProgress(r.order)
<1>1. o \in Order /\ Consistent(o)
  BY DEF InHand
<1>2. r.order.payment = "settling" /\ o.payment # "settling"
  BY <1>1, TransitionStep DEF Step, ChargeAccount, PaymentUnresolved
<1>3. o.state \in OnItsWay
  BY <1>2, OnItsWayIsInProgress
<1>4. r.order.state = "fulfilled"
  <2>1. Uncharged(o)
    BY <1>1, <1>2 DEF Uncharged
  <2> QED BY <1>2, <1>3, <2>1, TransitionOrder, ChargedGoodsAreFulfilled DEF ChargesForGoods
<1> QED BY <1>2, <1>4 DEF InProgress, OutcomeFor

\* What a committed change makes of the order.
Moved ==
    /\ stored' = TRUE /\ OrderOK' /\ waking' \in BOOLEAN
    /\ order'.state \in OnItsWay => order.state \in OnItsWay /\ order'.paidAt = order.paidAt
    /\ waking = TRUE => waking' = TRUE
    /\ waking' = TRUE => waking = TRUE \/ ~InProgress(order')
    /\ ~InProgress(order') => waking' = TRUE \/ ~InProgress(order)

\* How a change of the order leaves the wake-up that is to come.
Wakes(r) ==
    \/ waking' = (waking \/ HasAnAnswer(r.order))
    \/ waking' = (waking \/ (HasAnAnswer(r.order) /\ "execute_payment" \notin r.effects))

LEMMA WakesLater ==
    ASSUME waking \in BOOLEAN, NEW r, Wakes(r)
    PROVE  /\ waking' \in BOOLEAN
           /\ waking = TRUE => waking' = TRUE
           /\ waking' = TRUE => waking = TRUE \/ ~InProgress(r.order)
           /\ ~InProgress(r.order) => waking' = TRUE \/ "execute_payment" \in r.effects
BY Zenon DEF Wakes, HasAnAnswer

LEMMA CommitMoves ==
    ASSUME IInv, stored = TRUE, stored' = stored, NEW e \in Event, NEW r, r = Transition(order, e),
           r.code = "none", order' = r.order, Wakes(r)
    PROVE  /\ Moved
           /\ order'.state \in OnItsWay =>
                e.kind \notin {"payment_settled", "payment_settle_failed", "deadline_expired"}
<1>1. InHand(order) /\ order.mode = "sync" /\ waking \in BOOLEAN
  BY DEF IInv, OrderOK, RestOK
<1>2. /\ InHand(order') /\ order'.mode = "sync"
      /\ order'.state \in OnItsWay =>
           /\ order.state \in OnItsWay /\ order'.paidAt = order.paidAt
           /\ e.kind \notin {"payment_settled", "payment_settle_failed", "deadline_expired"}
  BY <1>1, StaysInHand
<1>3. /\ waking' \in BOOLEAN
      /\ waking = TRUE => waking' = TRUE
      /\ waking' = TRUE => waking = TRUE \/ ~InProgress(order')
      /\ ~InProgress(order') => waking' = TRUE \/ ~InProgress(order)
  BY <1>1, WakesLater, ChargeIsAwaited
<1>4. OrderOK'
  BY <1>2 DEF OrderOK, InHand
<1> QED BY <1>2, <1>3, <1>4 DEF Moved

\* A wake-up to come still means what it meant.
LEMMA WakeUpStands ==
    ASSUME IInv, Moved
    PROVE  waking' = TRUE => stored' = TRUE /\ order'.state \notin OnItsWay
<1>1. InHand(order')
  BY DEF Moved, OrderOK
<1>2. ~InProgress(order') => order'.state \notin OnItsWay
  BY <1>1, OnItsWayIsInProgress
<1>3. waking = TRUE => order'.state \notin OnItsWay
  BY DEF IInv, Moved
<1> QED BY <1>2, <1>3 DEF Moved

\* A call that does not move, while the others, the clock and the order do.
Stays(d) ==
    /\ at'[d] = at[d] /\ until'[d] = until[d]
    /\ now' \in Nat /\ now <= now' /\ (stopped = TRUE => stopped' = TRUE)
    /\ Moved \/ UNCHANGED <<stored, order>>
    /\ waking = TRUE => waking' = TRUE \/ d \notin parked'
    /\ d \in parked' => d \in parked
    /\ d \in parked /\ d \notin parked' =>
         order'.state \notin OnItsWay \/ stopped' = TRUE \/ until[d] <= now'

LEMMA StaysOK == ASSUME IInv, NEW d \in Calls, Stays(d) PROVE CallOK(d)'
<1> USE DEF Stays
<1>1. CallOK(d) /\ now \in Nat /\ until[d] \in Nat
  BY DEF IInv, RestOK
<1>2. at[d] # "idle" => stored' = TRUE
  BY <1>1 DEF CallOK, Moved
<1>3. d \in parked' /\ at[d] = "waiting" /\ ~InProgress(order') => waking' = TRUE
  BY <1>1 DEF CallOK, Moved
<1>4. order'.state \in OnItsWay => order.state \in OnItsWay /\ order'.paidAt = order.paidAt
  BY DEF Moved
<1>5. d \notin parked' /\ at[d] \in Parking \cup {"closing"} /\ order'.state \in OnItsWay =>
        stopped' = TRUE \/ until[d] <= now'
  BY <1>1, <1>4 DEF CallOK
<1> QED BY <1>1, <1>2, <1>3, <1>4, <1>5 DEF CallOK

LEMMA InitIInv == Init => IInv
<1> SUFFICES ASSUME Init PROVE IInv
  OBVIOUS
<1>1. OrderOK
  BY CardOrder DEF Init, OrderOK, FulfillmentMode
<1>2. RestOK
  <2>1. at \in [Calls -> Steps] /\ told \in [Calls -> Told] /\ until \in [Calls -> Nat]
    BY DEF Init, Steps, Told
  <2>2. stored \in BOOLEAN /\ charging \in BOOLEAN /\ stopped \in BOOLEAN /\ waking \in BOOLEAN
    BY DEF Init
  <2> QED BY <2>1, <2>2, ParksAssumption DEF Init, RestOK
<1>3. ASSUME NEW c \in Calls PROVE CallOK(c)
  BY DEF Init, CallOK, Parking
<1>4. waking # TRUE
  BY DEF Init
<1> QED BY <1>1, <1>2, <1>3, <1>4 DEF IInv

-----------------------------------------------------------------------------
(* The runner, the clock and the shutdown.                                 *)

LEMMA WakeStep == ASSUME IInv, WakeTheAgent PROVE IInv'
<1>1. waking = TRUE /\ waking' = FALSE /\ parked' = {} /\ UNCHANGED <<now, books, at, until, told, stopped>>
  <2>1. waking \in BOOLEAN /\ waking
    BY DEF WakeTheAgent, IInv, RestOK
  <2> QED BY <2>1, Zenon DEF WakeTheAgent
<1>2. order.state \notin OnItsWay /\ stored = TRUE
  BY <1>1 DEF IInv
<1>3. RestOK' /\ OrderOK'
  BY <1>1 DEF IInv, RestOK, OrderOK, books
<1>4. ASSUME NEW d \in Calls PROVE CallOK(d)'
  <2>1. Stays(d)
    BY <1>1, <1>2 DEF books, IInv, RestOK, Stays
  <2> QED BY <2>1, StaysOK
<1> QED BY <1>1, <1>3, <1>4 DEF IInv

LEMMA TimerStep == ASSUME IInv, NEW c \in Calls, TimerRunsOut(c) PROVE IInv'
<1>1. /\ until[c] <= now /\ parked' = parked \ {c}
      /\ UNCHANGED <<now, books, at, until, waking, told, stopped>>
  BY DEF TimerRunsOut, IInv, RestOK
<1>2. RestOK' /\ OrderOK'
  BY <1>1 DEF IInv, RestOK, OrderOK, books
<1>3. ASSUME NEW d \in Calls PROVE CallOK(d)'
  <2>1. Stays(d)
    BY <1>1 DEF books, IInv, RestOK, Stays
  <2> QED BY <2>1, StaysOK
<1> QED BY <1>1, <1>2, <1>3 DEF IInv, books

LEMMA StopStep == ASSUME IInv, Stop PROVE IInv'
<1>1. stopped' = TRUE /\ parked' = {} /\ UNCHANGED <<now, books, at, until, waking, told>>
  BY DEF Stop
<1>2. RestOK' /\ OrderOK'
  BY <1>1 DEF IInv, RestOK, OrderOK, books
<1>3. ASSUME NEW d \in Calls PROVE CallOK(d)'
  <2>1. Stays(d)
    BY <1>1 DEF books, IInv, RestOK, Stays
  <2> QED BY <2>1, StaysOK
<1> QED BY <1>1, <1>2, <1>3 DEF IInv, books

LEMMA TickStep == ASSUME IInv, Tick PROVE IInv'
<1>1. now' = now + 1 /\ now' \in 0 .. MaxTime
      /\ UNCHANGED <<books, at, until, parked, waking, told, stopped>>
  BY ParksAssumption DEF Tick, IInv, RestOK
<1>2. RestOK' /\ OrderOK'
  BY <1>1 DEF IInv, RestOK, OrderOK, books
<1>3. ASSUME NEW d \in Calls PROVE CallOK(d)'
  <2>1. Stays(d)
    BY <1>1 DEF books, IInv, RestOK, Stays
  <2> QED BY <2>1, StaysOK
<1> QED BY <1>1, <1>2, <1>3 DEF IInv, books

-----------------------------------------------------------------------------
(* Changes of the order that move no call.                                 *)

LEMMA RestStep ==
    ASSUME IInv, Moved, charging' \in BOOLEAN, UNCHANGED Rest
    PROVE  IInv'
<1>1. RestOK'
  BY DEF IInv, RestOK, Rest, Moved
<1>2. ASSUME NEW d \in Calls PROVE CallOK(d)'
  <2>1. Stays(d)
    BY DEF IInv, RestOK, Rest, Moved, Stays
  <2> QED BY <2>1, StaysOK
<1> QED BY <1>1, <1>2, WakeUpStands DEF IInv, Moved

LEMMA CommitsMoves ==
    ASSUME IInv, stored = TRUE, stored' = stored, NEW e \in Event, Commits(Transition(order, e))
    PROVE  /\ Moved /\ charging' \in BOOLEAN
           /\ order'.state \in OnItsWay =>
                e.kind \notin {"payment_settled", "payment_settle_failed", "deadline_expired"}
<1>1. PICK r : r = Transition(order, e)
  OBVIOUS
<1>2. /\ r.code = "none" /\ order' = r.order /\ Wakes(r)
      /\ charging' = (charging \/ "execute_payment" \in r.effects)
  BY <1>1 DEF Commits, IsOk, Wakes
<1>3. charging' \in BOOLEAN
  BY <1>2
<1> QED BY <1>1, <1>2, <1>3, CommitMoves

LEMMA StoredBoolean == IInv /\ stored => stored = TRUE
<1>1. IInv => stored \in BOOLEAN
  BY DEF IInv, RestOK
<1> QED BY <1>1, Zenon

LEMMA MerchantActsStep == ASSUME IInv, MerchantActs PROVE IInv'
<1>1. PICK kind \in {"order_dispatched", "handler_delivered", "handler_refused", "close_called"} :
        Commits(Occurs(order, kind, now))
  BY DEF MerchantActs
<1> DEFINE e == [kind |-> kind, at |-> now, detail |-> "none"]
<1>2. e \in Event /\ Occurs(order, kind, now) = Transition(order, e)
  BY KindsOfEvents DEF Occurs, IInv, RestOK, EventKind, Detail
<1> HIDE DEF e
<1>3. stored = TRUE /\ stored' = stored /\ UNCHANGED Rest
  BY StoredBoolean DEF MerchantActs, Rest
<1> QED BY <1>1, <1>2, <1>3, CommitsMoves, RestStep

LEMMA ReminderFiresStep == ASSUME IInv, ReminderFires PROVE IInv'
<1>1. PICK d \in Deadlines(order) : Commits(Expired(order, d))
  BY DEF ReminderFires
<1>2. stored = TRUE /\ stored' = stored /\ UNCHANGED Rest
  BY StoredBoolean DEF ReminderFires, Rest
<1> DEFINE e == [kind |-> "deadline_expired", at |-> d.at, detail |-> d.kind]
<1>3. d.at \in Nat /\ d.kind \in DeadlineKind
  BY <1>2, DeadlineTypes DEF IInv, OrderOK
<1>4. e \in Event /\ Expired(order, d) = Transition(order, e)
  BY <1>3, KindsOfEvents DEF Expired, EventKind, Detail
<1> HIDE DEF e
<1> QED BY <1>1, <1>2, <1>4, CommitsMoves, RestStep

LEMMA ChargeAnswersStep == ASSUME IInv, ChargeAnswers PROVE IInv'
<1>1. UNCHANGED Rest
  BY DEF ChargeAnswers
<1>2. CASE charging' = FALSE /\ UNCHANGED <<order, waking>>
  <2>1. RestOK' /\ OrderOK'
    BY <1>1, <1>2 DEF IInv, RestOK, OrderOK, Rest
  <2>2. ASSUME NEW d \in Calls PROVE CallOK(d)'
    <3>1. Stays(d)
      BY <1>1, <1>2 DEF Stays, IInv, RestOK, Rest
    <3> QED BY <3>1, StaysOK
  <2> QED BY <1>1, <1>2, <2>1, <2>2 DEF IInv, Rest
<1>3. ASSUME NEW kind \in {"payment_settled", "payment_settle_failed"},
             NEW r, r = Occurs(order, kind, now), IsOk(r), order' = r.order, charging' = FALSE,
             waking' = (waking \/ HasAnAnswer(r.order))
      PROVE  IInv'
  <2> DEFINE e == [kind |-> kind, at |-> now, detail |-> "none"]
  <2>1. e \in Event /\ r = Transition(order, e) /\ r.code = "none"
    BY <1>3, KindsOfEvents DEF Occurs, IInv, RestOK, EventKind, Detail, IsOk
  <2>2. stored = TRUE
    <3>1. stored = FALSE => order.state = "quoted" /\ order.payment = "none"
      BY DEF IInv, OrderOK
    <3>2. order.state = "quoted" /\ order.payment = "none" => ~IsOk(r)
      <4> SUFFICES ASSUME order.state = "quoted", order.payment = "none" PROVE ~IsOk(r)
        OBVIOUS
      <4>1. TransitionIn(order, e).code # "none"
        BY DEF TransitionIn, FromQuoted, NotApplicable, Reject
      <4> QED BY <2>1, <4>1, TransitionOrder DEF IsOk
    <3> QED BY <1>3, <3>1, <3>2 DEF IInv, RestOK
  <2> HIDE DEF e
  <2>3. Moved /\ charging' \in BOOLEAN
    BY <1>1, <1>3, <2>1, <2>2, CommitMoves DEF Rest, Wakes
  <2> QED BY <1>1, <2>3, RestStep
<1> QED BY <1>2, <1>3 DEF ChargeAnswers

-----------------------------------------------------------------------------
(* The calls.                                                              *)

LEMMA GoesType ==
    ASSUME IInv, NEW c \in Calls, NEW step \in Steps, Goes(c, step)
    PROVE  at' \in [Calls -> Steps] /\ at'[c] = step
           /\ \A d \in Calls \ {c} : at'[d] = at[d]
BY DEF IInv, RestOK, Goes

LEMMA EndsType ==
    ASSUME IInv, NEW c \in Calls, NEW word \in Told, Ends(c, word)
    PROVE  told' \in [Calls -> Told] /\ at' \in [Calls -> Steps] /\ at'[c] = "done"
           /\ \A d \in Calls \ {c} : at'[d] = at[d]
<1>1. told' \in [Calls -> Told]
  BY DEF IInv, RestOK, Ends
<1>2. Goes(c, "done") /\ "done" \in Steps
  BY DEF Ends, Steps
<1> QED BY <1>1, <1>2, GoesType

\* A call moves on and no other call does.
LEMMA CallMoves ==
    ASSUME IInv, NEW c \in Calls, RestOK', OrderOK',
           waking' = TRUE => stored' = TRUE /\ order'.state \notin OnItsWay,
           CallOK(c)', \A d \in Calls \ {c} : Stays(d)
    PROVE  IInv'
<1>1. ASSUME NEW d \in Calls PROVE CallOK(d)'
  <2>1. CASE d = c
    BY <2>1
  <2>2. CASE d # c
    BY <2>2, StaysOK
  <2> QED BY <2>1, <2>2
<1> QED BY <1>1 DEF IInv

LEMMA AdmitStep == ASSUME IInv, NEW c \in Calls, Admit(c) PROVE IInv'
<1>1. stored = FALSE /\ stored' = TRUE /\ Goes(c, "admitted")
      /\ UNCHANGED <<now, until, parked, told, stopped>>
  <2>1. stored \in BOOLEAN /\ ~stored
    BY DEF Admit, IInv, RestOK
  <2> QED BY <2>1, Zenon DEF Admit
<1>2. PICK shown : /\ shown = Occurs(order, "payment_presented", now).order
                   /\ Commits(Occurs(shown, "payment_verified", now))
  BY DEF Admit
<1>3. shown \in Order /\ shown.state = "quoted" /\ shown.payment = "none" /\ shown.mode = "sync"
      /\ Consistent(shown)
  BY <1>1, <1>2, PresentedOrder DEF IInv, OrderOK, RestOK
<1>4. PICK r : r = Occurs(shown, "payment_verified", now)
  OBVIOUS
<1>5. r.order.state = "paid" /\ InHand(r.order) /\ r.order.mode = "sync"
  BY <1>3, <1>4, VerifiedOrder DEF IInv, RestOK
<1>6. order' = r.order /\ charging' \in BOOLEAN /\ Wakes(r)
  BY <1>2, <1>4 DEF Commits, Wakes
<1>7. InProgress(order')
  BY <1>5, <1>6, OnItsWayIsInProgress DEF OnItsWay
<1>8. waking \in BOOLEAN /\ waking # TRUE
  BY <1>1 DEF IInv, RestOK
<1>9. waking' = FALSE
  <2>1. waking' \in BOOLEAN /\ (waking' = TRUE => waking = TRUE \/ ~InProgress(order'))
    BY <1>6, <1>8, WakesLater
  <2> QED BY <1>7, <1>8, <2>1
<1>10. OrderOK'
  BY <1>1, <1>5, <1>6 DEF OrderOK, InHand
<1>11. \A d \in Calls : at[d] = "idle" /\ d \notin parked
  BY <1>1 DEF IInv, CallOK, Parking
<1>12. at' \in [Calls -> Steps] /\ at'[c] = "admitted" /\ \A d \in Calls \ {c} : at'[d] = at[d]
  BY <1>1, GoesType DEF Steps
<1>13. RestOK'
  BY <1>1, <1>6, <1>9, <1>12 DEF IInv, RestOK
<1>14. ASSUME NEW d \in Calls PROVE CallOK(d)'
  BY <1>1, <1>11, <1>12 DEF CallOK, Parking
<1> QED BY <1>9, <1>10, <1>13, <1>14 DEF IInv

\* Steps of a call that leave the order and the runner alone.
LEMMA QuietStep ==
    ASSUME IInv, NEW c \in Calls, UNCHANGED <<now, books, waking, stopped>>, RestOK', CallOK(c)',
           \A d \in Calls \ {c} : at'[d] = at[d] /\ until'[d] = until[d],
           \/ parked' \ {c} = parked \ {c}
           \/ parked' = {} /\ order.state \notin OnItsWay
    PROVE  IInv'
<1>1. OrderOK' /\ (waking' = TRUE => stored' = TRUE /\ order'.state \notin OnItsWay)
  BY DEF IInv, OrderOK, books
<1>2. ASSUME NEW d \in Calls \ {c} PROVE Stays(d)
  BY DEF Stays, IInv, RestOK, books
<1> QED BY <1>1, <1>2, CallMoves

LEMMA ParkAdmittedStep == ASSUME IInv, NEW c \in Calls, ParkAdmitted(c) PROVE IInv'
<1>1. at' \in [Calls -> Steps] /\ at'[c] = "presented" /\ \A d \in Calls \ {c} : at'[d] = at[d]
  BY GoesType DEF ParkAdmitted, Steps
<1>2. parked' = parked \cup {c} /\ at[c] = "admitted"
      /\ UNCHANGED <<now, books, waking, told, stopped>>
  BY DEF ParkAdmitted
<1>3. until' \in [Calls -> Nat] /\ \A d \in Calls \ {c} : until'[d] = until[d]
  BY ParksAssumption DEF ParkAdmitted, IInv, RestOK
<1>4. RestOK'
  BY <1>1, <1>2, <1>3 DEF IInv, RestOK, books
<1>5. stored' = TRUE
  BY <1>2 DEF IInv, CallOK, books
<1>6. CallOK(c)'
  BY <1>1, <1>2, <1>5 DEF CallOK, Parking
<1>7. parked' \ {c} = parked \ {c}
  BY <1>2
<1> QED BY <1>1, <1>2, <1>3, <1>4, <1>6, <1>7, QuietStep

LEMMA CheckStep == ASSUME IInv, NEW c \in Calls, Check(c) PROVE IInv'
<1>1. stored = TRUE /\ at[c] = "idle" /\ c \notin parked
      /\ UNCHANGED <<now, books, parked, waking, stopped>>
  BY StoredBoolean DEF Check, IInv, CallOK, Parking
<1>2. CASE Ends(c, "not_taken") /\ UNCHANGED until
  <2>1. /\ told' \in [Calls -> Told] /\ at' \in [Calls -> Steps] /\ at'[c] = "done"
        /\ \A d \in Calls \ {c} : at'[d] = at[d]
    BY <1>2, EndsType DEF Told
  <2>2. RestOK'
    BY <1>1, <1>2, <2>1 DEF IInv, RestOK, books
  <2>3. CallOK(c)'
    BY <1>1, <2>1 DEF CallOK, Parking, books
  <2> QED BY <1>1, <1>2, <2>1, <2>2, <2>3, QuietStep
<1>3. CASE until' = [until EXCEPT ![c] = now + SyncBudgetMs] /\ Goes(c, "checked") /\ UNCHANGED told
  <2>1. at' \in [Calls -> Steps] /\ at'[c] = "checked" /\ \A d \in Calls \ {c} : at'[d] = at[d]
    BY <1>3, GoesType DEF Steps
  <2>2. until' \in [Calls -> Nat] /\ \A d \in Calls \ {c} : until'[d] = until[d]
    BY <1>3, ParksAssumption DEF IInv, RestOK
  <2>3. RestOK'
    BY <1>1, <1>3, <2>1, <2>2 DEF IInv, RestOK, books
  <2>4. CallOK(c)'
    BY <1>1, <2>1 DEF CallOK, Parking, books
  <2> QED BY <1>1, <2>1, <2>2, <2>3, <2>4, QuietStep
<1> QED BY <1>2, <1>3 DEF Check

LEMMA ParkStep == ASSUME IInv, NEW c \in Calls, Park(c) PROVE IInv'
<1>1. at' \in [Calls -> Steps] /\ at'[c] = "parked" /\ \A d \in Calls \ {c} : at'[d] = at[d]
  BY GoesType DEF Park, Steps
<1>2. parked' = parked \cup {c} /\ at[c] = "checked"
      /\ UNCHANGED <<now, books, waking, told, stopped>>
  BY DEF Park
<1>3. Max({now, until[c]}) \in Nat
  <2>1. now \in Nat /\ until[c] \in Nat
    BY DEF IInv, RestOK
  <2>2. \E x \in {now, until[c]} : \A y \in {now, until[c]} : x >= y
    <3>1. CASE now >= until[c]
      BY <2>1, <3>1
    <3>2. CASE until[c] >= now
      BY <2>1, <3>2
    <3> QED BY <2>1, <3>1, <3>2
  <2>3. Max({now, until[c]}) \in {now, until[c]}
    BY <2>2 DEF Max
  <2> QED BY <2>1, <2>3
<1>4. until' \in [Calls -> Nat] /\ \A d \in Calls \ {c} : until'[d] = until[d]
  <2>1. until' = [until EXCEPT ![c] = Max({now, until[c]})]
    BY DEF Park, IInv, RestOK
  <2> QED BY <1>3, <2>1 DEF IInv, RestOK
<1>5. RestOK'
  BY <1>1, <1>2, <1>4 DEF IInv, RestOK, books
<1>6. stored' = TRUE
  BY <1>2 DEF IInv, CallOK, books
<1>7. CallOK(c)'
  BY <1>1, <1>2, <1>6 DEF CallOK, Parking
<1>8. parked' \ {c} = parked \ {c}
  BY <1>2
<1> QED BY <1>1, <1>2, <1>4, <1>5, <1>7, <1>8, QuietStep

\* The call's own part in a change of the order that it commits.
LEMMA CommitStep ==
    ASSUME IInv, NEW c \in Calls, Moved, charging' \in BOOLEAN, NEW step \in Steps, Goes(c, step),
           UNCHANGED <<now, until, parked, told, stopped>>, CallOK(c)'
    PROVE  IInv'
<1>1. at' \in [Calls -> Steps] /\ \A d \in Calls \ {c} : at'[d] = at[d]
  BY GoesType
<1>2. RestOK' /\ OrderOK'
  BY <1>1 DEF IInv, RestOK, Moved
<1>3. now \in Nat
  BY DEF IInv, RestOK
<1>4. waking = TRUE => waking' = TRUE
  BY DEF Moved
<1>5. ASSUME NEW d \in Calls \ {c} PROVE Stays(d)
  <2>1. at'[d] = at[d] /\ until'[d] = until[d] /\ parked' = parked /\ now' = now /\ stopped' = stopped
    BY <1>1
  <2>2. now' \in Nat /\ now <= now' /\ (stopped = TRUE => stopped' = TRUE)
    BY <1>3, <2>1
  <2> QED BY <1>4, <2>1, <2>2 DEF Stays
<1> QED BY <1>2, <1>5, WakeUpStands, CallMoves

\* A payment that an order without goods to wait for takes: two events, one commit.
LEMMA TakenMoves ==
    ASSUME IInv, stored = TRUE, stored' = stored, order.state \notin OnItsWay,
           NEW e \in Event, NEW f \in Event, NEW r, NEW q, r = Transition(order, e), r.code = "none",
           q = Transition(r.order, f), q.code = "none", order' = q.order, Wakes(q),
           ~InProgress(order)
    PROVE  Moved /\ order'.state \notin OnItsWay
<1>1. InHand(order) /\ order.mode = "sync" /\ waking \in BOOLEAN
  BY DEF IInv, OrderOK, RestOK
<1>2. InHand(r.order) /\ r.order.mode = "sync" /\ r.order.state \notin OnItsWay
  BY <1>1, StaysInHand
<1>3. InHand(order') /\ order'.mode = "sync" /\ order'.state \notin OnItsWay
  BY <1>2, StaysInHand
<1>4. /\ waking' \in BOOLEAN
      /\ waking = TRUE => waking' = TRUE
      /\ waking' = TRUE => waking = TRUE \/ ~InProgress(order')
  BY <1>1, WakesLater
<1>5. OrderOK'
  BY <1>3 DEF OrderOK, InHand
<1> QED BY <1>3, <1>4, <1>5 DEF Moved

LEMMA PresentStep == ASSUME IInv, NEW c \in Calls, Present(c) PROVE IInv'
<1>1. at[c] = "parked" /\ stored = TRUE /\ stored' = stored /\ UNCHANGED <<now, until, stopped>>
  BY DEF Present, IInv, CallOK
<1>2. CASE Goes(c, "presented") /\ UNCHANGED <<order, charging, parked, waking, told>>
  <2>1. at' \in [Calls -> Steps] /\ at'[c] = "presented" /\ \A d \in Calls \ {c} : at'[d] = at[d]
    BY <1>2, GoesType DEF Steps
  <2>2. RestOK'
    BY <1>1, <1>2, <2>1 DEF IInv, RestOK
  <2>3. CallOK(c)
    BY DEF IInv
  <2>4. CallOK(c)'
    BY <1>1, <1>2, <2>1, <2>3 DEF CallOK, Parking
  <2> QED BY <1>1, <1>2, <2>1, <2>2, <2>4, QuietStep DEF books
<1>3. ASSUME TakesANewPayment(order), NEW r, NEW q, r = Repeated,
             q = Occurs(r.order, "payment_verified", now),
             IF IsOk(r) /\ IsOk(q)
             THEN /\ Commits(q)
                  /\ Goes(c, IF HasAnAnswer(q.order) THEN "recharging" ELSE "charging")
                  /\ UNCHANGED <<parked, told>>
             ELSE parked' = {} /\ Ends(c, "not_taken") /\ UNCHANGED <<order, charging, waking>>
      PROVE  IInv'
  <2>1. order.state \notin OnItsWay /\ ~InProgress(order)
    BY <1>3 DEF TakesANewPayment, OnItsWay, InProgress, OutcomeFor
  <2>2. CASE IsOk(r) /\ IsOk(q)
    <3> DEFINE e == [kind |-> "purchase_repeated", at |-> now, detail |-> "none"]
               f == [kind |-> "payment_verified", at |-> now, detail |-> "none"]
    <3>1. /\ e \in Event /\ r = Transition(order, e) /\ r.code = "none"
          /\ f \in Event /\ q = Transition(r.order, f) /\ q.code = "none"
      BY <1>3, <2>2, KindsOfEvents DEF Repeated, Occurs, IsOk, IInv, RestOK, EventKind, Detail
    <3> HIDE DEF e, f
    <3>2. order' = q.order /\ Wakes(q) /\ charging' \in BOOLEAN
      BY <1>3, <2>2 DEF Commits, Wakes
    <3>3. Moved /\ order'.state \notin OnItsWay
      BY <1>1, <2>1, <3>1, <3>2, TakenMoves
    <3>4. PICK step \in {"charging", "recharging"} :
            Goes(c, step) /\ at'[c] = step /\ UNCHANGED <<parked, told>>
      BY <1>3, <2>2, GoesType DEF Steps
    <3>5. CallOK(c)'
      BY <1>1, <3>3, <3>4 DEF CallOK, Parking
    <3> QED BY <1>1, <3>2, <3>3, <3>4, <3>5, CommitStep DEF Steps
  <2>3. CASE ~(IsOk(r) /\ IsOk(q))
    <3>1. parked' = {} /\ Ends(c, "not_taken") /\ UNCHANGED <<order, charging, waking>>
      BY <1>3, <2>3
    <3>2. /\ told' \in [Calls -> Told] /\ at' \in [Calls -> Steps] /\ at'[c] = "done"
          /\ \A d \in Calls \ {c} : at'[d] = at[d]
      BY <3>1, EndsType DEF Told
    <3>3. RestOK'
      BY <1>1, <3>1, <3>2 DEF IInv, RestOK
    <3>4. CallOK(c)'
      BY <1>1, <3>1, <3>2 DEF CallOK, Parking
    <3> QED BY <1>1, <2>1, <3>1, <3>2, <3>3, <3>4, QuietStep DEF books
  <2> QED BY <2>2, <2>3
<1> QED BY <1>2, <1>3 DEF Present

LEMMA ChargedStep == ASSUME IInv, NEW c \in Calls, Charged(c) PROVE IInv'
<1>1. at' \in [Calls -> Steps] /\ at'[c] = "presented" /\ \A d \in Calls \ {c} : at'[d] = at[d]
  BY GoesType DEF Charged, Steps
<1>2. at[c] \in {"charging", "recharging"} /\ UNCHANGED <<now, books, until, parked, told, stopped>>
  BY DEF Charged
<1>3. /\ waking' \in BOOLEAN /\ (waking = TRUE => waking' = TRUE)
      /\ waking' = TRUE => waking = TRUE \/ at[c] = "recharging"
  <2>1. waking' = (waking \/ at[c] = "recharging") /\ waking \in BOOLEAN
    BY DEF Charged, IInv, RestOK
  <2> QED BY <2>1, Zenon
<1>4. RestOK' /\ OrderOK'
  BY <1>1, <1>2, <1>3 DEF IInv, RestOK, OrderOK, books
<1>5. CallOK(c) /\ stored = TRUE
  BY <1>2 DEF IInv, CallOK
<1>6. CallOK(c)'
  BY <1>1, <1>2, <1>5 DEF CallOK, Parking, books
<1>7. waking' = TRUE => stored' = TRUE /\ order'.state \notin OnItsWay
  BY <1>2, <1>3, <1>5 DEF IInv, CallOK, books
<1>8. ASSUME NEW d \in Calls \ {c} PROVE Stays(d)
  BY <1>1, <1>2, <1>3 DEF Stays, IInv, RestOK, books
<1> QED BY <1>4, <1>6, <1>7, <1>8, CallMoves

LEMMA ChargeThrowsStep == ASSUME IInv, NEW c \in Calls, ChargeThrows(c) PROVE IInv'
<1>1. /\ at[c] \in {"charging", "recharging"} /\ Ends(c, "error")
      /\ UNCHANGED <<now, books, until, parked, waking, stopped>>
  BY DEF ChargeThrows
<1>2. /\ told' \in [Calls -> Told] /\ at' \in [Calls -> Steps] /\ at'[c] = "done"
      /\ \A d \in Calls \ {c} : at'[d] = at[d]
  BY <1>1, EndsType DEF Told
<1>3. RestOK'
  BY <1>1, <1>2 DEF IInv, RestOK, books
<1>4. CallOK(c) /\ stored = TRUE
  BY <1>1 DEF IInv, CallOK
<1>5. CallOK(c)'
  BY <1>1, <1>2, <1>4 DEF CallOK, Parking, books
<1> QED BY <1>1, <1>2, <1>3, <1>5, QuietStep

LEMMA LookStep == ASSUME IInv, NEW c \in Calls, Look(c) PROVE IInv'
<1>1. at[c] = "presented" /\ UNCHANGED <<now, books, until, parked, waking, told, stopped>>
  BY DEF Look
<1>2. CallOK(c) /\ stored = TRUE /\ InHand(order)
  BY <1>1 DEF IInv, CallOK, OrderOK
<1>3. PICK step \in {"giving_up", "waiting"} :
        /\ Goes(c, step) /\ (step = "waiting" => InProgress(order))
        /\ (step = "giving_up" => ~InProgress(order))
  BY DEF Look, NothingToWaitFor
<1>4. at' \in [Calls -> Steps] /\ at'[c] = step /\ \A d \in Calls \ {c} : at'[d] = at[d]
  BY <1>3, GoesType DEF Steps
<1>5. step = "giving_up" => order.state \notin OnItsWay
  BY <1>2, <1>3, OnItsWayIsInProgress
<1>6. RestOK'
  BY <1>1, <1>4 DEF IInv, RestOK, books
<1>7. CallOK(c)'
  BY <1>1, <1>2, <1>3, <1>4, <1>5 DEF CallOK, Parking, books
<1> QED BY <1>1, <1>4, <1>6, <1>7, QuietStep

LEMMA GiveUpStep == ASSUME IInv, NEW c \in Calls, GiveUp(c) PROVE IInv'
<1>1. at[c] = "giving_up" /\ parked' = {} /\ UNCHANGED <<now, books, until, waking, told, stopped>>
  BY DEF GiveUp
<1>2. order.state \notin OnItsWay /\ stored = TRUE
  BY <1>1 DEF IInv, CallOK
<1>3. at' \in [Calls -> Steps] /\ at'[c] = "waiting" /\ \A d \in Calls \ {c} : at'[d] = at[d]
  BY GoesType DEF GiveUp, Steps
<1>4. RestOK'
  BY <1>1, <1>3 DEF IInv, RestOK, books
<1>5. CallOK(c)'
  BY <1>1, <1>2, <1>3 DEF CallOK, Parking, books
<1> QED BY <1>1, <1>2, <1>3, <1>4, <1>5, QuietStep

LEMMA AwakeStep == ASSUME IInv, NEW c \in Calls, Awake(c) PROVE IInv'
<1>1. at[c] = "waiting" /\ c \notin parked
      /\ UNCHANGED <<now, books, until, parked, waking, told, stopped>>
  BY DEF Awake
<1>2. at' \in [Calls -> Steps] /\ at'[c] = "closing" /\ \A d \in Calls \ {c} : at'[d] = at[d]
  BY GoesType DEF Awake, Steps
<1>3. RestOK'
  BY <1>1, <1>2 DEF IInv, RestOK, books
<1>4. CallOK(c)
  BY DEF IInv
<1>5. CallOK(c)'
  BY <1>1, <1>2, <1>4 DEF CallOK, Parking, books
<1> QED BY <1>1, <1>2, <1>3, <1>5, QuietStep

LEMMA CloseOverdueStep == ASSUME IInv, NEW c \in Calls, CloseOverdue(c) PROVE IInv'
<1>1. /\ at[c] = "closing" /\ Goes(c, "reading") /\ stored' = stored
      /\ UNCHANGED <<now, until, parked, told, stopped>>
  BY DEF CloseOverdue
<1>2. CallOK(c) /\ stored = TRUE /\ InHand(order) /\ order.mode = "sync" /\ c \notin parked
  BY <1>1 DEF IInv, CallOK, OrderOK, Parking
<1>3. at' \in [Calls -> Steps] /\ at'[c] = "reading" /\ \A d \in Calls \ {c} : at'[d] = at[d]
  BY <1>1, GoesType DEF Steps
<1>4. CASE Overdue = {} /\ UNCHANGED <<order, charging, waking>>
  <2>1. RestOK'
    BY <1>1, <1>3, <1>4 DEF IInv, RestOK
  <2>2. ASSUME order.state \in OnItsWay PROVE order.paidAt + SyncResponseMs > now
    <3>1. order.payment # "settling" /\ order.paidAt # Null /\ order.paidAt \in Nat
      BY <1>2, <2>2 DEF InHand, Consistent, Order, Instant, OnItsWay
    <3> DEFINE d == [kind |-> "sync_response", at |-> order.paidAt + SyncResponseMs]
    <3>2. Deadlines(order) = {d}
      BY <1>2, <2>2, <3>1 DEF Deadlines, FulfillmentDeadline, AfterFulfillment, OnItsWay
    <3>3. ~(d.at <= now)
      BY <1>4, <3>2 DEF Overdue
    <3> QED BY <3>1, <3>3, PolicyAssumption DEF IInv, RestOK
  <2>3. order.state \in OnItsWay => stopped = TRUE \/ order.paidAt + SyncResponseMs > until[c]
    <3>1. order.state \in OnItsWay => stopped = TRUE \/ until[c] <= now
      BY <1>1, <1>2 DEF CallOK
    <3>2. now \in Int /\ until[c] \in Int /\ order.paidAt + SyncResponseMs \in Int
      BY <1>2, PolicyAssumption DEF IInv, RestOK, InHand, Order, Instant, Null
    <3> QED BY <2>2, <3>1, <3>2
  <2>4. CallOK(c)'
    BY <1>1, <1>2, <1>3, <1>4, <2>3 DEF CallOK, Parking
  <2> QED BY <1>1, <1>3, <1>4, <2>1, <2>4, QuietStep DEF books
<1>5. ASSUME NEW d \in Overdue, Commits(Expired(order, d)) PROVE IInv'
  <2> DEFINE e == [kind |-> "deadline_expired", at |-> d.at, detail |-> d.kind]
  <2>1. d.at \in Nat /\ d.kind \in DeadlineKind
    BY <1>2, DeadlineTypes DEF Overdue
  <2>2. e \in Event /\ e.kind = "deadline_expired" /\ Expired(order, d) = Transition(order, e)
    BY <2>1, KindsOfEvents DEF Expired, EventKind, Detail
  <2> HIDE DEF e
  <2>3. Moved /\ charging' \in BOOLEAN /\ order'.state \notin OnItsWay
    BY <1>1, <1>2, <1>5, <2>2, CommitsMoves
  <2>4. CallOK(c)'
    BY <1>1, <1>2, <1>3, <2>3 DEF CallOK, Parking, Moved
  <2> QED BY <1>1, <2>3, <2>4, CommitStep DEF Steps
<1> QED BY <1>4, <1>5 DEF CloseOverdue

LEMMA TellStep == ASSUME IInv, NEW c \in Calls, Tell(c) PROVE IInv'
<1>1. at[c] = "reading" /\ UNCHANGED <<now, books, until, parked, waking, stopped>>
  BY DEF Tell
<1>2. c \notin parked /\ stored = TRUE
  BY <1>1 DEF IInv, CallOK, Parking
<1>3. PICK word \in Told : Ends(c, word)
  BY DEF Tell, Told
<1>4. /\ told' \in [Calls -> Told] /\ at' \in [Calls -> Steps] /\ at'[c] = "done"
      /\ \A d \in Calls \ {c} : at'[d] = at[d]
  BY <1>3, EndsType
<1>5. RestOK'
  BY <1>1, <1>4 DEF IInv, RestOK, books
<1>6. CallOK(c)'
  BY <1>1, <1>2, <1>4 DEF CallOK, Parking, books
<1> QED BY <1>1, <1>4, <1>5, <1>6, QuietStep

LEMMA NextIInv == IInv /\ [Next]_vars => IInv'
<1> SUFFICES ASSUME IInv, [Next]_vars PROVE IInv'
  OBVIOUS
<1>1. ASSUME NEW c \in Calls, CallStep(c) PROVE IInv'
  BY <1>1, AdmitStep, ParkAdmittedStep, CheckStep, ParkStep, PresentStep, ChargedStep,
     ChargeThrowsStep, LookStep, GiveUpStep, AwakeStep, CloseOverdueStep, TellStep DEF CallStep
<1>2. CASE UNCHANGED vars
  BY <1>2 DEF vars, IInv, RestOK, OrderOK, CallOK
<1> QED BY <1>1, <1>2, TimerStep, WakeStep, StopStep, MerchantActsStep, ChargeAnswersStep,
           ReminderFiresStep, TickStep DEF Next

(* The inductive invariant holds in every state of the parked calls.       *)
THEOREM ParksInvariant == Spec => []IInv
BY InitIInv, NextIInv, PTL DEF Spec

(* No call sleeps on an order that has its answer, for any number of calls *)
(* and whenever the answer is committed: before the park, between the park *)
(* and the look at the order, or after (Waiting, #wakeTheAgent).           *)
THEOREM NobodySleeps == Spec => []NobodySleepsOnAnAnswer
<1>1. IInv => NobodySleepsOnAnAnswer
  <2> SUFFICES ASSUME IInv PROVE NobodySleepsOnAnAnswer
    OBVIOUS
  <2>1. parked \subseteq {c \in Calls : at[c] \notin {"idle", "checked", "admitted"}}
    BY DEF IInv, RestOK, CallOK, Parking
  <2>2. TypeOK
    BY <2>1 DEF IInv, RestOK, OrderOK, TypeOK
  <2>3. \A c \in parked : at[c] = "waiting" /\ ~InProgress(order) => waking = TRUE
    BY DEF IInv, RestOK, CallOK
  <2> QED BY <2>2, <2>3, Zenon DEF NobodySleepsOnAnAnswer
<1> QED BY <1>1, ParksInvariant, PTL

-----------------------------------------------------------------------------

\* What a step that tells a buyer "in progress" says of his order.
ToldInProgress ==
    \A c \in Calls : told[c] # told'[c] /\ told'[c] = "under_way" =>
      \/ stopped \/ order.payment = "settling"
      \/ order.paidAt + SyncResponseMs > until[c]

LEMMA TellsInProgress == IInv /\ [Next]_vars => [ToldInProgress]_vars
<1> SUFFICES ASSUME IInv, Next, NEW c \in Calls, told[c] # told'[c], told'[c] = "under_way"
             PROVE  \/ stopped \/ order.payment = "settling"
                    \/ order.paidAt + SyncResponseMs > until[c]
  BY DEF ToldInProgress
<1>1. told \in [Calls -> Told]
  BY DEF IInv, RestOK
<1>2. ASSUME NEW d \in Calls, NEW word, Ends(d, word)
      PROVE  d = c /\ word = "under_way"
  BY <1>1, <1>2 DEF Ends
<1>3. PICK d \in Calls : CallStep(d)
  BY DEF Next, WakeTheAgent, TimerRunsOut, Stop, MerchantActs, ChargeAnswers, ReminderFires, Tick, Rest
<1>4. Tell(d)
  BY <1>2, <1>3 DEF CallStep, Admit, ParkAdmitted, Check, Park, Present, Charged, ChargeThrows, Look,
         GiveUp, Awake, CloseOverdue
<1>5. d = c /\ InProgress(order) /\ at[c] = "reading"
  BY <1>2, <1>4 DEF Tell
<1>6. CallOK(c) /\ InHand(order) /\ order.mode = "sync"
  BY <1>5 DEF IInv, CallOK, OrderOK
<1>7. order.state \in OnItsWay \/ order.payment = "settling"
  BY <1>5, <1>6, OnItsWayIsInProgress
<1>8. order.payment = "settling" \/ stopped = TRUE \/ order.paidAt + SyncResponseMs > until[c]
  BY <1>5, <1>6, <1>7 DEF CallOK
<1> QED BY <1>8, Zenon

(* A buyer is told "in progress" because his charge is being decided, not  *)
(* because a clock was still to be applied, for any policy whose waits fit *)
(* in the budget (#wherePurchaseStands after #closeOverdueSynchronously).  *)
THEOREM InProgressMeansCharging == Spec => UnderWayMeansCharging
<1>1. Spec => [][ToldInProgress]_vars
  BY ParksInvariant, TellsInProgress, PTL DEF Spec
<1> QED BY <1>1 DEF UnderWayMeansCharging, ToldInProgress
=============================================================================
