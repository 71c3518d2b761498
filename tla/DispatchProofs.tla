---------------------------- MODULE DispatchProofs ----------------------------
(***************************************************************************)
(* Proofs about Dispatch, for every policy, mode, set of polls and bound:  *)
(* what one transition does to the envelopes of an order and to its        *)
(* buyer's address, then what every interleaving of polls, sweeps,         *)
(* reminders and the merchant leaves of both.                              *)
(***************************************************************************)
EXTENDS Dispatch, OrderMachineProofs

-----------------------------------------------------------------------------
(* The order, and its address.                                             *)

\* What a transition that is taken does to an order in hand, its address and its envelopes.
Carried(o, e, r) ==
    /\ InHand(r.order) /\ r.order.mode = o.mode
    /\ HoldsShipTo(r.order) <=> HoldsShipTo(o) /\ "erase_ship_to" \notin r.effects
    /\ "dispatch_order" \notin r.effects /\ r.delay \in Nat
    /\ "redeliver_order" \in r.effects =>
         e.kind = "handler_undelivered" /\ o.state \in OnItsWay /\ o.accepted = FALSE
    /\ r.order.state = "dispatched" /\ r.order.accepted = FALSE =>
         /\ ~Forgets(r.effects)
         /\ e.kind \notin {"payment_settled", "payment_settle_failed", "deadline_expired"}
         /\ e.kind = "handler_undelivered" =>
              "redeliver_order" \in r.effects \/ ~NextRedelivery(r.order, e.at)

LEMMA TransitionCarries ==
    ASSUME NEW o, InHand(o), NEW e \in Event, Transition(o, e).code = "none"
    PROVE  Carried(o, e, Transition(o, e))
<1> DEFINE r == Transition(o, e)
           i == TransitionIn(o, e)
<1>1. /\ r.order \in Order /\ Consistent(r.order) /\ r.order.mode = o.mode
      /\ i.code = "none" /\ r.order = i.order
  BY TransitionStep, TransitionOrder DEF Step, InHand
<1>2. StreamAccount(o, e, i)
  BY TransitionInAccount DEF InHand
<1>3. /\ r.delay = i.delay
      /\ \/ r.effects = i.effects \cup {"erase_ship_to"} /\ HoldsShipTo(o) /\ ~HoldsShipTo(r.order)
         \/ r.effects = i.effects /\ ~(HoldsShipTo(o) /\ ~HoldsShipTo(r.order))
  BY <1>1 DEF Transition, With, NotApplicable, Reject, IsOk
<1> HIDE DEF r, i
<1>4. InHand(r.order)
  BY <1>1, <1>2 DEF InHand, StreamAccount, OnItsWay
<1>5. HoldsShipTo(r.order) => HoldsShipTo(o)
  <2> SUFFICES ASSUME HoldsShipTo(r.order) PROVE HoldsShipTo(o)
    OBVIOUS
  <2>1. r.order.mode = "ship" /\ r.order.state \in OnItsWay /\ r.order.accepted = FALSE
    BY <1>4, HeldOnItsWay
  <2>2. o.state \in OnItsWay /\ o.accepted # TRUE /\ o.accepted \in BOOLEAN
    BY <1>1, <1>2, <2>1 DEF StreamAccount, InHand, Order
  <2> QED BY <1>1, <2>1, <2>2, HeldOnItsWay
<1>6. "erase_ship_to" \notin i.effects /\ "dispatch_order" \notin i.effects
  BY <1>1, <1>2 DEF StreamAccount
<1>7. HoldsShipTo(r.order) <=> HoldsShipTo(o) /\ "erase_ship_to" \notin r.effects
  BY <1>3, <1>5, <1>6
<1>8. "withdraw_hand_overs" \in r.effects => r.order.accepted = TRUE
  BY <1>1, <1>2, <1>3 DEF StreamAccount
<1>9. ASSUME r.order.state = "dispatched", r.order.accepted = FALSE
      PROVE  /\ ~Forgets(r.effects)
             /\ e.kind \notin {"payment_settled", "payment_settle_failed", "deadline_expired"}
             /\ e.kind = "handler_undelivered" =>
                  "redeliver_order" \in r.effects \/ ~NextRedelivery(r.order, e.at)
  <2>1. HoldsShipTo(o) => HoldsShipTo(r.order)
    <3> SUFFICES ASSUME HoldsShipTo(o) PROVE HoldsShipTo(r.order)
      OBVIOUS
    <3>1. o.mode = "ship"
      BY HeldOnItsWay
    <3> QED BY <1>1, <1>4, <1>9, <3>1, HeldOnItsWay DEF OnItsWay
  <2>2. "erase_ship_to" \notin r.effects /\ "withdraw_hand_overs" \notin r.effects
    BY <1>7, <1>8, <1>9, <2>1, <1>3, <1>6
  <2>3. ~Forgets(r.effects)
    BY <2>2 DEF Forgets
  <2> QED BY <1>1, <1>2, <1>3, <1>9, <2>3 DEF StreamAccount, OnItsWay
<1> QED BY <1>1, <1>2, <1>3, <1>4, <1>6, <1>7, <1>9 DEF Carried, StreamAccount, r

\* A hand-over is recorded of an order that still stands, and of every one that waits for it.
LEMMA HandOverOfADueOrder ==
    ASSUME NEW o, InHand(o), NEW e \in Event, e.kind = "order_dispatched"
    PROVE  /\ o.state = "dispatched" /\ o.accepted = FALSE => Transition(o, e).code = "none"
           /\ Transition(o, e).code = "none" =>
                /\ o.state \in {"paid", "dispatched", "unfulfilled"}
                /\ IsParcel(o) => HoldsShipTo(o)
<1>1. o \in Order /\ Consistent(o) /\ o.state \in OrderState
  BY DEF InHand, Order
<1>2. ASSUME Transition(o, e).code = "none" PROVE IsParcel(o) => HoldsShipTo(o)
  BY <1>2 DEF Transition, NotApplicable, Reject
<1>3. ASSUME Transition(o, e).code = "none" PROVE o.state \in {"paid", "dispatched", "unfulfilled"}
  <2>1. TransitionIn(o, e).code = "none"
    BY <1>3, TransitionOrder
  <2> QED BY <1>1, <2>1 DEF InHand, TransitionIn, Reject, FromFulfillmentClosed, FromFulfilled,
            FromDelivered, FromDeliveredUnpaid, FromFailed, FromExpired, FromClosedWithoutMoney,
            NotApplicable, OrderState
<1>4. ASSUME o.state = "dispatched", o.accepted = FALSE PROVE Transition(o, e).code = "none"
  <2>1. IsParcel(o) => HoldsShipTo(o)
    BY <1>4, HeldOnItsWay DEF IsParcel, OnItsWay
  <2>2. TransitionIn(o, e).code = "none"
    BY <1>1, <1>4 DEF TransitionIn, FromDispatched, Consistent, Ok, Result
  <2> QED BY <2>1, <2>2 DEF Transition, With
<1> QED BY <1>2, <1>3, <1>4

\* The silence of a hand-over is always heard.
LEMMA SilenceIsHeard ==
    ASSUME NEW o, InHand(o), NEW e \in Event, e.kind = "handler_undelivered",
           o.state = "dispatched", o.accepted = FALSE
    PROVE  Transition(o, e).code = "none"
<1>1. o \in Order /\ o.paidAt # Null
  BY DEF InHand, Consistent
<1>2. TransitionIn(o, e) = Redeliver(o, e.at)
  BY DEF TransitionIn, FromDispatched, InHand, Consistent
<1>3. FulfillmentDeadline(o) # {}
  BY <1>1 DEF FulfillmentDeadline
<1>4. TransitionIn(o, e).code = "none"
  BY <1>2, <1>3 DEF Redeliver, Ok, Result
<1> QED BY <1>4 DEF Transition, With

-----------------------------------------------------------------------------
(* The inductive invariant: the address where it is needed, the silences   *)
(* of real hand-overs, the open hand-over counted as a delivery not yet    *)
(* spent, and an unanswered hand-over remembered.                          *)

Address ==
    /\ InHand(order)
    /\ shipTo \in BOOLEAN /\ kept \in BOOLEAN
    /\ IsABag(queued) /\ BagToSet(queued) \subseteq Nat
    /\ (shipTo = TRUE) <=> HoldsShipTo(order)
    /\ order.mode = "ship" /\ shipTo = FALSE => queued = EmptyBag /\ kept = FALSE

Accounts ==
    /\ \A r \in silences : r.handOver # 0
    /\ redeliveries + (IF openDelivery = 0 THEN 0 ELSE 1) <= handOvers

Unanswered ==
    faults = 0 /\ order.state = "dispatched" /\ order.accepted = FALSE /\ answered = FALSE

Remembered ==
    \/ \E r \in silences : r.handOver = openDelivery
    \/ queued # EmptyBag
    \/ \E p \in Polls : poll[p] # "idle"
    \/ ~NextRedelivery(order, now)

RestOK ==
    /\ now \in Nat /\ handOvers \in 0 .. MaxHandOvers /\ openDelivery \in 0 .. handOvers
    /\ silences \subseteq Silence /\ poll \in [Polls -> PollStep] /\ works \subseteq Polls
    /\ sweep \in SweepStep /\ answered \in BOOLEAN
    /\ redeliveries \in Nat /\ faults \in 0 .. MaxFaults

IInv ==
    /\ RestOK
    /\ Address
    /\ Accounts
    /\ Unanswered => Remembered

-----------------------------------------------------------------------------
(* Bags of envelopes.                                                      *)

LEMMA EmptyIsABag == IsABag(EmptyBag) /\ BagToSet(EmptyBag) = {}
BY DEF IsABag, BagToSet, EmptyBag, SetToBag

LEMMA PublishedBag ==
    ASSUME NEW b, IsABag(b), BagToSet(b) \subseteq Nat, NEW at \in Nat
    PROVE  /\ IsABag(Published(b, at)) /\ BagToSet(Published(b, at)) \subseteq Nat
           /\ Published(b, at) # EmptyBag
<1>1. BagToSet(Published(b, at)) = BagToSet(b) \cup {at} /\ IsABag(Published(b, at))
  BY DEF Published, IsABag, BagToSet, SetToBag, (+)
<1> QED BY <1>1, EmptyIsABag

LEMMA DrawnBag ==
    ASSUME NEW b, IsABag(b), BagToSet(b) \subseteq Nat, NEW at \in BagToSet(b)
    PROVE  /\ IsABag(b (-) SetToBag({at})) /\ BagToSet(b (-) SetToBag({at})) \subseteq Nat
           /\ b # EmptyBag
<1>1. IsABag(b (-) SetToBag({at})) /\ BagToSet(b (-) SetToBag({at})) \subseteq BagToSet(b)
  BY DEF IsABag, BagToSet, SetToBag, (-)
<1> QED BY <1>1, EmptyIsABag

-----------------------------------------------------------------------------
(* A change of the order: OrderRunner.apply.                               *)

LEMMA AppliedAddress ==
    ASSUME Address, now \in Nat, NEW e \in Event, NEW r, r = Transition(order, e),
           r.code = "none", NEW h, Applies(r, h)
    PROVE  Address' /\ Carried(order, e, r)
<1>1. Carried(order, e, r)
  BY TransitionCarries DEF Address
<1>2. order' = r.order /\ InHand(order') /\ order'.mode = order.mode
  BY <1>1 DEF Carried, Applies
<1>3. shipTo' \in BOOLEAN /\ ((shipTo' = TRUE) <=> (shipTo = TRUE /\ "erase_ship_to" \notin r.effects))
  <2>1. shipTo' = (shipTo /\ "erase_ship_to" \notin r.effects) /\ shipTo \in BOOLEAN
    BY DEF Applies, Address
  <2> QED BY <2>1, Zenon
<1>4. (shipTo' = TRUE) <=> HoldsShipTo(order')
  BY <1>1, <1>2, <1>3 DEF Carried, Address
<1>5. kept' \in BOOLEAN /\ ((kept' = TRUE) <=> (kept = TRUE /\ ~Forgets(r.effects)))
  <2>1. kept' = (kept /\ ~Forgets(r.effects)) /\ kept \in BOOLEAN
    BY DEF Applies, KeptAfter, Address
  <2> QED BY <2>1, Zenon
<1>6. queued' = StreamAfter(r)
  BY DEF Applies
<1>7. IsABag(queued') /\ BagToSet(queued') \subseteq Nat
  <2>1. now + r.delay \in Nat
    BY <1>1 DEF Carried
  <2> QED BY <1>6, <2>1, PublishedBag, EmptyIsABag DEF StreamAfter, Address
<1>8. ASSUME order'.mode = "ship", shipTo' = FALSE
      PROVE  queued' = EmptyBag /\ kept' = FALSE
  <2>1. CASE "erase_ship_to" \in r.effects
    <3>1. Forgets(r.effects)
      BY <2>1 DEF Forgets
    <3> QED BY <1>5, <1>6, <3>1 DEF StreamAfter
  <2>2. CASE "erase_ship_to" \notin r.effects
    <3>1. shipTo = FALSE /\ order.mode = "ship"
      BY <1>2, <1>3, <1>8, <2>2 DEF Address
    <3>2. queued = EmptyBag /\ kept = FALSE /\ ~HoldsShipTo(order)
      BY <3>1 DEF Address
    <3>3. "redeliver_order" \notin r.effects /\ "dispatch_order" \notin r.effects
      BY <1>1, <3>1, <3>2, HeldOnItsWay DEF Carried, Address
    <3> QED BY <1>5, <1>6, <3>2, <3>3 DEF StreamAfter
  <2> QED BY <2>1, <2>2
<1> QED BY <1>1, <1>2, <1>3, <1>4, <1>5, <1>7, <1>8 DEF Address

\* A change that empties no stream leaves an envelope, or publishes one.
LEMMA StreamGrows ==
    ASSUME Address, now \in Nat, NEW r, r.delay \in Nat, NEW h, Applies(r, h), ~Forgets(r.effects)
    PROVE  /\ queued # EmptyBag => queued' # EmptyBag
           /\ "redeliver_order" \in r.effects => queued' # EmptyBag
<1>1. Published(queued, now + r.delay) # EmptyBag
  BY PublishedBag DEF Address
<1> QED BY <1>1 DEF Applies, StreamAfter

\* A hand-over's silence is watched for, unless it is too late to send the order again.
LEMMA SilenceIsWatched ==
    ASSUME NEW o \in Order, NEW h \in Nat, NEW at \in Nat
    PROVE  /\ SilenceOf(o, h, at) \subseteq [handOver : {h}, at : Nat]
           /\ SilenceOf(o, h, at) = {} => ~NextRedelivery(o, at)
<1> DEFINE waits == {HandlerAnswerMs} \cup {d.at - at : d \in FulfillmentDeadline(o)}
           wait == CHOOSE w \in waits : \A v \in waits : w <= v
<1>1. HandlerAnswerMs \in Nat /\ HandlerAnswerMs > 0 /\ RedeliveryDelay(o.attempts) \in Nat
      /\ o.paidAt \in Int
  BY DelayType, DispatchAssumption DEF Order, Instant, Null
<1>2. wait \in Int /\ (wait <= 0 => ~NextRedelivery(o, at))
  <2>1. CASE FulfillmentDeadline(o) = {}
    <3>1. waits = {HandlerAnswerMs}
      BY <2>1
    <3> QED BY <1>1, <3>1
  <2>2. CASE FulfillmentDeadline(o) # {}
    <3>1. PICK d : FulfillmentDeadline(o) = {d} /\ d.at \in Int
      BY <1>1, <2>2, PolicyAssumption DEF FulfillmentDeadline
    <3>2. waits = {HandlerAnswerMs, d.at - at}
      BY <3>1
    <3>3. \E w \in waits : \A v \in waits : w <= v
      <4>1. CASE HandlerAnswerMs <= d.at - at
        BY <1>1, <3>1, <3>2, <4>1
      <4>2. CASE d.at - at <= HandlerAnswerMs
        BY <1>1, <3>1, <3>2, <4>2
      <4> QED BY <1>1, <3>1, <4>1, <4>2
    <3>4. wait \in waits /\ \A v \in waits : wait <= v
      BY <3>3
    <3> HIDE DEF wait, waits
    <3>5. wait \in Int /\ (wait <= 0 => d.at - at <= 0)
      BY <1>1, <3>1, <3>2, <3>4
    <3>6. d.at - at <= 0 => ~NextRedelivery(o, at)
      BY <1>1, <3>1 DEF NextRedelivery
    <3> QED BY <3>5, <3>6
  <2> QED BY <2>1, <2>2
<1> HIDE DEF wait, waits
<1>3. SilenceOf(o, h, at) = IF wait <= 0 THEN {} ELSE {[handOver |-> h, at |-> at + wait]}
  BY DEF SilenceOf, wait, waits
<1>4. CASE wait <= 0
  BY <1>2, <1>3, <1>4
<1>5. CASE ~(wait <= 0)
  <2>1. at + wait \in Nat
    BY <1>2, <1>5
  <2>2. [handOver |-> h, at |-> at + wait] \in [handOver : {h}, at : Nat]
    BY <2>1
  <2>3. SilenceOf(o, h, at) = {[handOver |-> h, at |-> at + wait]}
    BY <1>3, <1>5
  <2> QED BY <2>2, <2>3
<1> QED BY <1>4, <1>5

\* It is never again in time once it is too late.
LEMMA TooLateStays ==
    ASSUME NEW o \in Order, NEW at \in Nat, ~NextRedelivery(o, at)
    PROVE  ~NextRedelivery(o, at + 1)
<1>1. RedeliveryDelay(o.attempts) \in Nat /\ o.paidAt \in Int /\ o.firstDispatchedAt \in Int
  BY DelayType DEF Order, Instant, Null
<1>2. \A d \in FulfillmentDeadline(o) : d.at \in Int
  BY <1>1, PolicyAssumption DEF FulfillmentDeadline
<1> QED BY <1>1, <1>2, PolicyAssumption DEF NextRedelivery

-----------------------------------------------------------------------------
(* Every order that is sold is paid for and not yet accepted.              *)

LEMMA SoldOrders ==
    ASSUME NEW sold \in Sold
    PROVE  sold.state = "paid" /\ InHand(sold)
<1> DEFINE quoted(mode) == CreateOrder(mode, "card", 0).order
           shown(mode) == Occurs(quoted(mode), "payment_presented", 0).order
           verified(mode) == Occurs(shown(mode), "payment_verified", 0).order
           settled(mode) == Occurs(verified(mode), "payment_settled", 0).order
<1>1. PICK mode \in Modes : sold = IF verified(mode).state = "paid" THEN verified(mode)
                                   ELSE settled(mode)
  BY DEF Sold
<1>2. PICK o : o = shown(mode)
  OBVIOUS
<1>3. o \in Order /\ Consistent(o) /\ o.state = "quoted" /\ o.payment = "none"
  BY <1>2, CardOrder, PresentedOrder, DispatchAssumption
<1> DEFINE v == [kind |-> "payment_verified", at |-> 0, detail |-> "none"]
           s == [kind |-> "payment_settled", at |-> 0, detail |-> "none"]
<1>4. PICK r : r = Occurs(o, "payment_verified", 0)
  OBVIOUS
<1>5. r = FromQuoted(o, v)
  <2>1. TransitionIn(o, v) = FromQuoted(o, v)
    BY <1>3 DEF TransitionIn
  <2>2. ~HoldsShipTo(o)
    BY <1>3 DEF HoldsShipTo
  <2> QED BY <1>4, <2>1, <2>2 DEF Occurs, Transition
<1>6. Step(o, "payment_verified", r)
  BY <1>3, <1>4, OccursStep DEF EventKind
<1>7. CASE o.mode = "sync"
  BY <1>1, <1>2, <1>3, <1>4, <1>7, VerifiedOrder
<1>8. CASE o.mode # "sync"
  <2> DEFINE n == [o EXCEPT !.state = "quoted", !.payment = "settling", !.settleStartedAt = 0]
  <2>1. n.state = "quoted" /\ n.payment = "settling"
    BY <1>3 DEF Order
  <2> HIDE DEF n
  <2>2. r.order = n /\ r.code = "none"
    BY <1>3, <1>5, <1>8 DEF FromQuoted, AfterFulfillment, StartSettle, Ok, Result, n
  <2>3. n \in Order /\ Consistent(n)
    BY <1>6, <2>2 DEF Step
  <2>4. PICK t : t = Occurs(n, "payment_settled", 0)
    OBVIOUS
  <2>5. Step(n, "payment_settled", t)
    BY <2>3, <2>4, OccursStep DEF EventKind
  <2>6. TransitionIn(n, s) = EnterPaid(n, 0, "settled")
    BY <2>1 DEF TransitionIn, FromQuoted, AllowedWhileSettling
  <2>7. PICK q : q = EnterPaid(n, 0, "settled")
    OBVIOUS
  <2>8. q.order.state = "paid" /\ q.order.mode = n.mode
    BY <2>3, <2>7 DEF EnterPaid, Ok, Result, Order
  <2>9. q.order.accepted = FALSE /\ q.code = "none"
    BY <2>3, <2>7 DEF EnterPaid, Ok, Result, Order
  <2>10. HoldsShipTo(n) => HoldsShipTo(q.order)
    <3>1. q.order.payment = "settled"
      BY <2>3, <2>7 DEF EnterPaid, Ok, Result, Order
    <3> QED BY <2>8, <2>9, <3>1 DEF HoldsShipTo, IsParcel, IsOpen, OpenStates
  <2>11. t = q
    BY <2>4, <2>6, <2>7, <2>10 DEF Occurs, Transition
  <2>12. sold = t.order
    BY <1>1, <1>2, <1>4, <2>1, <2>2, <2>4
  <2> QED BY <2>3, <2>5, <2>7, <2>11, <2>12, EntersPaid
<1> QED BY <1>7, <1>8

LEMMA InitIInv == Init => IInv
<1> SUFFICES ASSUME Init PROVE IInv
  OBVIOUS
<1>1. order.state = "paid" /\ InHand(order) /\ order.accepted = FALSE
  BY SoldOrders DEF Init, InHand
<1>2. shipTo \in BOOLEAN /\ ((shipTo = TRUE) <=> HoldsShipTo(order))
      /\ (order.mode = "ship" => shipTo = TRUE)
  <2>1. HoldsShipTo(order) <=> order.mode = "ship"
    BY <1>1, HeldOnItsWay DEF OnItsWay
  <2>2. shipTo = (order.mode = "ship")
    BY DEF Init, IsParcel
  <2> QED BY <2>1, <2>2, Zenon
<1>3. IsABag(queued) /\ BagToSet(queued) \subseteq Nat
  BY DEF Init, IsABag, BagToSet, SetToBag
<1>4. Address
  BY <1>1, <1>2, <1>3 DEF Address, Init
<1>5. poll \in [Polls -> PollStep] /\ answered \in BOOLEAN
  BY DEF Init, PollStep
<1>6. RestOK /\ Accounts
  BY <1>5, DispatchAssumption DEF Init, RestOK, Accounts, SweepStep
<1> QED BY <1>1, <1>4, <1>6 DEF IInv, Unanswered

-----------------------------------------------------------------------------
(* The polls.                                                              *)

\* A step that leaves the order alone, and leaves the address no less kept.
LEMMA AddressStays ==
    ASSUME Address, UNCHANGED <<order, shipTo>>, kept' \in BOOLEAN,
           IsABag(queued'), BagToSet(queued') \subseteq Nat,
           order.mode = "ship" /\ shipTo = FALSE => queued' = EmptyBag /\ kept' = FALSE
    PROVE  Address'
BY DEF Address

LEMMA MovesType ==
    ASSUME IInv, NEW p \in Polls, NEW step \in PollStep, Moves(p, step)
    PROVE  poll' \in [Polls -> PollStep] /\ poll'[p] = step
           /\ \A q \in Polls \ {p} : poll'[q] = poll[q]
BY DEF IInv, RestOK, Moves

LEMMA DrawStep == ASSUME IInv, NEW p \in Polls, Draw(p) PROVE IInv'
<1>1. PICK at \in BagToSet(queued) : queued' = queued (-) SetToBag({at})
  BY DEF Draw
<1>2. IsABag(queued') /\ BagToSet(queued') \subseteq Nat /\ queued # EmptyBag
  BY <1>1, DrawnBag DEF IInv, Address
<1>3. kept' = TRUE /\ UNCHANGED <<order, shipTo>>
  BY DEF Draw, stored
<1>4. Address'
  BY <1>2, <1>3, AddressStays DEF IInv, Address
<1>5. poll' \in [Polls -> PollStep] /\ poll'[p] = "drawn"
  BY MovesType DEF Draw, PollStep
<1>6. RestOK' /\ Accounts'
  BY <1>5 DEF Draw, stored, IInv, RestOK, Accounts
<1>7. Remembered'
  BY <1>5 DEF Remembered
<1> QED BY <1>4, <1>6, <1>7 DEF IInv

LEMMA HandOverStep ==
    ASSUME IInv, NEW p \in Polls, NEW r, r = Occurs(order, "order_dispatched", now), HandOver(p, r)
    PROVE  IInv'
<1> DEFINE e == [kind |-> "order_dispatched", at |-> now, detail |-> "none"]
           next == handOvers + 1
<1>1. e \in Event /\ e.kind = "order_dispatched" /\ r = Transition(order, e) /\ r.code = "none"
      /\ now \in Nat /\ handOvers \in Nat
  BY KindsOfEvents DEF HandOver, HandsOut, IsOk, Occurs, IInv, RestOK, EventKind, Detail
<1> HIDE DEF e
<1>2. Applies(r, next) /\ handOvers' = next /\ now' = now /\ answered' = FALSE
      /\ silences' = silences \cup SilenceOf(r.order, next, now)
      /\ handOvers < MaxHandOvers /\ UNCHANGED <<works, sweep>>
  BY DEF HandOver
<1>3. Address' /\ Carried(order, e, r)
  BY <1>1, <1>2, AppliedAddress DEF IInv
<1>4. r.order \in Order /\ order' = r.order /\ openDelivery' = next
      /\ "redeliver_order" \notin r.effects /\ redeliveries' = redeliveries
  BY <1>1, <1>2, <1>3 DEF Carried, InHand, Applies, IInv, RestOK
<1>5. /\ SilenceOf(r.order, next, now) \subseteq [handOver : {next}, at : Nat]
      /\ SilenceOf(r.order, next, now) = {} => ~NextRedelivery(r.order, now)
  BY <1>1, <1>4, SilenceIsWatched
<1>6. silences' \subseteq Silence /\ \A x \in silences' : x.handOver # 0
  BY <1>1, <1>2, <1>5 DEF IInv, RestOK, Accounts, Silence
<1>7. poll' \in [Polls -> PollStep]
  BY MovesType DEF HandOver, PollStep
<1>8. faults' \in 0 .. MaxFaults
  BY DispatchAssumption DEF HandOver, MayFail, IInv, RestOK
<1>9. answered' \in BOOLEAN
  BY <1>2 DEF HandOver, IInv, RestOK
<1>10. RestOK'
  BY <1>1, <1>2, <1>4, <1>6, <1>7, <1>8, <1>9, DispatchAssumption DEF IInv, RestOK
<1>11. Accounts'
  BY <1>1, <1>2, <1>4, <1>6 DEF Accounts, IInv, RestOK
<1>12. Remembered'
  <2>1. CASE SilenceOf(r.order, next, now) = {}
    BY <1>2, <1>4, <1>5, <2>1 DEF Remembered
  <2>2. CASE SilenceOf(r.order, next, now) # {}
    <3>1. \E x \in silences' : x.handOver = openDelivery'
      BY <1>2, <1>4, <1>5, <2>2
    <3> QED BY <3>1 DEF Remembered
  <2> QED BY <2>1, <2>2
<1> QED BY <1>3, <1>10, <1>11, <1>12 DEF IInv

\* A poll moves on, and nothing else but the count of faults.
LEMMA PollMoves ==
    ASSUME IInv, NEW p \in Polls, NEW step \in PollStep, Moves(p, step),
           UNCHANGED <<now, stored, stream, handOvers, silences, sweep, answered>>,
           works' \subseteq Polls, faults' \in 0 .. MaxFaults,
           \/ faults' = faults + 1
           \/ faults' = faults /\ (Unanswered => step # "idle")
    PROVE  IInv'
<1>1. poll' \in [Polls -> PollStep] /\ poll'[p] = step
  BY MovesType
<1>2. Address' /\ RestOK' /\ Accounts'
  BY <1>1 DEF IInv, Address, RestOK, Accounts, stored, stream
<1>3. ASSUME Unanswered' PROVE Remembered'
  <2>1. Unanswered /\ faults' = faults
    BY <1>3 DEF Unanswered, stored, IInv, RestOK
  <2> QED BY <1>1, <2>1 DEF Remembered, IInv, RestOK
<1> QED BY <1>2, <1>3 DEF IInv

LEMMA NotHandedOverStep ==
    ASSUME IInv, NEW p \in Polls, NEW r, r = Occurs(order, "order_dispatched", now),
           NotHandedOver(p, r)
    PROVE  IInv'
<1> DEFINE e == [kind |-> "order_dispatched", at |-> now, detail |-> "none"]
<1>1. e \in Event /\ e.kind = "order_dispatched" /\ r = Transition(order, e)
  BY KindsOfEvents DEF Occurs, IInv, RestOK, EventKind, Detail
<1> HIDE DEF e
<1>2. Unanswered => IsOk(r)
  BY <1>1, HandOverOfADueOrder DEF Unanswered, IsOk, IInv, Address
<1>3. works' \subseteq Polls
  BY DEF NotHandedOver, IInv, RestOK
<1>4. CASE p \in works /\ ~IsOk(r) /\ faults' = faults
           /\ Moves(p, IF r.code = "settle_in_flight" THEN "putting_back" ELSE "idle")
  <2>1. ~Unanswered
    BY <1>2, <1>4
  <2> QED BY <1>3, <1>4, <2>1, PollMoves DEF NotHandedOver, PollStep, IInv, RestOK
<1>5. CASE faults' = faults /\ Moves(p, "giving_back")
  BY <1>3, <1>5, PollMoves DEF NotHandedOver, PollStep, IInv, RestOK
<1>6. CASE MayFail /\ faults' = faults + 1 /\ Moves(p, "putting_back")
  <2>1. faults' \in 0 .. MaxFaults
    BY <1>6, DispatchAssumption DEF MayFail, IInv, RestOK
  <2> QED BY <1>3, <1>6, <2>1, PollMoves DEF NotHandedOver, PollStep
<1> QED BY <1>4, <1>5, <1>6 DEF NotHandedOver

LEMMA PollDiesStep == ASSUME IInv, NEW p \in Polls, PollDies(p) PROVE IInv'
<1>1. faults' \in 0 .. MaxFaults /\ faults' = faults + 1 /\ works' \subseteq Polls
  BY DispatchAssumption DEF PollDies, MayFail, IInv, RestOK
<1>2. Moves(p, "idle") /\ "idle" \in PollStep
  BY DEF PollDies, PollStep
<1>3. UNCHANGED <<now, stored, stream, handOvers, silences, sweep, answered>>
  BY DEF PollDies
<1> QED BY <1>1, <1>2, <1>3, PollMoves

\* An envelope is sent under the rule that keeps a parcel's from going without its address.
LEMMA SendStep ==
    ASSUME IInv, UNCHANGED <<order, shipTo, kept, openDelivery, redeliveries>>,
           NEW at \in Nat,
           \/ queued' = Published(queued, at) /\ (IsParcel(order) => HoldsShipTo(order))
           \/ queued' = queued
    PROVE  Address' /\ (queued # EmptyBag => queued' # EmptyBag)
<1>1. CASE queued' = queued
  BY <1>1, AddressStays DEF IInv, Address
<1>2. CASE queued' = Published(queued, at) /\ (IsParcel(order) => HoldsShipTo(order))
  <2>1. IsABag(queued') /\ BagToSet(queued') \subseteq Nat /\ queued' # EmptyBag
    BY <1>2, PublishedBag DEF IInv, Address
  <2>2. ~(order.mode = "ship" /\ shipTo = FALSE)
    BY <1>2 DEF IsParcel, IInv, Address
  <2> QED BY <2>1, <2>2, AddressStays DEF IInv, Address
<1> QED BY <1>1, <1>2

LEMMA PutBackStep == ASSUME IInv, NEW p \in Polls, PutBack(p) PROVE IInv'
<1> DEFINE delay == IF poll[p] = "giving_back" THEN 0 ELSE SettleInFlightRetryMs
<1>1. now + delay \in Nat /\ poll[p] # "idle"
  BY DispatchAssumption DEF PutBack, IInv, RestOK
<1>2. /\ queued' = (IF GoesBack(order) THEN Published(queued, now + delay) ELSE queued)
      /\ UNCHANGED <<now, stored, kept, handOvers, silences, works, sweep, answered, faults>>
  BY DEF PutBack
<1> HIDE DEF delay
<1>3. Address'
  BY <1>1, <1>2, SendStep DEF GoesBack, stored
<1>4. poll' \in [Polls -> PollStep]
  BY MovesType DEF PutBack, PollStep
<1>5. RestOK' /\ Accounts'
  BY <1>2, <1>4 DEF stored, IInv, RestOK, Accounts
<1>6. ASSUME Unanswered' PROVE Remembered'
  <2>1. order.state = "dispatched" /\ order.accepted = FALSE
    BY <1>2, <1>6 DEF Unanswered, stored
  <2>2. GoesBack(order)
    BY <2>1, HeldOnItsWay DEF GoesBack, IsParcel, OnItsWay, IInv, Address
  <2>3. queued' # EmptyBag
    BY <1>1, <1>2, <2>2, PublishedBag DEF IInv, Address
  <2> QED BY <2>3 DEF Remembered
<1> QED BY <1>3, <1>5, <1>6 DEF IInv

LEMMA RevokeStep == ASSUME IInv, NEW p \in Polls, Revoke(p) PROVE IInv'
<1>1. works' \subseteq Polls
  BY DEF Revoke, IInv, RestOK
<1> QED BY <1>1 DEF Revoke, stored, stream, IInv, RestOK, Address, Accounts, Unanswered, Remembered

-----------------------------------------------------------------------------
(* What happens to the order meanwhile.                                    *)

\* An event of the order that is no silence: it spends no delivery.
LEMMA OccursWithoutSilence ==
    ASSUME IInv, NEW e \in Event, NEW r, r = Transition(order, e), r.code = "none",
           e.kind # "handler_undelivered", NEW h, h = 0 \/ h = openDelivery, Applies(r, h),
           answered' = TRUE \/ e.kind \in {"payment_settled", "payment_settle_failed",
                                           "deadline_expired"},
           answered' \in BOOLEAN,
           UNCHANGED <<now, handOvers, silences, poll, works, sweep, faults>>
    PROVE  IInv'
<1>1. Address' /\ Carried(order, e, r)
  BY AppliedAddress DEF IInv, RestOK
<1>2. "redeliver_order" \notin r.effects /\ redeliveries' = redeliveries /\ openDelivery' = h
      /\ order' = r.order
  BY <1>1 DEF Carried, Applies, IInv, RestOK
<1>3. RestOK' /\ Accounts'
  BY <1>2 DEF IInv, RestOK, Accounts
<1>4. ~Unanswered'
  BY <1>1, <1>2 DEF Unanswered, Carried
<1> QED BY <1>1, <1>3, <1>4 DEF IInv

LEMMA MerchantActsStep == ASSUME IInv, MerchantActs PROVE IInv'
<1>1. PICK kind \in {"handler_accepted", "handler_delivered", "handler_refused",
                     "deliver_called", "refuse_called", "close_called"} :
        IsOk(Occurs(order, kind, now)) /\ Applies(Occurs(order, kind, now), 0)
  BY DEF MerchantActs
<1> DEFINE e == [kind |-> kind, at |-> now, detail |-> "none"]
<1>2. e \in Event /\ e.kind = kind /\ Occurs(order, kind, now) = Transition(order, e)
  BY KindsOfEvents DEF Occurs, IInv, RestOK, EventKind, Detail
<1> HIDE DEF e
<1> QED BY <1>1, <1>2, OccursWithoutSilence DEF MerchantActs, IsOk

LEMMA PaymentAnswersStep == ASSUME IInv, PaymentAnswers PROVE IInv'
<1>1. PICK kind \in {"payment_settled", "payment_settle_failed"} :
        IsOk(Occurs(order, kind, now)) /\ Applies(Occurs(order, kind, now), openDelivery)
  BY DEF PaymentAnswers
<1> DEFINE e == [kind |-> kind, at |-> now, detail |-> "none"]
<1>2. e \in Event /\ e.kind = kind /\ Occurs(order, kind, now) = Transition(order, e)
  BY KindsOfEvents DEF Occurs, IInv, RestOK, EventKind, Detail
<1> HIDE DEF e
<1>3. answered' \in BOOLEAN
  BY DEF PaymentAnswers, IInv, RestOK
<1> QED BY <1>1, <1>2, <1>3, OccursWithoutSilence DEF PaymentAnswers, IsOk

LEMMA DeadlineFiresStep == ASSUME IInv, DeadlineFires PROVE IInv'
<1>1. PICK d \in Deadlines(order) :
        IsOk(Expired(order, d)) /\ Applies(Expired(order, d), openDelivery)
  BY DEF DeadlineFires
<1> DEFINE e == [kind |-> "deadline_expired", at |-> d.at, detail |-> d.kind]
<1>2. d.at \in Nat /\ d.kind \in DeadlineKind
  BY DeadlineTypes DEF IInv, Address
<1>3. e \in Event /\ e.kind = "deadline_expired" /\ Expired(order, d) = Transition(order, e)
  BY <1>2, KindsOfEvents DEF Expired, EventKind, Detail
<1> HIDE DEF e
<1>4. answered' \in BOOLEAN
  BY DEF DeadlineFires, IInv, RestOK
<1> QED BY <1>1, <1>3, <1>4, OccursWithoutSilence DEF DeadlineFires, IsOk

LEMMA SilenceFiresStep == ASSUME IInv, SilenceFires PROVE IInv'
<1> DEFINE e == [kind |-> "handler_undelivered", at |-> now, detail |-> "none"]
<1>1. PICK result : result = Occurs(order, "handler_undelivered", now)
  OBVIOUS
<1>2. e \in Event /\ e.kind = "handler_undelivered" /\ e.at = now /\ result = Transition(order, e)
  BY <1>1, KindsOfEvents DEF Occurs, IInv, RestOK, EventKind, Detail
<1>3. PICK r \in silences :
        /\ silences' \in {silences, silences \ {r}}
        /\ IF StillWaitsOn(r.handOver) /\ IsOk(result)
           THEN Applies(result, 0) ELSE UNCHANGED <<stored, stream>>
  BY <1>1 DEF SilenceFires
<1> HIDE DEF e
<1>4. UNCHANGED <<now, handOvers, poll, works, sweep, answered, faults>>
  BY DEF SilenceFires
<1>5. silences' \subseteq silences
  BY <1>3
<1>6. CASE StillWaitsOn(r.handOver) /\ IsOk(result)
  <2>1. Address' /\ Carried(order, e, result)
    BY <1>2, <1>3, <1>6, AppliedAddress DEF IInv, RestOK, IsOk
  <2>2. openDelivery # 0 /\ openDelivery' = 0 /\ order' = result.order
        /\ redeliveries' \in {redeliveries, redeliveries + 1}
    BY <1>3, <1>6 DEF StillWaitsOn, IInv, Accounts, Applies, RestOK
  <2>3. redeliveries' <= handOvers' /\ redeliveries' \in Nat
    BY <1>4, <2>2 DEF IInv, RestOK, Accounts
  <2>4. RestOK'
    BY <1>4, <1>5, <2>2, <2>3 DEF IInv, RestOK
  <2>5. Accounts'
    BY <1>4, <1>5, <2>2, <2>3 DEF IInv, Accounts
  <2>6. ASSUME Unanswered' PROVE Remembered'
    <3>1. ~Forgets(result.effects) /\ result.delay \in Nat
          /\ ("redeliver_order" \in result.effects \/ ~NextRedelivery(order', now))
      BY <1>2, <2>1, <2>2, <2>6 DEF Unanswered, Carried
    <3>2. "redeliver_order" \in result.effects => queued' # EmptyBag
      BY <1>3, <1>6, <3>1, StreamGrows DEF IInv, RestOK
    <3> QED BY <1>4, <3>1, <3>2 DEF Remembered
  <2> QED BY <2>1, <2>4, <2>5, <2>6 DEF IInv
<1>7. CASE ~(StillWaitsOn(r.handOver) /\ IsOk(result))
  <2>1. UNCHANGED <<stored, stream>>
    BY <1>3, <1>7
  <2>2. Address' /\ RestOK' /\ Accounts'
    BY <1>4, <1>5, <2>1 DEF stored, stream, IInv, Address, RestOK, Accounts
  <2>3. ASSUME Unanswered' PROVE Remembered'
    <3>1. Unanswered /\ Remembered
      BY <1>4, <2>1, <2>3 DEF Unanswered, stored, IInv
    <3>2. IsOk(result)
      BY <1>2, <3>1, SilenceIsHeard DEF IInv, Address, Unanswered, IsOk
    <3>3. r.handOver # openDelivery
      BY <1>7, <3>2 DEF StillWaitsOn
    <3> QED BY <1>3, <1>4, <2>1, <3>1, <3>3 DEF Remembered, stored, stream
  <2> QED BY <2>2, <2>3 DEF IInv
<1> QED BY <1>6, <1>7

LEMMA SilenceLostStep == ASSUME IInv, SilenceLost PROVE IInv'
<1>1. silences' \subseteq silences /\ faults' = faults + 1 /\ faults' \in 0 .. MaxFaults /\ faults' # 0
  BY DispatchAssumption DEF SilenceLost, MayFail, IInv, RestOK
<1>2. UNCHANGED <<now, stored, stream, handOvers, poll, works, sweep, answered>>
  BY DEF SilenceLost
<1> QED BY <1>1, <1>2 DEF stored, stream, IInv, RestOK, Address, Accounts, Unanswered

-----------------------------------------------------------------------------
(* The sweep and the clock.                                                *)

\* The sweep moves on, and nothing else but the count of faults.
LEMMA SweepMoves ==
    ASSUME IInv, sweep' \in SweepStep,
           UNCHANGED <<now, stored, stream, handOvers, silences, poll, works, answered>>,
           faults' \in 0 .. MaxFaults, faults' = faults \/ faults' = faults + 1
    PROVE  IInv'
<1>1. Address' /\ RestOK' /\ Accounts'
  BY DEF stored, stream, IInv, RestOK, Address, Accounts
<1>2. Unanswered' => Unanswered
  BY DEF stored, IInv, RestOK, Unanswered
<1>3. Remembered => Remembered'
  BY DEF stored, stream, Remembered
<1> QED BY <1>1, <1>2, <1>3 DEF IInv

LEMMA SweepStepOK == ASSUME IInv, SweepReads \/ SweepAsks \/ SweepDies PROVE IInv'
<1>1. sweep' \in SweepStep
  BY DEF SweepReads, SweepAsks, SweepDies, SweepStep
<1>2. faults' \in 0 .. MaxFaults /\ (faults' = faults \/ faults' = faults + 1)
  BY DispatchAssumption DEF SweepReads, SweepAsks, SweepDies, MayFail, IInv, RestOK
<1> QED BY <1>1, <1>2, SweepMoves DEF SweepReads, SweepAsks, SweepDies

LEMMA SweepSendsStep == ASSUME IInv, SweepSends PROVE IInv'
<1>1. UNCHANGED <<now, stored, kept, handOvers, silences, poll, works, answered, faults>>
      /\ sweep' \in SweepStep
  BY DEF SweepSends, SweepStep
<1>2. \/ queued' = Published(queued, now) /\ (IsParcel(order) => HoldsShipTo(order))
      \/ queued' = queued
  BY DEF SweepSends
<1>3. Address' /\ (queued # EmptyBag => queued' # EmptyBag)
  BY <1>1, <1>2, SendStep DEF IInv, RestOK, stored
<1>4. RestOK' /\ Accounts'
  BY <1>1 DEF stored, IInv, RestOK, Accounts
<1>5. (Unanswered' => Unanswered) /\ (Remembered => Remembered')
  BY <1>1, <1>3 DEF stored, Unanswered, Remembered
<1> QED BY <1>3, <1>4, <1>5 DEF IInv

LEMMA TickStep == ASSUME IInv, Tick PROVE IInv'
<1>1. now' = now + 1 /\ now \in Nat
      /\ UNCHANGED <<stored, stream, handOvers, silences, poll, works, sweep, answered, faults>>
  BY DEF Tick, IInv, RestOK
<1>2. Address' /\ RestOK' /\ Accounts'
  BY <1>1 DEF stored, stream, IInv, RestOK, Address, Accounts
<1>3. ~NextRedelivery(order, now) => ~NextRedelivery(order, now')
  BY <1>1, TooLateStays DEF IInv, Address, InHand
<1>4. (Unanswered' => Unanswered) /\ (Remembered => Remembered')
  BY <1>1, <1>3 DEF stored, stream, Unanswered, Remembered
<1> QED BY <1>2, <1>4 DEF IInv

LEMMA NextIInv == IInv /\ [Next]_vars => IInv'
<1> SUFFICES ASSUME IInv, [Next]_vars PROVE IInv'
  OBVIOUS
<1>1. ASSUME NEW p \in Polls, HandOut(p) PROVE IInv'
  BY <1>1, HandOverStep, NotHandedOverStep DEF HandOut
<1>2. CASE UNCHANGED vars
  BY <1>2 DEF vars, stored, stream, IInv, RestOK, Address, Accounts, Unanswered, Remembered
<1> QED BY <1>1, <1>2, DrawStep, PutBackStep, PollDiesStep, RevokeStep, MerchantActsStep,
           PaymentAnswersStep, DeadlineFiresStep, SilenceFiresStep, SilenceLostStep,
           SweepStepOK, SweepSendsStep, TickStep DEF Next

(* The inductive invariant holds in every state of the dispatch.           *)
THEOREM DispatchInvariant == Spec => []IInv
BY InitIInv, NextIInv, PTL DEF Spec

LEMMA InvariantTypes == IInv => TypeOK
BY DEF IInv, RestOK, Address, InHand, TypeOK

(* A buyer's address is on the stored order exactly while the merchant     *)
(* needs it, and no envelope carries it once it is erased, however polls,  *)
(* put-backs, the sweep and the merchant interleave (erase_ship_to in      *)
(* #writesWithTheOrder, sendWhileTheAddressIsHeld).                        *)
THEOREM AddressErased == Spec => []AddressIsNowhereAfterErasure
<1>1. IInv => AddressIsNowhereAfterErasure
  <2> SUFFICES ASSUME IInv PROVE AddressIsNowhereAfterErasure
    OBVIOUS
  <2>1. TypeOK
    BY InvariantTypes
  <2>2. /\ shipTo \in BOOLEAN /\ kept \in BOOLEAN /\ ((shipTo = TRUE) <=> HoldsShipTo(order))
        /\ (IsParcel(order) /\ shipTo = FALSE => queued = EmptyBag /\ kept = FALSE)
    BY DEF IInv, Address, IsParcel
  <2> QED BY <2>1, <2>2, Zenon DEF AddressIsNowhereAfterErasure
<1> QED BY <1>1, DispatchInvariant, PTL

(* A merchant who was handed an order and said nothing is heard, or the    *)
(* order is on its way to him again, or it is too late; and a silence      *)
(* spends one delivery (#silenceOf, #onReminder with whileWaitingOn).      *)
THEOREM HandOverRemembered == Spec => []HandOverIsNotForgotten
<1>1. IInv => HandOverIsNotForgotten
  <2> SUFFICES ASSUME IInv PROVE HandOverIsNotForgotten
    OBVIOUS
  <2>1. redeliveries <= handOvers
    BY DEF IInv, RestOK, Accounts
  <2>2. order.accepted \in BOOLEAN /\ answered \in BOOLEAN
    BY DEF IInv, RestOK, Address, InHand, Order
  <2>3. faults = 0 /\ order.state = "dispatched" /\ ~order.accepted /\ ~answered => Remembered
    BY <2>2, Zenon DEF IInv, Unanswered
  <2> QED BY <2>1, <2>3 DEF HandOverIsNotForgotten, Remembered
<1> QED BY <1>1, DispatchInvariant, PTL

-----------------------------------------------------------------------------

\* What a step that records a hand-over says of the order.
Due ==
    handOvers' # handOvers =>
      /\ order.state \in {"paid", "dispatched", "unfulfilled"}
      /\ IsParcel(order) => shipTo

LEMMA HandsOutDue == IInv /\ [Next]_vars => [Due]_vars
<1> SUFFICES ASSUME IInv, Next, handOvers' # handOvers
             PROVE  /\ order.state \in {"paid", "dispatched", "unfulfilled"}
                    /\ IsParcel(order) => shipTo
  BY DEF Due
<1>1. PICK p \in Polls : HandOver(p, Occurs(order, "order_dispatched", now))
  BY DEF Next, Draw, HandOut, NotHandedOver, PutBack, PollDies, Revoke, MerchantActs, PaymentAnswers,
         DeadlineFires, SilenceFires, SilenceLost, SweepReads, SweepAsks, SweepSends, SweepDies, Tick
<1> DEFINE e == [kind |-> "order_dispatched", at |-> now, detail |-> "none"]
<1>2. e \in Event /\ e.kind = "order_dispatched" /\ Transition(order, e).code = "none"
  BY <1>1, KindsOfEvents DEF HandOver, HandsOut, IsOk, Occurs, IInv, RestOK, EventKind, Detail
<1> HIDE DEF e
<1>3. /\ order.state \in {"paid", "dispatched", "unfulfilled"}
      /\ IsParcel(order) => HoldsShipTo(order)
  BY <1>2, HandOverOfADueOrder DEF IInv, Address
<1>4. shipTo \in BOOLEAN /\ ((shipTo = TRUE) <=> HoldsShipTo(order))
  BY DEF IInv, Address
<1> QED BY <1>3, <1>4, Zenon

(* Nobody is handed a purchase that is over, or a parcel whose address is  *)
(* gone, from an envelope written before that (#handOut under the order's  *)
(* hold, and the machine's answer to order_dispatched).                    *)
THEOREM NothingEndedIsHandedOut == Spec => EndedOrderIsNotHandedOut
<1>1. Spec => [][Due]_vars
  BY DispatchInvariant, HandsOutDue, PTL DEF Spec
<1> QED BY <1>1 DEF EndedOrderIsNotHandedOut, Due
=============================================================================
