------------------------------- MODULE Dispatch -------------------------------
(***************************************************************************)
(* One paid order on its way to its merchant: the envelopes on the         *)
(* merchant's stream, the polls that draw them, the hand-overs they record *)
(* on the order, the reminders that a hand-over went unanswered, and the   *)
(* daily sweep that sends out an order which has reached nobody.           *)
(*                                                                         *)
(* Every envelope of a parcel carries its buyer's address.  Envelopes of   *)
(* one order are alike but for the instant they may be drawn from, so the  *)
(* stream is a bag of instants.  Price questions and merchant events, the  *)
(* other envelopes of a stream, are not kept here.                         *)
(***************************************************************************)
EXTENDS OrderMachine, Bags

CONSTANTS Modes,                 \* the fulfillment modes an order is sold in
          Polls,                 \* the merchant's polls, each with a key of its own
          HandlerAnswerMs,       \* config.deadlines.handlerAnswerMs
          SettleInFlightRetryMs, \* config.settleInFlightRetryMs
          SweepDispatchGraceMs,  \* config.sweepDispatchGraceMs
          MaxHandOvers,          \* bound: hand-overs of the order
          MaxQueued,             \* bound: envelopes waiting on the stream at once
          MaxFaults,             \* bound: deaths, failed writes and lost reminders
          LastAct,               \* bound: the last instant the merchant acts, or anything fails
          MaxTime                \* bound: the last instant of the clock

ASSUME DispatchAssumption ==
    /\ Modes \subseteq FulfillmentMode
    /\ HandlerAnswerMs \in Nat \ {0} /\ SettleInFlightRetryMs \in Nat
    /\ SweepDispatchGraceMs \in Nat /\ MaxHandOvers \in Nat \ {0}
    /\ MaxQueued \in Nat \ {0} /\ MaxFaults \in Nat /\ LastAct \in Nat /\ MaxTime \in Nat

VARIABLES
    now,           \* the clock
    order,         \* the stored order
    shipTo,        \* whether the stored order holds its buyer's address
    openDelivery,  \* openDeliveryId: the hand-over it waits on, 0 for none
    handOvers,     \* hand-overs recorded so far
    queued,        \* envelopes waiting on the stream: from when each may be drawn
    kept,          \* whether the queue still keeps envelopes already drawn
    silences,      \* delivery_unanswered reminders
    poll,          \* poll[p]: what a poll does with the envelope it drew
    works,         \* the polls whose key is not revoked
    sweep,         \* how far the sweep is with this order
    answered,      \* history: the merchant spoke since the last hand-over
    redeliveries,  \* history: deliveries spent on silences
    faults         \* faults so far

vars == <<now, order, shipTo, openDelivery, handOvers, queued, kept, silences,
          poll, works, sweep, answered, redeliveries, faults>>

stored == <<order, shipTo, openDelivery, redeliveries>>
stream == <<queued, kept>>

PollStep == {"idle", "drawn", "putting_back", "giving_back"}
SweepStep == {"idle", "asking", "sending"}
Silence == [handOver : Nat, at : Nat]

\* Orders whose payment let them through to the merchant at the first instant.
Sold ==
    LET created == {CreateOrder(mode, "card", 0).order : mode \in Modes}
        presented == {Occurs(o, "payment_presented", 0).order : o \in created}
        verified == {Occurs(o, "payment_verified", 0).order : o \in presented}
    IN  {IF o.state = "paid" THEN o ELSE Occurs(o, "payment_settled", 0).order : o \in verified}

Init ==
    /\ order \in Sold
    /\ now = 0 /\ shipTo = IsParcel(order) /\ openDelivery = 0 /\ handOvers = 0
    /\ queued = SetToBag({0}) /\ kept = FALSE /\ silences = {}
    /\ poll = [p \in Polls |-> "idle"] /\ works = Polls
    /\ sweep = "idle" /\ answered = FALSE /\ redeliveries = 0 /\ faults = 0

-----------------------------------------------------------------------------
(* OrderRunner.apply, as far as the stream goes.                           *)

MayFail == faults < MaxFaults /\ now <= LastAct

Published(waiting, at) == waiting (+) SetToBag({at})
HasRoom == BagCardinality(queued) < MaxQueued

\* The effects that delete every envelope of the order.
Forgets(effects) == effects \cap {"erase_ship_to", "withdraw_hand_overs"} # {}

KeptAfter(effects) == kept /\ ~Forgets(effects)

\* #writesWithTheOrder: what a change of the order does to its merchant's stream.
StreamAfter(result) ==
    IF Forgets(result.effects) THEN EmptyBag
    ELSE IF result.effects \cap {"dispatch_order", "redeliver_order"} # {}
         THEN Published(queued, now + result.delay)
    ELSE queued

\* The order is written with its hand-over, its address and its envelopes.
Applies(result, handOver) ==
    /\ order' = result.order
    /\ openDelivery' = handOver
    /\ shipTo' = (shipTo /\ "erase_ship_to" \notin result.effects)
    /\ queued' = StreamAfter(result) /\ BagCardinality(queued') <= MaxQueued
    /\ kept' = KeptAfter(result.effects)
    /\ redeliveries' = redeliveries + (IF "redeliver_order" \in result.effects THEN 1 ELSE 0)

\* Mutant: the reminder names the hand-over the order waited on before.
SilenceOfThePrevious(o, handOver, at) ==
    {[handOver |-> openDelivery, at |-> at + HandlerAnswerMs]}

\* #silenceOf: the reminder a hand-over brings, never past the order's deadline.
SilenceOf(o, handOver, at) ==
    LET waits == {HandlerAnswerMs} \cup {d.at - at : d \in FulfillmentDeadline(o)}
        wait == CHOOSE w \in waits : \A v \in waits : w <= v
    IN  IF wait <= 0 THEN {} ELSE {[handOver |-> handOver, at |-> at + wait]}

-----------------------------------------------------------------------------
(* poll, #drawFor and #handOut.  Telling the queue that an envelope is     *)
(* finished changes nothing anybody reads.                                 *)

Moves(p, step) == poll' = [poll EXCEPT ![p] = step]

Draw(p) ==
    /\ poll[p] = "idle" /\ p \in works
    /\ \E at \in BagToSet(queued) :
         /\ at <= now \/ now = MaxTime  \* the clock's end stands for what comes after it
         /\ queued' = queued (-) SetToBag({at})
    /\ kept' = TRUE
    /\ Moves(p, "drawn")
    /\ UNCHANGED <<now, stored, handOvers, silences, works, sweep, answered, faults>>

\* Mutant: what was drawn is handed out whether or not the order still stands.
HandsOutAnyway(result) == TRUE

HandsOut(result) == IsOk(result)

(* The hand-over is recorded under the order's hold, through a key that    *)
(* still works.  The answer to the worker may be lost after that, which to *)
(* the gateway is a merchant who says nothing.                             *)
HandOver(p, result) ==
    LET next == handOvers + 1
    IN  /\ p \in works /\ handOvers < MaxHandOvers
        /\ HandsOut(result) /\ Applies(result, next)
        /\ handOvers' = next
        /\ silences' = silences \cup SilenceOf(result.order, next, now)
        /\ answered' = FALSE
        /\ Moves(p, "idle")
        /\ UNCHANGED <<now, works, sweep, faults>>

\* Refused for now, refused for good, a revoked key, or a write that failed.
NotHandedOver(p, result) ==
    /\ \/ /\ p \in works /\ ~IsOk(result) /\ UNCHANGED faults
          /\ Moves(p, IF result.code = "settle_in_flight" THEN "putting_back" ELSE "idle")
       \/ /\ p \notin works /\ UNCHANGED faults
          /\ Moves(p, "giving_back")
       \/ /\ MayFail /\ faults' = faults + 1
          /\ Moves(p, "putting_back")
    /\ UNCHANGED <<now, stored, stream, handOvers, silences, works, sweep, answered>>

HandOut(p) ==
    /\ poll[p] = "drawn"
    /\ \E result \in {Occurs(order, "order_dispatched", now)} :
         HandOver(p, result) \/ NotHandedOver(p, result)

\* Mutant: an envelope goes back whatever became of its order.
GoesBackAlways(o) == TRUE

\* sendWhileTheAddressIsHeld for a parcel; any other envelope goes straight back.
GoesBack(o) == IsParcel(o) => HoldsShipTo(o)

\* #giveBack and #putBack.
PutBack(p) ==
    /\ poll[p] \in {"putting_back", "giving_back"}
    /\ LET delay == IF poll[p] = "giving_back" THEN 0 ELSE SettleInFlightRetryMs
       IN  IF GoesBack(order)
           THEN HasRoom /\ queued' = Published(queued, now + delay)
           ELSE UNCHANGED queued
    /\ Moves(p, "idle")
    /\ UNCHANGED <<now, stored, kept, handOvers, silences, works, sweep, answered, faults>>

\* The process of a poll dies with the envelope it drew, which is never offered again.
PollDies(p) ==
    /\ poll[p] # "idle" /\ MayFail
    /\ faults' = faults + 1 /\ Moves(p, "idle")
    /\ UNCHANGED <<now, stored, stream, handOvers, silences, works, sweep, answered>>

\* The merchant revokes a key and keeps another.
Revoke(p) ==
    /\ p \in works /\ works # {p} /\ now <= LastAct
    /\ works' = works \ {p}
    /\ UNCHANGED <<now, stored, stream, handOvers, silences, poll, sweep, answered, faults>>

-----------------------------------------------------------------------------
(* What happens to the order meanwhile.                                    *)

\* answerOrder, acceptOrder, deliverOrder, refuseOrder, closeOrder: each closes the open
\* hand-over, and none asks whether there was one.
MerchantActs ==
    /\ now <= LastAct
    /\ \E kind \in {"handler_accepted", "handler_delivered", "handler_refused",
                    "deliver_called", "refuse_called", "close_called"} :
         \E result \in {Occurs(order, kind, now)} : IsOk(result) /\ Applies(result, 0)
    /\ answered' = TRUE
    /\ UNCHANGED <<now, handOvers, silences, poll, works, sweep, faults>>

\* The payment layer answers the charge that followed the goods.
PaymentAnswers ==
    /\ PaymentUnresolved(order)
    /\ \E kind \in {"payment_settled", "payment_settle_failed"} :
       \E result \in {Occurs(order, kind, now)} : IsOk(result) /\ Applies(result, openDelivery)
    /\ UNCHANGED <<now, handOvers, silences, poll, works, sweep, answered, faults>>

\* #onReminder of a deadline.
DeadlineFires ==
    /\ \E d \in Deadlines(order) :
         /\ d.at <= now
         /\ \E result \in {Expired(order, d)} : IsOk(result) /\ Applies(result, openDelivery)
    /\ UNCHANGED <<now, handOvers, silences, poll, works, sweep, answered, faults>>

\* apply's whileWaitingOn: the hand-over is still the one the order waits on.
StillWaitsOn(handOver) == openDelivery = handOver

\* #onReminder of an unanswered delivery, which the queue may deliver again.
SilenceFires ==
    /\ \E r \in silences :
         /\ r.at <= now
         /\ silences' \in {silences, silences \ {r}}
         /\ \E result \in {Occurs(order, "handler_undelivered", now)} :
              IF StillWaitsOn(r.handOver) /\ IsOk(result)
              THEN Applies(result, 0)
              ELSE UNCHANGED <<stored, stream>>
    /\ UNCHANGED <<now, handOvers, poll, works, sweep, answered, faults>>

SilenceLost ==
    /\ MayFail
    /\ \E r \in silences : r.at <= now /\ silences' = silences \ {r}
    /\ faults' = faults + 1
    /\ UNCHANGED <<now, stored, stream, handOvers, poll, works, sweep, answered>>

-----------------------------------------------------------------------------
(* #sweepTheDispatch: the order is read, the stream is asked, the envelope *)
(* is sent, and the order may move between any two of them.                *)

SweepReads ==
    /\ sweep = "idle"
    /\ order.state = "paid" /\ order.paidAt + SweepDispatchGraceMs <= now
    /\ sweep' = "asking"
    /\ UNCHANGED <<now, stored, stream, handOvers, silences, poll, works, answered, faults>>

\* Mutant: an envelope the queue merely keeps counts as one it holds.
HoldsOrderInAnyState == queued # EmptyBag \/ kept

HoldsOrder == queued # EmptyBag

SweepAsks ==
    /\ sweep = "asking"
    /\ sweep' = IF HoldsOrder THEN "idle" ELSE "sending"
    /\ UNCHANGED <<now, stored, stream, handOvers, silences, poll, works, answered, faults>>

SweepSends ==
    /\ sweep = "sending"
    /\ IF IsParcel(order) => HoldsShipTo(order) /\ order.state = "paid"
       THEN HasRoom /\ queued' = Published(queued, now)
       ELSE UNCHANGED queued
    /\ sweep' = "idle"
    /\ UNCHANGED <<now, stored, kept, handOvers, silences, poll, works, answered, faults>>

SweepDies ==
    /\ sweep # "idle" /\ MayFail
    /\ faults' = faults + 1 /\ sweep' = "idle"
    /\ UNCHANGED <<now, stored, stream, handOvers, silences, poll, works, answered>>

Tick ==
    /\ now < MaxTime
    /\ now' = now + 1
    /\ UNCHANGED <<stored, stream, handOvers, silences, poll, works, sweep, answered, faults>>

Next ==
    \/ \E p \in Polls : Draw(p) \/ HandOut(p) \/ PutBack(p) \/ PollDies(p) \/ Revoke(p)
    \/ MerchantActs \/ PaymentAnswers
    \/ DeadlineFires \/ SilenceFires \/ SilenceLost
    \/ SweepReads \/ SweepAsks \/ SweepSends \/ SweepDies
    \/ Tick

Spec == Init /\ [][Next]_vars

(* The clock moves, the scheduler runs the sweep, a poll under way goes on *)
(* and a merchant with a working key keeps polling.                        *)
Fairness ==
    /\ WF_vars(Tick)
    /\ WF_vars(SweepReads) /\ WF_vars(SweepAsks) /\ WF_vars(SweepSends)
    /\ \A p \in Polls : WF_vars(Draw(p)) /\ WF_vars(HandOut(p)) /\ WF_vars(PutBack(p))
LiveSpec == Spec /\ Fairness

-----------------------------------------------------------------------------
(* Every variable has its type.                                            *)
TypeOK ==
    /\ now \in Nat /\ order \in Order /\ shipTo \in BOOLEAN
    /\ handOvers \in 0 .. MaxHandOvers /\ openDelivery \in 0 .. handOvers
    /\ IsABag(queued) /\ BagToSet(queued) \subseteq Nat /\ kept \in BOOLEAN
    /\ silences \subseteq Silence /\ poll \in [Polls -> PollStep] /\ works \subseteq Polls
    /\ sweep \in SweepStep /\ answered \in BOOLEAN
    /\ redeliveries \in Nat /\ faults \in 0 .. MaxFaults

(* A buyer's address is where it is needed and nowhere else: the stored    *)
(* order has it exactly while the merchant needs it, and once it is erased *)
(* the queue has no envelope carrying it, waiting or drawn, whatever polls *)
(* and sweeps were under way with one.                                     *)
AddressIsNowhereAfterErasure ==
    /\ TypeOK
    /\ shipTo <=> HoldsShipTo(order)
    /\ IsParcel(order) /\ ~shipTo => queued = EmptyBag /\ ~kept

(* A merchant who was handed an order and said nothing is not forgotten:   *)
(* his silence will be heard, or another envelope is on its way, unless it *)
(* is too late for another delivery.  And a silence spends one delivery:   *)
(* the order is never sent out again more often than it was handed over,   *)
(* however often a reminder is delivered.                                  *)
HandOverIsNotForgotten ==
    /\ faults = 0 /\ order.state = "dispatched" /\ ~order.accepted /\ ~answered =>
          \/ \E r \in silences : r.handOver = openDelivery
          \/ queued # EmptyBag \/ \E p \in Polls : poll[p] # "idle"
          \/ ~NextRedelivery(order, now)
    /\ redeliveries <= handOvers

(* Nobody is asked to work on a purchase that is over, or handed a parcel  *)
(* whose address is gone, from an envelope written before that.            *)
EndedOrderIsNotHandedOut ==
    [][handOvers' # handOvers =>
         /\ order.state \in {"paid", "dispatched", "unfulfilled"}
         /\ IsParcel(order) => shipTo]_vars

(* A paid order reaches its merchant although the processes that had its   *)
(* envelope died.                                                          *)
PaidOrderIsHandedOver == order.state = "paid" ~> order.state # "paid"
=============================================================================
