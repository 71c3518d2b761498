------------------------------- MODULE Charging -------------------------------
(***************************************************************************)
(* The runner carrying out one order's charges: the order is committed     *)
(* first, the charge goes out after, and the process, the answer or the    *)
(* reminder may be lost in between.  Composes the order machine with the   *)
(* payment attempts kept on the order, the facilitator, the token on the   *)
(* chain, the minutely recovery and the daily sweep.                       *)
(*                                                                         *)
(* Payment n is the n-th authorization the order took; its attempt has the *)
(* same number.  Hand-overs, goods and addresses are not kept here.        *)
(***************************************************************************)
EXTENDS OrderMachine

CONSTANTS Modes,        \* the fulfillment modes an order is created in
          AuthLife,     \* how long an authorization is valid once taken
          MaxPayments,  \* bound: authorizations one order takes
          MaxHandOvers, \* bound: hand-overs of one order
          MaxFaults,    \* bound: processes that die and reminders that are lost
          LastAct,      \* bound: the last instant the buyer or the merchant acts at
          MaxTime       \* bound: the last instant of the clock

ASSUME ChargingAssumption ==
    /\ Modes \subseteq FulfillmentMode
    /\ AuthLife \in Nat \ {0} /\ MaxPayments \in Nat \ {0} /\ MaxHandOvers \in Nat
    /\ MaxFaults \in Nat /\ LastAct \in Nat /\ MaxTime \in Nat

VARIABLES
    now,          \* the clock
    order,        \* the stored order
    payments,     \* authorizations the order has taken
    attempt,      \* paymentAttempt.id, 0 for none
    completion,   \* paymentAttempt.completion
    validBefore,  \* validBefore[n]: when authorization n stops being valid
    movedAt,      \* movedAt[n]: when the token moved its money, or Null
    toSend,       \* charges committed, about to be sent by a live process
    submitted,    \* charges the facilitator has and may still execute
    waiting,      \* charges whose answer a live process waits for
    reading,      \* what the recovery has read off the chain and not yet applied
    reminders,    \* deadline reminders on the queue
    faults        \* processes that died and reminders lost so far

vars == <<now, order, payments, attempt, completion, validBefore, movedAt,
          toSend, submitted, waiting, reading, reminders, faults>>

ledger == <<payments, validBefore, movedAt>>
calls == <<toSend, submitted, waiting>>

Payment == 1 .. MaxPayments
NoReading == [id |-> 0, verdict |-> "none", at |-> 0]
Verdict == {"settled", "failed"}
Deadline == [kind : DeadlineKind, at : Nat]

Unique(s) == CHOOSE d \in s : TRUE

(* admitOrder of a purchase at a card price: the order is born with its    *)
(* payment verified and its clocks on the queue, in one transaction.       *)
Admitted ==
    LET created == {CreateOrder(mode, "card", 0).order : mode \in Modes}
        presented == {Occurs(o, "payment_presented", 0).order : o \in created}
    IN  {Occurs(o, "payment_verified", 0) : o \in presented}

Init ==
    \E born \in Admitted :
      LET charged == "execute_payment" \in born.effects
      IN  /\ now = 0 /\ order = born.order
          /\ payments = 1 /\ attempt = (IF charged THEN 1 ELSE 0) /\ completion = "none"
          /\ validBefore = [n \in Payment |-> AuthLife]
          /\ movedAt = [n \in Payment |-> Null]
          /\ toSend = (IF charged THEN {1} ELSE {})
          /\ submitted = {} /\ waiting = {} /\ reading = NoReading
          /\ reminders = Deadlines(born.order) /\ faults = 0

-----------------------------------------------------------------------------
(* OrderRunner.apply.                                                      *)

\* The reminders a commit can leave: #arm runs before it.
RemindersLeft(queued, clocks) == {queued \cup clocks}

\* Mutant: the answer of the earlier charge stays beside the new one.
KeptCompletion(effects, done) == done

\* #paymentIntent: a new charge is a new attempt, with no answer yet.
CompletionAfter(effects, done) == IF "execute_payment" \in effects THEN "none" ELSE done

(* A change of the order from `before`, written with its attempt or rolled *)
(* back; `queued` are the reminders that stay.  A rolled-back change may   *)
(* leave the clocks it started.                                            *)
Saves(before, result, queued, id, done) ==
    LET clocks == Deadlines(result.order) \ Deadlines(before)
    IN  /\ IsOk(result)
        /\ order' = result.order
        /\ reminders' \in RemindersLeft(queued, clocks)
        /\ attempt' = (IF "execute_payment" \in result.effects THEN id ELSE attempt)
        /\ completion' = CompletionAfter(result.effects, done)

RollsBack(before, result) ==
    /\ IsOk(result) /\ faults < MaxFaults
    /\ reminders' = reminders \cup (Deadlines(result.order) \ Deadlines(before))
    /\ faults' = faults + 1
    /\ UNCHANGED <<now, order, attempt, completion, ledger, calls, reading>>

\* The charge a committed change leaves its process to send.
SendsAfter(result, id) ==
    toSend' = IF "execute_payment" \in result.effects THEN toSend \cup {id} ELSE toSend

\* An event that brings no answer of the payment layer.
Happens(result, queued) ==
    \/ /\ Saves(order, result, queued, payments, completion)
       /\ SendsAfter(result, payments)
       /\ UNCHANGED <<now, ledger, submitted, waiting, reading, faults>>
    \/ RollsBack(order, result)

(* completePaymentAttempt: the answer to attempt `id`.  An answer to       *)
(* another attempt, or to one already answered, finds the order moved on.  *)
(* A settle deadline that has run out is applied first, and a fulfillment  *)
(* deadline that ran out before the money was known is applied after.      *)
ClosedBefore(o) ==
    LET elapsed == {d \in Deadlines(o) : d.kind = "settle_response" /\ d.at <= now}
    IN  IF o.state \in {"fulfilled", "delivered_unpaid"} \/ elapsed = {}
           \/ ~IsOk(Expired(o, Unique(elapsed)))
        THEN o ELSE Expired(o, Unique(elapsed)).order

OverdueAfter(result, verdict) ==
    LET overdue == {d \in FulfillmentDeadline(result.order) : d.at <= now}
    IN  IF verdict # "settled" \/ result.order.state # "paid" \/ overdue = {}
           \/ ~IsOk(Expired(result.order, Unique(overdue)))
        THEN result ELSE Expired(result.order, Unique(overdue))

AnswersCurrent(id) == attempt = id /\ completion = "none"

AnswerTo(before, verdict, at) ==
    Occurs(before, IF verdict = "settled" THEN "payment_settled" ELSE "payment_settle_failed", at)

Completes(id, verdict, at) ==
    \E before \in {ClosedBefore(order)} : \E answer \in {AnswerTo(before, verdict, at)} :
      IF AnswersCurrent(id) /\ IsOk(answer)
      THEN \E result \in {OverdueAfter(answer, verdict)} :
             Saves(before, result, reminders, id, verdict)
      ELSE UNCHANGED <<order, reminders, attempt, completion>>

-----------------------------------------------------------------------------
(* The charge.                                                             *)

\* #settle sends the committed charge.
SendCharge(n) ==
    /\ n \in toSend
    /\ toSend' = toSend \ {n}
    /\ submitted' = submitted \cup {n} /\ waiting' = waiting \cup {n}
    /\ UNCHANGED <<now, order, attempt, completion, ledger, reading, reminders, faults>>

\* The token moves the money of a submitted authorization, while it is valid.
MoneyMoves(n) ==
    /\ n \in submitted /\ movedAt[n] = Null /\ now < validBefore[n]
    /\ movedAt' = [movedAt EXCEPT ![n] = now]
    /\ submitted' = submitted \ {n}
    /\ UNCHANGED <<now, order, payments, validBefore, attempt, completion, toSend,
                   waiting, reading, reminders, faults>>

\* A refusal before anything was broadcast: the facilitator will not execute it.
RefusedForGood(n) == movedAt[n] = Null /\ submitted' = submitted \ {n}

\* The facilitator's answer reaches the process that waits for it.
FacilitatorAnswers(n) ==
    /\ n \in waiting
    /\ waiting' = waiting \ {n}
    /\ \/ /\ movedAt[n] # Null
          /\ Completes(n, "settled", now)
          /\ UNCHANGED submitted
       \/ /\ RefusedForGood(n)
          /\ Completes(n, "failed", now)
       \/ \* no answer in time, or one that settles nothing: only its words are kept
          UNCHANGED <<submitted, order, reminders, attempt, completion>>
    /\ UNCHANGED <<now, ledger, toSend, reading, faults>>

\* A process dies with what it was about to send, or was waiting for, or had read.
ProcessDies ==
    /\ faults < MaxFaults
    /\ toSend \cup waiting # {} \/ reading # NoReading
    /\ toSend' = {} /\ waiting' = {} /\ reading' = NoReading
    /\ faults' = faults + 1
    /\ UNCHANGED <<now, order, attempt, completion, ledger, submitted, reminders>>

-----------------------------------------------------------------------------
(* The recovery: reconcilePayments, #reconcileOne and the chain it reads.  *)

\* Mutant: only orders still open are looked at.
RecoversOpenOrders == PaymentUnresolved(order) /\ IsOpen(order.state)

\* A charge still within its own deadline is left to its caller.
Recovers ==
    /\ PaymentUnresolved(order)
    /\ ~(order.payment = "settling"
         /\ \E d \in Deadlines(order) : d.kind = "settle_response" /\ d.at > now)

\* Mutant: an authorization nobody has used yet counts as one nobody will.
UnusedSoFar(n) == movedAt[n] = Null

\* Finalized past its validity and unused: it can never be executed.
ExpiredUnused(n) == movedAt[n] = Null /\ now >= validBefore[n]

ReadChain ==
    /\ reading = NoReading /\ Recovers
    /\ attempt # 0 /\ completion = "none"
    /\ \/ /\ movedAt[attempt] # Null
          /\ reading' = [id |-> attempt, verdict |-> "settled", at |-> movedAt[attempt]]
       \/ /\ ExpiredUnused(attempt)
          /\ reading' = [id |-> attempt, verdict |-> "failed", at |-> 0]
    /\ UNCHANGED <<now, order, attempt, completion, ledger, calls, reminders, faults>>

ApplyReading ==
    /\ reading # NoReading
    /\ Completes(reading.id, reading.verdict,
                 IF reading.verdict = "settled" THEN reading.at ELSE now)
    /\ reading' = NoReading
    /\ UNCHANGED <<now, ledger, calls, faults>>

-----------------------------------------------------------------------------
(* Reminders, and what the sweep does for the ones that were lost.         *)

\* A due reminder becomes its deadline's expiry; the queue may deliver it again.
ReminderFires ==
    \E d \in reminders :
      /\ d.at <= now
      /\ \E queued \in {reminders, reminders \ {d}}, expired \in {Expired(order, d)} :
           IF IsOk(expired) THEN Happens(expired, queued)
           ELSE /\ reminders' = queued
                /\ UNCHANGED <<now, order, attempt, completion, ledger, calls, reading, faults>>

ReminderLost ==
    /\ faults < MaxFaults
    /\ \E d \in reminders : d.at <= now /\ reminders' = reminders \ {d}
    /\ faults' = faults + 1
    /\ UNCHANGED <<now, order, attempt, completion, ledger, calls, reading>>

\* Mutant: the sweep starts the clocks that have not run out.
SweepsRunning(d) == d.at > now

SweepsElapsed(d) == d.at <= now

\* #sweepTheClocks, over the orders that are open.
Sweep ==
    LET clocks == {d \in Deadlines(order) : SweepsElapsed(d)}
    IN  /\ IsOpen(order.state) /\ ~(clocks \subseteq reminders)
        /\ reminders' = reminders \cup clocks
        /\ UNCHANGED <<now, order, attempt, completion, ledger, calls, reading, faults>>

-----------------------------------------------------------------------------
(* The merchant and the buyer.                                             *)

\* The gateway records a hand-over, and the merchant answers or closes.
MerchantActs ==
    /\ now <= LastAct
    /\ \E kind \in {"order_dispatched", "handler_delivered", "handler_refused", "close_called"} :
         /\ kind = "order_dispatched" => order.attempts < MaxHandOvers
         /\ \E result \in {Occurs(order, kind, now)} : Happens(result, reminders)

\* presentVerifiedPayment with a further payment of the order's owner.
TakesANewPayment(o) == o.state = "delivered_unpaid" \/ (o.state = "expired" /\ o.heldFulfillment)

BuyerPaysAgain ==
    LET next == payments + 1
    IN  /\ now <= LastAct /\ payments < MaxPayments /\ TakesANewPayment(order)
        /\ \E repeated \in {Occurs(order, "purchase_repeated", now)} :
           \E verified \in {Occurs(repeated.order, "payment_verified", now)} :
           /\ IsOk(repeated)
           /\ \/ /\ Saves(order, verified, reminders, next, completion)
                 /\ SendsAfter(verified, next)
                 /\ payments' = next
                 /\ validBefore' = [validBefore EXCEPT ![next] = now + AuthLife]
                 /\ UNCHANGED <<now, movedAt, submitted, waiting, reading, faults>>
              \/ RollsBack(order, verified)

Tick ==
    /\ now < MaxTime
    /\ now' = now + 1
    /\ UNCHANGED <<order, attempt, completion, ledger, calls, reading, reminders, faults>>

Next ==
    \/ \E n \in Payment : SendCharge(n) \/ MoneyMoves(n) \/ FacilitatorAnswers(n)
    \/ ProcessDies
    \/ ReadChain \/ ApplyReading
    \/ ReminderFires \/ ReminderLost \/ Sweep
    \/ MerchantActs \/ BuyerPaysAgain
    \/ Tick

Spec == Init /\ [][Next]_vars

(* The clock moves; the queue delivers reminders, the scheduler runs the   *)
(* recovery every minute and the sweep every day.  Nothing is assumed of   *)
(* the facilitator, the merchant or the buyer.                             *)
Fairness ==
    /\ WF_vars(Tick)
    /\ WF_vars(ReadChain) /\ WF_vars(ApplyReading)
    /\ WF_vars(ReminderFires /\ order' # order) /\ WF_vars(Sweep)
LiveSpec == Spec /\ Fairness

-----------------------------------------------------------------------------
(* Every variable has its type.                                            *)
TypeOK ==
    /\ now \in Nat /\ order \in Order /\ faults \in 0 .. MaxFaults
    /\ payments \in Payment /\ attempt \in 0 .. payments
    /\ completion \in {"none"} \cup Verdict
    /\ validBefore \in [Payment -> Nat] /\ movedAt \in [Payment -> Instant]
    /\ toSend \subseteq Payment /\ submitted \subseteq Payment /\ waiting \subseteq Payment
    /\ reading \in [id : 0 .. payments, verdict : Verdict \cup {"none"}, at : Nat]
    /\ reminders \subseteq Deadline

(* The buyer's money moves at most once for one order, however often the   *)
(* purchase is repeated and whatever became of the earlier charges'        *)
(* processes and answers.                                                  *)
ChargedAtMostOnce ==
    \A m, n \in Payment : movedAt[m] # Null /\ movedAt[n] # Null => m = n

(* What the order says of its money is what the chain did: settled only    *)
(* when it moved, failed only when it never will, and money that moved is  *)
(* either recorded or still being looked for.  The completion kept on the  *)
(* attempt and the order's own payment never part, and an unresolved order *)
(* has no recorded answer, so the recovery looks for it.                   *)
BooksAgreeWithTheChain ==
    /\ TypeOK
    /\ order.payment = "settled" => movedAt[attempt] # Null
    /\ order.payment = "settled" <=> completion = "settled"
    /\ PaymentUnresolved(order) => attempt = payments /\ completion = "none"
    /\ completion = "failed" =>
          /\ movedAt[attempt] = Null
          /\ attempt \notin submitted \cup toSend \/ now >= validBefore[attempt]
    /\ \A n \in Payment : movedAt[n] # Null =>
          attempt = n /\ (order.payment = "settled" \/ PaymentUnresolved(order))

(* A charge whose process, answer and reminder may all be lost is still    *)
(* accounted for.                                                          *)
ChargeIsAccountedFor == PaymentUnresolved(order) ~> ~PaymentUnresolved(order)

(* An order in progress ends, even when the reminder of its deadline is    *)
(* lost.                                                                   *)
OrderDoesNotHang == (OutcomeFor(order) = "in_progress") ~> (OutcomeFor(order) # "in_progress")
=============================================================================
