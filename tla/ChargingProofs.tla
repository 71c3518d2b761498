---------------------------- MODULE ChargingProofs ----------------------------
(***************************************************************************)
(* Proofs about Charging, for every policy, validity of an authorization   *)
(* and bound: the buyer pays at most once, and the books of the order are  *)
(* those of the chain.  The order machine's part is OrderMachineProofs.    *)
(***************************************************************************)
EXTENDS Charging, OrderMachineProofs

\* Authorization n has not moved any money and never will.
Dead(n) ==
    /\ movedAt[n] = Null
    /\ n \notin submitted \cup toSend \/ now >= validBefore[n]

\* Only attempts have calls, and one that is waited for has been sent.
CallsOfAttempts ==
    /\ \A n \in toSend \cup submitted \cup waiting : n <= attempt
    /\ toSend \cap waiting = {}

\* Whatever was tried before the current attempt is over for good.
EarlierAreDead ==
    \A n \in Payment : n # attempt => Dead(n)

\* The answer kept on the attempt and the payment of the order.
AnswerKept ==
    /\ order.payment = "settled" <=> completion = "settled"
    /\ PaymentUnresolved(order) => attempt = payments /\ completion = "none"
    /\ attempt # 0 /\ completion = "none" => PaymentUnresolved(order)
    /\ attempt = 0 => completion = "none"
    /\ completion = "settled" => movedAt[attempt] # Null
    /\ completion = "failed" => Dead(attempt)

\* A payment that is only verified is the first one, and not yet a charge.
VerifiedIsFirst == order.payment = "verified" => attempt = 0 /\ payments = 1

\* What the recovery has read is still what the chain says.
ReadingHolds ==
    reading # NoReading =>
      /\ reading.id # 0
      /\ reading.verdict = "settled" => movedAt[reading.id] # Null
      /\ reading.verdict # "settled" =>
           /\ reading.verdict = "failed"
           /\ movedAt[reading.id] = Null /\ now >= validBefore[reading.id]

(* The inductive invariant: the chain and the calls on one side, the order *)
(* and its attempt on the other.                                           *)
IInv ==
    /\ TypeOK
    /\ Consistent(order)
    /\ CallsOfAttempts
    /\ EarlierAreDead
    /\ AnswerKept
    /\ VerifiedIsFirst
    /\ ReadingHolds

-----------------------------------------------------------------------------
(* The machine, as the runner calls it *)

LEMMA DeadlinesType ==
    ASSUME NEW o \in Order
    PROVE  Deadlines(o) \subseteq Deadline /\ FulfillmentDeadline(o) \subseteq Deadline
<1>1. FulfillmentDeadline(o) \subseteq Deadline
  BY PolicyAssumption DEF FulfillmentDeadline, Deadline, DeadlineKind, Order, Instant
<1>2. CASE o.payment = "settling"
  <2>1. (IF o.settleStartedAt = Null THEN o.createdAt
         ELSE o.settleStartedAt + SettleResponseMs) \in Nat
    BY PolicyAssumption DEF Order, Instant
  <2> QED BY <1>1, <1>2, <2>1 DEF Deadlines, Deadline, DeadlineKind
<1>3. CASE o.payment # "settling" /\ o.state = "created"
  <2>1. o.createdAt + QuoteResponseMs \in Nat
    BY PolicyAssumption DEF Order
  <2> QED BY <1>1, <1>3, <2>1 DEF Deadlines, Deadline, DeadlineKind
<1>4. CASE o.payment # "settling" /\ o.state = "quoted"
  <2>1. o.quotedAt # Null => o.quotedAt + QuoteTtlMs \in Nat
    BY PolicyAssumption DEF Order, Instant
  <2> QED BY <1>1, <1>4, <2>1 DEF Deadlines, Deadline, DeadlineKind
<1>5. CASE o.payment # "settling" /\ o.state \notin {"created", "quoted"}
  BY <1>1, <1>5 DEF Deadlines
<1> QED BY <1>1, <1>2, <1>3, <1>4, <1>5

LEMMA ExpiredStep ==
    ASSUME NEW o \in Order, Consistent(o), NEW d \in Deadline
    PROVE  Step(o, "deadline_expired", Expired(o, d))
<1> DEFINE e == [kind |-> "deadline_expired", at |-> d.at, detail |-> d.kind]
<1>1. e \in Event /\ e.kind = "deadline_expired"
  BY DEF Event, EventKind, Detail, Deadline
<1>2. Expired(o, d) = Transition(o, e)
  BY DEF Expired
<1> HIDE DEF e
<1> QED BY <1>1, <1>2, TransitionStep

LEMMA UniqueIn ==
    ASSUME NEW s, s # {} PROVE Unique(s) \in s
  BY DEF Unique

\* The order an answer meets, once its own deadline is applied.
LEMMA ClosedBeforeFits ==
    ASSUME NEW o \in Order, Consistent(o)
    PROVE  ClosedBefore(o) \in Order /\ Consistent(ClosedBefore(o))
<1> DEFINE elapsed == {d \in Deadlines(o) : d.kind = "settle_response" /\ d.at <= now}
<1>1. elapsed # {} => Unique(elapsed) \in Deadline
  BY UniqueIn, DeadlinesType
<1>2. elapsed # {} => Step(o, "deadline_expired", Expired(o, Unique(elapsed)))
  BY <1>1, ExpiredStep
<1> QED BY <1>2 DEF ClosedBefore, Step, IsOk

\* The deadline that ran out before the money was known moves no money.
LEMMA OverdueAfterFits ==
    ASSUME NEW r, NEW verdict, r.order \in Order, Consistent(r.order),
           "execute_payment" \notin r.effects, r.code = "none",
           verdict = "settled" => r.order.payment = "settled"
    PROVE  LET q == OverdueAfter(r, verdict)
           IN  /\ q.order \in Order /\ Consistent(q.order) /\ q.code = "none"
               /\ "execute_payment" \notin q.effects
               /\ verdict = "settled" => q.order.payment = "settled"
               /\ verdict # "settled" => q = r
<1> DEFINE overdue == {d \in FulfillmentDeadline(r.order) : d.at <= now}
<1>1. overdue # {} => Unique(overdue) \in Deadline
  BY UniqueIn, DeadlinesType
<1>2. overdue # {} => Step(r.order, "deadline_expired", Expired(r.order, Unique(overdue)))
  BY <1>1, ExpiredStep
<1> QED BY <1>2 DEF OverdueAfter, Step, IsOk, ChargeAccount

-----------------------------------------------------------------------------
(* The answer to a charge *)

LEMMA CompletesStep ==
    ASSUME IInv, NEW id, NEW verdict \in Verdict, NEW at \in Nat, Completes(id, verdict, at)
    PROVE  /\ order' \in Order /\ Consistent(order')
           /\ reminders' \subseteq Deadline /\ attempt' = attempt
           /\ \/ order' = order /\ completion' = completion
              \/ /\ attempt = id /\ completion = "none" /\ completion' = verdict
                 /\ order'.payment =
                      IF verdict = "settled" THEN "settled" ELSE "settle_failed"
<1> DEFINE before == ClosedBefore(order)
           kind == IF verdict = "settled" THEN "payment_settled" ELSE "payment_settle_failed"
           answer == AnswerTo(before, verdict, at)
           result == OverdueAfter(answer, verdict)
<1>1. order \in Order /\ Consistent(order) /\ reminders \subseteq Deadline
  BY DEF IInv, TypeOK
<1>2. before \in Order /\ Consistent(before)
  BY <1>1, ClosedBeforeFits
<1>3. kind \in EventKind /\ answer = Occurs(before, kind, at)
  BY DEF EventKind, AnswerTo
<1> HIDE DEF before
<1>4. Step(before, kind, answer)
  BY <1>2, <1>3, OccursStep
<1>5. CASE AnswersCurrent(id) /\ IsOk(answer)
  <2>1. Saves(before, result, reminders, id, verdict)
    BY <1>5 DEF Completes, before
  <2>2. /\ answer.order \in Order /\ Consistent(answer.order) /\ answer.code = "none"
        /\ ChargeAccount(before, kind, answer)
    BY <1>4, <1>5 DEF Step, IsOk
  <2> HIDE DEF answer
  <2>3. /\ "execute_payment" \notin answer.effects
        /\ answer.order.payment = IF verdict = "settled" THEN "settled" ELSE "settle_failed"
    BY <2>2 DEF ChargeAccount
  <2>4. /\ result.order \in Order /\ Consistent(result.order)
        /\ "execute_payment" \notin result.effects
        /\ verdict = "settled" => result.order.payment = "settled"
        /\ verdict # "settled" => result = answer
    BY <2>2, <2>3, OverdueAfterFits
  <2> HIDE DEF result
  <2>5. Deadlines(result.order) \subseteq Deadline
    BY <2>4, DeadlinesType
  <2>6. /\ order' = result.order /\ attempt' = attempt /\ completion' = verdict
        /\ reminders' = reminders \cup (Deadlines(result.order) \ Deadlines(before))
    BY <2>1, <2>4 DEF Saves, RemindersLeft, CompletionAfter
  <2> QED BY <1>1, <1>5, <2>3, <2>4, <2>5, <2>6 DEF AnswersCurrent
<1>6. CASE ~(AnswersCurrent(id) /\ IsOk(answer))
  <2>1. UNCHANGED <<order, reminders, attempt, completion>>
    BY <1>6 DEF Completes, before
  <2> QED BY <1>1, <2>1
<1> QED BY <1>5, <1>6

(* An answer that tells the truth: of money that moved, or of a charge     *)
(* that is over for good.                                                  *)
LEMMA AnswerStep ==
    ASSUME IInv, NEW id \in Payment, NEW verdict \in Verdict, NEW at \in Nat,
           Completes(id, verdict, at),
           UNCHANGED <<now, ledger, toSend, faults>>,
           submitted' \subseteq submitted, waiting' \subseteq waiting,
           reading' \in {reading, NoReading},
           verdict = "settled" => movedAt[id] # Null,
           verdict = "failed" => /\ movedAt[id] = Null
                                 /\ id \notin submitted' \cup toSend \/ now >= validBefore[id]
    PROVE  IInv'
<1>1. /\ order' \in Order /\ Consistent(order')
      /\ reminders' \subseteq Deadline /\ attempt' = attempt
      /\ \/ order' = order /\ completion' = completion
         \/ /\ attempt = id /\ completion = "none" /\ completion' = verdict
            /\ order'.payment = IF verdict = "settled" THEN "settled" ELSE "settle_failed"
  BY CompletesStep
<1>2. /\ now' = now /\ payments' = payments /\ validBefore' = validBefore
      /\ movedAt' = movedAt /\ toSend' = toSend /\ faults' = faults
  BY DEF ledger
<1>3. verdict \in {"settled", "failed"}
  BY DEF Verdict
<1>4. TypeOK'
  <2>1. completion' \in {"none"} \cup Verdict
    BY <1>1 DEF IInv, TypeOK
  <2>2. reading' \in [id : 0 .. payments, verdict : Verdict \cup {"none"}, at : Nat]
    BY ChargingAssumption DEF IInv, TypeOK, NoReading, Payment
  <2> QED BY <1>1, <1>2, <2>1, <2>2 DEF IInv, TypeOK
<1>5. CallsOfAttempts'
  BY <1>1, <1>2 DEF IInv, CallsOfAttempts
<1>6. EarlierAreDead'
  BY <1>1, <1>2 DEF IInv, EarlierAreDead, Dead
<1>7. AnswerKept'
  <2>1. CASE order' = order /\ completion' = completion
    BY <1>1, <1>2, <2>1 DEF IInv, AnswerKept, PaymentUnresolved, Dead
  <2>2. CASE /\ attempt = id /\ completion = "none" /\ completion' = verdict
             /\ order'.payment = IF verdict = "settled" THEN "settled" ELSE "settle_failed"
    <3>1. id # 0
      BY DEF Payment
    <3> QED BY <1>1, <1>2, <1>3, <2>2, <3>1 DEF AnswerKept, PaymentUnresolved, Dead
  <2> QED BY <1>1, <2>1, <2>2
<1>8. VerifiedIsFirst'
  BY <1>1, <1>2 DEF IInv, VerifiedIsFirst
<1>9. ReadingHolds'
  BY <1>2 DEF IInv, ReadingHolds
<1> QED BY <1>1, <1>4, <1>5, <1>6, <1>7, <1>8, <1>9 DEF IInv

-----------------------------------------------------------------------------
(* An event that brings no answer *)

LEMMA RollsBackStep ==
    ASSUME IInv, NEW r, r.order \in Order, RollsBack(order, r)
    PROVE  IInv'
<1>1. Deadlines(r.order) \subseteq Deadline
  BY DeadlinesType
<1>2. /\ reminders' = reminders \cup (Deadlines(r.order) \ Deadlines(order))
      /\ faults < MaxFaults /\ faults' = faults + 1
      /\ now' = now /\ order' = order /\ attempt' = attempt /\ completion' = completion
      /\ payments' = payments /\ validBefore' = validBefore /\ movedAt' = movedAt
      /\ toSend' = toSend /\ submitted' = submitted /\ waiting' = waiting
      /\ reading' = reading
  BY DEF RollsBack, ledger, calls
<1>3. TypeOK'
  BY <1>1, <1>2, ChargingAssumption DEF IInv, TypeOK
<1> QED BY <1>2, <1>3 DEF IInv, CallsOfAttempts, EarlierAreDead, Dead, AnswerKept,
           PaymentUnresolved, VerifiedIsFirst, ReadingHolds

LEMMA HappensStep ==
    ASSUME IInv, NEW kind, NEW r, Step(order, kind, r), NEW queued, queued \subseteq Deadline,
           kind \notin {"payment_settled", "payment_settle_failed", "payment_verified"},
           Happens(r, queued)
    PROVE  IInv'
<1>1. r.order \in Order /\ Consistent(r.order) /\ ChargeAccount(order, kind, r)
  BY DEF Happens, Saves, RollsBack, Step, IsOk
<1>2. CASE RollsBack(order, r)
  BY <1>1, <1>2, RollsBackStep
<1>3. CASE /\ Saves(order, r, queued, payments, completion)
           /\ SendsAfter(r, payments)
           /\ UNCHANGED <<now, ledger, submitted, waiting, reading, faults>>
  <2>1. /\ now' = now /\ payments' = payments /\ validBefore' = validBefore
        /\ movedAt' = movedAt /\ submitted' = submitted /\ waiting' = waiting
        /\ reading' = reading /\ faults' = faults
    BY <1>3 DEF ledger
  <2>2. Deadlines(r.order) \subseteq Deadline
    BY <1>1, DeadlinesType
  <2>3. order' = r.order /\ reminders' \subseteq Deadline
    BY <1>3, <2>2 DEF Saves, RemindersLeft
  <2>4. CASE "execute_payment" \in r.effects
    <3>1. attempt' = payments /\ completion' = "none" /\ toSend' = toSend \cup {payments}
      BY <1>3, <2>4 DEF Saves, CompletionAfter, SendsAfter
    <3>2. order.payment = "verified" /\ order'.payment = "settling"
      BY <1>1, <2>3, <2>4 DEF ChargeAccount
    <3>3. attempt = 0 /\ payments = 1
      BY <3>2 DEF IInv, VerifiedIsFirst
    <3>4. toSend = {} /\ submitted = {} /\ waiting = {}
      BY <3>3 DEF IInv, TypeOK, CallsOfAttempts, Payment
    <3>5. TypeOK'
      BY <1>1, <2>1, <2>3, <3>1, <3>3 DEF IInv, TypeOK
    <3>6. CallsOfAttempts'
      BY <2>1, <3>1, <3>4, <3>3 DEF CallsOfAttempts
    <3>7. EarlierAreDead'
      BY <2>1, <3>1, <3>3, <3>4 DEF IInv, EarlierAreDead, Dead, Payment
    <3>8. AnswerKept'
      BY <2>1, <3>1, <3>2, <3>3 DEF AnswerKept, PaymentUnresolved
    <3>9. VerifiedIsFirst' /\ ReadingHolds'
      BY <2>1, <3>2 DEF IInv, VerifiedIsFirst, ReadingHolds
    <3> QED BY <1>1, <2>3, <3>5, <3>6, <3>7, <3>8, <3>9 DEF IInv
  <2>5. CASE "execute_payment" \notin r.effects
    <3>1. attempt' = attempt /\ completion' = completion /\ toSend' = toSend
      BY <1>3, <2>5 DEF Saves, CompletionAfter, SendsAfter
    <3>2. /\ PaymentUnresolved(order') <=> PaymentUnresolved(order)
          /\ (order'.payment = "settled") <=> (order.payment = "settled")
          /\ order'.payment = "verified" => order.payment = "verified"
      BY <1>1, <2>3, <2>5 DEF ChargeAccount
    <3>3. TypeOK'
      BY <1>1, <2>1, <2>3, <3>1 DEF IInv, TypeOK
    <3>4. CallsOfAttempts' /\ EarlierAreDead' /\ ReadingHolds'
      BY <2>1, <3>1 DEF IInv, CallsOfAttempts, EarlierAreDead, Dead, ReadingHolds
    <3>5. AnswerKept'
      <4>1. PaymentUnresolved(order)' <=> PaymentUnresolved(order)
        BY <3>2 DEF PaymentUnresolved
      <4> QED BY <2>1, <3>1, <3>2, <4>1 DEF IInv, AnswerKept, Dead
    <3>6. VerifiedIsFirst'
      BY <2>1, <3>1, <3>2 DEF IInv, VerifiedIsFirst
    <3> QED BY <1>1, <2>3, <3>3, <3>4, <3>5, <3>6 DEF IInv
  <2> QED BY <2>4, <2>5
<1> QED BY <1>2, <1>3 DEF Happens

-----------------------------------------------------------------------------
(* The order a purchase is admitted with *)

LEMMA AdmittedFits ==
    ASSUME NEW born \in Admitted
    PROVE  /\ born.order \in Order /\ Consistent(born.order)
           /\ \/ "execute_payment" \in born.effects /\ born.order.payment = "settling"
              \/ "execute_payment" \notin born.effects /\ born.order.payment = "verified"
<1>1. PICK mode \in Modes :
        born = Occurs(Occurs(CreateOrder(mode, "card", 0).order, "payment_presented", 0).order,
                      "payment_verified", 0)
  BY DEF Admitted
<1>2. mode \in FulfillmentMode
  BY ChargingAssumption
<1> DEFINE quoted == CreateOrder(mode, "card", 0).order
           shown == Occurs(quoted, "payment_presented", 0).order
           v == [kind |-> "payment_verified", at |-> 0, detail |-> "none"]
<1>3. shown \in Order /\ shown.state = "quoted" /\ shown.payment = "none" /\ Consistent(shown)
  <2>1. quoted \in Order /\ quoted.state = "quoted" /\ quoted.payment = "none" /\ Consistent(quoted)
    BY <1>2, CardOrder
  <2> QED BY <2>1, PresentedOrder
<1> HIDE DEF shown
<1>4. Transition(shown, v) = FromQuoted(shown, v)
  <2>1. TransitionIn(shown, v) = FromQuoted(shown, v)
    BY <1>3 DEF TransitionIn
  <2>2. ~HoldsShipTo(shown)
    BY <1>3 DEF HoldsShipTo
  <2> QED BY <2>1, <2>2 DEF Transition
<1>5. born = FromQuoted(shown, v)
  BY <1>1, <1>4 DEF Occurs, shown
<1>6. Step(shown, "payment_verified", born)
  BY <1>3, <1>4, <1>5, OccursStep DEF EventKind, Occurs
<1>7. /\ born.code = "none"
       /\ \/ "execute_payment" \in born.effects
          \/ "execute_payment" \notin born.effects /\ born.order.payment = "verified"
  <2>1. CASE AfterFulfillment(shown)
    <3>1. born = EnterPaid(shown, 0, "verified")
      BY <1>5, <2>1 DEF FromQuoted
    <3>2. [shown EXCEPT !.state = "paid", !.payment = "verified", !.attempts = 0,
                        !.accepted = FALSE, !.paidAt = 0].payment = "verified"
      BY <1>3 DEF Order
    <3> QED BY <3>1, <3>2 DEF EnterPaid, Ok, Result
  <2>2. CASE ~AfterFulfillment(shown)
    BY <1>5, <2>2 DEF FromQuoted, StartSettle, Ok, Result
  <2> QED BY <2>1, <2>2
<1> QED BY <1>6, <1>7 DEF Step, ChargeAccount

LEMMA InitIInv == Init => IInv
<1> SUFFICES ASSUME Init PROVE IInv
  OBVIOUS
<1>1. PICK born \in Admitted :
        /\ now = 0 /\ order = born.order /\ payments = 1 /\ completion = "none"
        /\ attempt = (IF "execute_payment" \in born.effects THEN 1 ELSE 0)
        /\ validBefore = [n \in Payment |-> AuthLife]
        /\ movedAt = [n \in Payment |-> Null]
        /\ toSend = (IF "execute_payment" \in born.effects THEN {1} ELSE {})
        /\ submitted = {} /\ waiting = {} /\ reading = NoReading
        /\ reminders = Deadlines(born.order) /\ faults = 0
  BY DEF Init
<1>2. /\ order \in Order /\ Consistent(order)
      /\ \/ attempt = 1 /\ toSend = {1} /\ order.payment = "settling"
         \/ attempt = 0 /\ toSend = {} /\ order.payment = "verified"
  BY <1>1, AdmittedFits
<1>3. TypeOK
  <2>1. reminders \subseteq Deadline
    BY <1>1, <1>2, DeadlinesType
  <2>2. validBefore \in [Payment -> Nat] /\ movedAt \in [Payment -> Instant]
    BY <1>1, ChargingAssumption DEF Instant
  <2>3. reading \in [id : 0 .. payments, verdict : Verdict \cup {"none"}, at : Nat]
    BY <1>1 DEF NoReading
  <2> QED BY <1>1, <1>2, <2>1, <2>2, <2>3, ChargingAssumption DEF TypeOK, Payment
<1>4. CallsOfAttempts
  BY <1>1, <1>2 DEF CallsOfAttempts
<1>5. EarlierAreDead
  BY <1>1, <1>2 DEF EarlierAreDead, Dead
<1>6. AnswerKept /\ VerifiedIsFirst /\ ReadingHolds
  BY <1>1, <1>2 DEF AnswerKept, PaymentUnresolved, VerifiedIsFirst, ReadingHolds
<1> QED BY <1>2, <1>3, <1>4, <1>5, <1>6 DEF IInv

-----------------------------------------------------------------------------
(* The calls and the chain *)

LEMMA SendChargeStep ==
    ASSUME IInv, NEW n \in Payment, SendCharge(n) PROVE IInv'
<1>1. /\ n \in toSend /\ toSend' = toSend \ {n}
      /\ submitted' = submitted \cup {n} /\ waiting' = waiting \cup {n}
      /\ now' = now /\ order' = order /\ attempt' = attempt /\ completion' = completion
      /\ payments' = payments /\ validBefore' = validBefore /\ movedAt' = movedAt
      /\ reading' = reading /\ reminders' = reminders /\ faults' = faults
  BY DEF SendCharge, ledger
<1>2. TypeOK'
  BY <1>1 DEF IInv, TypeOK
<1>3. CallsOfAttempts'
  BY <1>1 DEF IInv, CallsOfAttempts
<1>4. submitted' \cup toSend' \subseteq submitted \cup toSend
  BY <1>1
<1> QED BY <1>1, <1>2, <1>3, <1>4 DEF IInv, EarlierAreDead, Dead, AnswerKept,
           PaymentUnresolved, VerifiedIsFirst, ReadingHolds

LEMMA ReadingOfAPayment ==
    ASSUME IInv, reading # NoReading
    PROVE  /\ reading.id \in Payment /\ reading.id <= payments
           /\ reading.verdict \in Verdict /\ reading.at \in Nat
<1>1. reading.id \in 0 .. payments /\ reading.id # 0
  BY DEF IInv, TypeOK, ReadingHolds
<1>2. payments \in Nat /\ payments <= MaxPayments /\ MaxPayments \in Nat
  BY ChargingAssumption DEF IInv, TypeOK, Payment
<1>3. reading.verdict \in Verdict /\ reading.at \in Nat
  BY DEF IInv, TypeOK, ReadingHolds, Verdict
<1> QED BY <1>1, <1>2, <1>3 DEF Payment

\* Only the current attempt's money can move, and only while it is unanswered.
LEMMA MoneyMovesStep ==
    ASSUME IInv, NEW n \in Payment, MoneyMoves(n) PROVE IInv'
<1>1. /\ n \in submitted /\ movedAt[n] = Null /\ now < validBefore[n]
      /\ movedAt' = [movedAt EXCEPT ![n] = now] /\ submitted' = submitted \ {n}
      /\ now' = now /\ order' = order /\ attempt' = attempt /\ completion' = completion
      /\ payments' = payments /\ validBefore' = validBefore /\ toSend' = toSend
      /\ waiting' = waiting /\ reading' = reading /\ reminders' = reminders
      /\ faults' = faults
  BY DEF MoneyMoves
<1>2. /\ now \in Nat /\ validBefore[n] \in Nat /\ movedAt \in [Payment -> Instant]
  BY DEF IInv, TypeOK
<1>3. ~Dead(n)
  BY <1>1, <1>2 DEF Dead
<1>4. n = attempt /\ completion = "none"
  <2>1. n = attempt
    BY <1>3 DEF IInv, EarlierAreDead
  <2>2. completion # "failed" /\ completion # "settled"
    BY <1>1, <1>3, <2>1 DEF IInv, AnswerKept
  <2> QED BY <2>1, <2>2 DEF IInv, TypeOK, Verdict
<1>5. TypeOK'
  BY <1>1, <1>2 DEF IInv, TypeOK, Instant
<1>6. CallsOfAttempts'
  BY <1>1 DEF IInv, CallsOfAttempts
<1>7. EarlierAreDead'
  BY <1>1, <1>2, <1>4 DEF IInv, EarlierAreDead, Dead
<1>8. AnswerKept' /\ VerifiedIsFirst'
  BY <1>1, <1>4 DEF IInv, AnswerKept, PaymentUnresolved, VerifiedIsFirst
<1>9. ReadingHolds'
  <2> SUFFICES ASSUME reading # NoReading PROVE ReadingHolds'
    BY <1>1 DEF ReadingHolds
  <2>1. reading.id \in Payment
    BY ReadingOfAPayment
  <2>2. reading.id = n => reading.verdict = "failed" /\ now >= validBefore[n]
    BY <1>1 DEF IInv, ReadingHolds
  <2>3. reading.id # n
    BY <1>1, <1>2, <2>2
  <2>4. movedAt'[reading.id] = movedAt[reading.id]
    BY <1>1, <1>2, <2>1, <2>3
  <2> QED BY <1>1, <2>4 DEF IInv, ReadingHolds
<1> QED BY <1>1, <1>5, <1>6, <1>7, <1>8, <1>9 DEF IInv

LEMMA FacilitatorAnswersStep ==
    ASSUME IInv, NEW n \in Payment, FacilitatorAnswers(n) PROVE IInv'
<1>1. /\ n \in waiting /\ waiting' = waiting \ {n}
      /\ now' = now /\ payments' = payments /\ validBefore' = validBefore
      /\ movedAt' = movedAt /\ toSend' = toSend /\ reading' = reading /\ faults' = faults
  BY DEF FacilitatorAnswers, ledger
<1>2. now \in Nat /\ n \notin toSend
  BY <1>1 DEF IInv, TypeOK, CallsOfAttempts
<1>3. CASE movedAt[n] # Null /\ Completes(n, "settled", now) /\ submitted' = submitted
  BY <1>1, <1>2, <1>3, AnswerStep DEF Verdict, ledger
<1>4. CASE RefusedForGood(n) /\ Completes(n, "failed", now)
  <2>1. movedAt[n] = Null /\ submitted' = submitted \ {n}
    BY <1>4 DEF RefusedForGood
  <2> QED BY <1>1, <1>2, <1>4, <2>1, AnswerStep DEF Verdict, ledger
<1>5. CASE UNCHANGED <<submitted, order, reminders, attempt, completion>>
  <2>1. TypeOK'
    BY <1>1, <1>5 DEF IInv, TypeOK
  <2> QED BY <1>1, <1>5, <2>1 DEF IInv, CallsOfAttempts, EarlierAreDead, Dead, AnswerKept,
             PaymentUnresolved, VerifiedIsFirst, ReadingHolds
<1> QED BY <1>3, <1>4, <1>5 DEF FacilitatorAnswers

LEMMA ProcessDiesStep ==
    ASSUME IInv, ProcessDies PROVE IInv'
<1>1. /\ faults < MaxFaults /\ faults' = faults + 1
      /\ toSend' = {} /\ waiting' = {} /\ reading' = NoReading
      /\ now' = now /\ order' = order /\ attempt' = attempt /\ completion' = completion
      /\ payments' = payments /\ validBefore' = validBefore /\ movedAt' = movedAt
      /\ submitted' = submitted /\ reminders' = reminders
  BY DEF ProcessDies, ledger
<1>2. TypeOK'
  <2>1. reading' \in [id : 0 .. payments, verdict : Verdict \cup {"none"}, at : Nat]
    BY <1>1 DEF NoReading, IInv, TypeOK, Payment
  <2> QED BY <1>1, <2>1, ChargingAssumption DEF IInv, TypeOK
<1> QED BY <1>1, <1>2 DEF IInv, CallsOfAttempts, EarlierAreDead, Dead, AnswerKept,
           PaymentUnresolved, VerifiedIsFirst, ReadingHolds

LEMMA ReadChainStep ==
    ASSUME IInv, ReadChain PROVE IInv'
<1>1. /\ attempt # 0
      /\ \/ /\ movedAt[attempt] # Null
            /\ reading' = [id |-> attempt, verdict |-> "settled", at |-> movedAt[attempt]]
         \/ /\ movedAt[attempt] = Null /\ now >= validBefore[attempt]
            /\ reading' = [id |-> attempt, verdict |-> "failed", at |-> 0]
      /\ now' = now /\ order' = order /\ attempt' = attempt /\ completion' = completion
      /\ payments' = payments /\ validBefore' = validBefore /\ movedAt' = movedAt
      /\ toSend' = toSend /\ submitted' = submitted /\ waiting' = waiting
      /\ reminders' = reminders /\ faults' = faults
  BY DEF ReadChain, ExpiredUnused, ledger, calls
<1>2. attempt \in Payment /\ attempt \in 0 .. payments
  BY <1>1, ChargingAssumption DEF IInv, TypeOK, Payment
<1>3. movedAt[attempt] # Null => movedAt[attempt] \in Nat
  BY <1>2 DEF IInv, TypeOK, Instant
<1>4. reading' \in [id : 0 .. payments, verdict : Verdict \cup {"none"}, at : Nat]
  BY <1>1, <1>2, <1>3 DEF Verdict
<1>5. TypeOK'
  BY <1>1, <1>4 DEF IInv, TypeOK
<1>6. ReadingHolds'
  BY <1>1 DEF ReadingHolds
<1> QED BY <1>1, <1>5, <1>6 DEF IInv, CallsOfAttempts, EarlierAreDead, Dead, AnswerKept,
           PaymentUnresolved, VerifiedIsFirst

LEMMA ApplyReadingStep ==
    ASSUME IInv, ApplyReading PROVE IInv'
<1> DEFINE at == IF reading.verdict = "settled" THEN reading.at ELSE now
<1>1. /\ reading # NoReading /\ Completes(reading.id, reading.verdict, at)
      /\ reading' = NoReading /\ now' = now /\ payments' = payments
      /\ validBefore' = validBefore /\ movedAt' = movedAt /\ toSend' = toSend
      /\ submitted' = submitted /\ waiting' = waiting /\ faults' = faults
  BY DEF ApplyReading, ledger, calls
<1>2. /\ reading.id \in Payment /\ reading.verdict \in Verdict /\ reading.at \in Nat
  BY <1>1, ReadingOfAPayment
<1>3. at \in Nat
  BY <1>2 DEF IInv, TypeOK
<1> HIDE DEF at
<1>4. /\ reading.verdict = "settled" => movedAt[reading.id] # Null
      /\ reading.verdict = "failed" =>
           movedAt[reading.id] = Null /\ now >= validBefore[reading.id]
  BY <1>1 DEF IInv, ReadingHolds
<1> QED BY <1>1, <1>2, <1>3, <1>4, AnswerStep DEF ledger

-----------------------------------------------------------------------------
(* Reminders, the merchant and the buyer *)

\* A step that only touches the queue of reminders.
LEMMA QueueStep ==
    ASSUME IInv, reminders' \subseteq Deadline, faults' \in 0 .. MaxFaults,
           UNCHANGED <<now, order, attempt, completion, ledger, calls, reading>>
    PROVE  IInv'
<1>1. /\ now' = now /\ order' = order /\ attempt' = attempt /\ completion' = completion
      /\ payments' = payments /\ validBefore' = validBefore /\ movedAt' = movedAt
      /\ toSend' = toSend /\ submitted' = submitted /\ waiting' = waiting
      /\ reading' = reading
  BY DEF ledger, calls
<1>2. TypeOK'
  BY <1>1 DEF IInv, TypeOK
<1> QED BY <1>1, <1>2 DEF IInv, CallsOfAttempts, EarlierAreDead, Dead, AnswerKept,
           PaymentUnresolved, VerifiedIsFirst, ReadingHolds

LEMMA ReminderFiresStep ==
    ASSUME IInv, ReminderFires PROVE IInv'
<1>0. PICK d \in reminders :
        \E queued \in {reminders, reminders \ {d}}, expired \in {Expired(order, d)} :
          IF IsOk(expired) THEN Happens(expired, queued)
          ELSE /\ reminders' = queued
               /\ UNCHANGED <<now, order, attempt, completion, ledger, calls, reading, faults>>
  BY DEF ReminderFires
<1>1. PICK queued \in {reminders, reminders \ {d}} :
        IF IsOk(Expired(order, d)) THEN Happens(Expired(order, d), queued)
        ELSE /\ reminders' = queued
             /\ UNCHANGED <<now, order, attempt, completion, ledger, calls, reading, faults>>
  BY <1>0
<1>2. d \in Deadline /\ queued \subseteq Deadline /\ order \in Order /\ Consistent(order)
  BY DEF IInv, TypeOK
<1>3. Step(order, "deadline_expired", Expired(order, d))
  BY <1>2, ExpiredStep
<1>4. CASE IsOk(Expired(order, d))
  BY <1>1, <1>2, <1>3, <1>4, HappensStep
<1>5. CASE ~IsOk(Expired(order, d))
  BY <1>1, <1>2, <1>5, QueueStep DEF IInv, TypeOK
<1> QED BY <1>4, <1>5

LEMMA ReminderLostStep ==
    ASSUME IInv, ReminderLost PROVE IInv'
<1>1. reminders' \subseteq Deadline
  BY DEF ReminderLost, IInv, TypeOK
<1>2. faults' \in 0 .. MaxFaults
  BY ChargingAssumption DEF ReminderLost, IInv, TypeOK
<1> QED BY <1>1, <1>2, QueueStep DEF ReminderLost

LEMMA SweepStep ==
    ASSUME IInv, Sweep PROVE IInv'
<1>1. Deadlines(order) \subseteq Deadline /\ reminders \subseteq Deadline
  BY DeadlinesType DEF IInv, TypeOK
<1>2. /\ reminders' = reminders \cup {d \in Deadlines(order) : SweepsElapsed(d)}
      /\ UNCHANGED <<now, order, attempt, completion, ledger, calls, reading>>
      /\ faults' = faults
  BY DEF Sweep
<1>3. faults' \in 0 .. MaxFaults
  BY <1>2 DEF IInv, TypeOK
<1> QED BY <1>1, <1>2, <1>3, QueueStep

LEMMA MerchantActsStep ==
    ASSUME IInv, MerchantActs PROVE IInv'
<1>1. PICK kind \in {"order_dispatched", "handler_delivered", "handler_refused",
                     "close_called"} :
        Happens(Occurs(order, kind, now), reminders)
  BY DEF MerchantActs
<1>2. /\ order \in Order /\ Consistent(order) /\ now \in Nat /\ kind \in EventKind
      /\ reminders \subseteq Deadline
  BY DEF IInv, TypeOK, EventKind
<1>3. Step(order, kind, Occurs(order, kind, now))
  BY <1>2, OccursStep
<1> QED BY <1>1, <1>2, <1>3, HappensStep

LEMMA VerifiedIsSent ==
    ASSUME NEW n \in Order, Consistent(n), n.payment = "none", NEW at \in Nat, NEW state,
           TransitionIn(n, [kind |-> "payment_verified", at |-> at, detail |-> "none"])
             = StartSettle(n, at, state),
           IsOk(Occurs(n, "payment_verified", at))
    PROVE  /\ Occurs(n, "payment_verified", at).order \in Order
           /\ Consistent(Occurs(n, "payment_verified", at).order)
           /\ Occurs(n, "payment_verified", at).order.payment = "settling"
           /\ "execute_payment" \in Occurs(n, "payment_verified", at).effects
<1> DEFINE v == Occurs(n, "payment_verified", at)
           f == [kind |-> "payment_verified", at |-> at, detail |-> "none"]
<1>1. v = Transition(n, f) /\ v.code = "none"
  BY DEF Occurs, IsOk
<1>2. ~HoldsShipTo(n)
  BY DEF HoldsShipTo
<1>3. v = StartSettle(n, at, state)
  BY <1>1, <1>2 DEF Transition
<1>4. "execute_payment" \in v.effects
  BY <1>3 DEF StartSettle, Ok, Result
<1>5. Step(n, "payment_verified", v)
  BY OccursStep DEF EventKind
<1> HIDE DEF v
<1>6. v.order \in Order /\ Consistent(v.order) /\ v.order.payment = "settling"
  BY <1>1, <1>4, <1>5 DEF Step, ChargeAccount
<1> QED BY <1>4, <1>6 DEF v

\* Where a repeated purchase is taken for a new payment, its charge goes out.
LEMMA PaysAgain ==
    ASSUME NEW o \in Order, Consistent(o), NEW at \in Nat, TakesANewPayment(o),
           IsOk(Occurs(o, "purchase_repeated", at))
    PROVE  LET r == Occurs(o, "purchase_repeated", at)
               v == Occurs(r.order, "payment_verified", at)
           IN  /\ ~PaymentUnresolved(o) /\ o.payment # "settled"
               /\ IsOk(v) => /\ v.order \in Order /\ Consistent(v.order)
                             /\ v.order.payment = "settling"
                             /\ "execute_payment" \in v.effects
<1> DEFINE e == [kind |-> "purchase_repeated", at |-> at, detail |-> "none"]
           f == [kind |-> "payment_verified", at |-> at, detail |-> "none"]
           r == Occurs(o, "purchase_repeated", at)
           n == [o EXCEPT !.payment = "none"]
           v == Occurs(n, "payment_verified", at)
<1>1. /\ TransitionIn(o, e).code = "none" /\ r.order = TransitionIn(o, e).order
  BY TransitionOrder DEF Occurs, IsOk
<1>2. CASE o.state = "delivered_unpaid"
  <2>1. o.payment # "settling"
    BY <1>1, <1>2 DEF TransitionIn, AllowedWhileSettling, Reject
  <2>2. TransitionIn(o, e) = FromDeliveredUnpaid(o, e)
    BY <1>2, <2>1 DEF TransitionIn
  <2>3. o.payment # "outcome_unknown" /\ r.order = n
    BY <1>1, <2>2 DEF FromDeliveredUnpaid, Reject, Ok, Result
  <2>4. o.payment # "settled"
    BY <1>2 DEF Consistent
  <2>5. n \in Order /\ n.payment = "none" /\ n.state = "delivered_unpaid"
    BY <1>2 DEF Order, PaymentStage
  <2>6. Consistent(n)
    <3>1. Step(o, "purchase_repeated", r) /\ r.code = "none"
      BY OccursStep DEF EventKind, IsOk
    <3> QED BY <2>3, <3>1 DEF Step
  <2> HIDE DEF n
  <2>7. TransitionIn(n, f) = StartSettle(n, at, n.state)
    BY <2>5 DEF TransitionIn, FromDeliveredUnpaid
  <2> QED BY <2>1, <2>3, <2>4, <2>5, <2>6, <2>7, VerifiedIsSent DEF PaymentUnresolved
<1>3. CASE o.state = "expired" /\ o.heldFulfillment
  <2>1. o.payment \in {"none", "verified"}
    BY <1>3 DEF Consistent
  <2>2. TransitionIn(o, e) = FromExpired(o, e)
    BY <1>3, <2>1 DEF TransitionIn
  <2>3. r.order = n
    BY <1>1, <1>3, <2>2 DEF FromExpired, Ok, Result
  <2>4. n \in Order /\ n.payment = "none" /\ n.state = "expired"
    BY <1>3 DEF Order, PaymentStage
  <2>5. n.heldFulfillment
    BY <1>3 DEF Order
  <2>6. Consistent(n)
    <3>1. Step(o, "purchase_repeated", r) /\ r.code = "none"
      BY OccursStep DEF EventKind, IsOk
    <3> QED BY <2>3, <3>1 DEF Step
  <2> HIDE DEF n
  <2>7. TransitionIn(n, f) = StartSettle(n, at, "fulfilled")
    BY <2>4, <2>5 DEF TransitionIn, FromExpired
  <2> QED BY <2>1, <2>3, <2>4, <2>6, <2>7, VerifiedIsSent DEF PaymentUnresolved
<1> QED BY <1>2, <1>3 DEF TakesANewPayment

LEMMA BuyerPaysAgainStep ==
    ASSUME IInv, BuyerPaysAgain PROVE IInv'
<1> DEFINE next == payments + 1
           r == Occurs(order, "purchase_repeated", now)
           v == Occurs(r.order, "payment_verified", now)
<1>1. /\ payments < MaxPayments /\ TakesANewPayment(order) /\ IsOk(r)
      /\ \/ /\ Saves(order, v, reminders, next, completion)
            /\ SendsAfter(v, next)
            /\ payments' = next
            /\ validBefore' = [validBefore EXCEPT ![next] = now + AuthLife]
            /\ UNCHANGED <<now, movedAt, submitted, waiting, reading, faults>>
         \/ RollsBack(order, v)
  BY DEF BuyerPaysAgain
<1>2. order \in Order /\ Consistent(order) /\ now \in Nat
  BY DEF IInv, TypeOK
<1>3. IsOk(v)
  BY <1>1 DEF Saves, RollsBack
<1>4. /\ ~PaymentUnresolved(order) /\ order.payment # "settled"
      /\ v.order \in Order /\ Consistent(v.order) /\ v.order.payment = "settling"
      /\ "execute_payment" \in v.effects
  BY <1>1, <1>2, <1>3, PaysAgain
<1> HIDE DEF v
<1>5. CASE RollsBack(order, v)
  BY <1>4, <1>5, RollsBackStep
<1>6. CASE ~RollsBack(order, v)
  <2>1. /\ order' = v.order /\ attempt' = next /\ completion' = "none"
        /\ toSend' = toSend \cup {next} /\ payments' = next
        /\ validBefore' = [validBefore EXCEPT ![next] = now + AuthLife]
        /\ now' = now /\ movedAt' = movedAt /\ submitted' = submitted
        /\ waiting' = waiting /\ reading' = reading /\ faults' = faults
        /\ reminders' = reminders \cup (Deadlines(v.order) \ Deadlines(order))
    BY <1>1, <1>4, <1>6 DEF Saves, SendsAfter, RemindersLeft, CompletionAfter
  <2>2. /\ payments \in Nat /\ attempt \in Nat /\ attempt <= payments
        /\ next \in Payment /\ MaxPayments \in Nat
    BY <1>1, ChargingAssumption DEF IInv, TypeOK, Payment
  <2>3. now + AuthLife \in Nat
    BY <1>2, ChargingAssumption
  <2>4. Deadlines(v.order) \subseteq Deadline
    BY <1>4, DeadlinesType
  <2>5. TypeOK'
    <3>1. reading' \in [id : 0 .. next, verdict : Verdict \cup {"none"}, at : Nat]
      BY <2>1, <2>2 DEF IInv, TypeOK
    <3>2. validBefore' \in [Payment -> Nat]
      BY <2>1, <2>2, <2>3 DEF IInv, TypeOK
    <3>3. reminders' \subseteq Deadline /\ toSend' \subseteq Payment
      BY <2>1, <2>2, <2>4 DEF IInv, TypeOK
    <3>4. attempt' \in 0 .. payments'
      BY <2>1, <2>2
    <3> QED BY <1>4, <2>1, <2>2, <3>1, <3>2, <3>3, <3>4 DEF IInv, TypeOK
  <2>6. CallsOfAttempts'
    <3>1. \A n \in toSend \cup submitted \cup waiting : n \in Payment /\ n <= attempt
      BY DEF IInv, TypeOK, CallsOfAttempts
    <3>2. \A n \in toSend \cup submitted \cup waiting : n <= next /\ n # next
      BY <2>2, <3>1 DEF Payment
    <3> QED BY <2>1, <2>2, <3>2 DEF IInv, CallsOfAttempts
  <2>7. EarlierAreDead'
    <3>1. attempt # 0 => completion = "failed"
      BY <1>4 DEF IInv, TypeOK, AnswerKept, Verdict
    <3>2. \A n \in Payment : Dead(n)
      BY <3>1 DEF IInv, EarlierAreDead, AnswerKept, Payment
    <3>3. validBefore \in [Payment -> Nat]
      BY DEF IInv, TypeOK
    <3> QED BY <2>1, <2>2, <3>2, <3>3 DEF EarlierAreDead, Dead
  <2>8. AnswerKept' /\ VerifiedIsFirst'
    BY <1>4, <2>1, <2>2 DEF AnswerKept, PaymentUnresolved, VerifiedIsFirst
  <2>9. ReadingHolds'
    <3> SUFFICES ASSUME reading # NoReading PROVE ReadingHolds'
      BY <2>1 DEF ReadingHolds
    <3>1. reading.id \in Payment /\ reading.id # next
      BY <2>2, ReadingOfAPayment DEF Payment
    <3>2. validBefore'[reading.id] = validBefore[reading.id]
      BY <2>1, <3>1 DEF IInv, TypeOK
    <3> QED BY <2>1, <3>2 DEF IInv, ReadingHolds
  <2> QED BY <1>4, <2>1, <2>5, <2>6, <2>7, <2>8, <2>9 DEF IInv
<1> QED BY <1>5, <1>6

LEMMA TickStep ==
    ASSUME IInv, Tick PROVE IInv'
<1>1. /\ now' = now + 1 /\ now \in Nat
      /\ order' = order /\ attempt' = attempt /\ completion' = completion
      /\ payments' = payments /\ validBefore' = validBefore /\ movedAt' = movedAt
      /\ toSend' = toSend /\ submitted' = submitted /\ waiting' = waiting
      /\ reading' = reading /\ reminders' = reminders /\ faults' = faults
  BY DEF Tick, ledger, calls, IInv, TypeOK
<1>2. \A n \in Payment : validBefore[n] \in Nat
  BY DEF IInv, TypeOK
<1>3. \A n \in Payment : Dead(n) => Dead(n)'
  BY <1>1, <1>2 DEF Dead
<1>4. TypeOK'
  BY <1>1 DEF IInv, TypeOK
<1>5. EarlierAreDead' /\ CallsOfAttempts' /\ VerifiedIsFirst'
  BY <1>1, <1>3 DEF IInv, EarlierAreDead, CallsOfAttempts, VerifiedIsFirst
<1>6. completion = "failed" => Dead(attempt)'
  <2>1. completion = "failed" => attempt \in Payment
    BY ChargingAssumption DEF IInv, TypeOK, AnswerKept, Payment
  <2> QED BY <1>1, <1>3, <2>1 DEF IInv, AnswerKept, Dead
<1>7. AnswerKept'
  BY <1>1, <1>6 DEF IInv, AnswerKept, PaymentUnresolved
<1>8. ReadingHolds'
  <2> SUFFICES ASSUME reading # NoReading PROVE ReadingHolds'
    BY <1>1 DEF ReadingHolds
  <2>1. validBefore[reading.id] \in Nat
    BY <1>2, ReadingOfAPayment
  <2> QED BY <1>1, <2>1 DEF IInv, ReadingHolds
<1> QED BY <1>1, <1>4, <1>5, <1>7, <1>8 DEF IInv

LEMMA NextIInv == IInv /\ [Next]_vars => IInv'
<1> SUFFICES ASSUME IInv, [Next]_vars PROVE IInv'
  OBVIOUS
<1>1. ASSUME NEW n \in Payment, SendCharge(n) \/ MoneyMoves(n) \/ FacilitatorAnswers(n)
      PROVE  IInv'
  BY <1>1, SendChargeStep, MoneyMovesStep, FacilitatorAnswersStep
<1>2. CASE UNCHANGED vars
  BY <1>2, QueueStep DEF vars, ledger, calls, IInv, TypeOK
<1> QED BY <1>1, <1>2, ProcessDiesStep, ReadChainStep, ApplyReadingStep, ReminderFiresStep,
           ReminderLostStep, SweepStep, MerchantActsStep, BuyerPaysAgainStep, TickStep DEF Next

-----------------------------------------------------------------------------
(* The results *)

(* Every reachable state has its earlier charges dead and its answers true *)
(* of the chain, whatever crashed, was lost, was late or was read twice.   *)
THEOREM Invariance == Spec => []IInv
<1> QED BY InitIInv, NextIInv, PTL DEF Spec

(* The buyer's money moves at most once for an order, for any number of    *)
(* repeated purchases, dead processes and lost reminders: completing an    *)
(* attempt as failed waits until its authorization can never be executed.  *)
THEOREM PaysAtMostOnce == Spec => []ChargedAtMostOnce
<1>1. IInv => ChargedAtMostOnce
  BY DEF IInv, EarlierAreDead, Dead, ChargedAtMostOnce
<1> QED BY <1>1, Invariance, PTL

(* The order's payment, the completion of its attempt and the chain agree  *)
(* after every step of the runner, the recovery and the sweep.             *)
THEOREM BooksAgree == Spec => []BooksAgreeWithTheChain
<1>1. ASSUME IInv PROVE BooksAgreeWithTheChain
  <2>1. \A n \in Payment : movedAt[n] # Null =>
          attempt = n /\ (order.payment = "settled" \/ PaymentUnresolved(order))
    <3> SUFFICES ASSUME NEW n \in Payment, movedAt[n] # Null
                 PROVE  attempt = n /\ (order.payment = "settled" \/ PaymentUnresolved(order))
      OBVIOUS
    <3>1. ~Dead(n)
      BY DEF Dead
    <3>2. attempt = n /\ attempt # 0
      BY <1>1, <3>1 DEF IInv, EarlierAreDead, Payment
    <3>3. completion # "failed"
      BY <1>1, <3>1, <3>2 DEF IInv, AnswerKept
    <3>4. completion \in {"none", "settled"}
      BY <1>1, <3>3 DEF IInv, TypeOK, Verdict
    <3> QED BY <1>1, <3>2, <3>4 DEF IInv, AnswerKept
  <2> QED BY <1>1, <2>1 DEF IInv, AnswerKept, Dead, BooksAgreeWithTheChain
<1> QED BY <1>1, Invariance, PTL

=============================================================================
