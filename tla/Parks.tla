-------------------------------- MODULE Parks --------------------------------
(***************************************************************************)
(* A buyer's calls parked on a synchronous purchase: Waiting               *)
(* (src/apps/gateway/src/app/waiting.ts), the two places that park, #admit *)
(* and #payAgain (src/apps/gateway/src/app/gateway.ts), and the runner     *)
(* that wakes them once a committed order has an answer.                   *)
(*                                                                         *)
(* One offer, several calls of one wallet that pay for it, each with an    *)
(* authorization of its own, and the order machine under them; the order   *)
(* is born with its payer, so another wallet's call is turned away before  *)
(* it parks.  A commit and the wake-up after it are two steps: the process *)
(* does other things in between.                                           *)
(***************************************************************************)
EXTENDS OrderMachine, FiniteSetsExt

CONSTANTS
    Calls,              \* calls that pay
    SyncBudgetMs,       \* how long a call is parked, from its payment's check
    LastAct,            \* bound: the last instant a call, the merchant or a charge acts at
    MaxTime             \* bound: the last instant of the clock

(* config.ts, arithmeticProblems: both synchronous waits fit in the budget. *)
ASSUME ParksAssumption ==
    /\ SyncBudgetMs \in Nat /\ SyncResponseMs + SettleResponseMs <= SyncBudgetMs
    /\ LastAct \in Nat /\ MaxTime \in Nat

VARIABLES
    now,        \* the clock
    stored,     \* whether the offer has become an order
    order,      \* the stored order
    charging,   \* whether a charge of it is out
    at,         \* at[c]: how far call c has come
    until,      \* until[c]: when its park runs out, SyncBudgetMs after its check
    parked,     \* #parked: the calls asleep under the purchase's key
    waking,     \* whether a committed change is about to wake them
    told,       \* told[c]: what call c was answered
    stopped     \* whether the gateway is shutting down

vars == <<now, stored, order, charging, at, until, parked, waking, told, stopped>>
books == <<stored, order, charging>>

Steps == {"idle", "checked", "admitted", "parked", "charging", "recharging", "presented",
          "giving_up", "waiting", "closing", "reading", "done"}
Told == {"nothing", "not_taken", "settled", "under_way", "error"}

Init ==
    /\ now = 0 /\ stored = FALSE /\ charging = FALSE
    /\ order = CreateOrder("sync", "card", 0).order
    /\ at = [c \in Calls |-> "idle"]
    /\ until = [c \in Calls |-> 0]
    /\ parked = {} /\ waking = FALSE /\ stopped = FALSE
    /\ told = [c \in Calls |-> "nothing"]

InProgress(o) == OutcomeFor(o) = "in_progress"

-----------------------------------------------------------------------------
(* The runner and the parked calls.                                        *)

\* #wakeTheAgent: "in progress" is not an answer.
HasAnAnswer(o) == ~InProgress(o)

(* apply, once committed: the charge #run has to send, or the wake-up to   *)
(* come.  A change that charges wakes nobody until its charge is over.     *)
Commits(result) ==
    /\ IsOk(result)
    /\ order' = result.order
    /\ charging' = (charging \/ "execute_payment" \in result.effects)
    /\ waking' = (waking \/ (HasAnAnswer(result.order) /\ "execute_payment" \notin result.effects))

WakeTheAgent ==
    /\ waking /\ waking' = FALSE
    /\ parked' = {}
    /\ UNCHANGED <<now, books, at, until, told, stopped>>

\* The park's own timer.
TimerRunsOut(c) ==
    /\ c \in parked /\ now >= until[c]
    /\ parked' = parked \ {c}
    /\ UNCHANGED <<now, books, at, until, waking, told, stopped>>

\* stop: giveUpAll.
Stop ==
    /\ ~stopped /\ stopped' = TRUE
    /\ parked' = {}
    /\ UNCHANGED <<now, books, at, until, waking, told>>

-----------------------------------------------------------------------------
(* A call.                                                                 *)
Goes(c, step) == at' = [at EXCEPT ![c] = step]
Ends(c, word) == Goes(c, "done") /\ told' = [told EXCEPT ![c] = word]

(* #admit: the first verified payment becomes the order, and its caller    *)
(* parks after the commit.                                                 *)
Admit(c) ==
    /\ at[c] = "idle" /\ ~stored /\ now <= LastAct
    /\ stored' = TRUE
    /\ \E presented \in {Occurs(order, "payment_presented", now).order} :
         Commits(Occurs(presented, "payment_verified", now))
    /\ Goes(c, "admitted")
    /\ UNCHANGED <<now, until, parked, told, stopped>>

ParkAdmitted(c) ==
    /\ at[c] = "admitted"
    /\ parked' = parked \cup {c}
    /\ until' = [until EXCEPT ![c] = now + SyncBudgetMs]
    /\ Goes(c, "presented")
    /\ UNCHANGED <<now, books, waking, told, stopped>>

(* #payAgain, up to the instant its payment has checked out.               *)
TakesNoPayment == PaymentUnresolved(order) \/ EndedWithNothingHeld(order)

Check(c) ==
    /\ at[c] = "idle" /\ stored /\ now <= LastAct
    /\ \/ TakesNoPayment /\ Ends(c, "not_taken") /\ UNCHANGED until
       \/ /\ ~TakesNoPayment
          /\ until' = [until EXCEPT ![c] = now + SyncBudgetMs]
          /\ Goes(c, "checked") /\ UNCHANGED told
    /\ UNCHANGED <<now, books, parked, waking, stopped>>

\* What is left of the budget after claimPayment.
Park(c) ==
    /\ at[c] = "checked"
    /\ parked' = parked \cup {c}
    /\ until' = [until EXCEPT ![c] = Max({now, @})]
    /\ Goes(c, "parked")
    /\ UNCHANGED <<now, books, waking, told, stopped>>

\* eventsForVerifiedPayment: the states that take a new charge.
TakesANewPayment(o) == o.state = "delivered_unpaid" \/ (o.state = "expired" /\ o.heldFulfillment)

(* presentVerifiedPayment, under the order's lock: already the buyer's,    *)
(* refused, or taken and then charged before the call goes on.             *)
Repeated == Occurs(order, "purchase_repeated", now)

Present(c) ==
    /\ at[c] = "parked"
    /\ \/ /\ ~TakesANewPayment(order)
          /\ Goes(c, "presented")
          /\ UNCHANGED <<order, charging, parked, waking, told>>
       \/ /\ TakesANewPayment(order)
          /\ \E repeated \in {Repeated} :
             \E verified \in {Occurs(repeated.order, "payment_verified", now)} :
               IF IsOk(repeated) /\ IsOk(verified)
               THEN /\ Commits(verified)
                    /\ Goes(c, IF HasAnAnswer(verified.order) THEN "recharging" ELSE "charging")
                    /\ UNCHANGED <<parked, told>>
               ELSE /\ parked' = {} /\ Ends(c, "not_taken")
                    /\ UNCHANGED <<order, charging, waking>>
    /\ UNCHANGED <<now, stored, until, stopped>>

\* #run is over, and #wakeTheAgent is given the order as it was committed.
Charged(c) ==
    /\ at[c] \in {"charging", "recharging"} /\ ~charging
    /\ waking' = (waking \/ at[c] = "recharging")
    /\ Goes(c, "presented")
    /\ UNCHANGED <<now, books, until, parked, told, stopped>>

\* #run throws: no wake-up, the call fails, and its park is left to its timer.
ChargeThrows(c) ==
    /\ at[c] \in {"charging", "recharging"} /\ ~charging
    /\ Ends(c, "error")
    /\ UNCHANGED <<now, books, until, parked, waking, stopped>>

\* Mutant: a call that did not change the order goes straight to sleep.
AlwaysWaits(o) == FALSE
\* The order as it is read once the call is parked: it may have ended before.
NothingToWaitFor(o) == ~InProgress(o)

Look(c) ==
    /\ at[c] = "presented"
    /\ Goes(c, IF NothingToWaitFor(order) THEN "giving_up" ELSE "waiting")
    /\ UNCHANGED <<now, books, until, parked, waking, told, stopped>>

GiveUp(c) ==
    /\ at[c] = "giving_up"
    /\ parked' = {}
    /\ Goes(c, "waiting")
    /\ UNCHANGED <<now, books, until, waking, told, stopped>>

Awake(c) ==
    /\ at[c] = "waiting" /\ c \notin parked
    /\ Goes(c, "closing")
    /\ UNCHANGED <<now, books, until, parked, waking, told, stopped>>

(* #closeOverdueSynchronously: the timer of the merchant's deadline may    *)
(* land after the agent's wait ends.                                       *)
Overdue == {d \in Deadlines(order) : d.kind = "sync_response" /\ d.at <= now}

\* Mutant: the deadline is left to its reminder.
LeftToItsReminder(c) ==
    /\ at[c] = "closing" /\ Goes(c, "reading")
    /\ UNCHANGED <<now, books, until, parked, waking, told, stopped>>
CloseOverdue(c) ==
    /\ at[c] = "closing"
    /\ Goes(c, "reading")
    /\ \/ /\ Overdue = {}
          /\ UNCHANGED <<order, charging, waking>>
       \/ \E due \in Overdue : Commits(Expired(order, due))
    /\ UNCHANGED <<now, stored, until, parked, told, stopped>>

\* #wherePurchaseStands.
Tell(c) ==
    /\ at[c] = "reading"
    /\ Ends(c, IF InProgress(order) THEN "under_way" ELSE "settled")
    /\ UNCHANGED <<now, books, until, parked, waking, stopped>>

-----------------------------------------------------------------------------
(* The merchant, the charge, the reminders and the clock.                  *)
Rest == <<now, stored, at, until, parked, told, stopped>>

MerchantActs ==
    /\ stored /\ now <= LastAct
    /\ \E kind \in {"order_dispatched", "handler_delivered", "handler_refused", "close_called"} :
         /\ kind = "order_dispatched" => order.state = "paid"
         /\ Commits(Occurs(order, kind, now))
    /\ UNCHANGED Rest

\* #settle: the answer, or none within the request's time.
ChargeAnswers ==
    /\ charging
    /\ \E kind \in {"payment_settled", "payment_settle_failed", "nothing"} :
         \/ /\ kind = "nothing" /\ charging' = FALSE
            /\ UNCHANGED <<order, waking>>
         \/ /\ kind # "nothing"
            /\ \E result \in {Occurs(order, kind, now)} :
                 /\ IsOk(result)
                 /\ order' = result.order /\ charging' = FALSE
                 /\ waking' = (waking \/ HasAnAnswer(result.order))
    /\ UNCHANGED Rest

ReminderFires ==
    /\ stored
    /\ \E d \in Deadlines(order) : d.at <= now /\ Commits(Expired(order, d))
    /\ UNCHANGED Rest

Tick ==
    /\ now < MaxTime /\ now' = now + 1
    /\ UNCHANGED <<books, at, until, parked, waking, told, stopped>>

CallStep(c) ==
    \/ Admit(c) \/ ParkAdmitted(c) \/ Check(c) \/ Park(c) \/ Present(c) \/ Charged(c)
    \/ ChargeThrows(c) \/ Look(c) \/ GiveUp(c) \/ Awake(c) \/ CloseOverdue(c) \/ Tell(c)

Next ==
    \/ \E c \in Calls : CallStep(c) \/ TimerRunsOut(c)
    \/ WakeTheAgent \/ Stop
    \/ MerchantActs \/ ChargeAnswers \/ ReminderFires \/ Tick

Spec == Init /\ [][Next]_vars

-----------------------------------------------------------------------------
(* Every variable has its type, and only a call that has parked sleeps.    *)
TypeOK ==
    /\ now \in 0..MaxTime /\ stored \in BOOLEAN /\ order \in Order
    /\ charging \in BOOLEAN /\ stopped \in BOOLEAN /\ waking \in BOOLEAN
    /\ at \in [Calls -> Steps] /\ told \in [Calls -> Told]
    /\ until \in [Calls -> Nat]
    /\ parked \subseteq {c \in Calls : at[c] \notin {"idle", "checked", "admitted"}}

(* No call sleeps on an order that has its answer: whether the answer came *)
(* before the park, between the park and the look at the order, or after,  *)
(* the call is awake or a wake-up is on its way.                           *)
NobodySleepsOnAnAnswer ==
    /\ TypeOK
    /\ \A c \in parked : at[c] = "waiting" /\ ~InProgress(order) => waking

(* A buyer told "in progress" is told so because his charge is being       *)
(* decided, never because the merchant's clock was still to be applied:    *)
(* the park outlasts the goods' clock, and what is overdue is closed       *)
(* first.  Left out: a gateway that stops, and a payment that took longer  *)
(* to be taken than the charge is given.                                   *)
UnderWayMeansCharging ==
    [][\A c \in Calls : told[c] # told'[c] /\ told'[c] = "under_way" =>
         \/ stopped \/ order.payment = "settling"
         \/ order.paidAt + SyncResponseMs > until[c]]_vars
=============================================================================
