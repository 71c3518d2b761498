# agentify: a verification project

agentify sells merchants' products to software agents. An agent asks for a
price, signs an x402 payment (an EIP-3009 authorization over USDC), presents
it, and gets goods, a parcel, or a word for why not. The gateway
(`apps/gateway`) drives each purchase through a pure state machine
(`packages/core`), keeps orders in PostgreSQL, puts work for merchants on a
pg-boss queue, and has payments checked and executed by a facilitator. Around
it stand a merchants' dashboard with a WooCommerce connector, an SDK whose
worker a merchant runs, and a site scanner with workers of its own.

This directory holds TLA+ modules of the parts where money, orders and
concurrency meet, the TLC configurations that check them on small instances,
and TLAPS proofs for every size. `PROJECT.json` maps every definition to the
lines it models, and lists runs, mutants, hazards and theorems.

## 1. Inventory

| Part | State it keeps | Operations | Talks to | What is hard | What makes it right |
|---|---|---|---|---|---|
| Order machine (`packages/core/src/orders`) | one order: state, payment stage, mode, instants, held goods, attempts, closure | `createOrder`, `transition` over 16 kinds of event, `deadlines`, `outcomeFor`, `moneyInvariantViolations` | returns effects for the runner | events in any order, late and repeated; a deadline and an answer at one instant | state and payment agree; one charge at a time; one receipt; address erased once; every wait has a clock; a word said to an agent stands |
| Payments and claims (`gateway.ts` `payPurchase`, `#admit`, `#payAgain`; `store.ts`) | `payment_claims` rows; `paidBy`, `paymentFingerprint` of an order | check, claim, retain, release, forget; admit an order; present a further payment | facilitator, order's lock, payout wallet | a payment is checked with no lock held; processes race and die | an authorization buys one order, and only one checked for a charge is charged |
| Order runner (`runner.ts`) | orders, payment attempts, reminders | `apply`, `#arm`, `#settle`, `completePaymentAttempt`, `reconcilePayments`, `sweep` | store, queue, facilitator, chain | commit and external call are two steps; answers late, lost, for another attempt | charged at most once; the books agree with the chain; every charge accounted for; no order hangs |
| Merchant gate (`merchant-gate.ts`) | per merchant: places, rate, payers, line | `enter`, leave, timers | price questions, payment checks, payer reads | missed wake-ups, forgotten lines | limits, one place per payer, order of arrival |
| Dispatch (`runner.ts`, `gateway.ts`, `pgboss/queue.ts`) | envelopes on a stream, open hand-over | poll, give back, put back, unanswered, erase | worker, order | an envelope in two hands, an address after its erasure | a paid order reaches its merchant; an address does not outlive its need |
| Parked callers (`waiting.ts`, `#admit`, `#payAgain`) | callers by order and owner | wait, answer, give up, stop | purchase, merchant's answer | an answer before the park, a wake-up for nobody | no call sleeps beside an answer; none is told a dead sale is under way |
| Facilitator and chain recovery (`adapters/x402`) | a cursor over blocks | `verify`, `settle`, `reconcile` | HTTP, RPC | finality, unread blocks, replaced blocks | a verdict the chain cannot contradict, and in the end one |
| Payout wallet (`gateway.ts` `#changePayoutWallet`, `store.ts` `setPayoutWallet`) | wallet, split, pending change | change, cancel, take effect, pay out | mail, splits | announced before recorded; two sessions | no wallet comes into force unannounced; money is where it is paid out |
| SDK worker (`packages/sdk/src/worker.ts`) | messages taken, a tail per order | poll, schedule, handle, answer, stop | gateway | a stop racing an answer, no room | one handler per order; nothing sent for what was given up on; a stop ends |
| WooCommerce connector (`apps/dashboard/src/woo-*.ts`) | a ledger row per sale, a grant per shop | draw, claim, create, bind, recover, follow | shop, gateway | a create whose outcome is unknown; two processes | one create per sale; nothing delivered without the shop's order |
| Scan jobs (`apps/scanner-worker`, `packages/scanner-database`) | scans, attempts, checks | claim, heartbeat, check, commit, fail, sweep | pg-boss | two attempts at once | only the current attempt writes; a result stands; every scan ends |
| Browser observations (the same) | rows under a lease, the day's budget, runs at a provider | claim, search, reserve, start, attach, end, clean, settle | Apify | a paid run whose answer is lost; a lease lost at work | one paid run; the breaker covers the bill |
| The rest | | HTTP, pages, contracts, scoring, analytics, deployment | | request-sized or pure | |

## 2. Modules

| Module | Models |
|---|---|
| `OrderMachine` | `packages/core/src/orders`: every state, event, effect and clock, as operators over an order record. No variables. |
| `OrderLife` | One order driven by everyone who may drive it. |
| `PaymentClaims` | Racing calls of `payPurchase`, the claims table, and what each order is to a further payment. |
| `Charging` | One order's charges: `OrderMachine` composed with the attempts on the order, the facilitator, the token, the reminders, the recovery and the sweep. |
| `Dispatch` | One paid order on its way to its merchant: `OrderMachine` composed with the stream, the polls, the hand-overs, their reminders and the sweep. |
| `MerchantGate` | One merchant's line at a gate. |
| `Parks` | Calls parked on a synchronous purchase: `OrderMachine` composed with `Waiting`, the two places that park and the runner's wake-ups. |
| `ChainSearch` | The recovery's search for what became of one authorization, over a chain that grows, finalizes and replaces blocks. |
| `SettlementVerdict` | What the recovery promises the runner: the chain decides once, and the attempt is completed with that word, once. |
| `PayoutWallet` | A merchant's wallet, its changes in two sessions, and the operator's payout list. |
| `Worker` | `startWorker` of the SDK. |
| `WooLedger` | One paid sale of a connected shop, from the hand-over to the shipment. |
| `ScanJobs` | One scan, its checks, its job and its sweeper. |
| `BrowserObservations` | Observations, leases, paid runs and the daily budget. |
| `OrderMachineProofs` | Lemmas about `Transition` and the operators it is made of, for the four modules that drive it. |
| `OrderLifeProofs`, `ChargingProofs`, `DispatchProofs`, `ParksProofs` | The proofs about the module named, on top of `OrderMachineProofs`. |
| `MoneyProofs` | The proofs about `PaymentClaims`, `PayoutWallet` and `BrowserObservations`: what money may do. |
| `WorkerProofs` | The proofs about `Worker`, `ScanJobs` and `MerchantGate`: works that race for an order, a scan or a place. |
| `RecoveryProofs` | The proofs about `WooLedger` and `ChainSearch`: what is found out after a call nobody answered. |
| `MC*` | The constants of the runs. |

A module whose proofs share a module with another's names its initial state,
next-state relation and specification after itself (`GateSpec`, `ScanSpec`,
`WalletSpec`, `ChainSpec`, `ObservationSpec`); the others call them `Init`, `Next`
and `Spec`.

The modules meet at the interfaces the code has: `Charging`, `Dispatch` and
`Parks` drive the same `OrderMachine`, `Charging` takes of the recovery the
verdicts `ChainSearch` is shown to give, `Dispatch` polls as `Worker` does and
`WooLedger` is drawn to as any worker is.

### OrderMachine and OrderLife

An order is a record with the fields the machine branches on. A price, goods
and an address are kept as whether they are there, an instant as a number.
`Transition(order, event)` is `transition`: an order, a set of effects, the
merchant's answer, a delay and a rejection code. Each `From...` operator is the
function of that name in `machine.ts`, and the mutants beside them are the
mistakes the runs must notice.

`OrderLife` adds a clock, and counts what effects set off: charges unanswered
(`inFlight`), charges that went through (`taken`), receipts and erasures. There
is one action per member of `OrderEvent`. A timer may fire for any deadline and
any past instant, so a stray, early or repeated reminder is in every behaviour;
`MaxLateness` bounds how long a due one goes unnoticed. Only the payment layer
is restrained: it answers a charge it was sent, once.

### PaymentClaims

An order is kept by its *stage*, what it is to a further payment: unsold,
working, charging (the charge is out, or was given up on with its outcome
unknown), closing (the same, and the merchant has closed the order meanwhile),
taking a new payment, only returning, expired with late goods still possible,
over. A merchant may close an order in any of them that `close_called` leaves open.
A request is one call of `payPurchase` in a
process of its own; its steps are cut where the code awaits with no lock held:
the first read, the check, the claim, the decision under the order's lock, the
release. `admitOrder` and `presentVerifiedPayment` are single steps because each is
one transaction. A request may die before any step. The in-process set
`#beingChecked` is left out, because a second gateway process does not share it.
A further payment for an order that takes no new one is checked by this gateway
alone where `returningPayment` can answer, and then serves only as a return;
where it answers null, and for any other order, the payment layer checks it, for
a charge unless the payee has moved. A request remembers who checked its
payment (`by`), which is what `ChargedPaymentWasChecked` is about: `unchecked`
holds what an order took of a request that had no charge checked.
A merchant's payout address may move once, `forgetOldClaims` may run whenever a
claim is old enough, and `ValidBefore` says when an authorization ends.

The ship-to comparison is left out (it turns a payment away exactly as
`not_owner` does), and so are the parks. `bought`, `unchecked`, `returned`,
`released` and `settled` are histories.

Two presentations of one payment for one order share a claim row, so a release
by one can free it before the other keeps it; `RetainPayment` then refuses and
the whole change rolls back. "Already yours" looks at no claim, so a payment may
also get a finished purchase back after such a release, and then pay for another
order (section 6, item 5). `ReturnPaysForNothingElse` says that this is the only
way: nothing but the order's own release frees the claim of a returned payment
while its authorization is good.

### Charging

The order is a stored record; `Saves` writes it with its clocks and its attempt,
as `apply` does: reminders go on the queue before the commit, so a change that
rolls back may leave reminders and never the other way round. A committed charge is first `toSend`, then
`submitted` to the facilitator with a process `waiting` for it; `ProcessDies`
takes `toSend`, `waiting` and a half-applied chain reading away and leaves
`submitted`. The token moves a submitted authorization's money at most once and
only while valid. `FacilitatorAnswers` has the three outcomes of `settle`:
success, a refusal made before anything was broadcast, or nothing that settles
anything. `ReadChain` is one run of the recovery up to what it found and
`ApplyReading` its write, so another answer, a repeat purchase or a closure can
come between them. Hand-overs, goods and addresses are left to other modules;
an authorization cancelled by its owner is treated as one that runs out.

### Dispatch

The order is sold at instant 0 with one envelope on the stream. A poll draws an
envelope (`draw`), then records the hand-over under the order's hold
(`#handOut`), or finds the order refused for now, refused for good, its key
revoked, or the write failing, and puts the envelope back in a further step; it
may die in any of them, and a drawn envelope is never offered again. `HandOut`
also stands for `#drawFor`'s own look at the key, which ends as the hold's does:
the envelope is given back. The merchant may take an order on, deliver, refuse or close it by a call of his
own, with no hand-over behind it, whenever the machine allows it.
The sweep's read of the order, its question to the
stream and its sending are three steps, so it works from an old copy as the
code does; a parcel's envelope is then sent only under the hold. An order's
deadline may fire whenever it is due (`Charging` is where reminders of deadlines
get lost), the reminder of a silence may come again, or be lost.

Envelopes of one order differ only in when they may be drawn, so the stream is
a bag of instants; `kept` says whether the queue still has rows of drawn ones,
which the erasure must delete as well. At the clock's last instant a delayed
envelope may be drawn: that instant stands for the ones after it.

`HandOverIsNotForgotten` is stated for behaviours without a fault. A redelivered
envelope that dies with its poll is not sent again: the sweep looks at `paid`
orders only, and the order then waits for its deadline. Any word from the
merchant closes the open hand-over, one that does not apply in the order's mode
too, which is why the property leaves such orders out.

### MerchantGate

JavaScript runs each callback to its end, so each of `enter`, the leave
function and the two timers is one step. `seconds` is the truth about places
handed out within a second, `line.recent` the code's counter of it. `NextIn` is
the one pass of `#next`, a fold of `LetIn` over the line.

### Parks

A call that pays is cut where `#admit` and `#payAgain` await: the check of its
payment, the admission or the park, the presentation, the look at the order,
the sleep, the closing of what is overdue, the last read. A commit and
`#wakeTheAgent` after it are two steps, and between them stands what `#run` carries
out: a change that charges wakes nobody until its charge is over, and when `#run`
throws (`ChargeThrows`) its wake-up is skipped for good. That leaves nobody asleep
on an answer: the order a presented payment is charged for was already an answer
to everyone parked on it before, and who parks later looks at it first
(`ChargeIsAwaited` in `ParksProofs`). The calls are of one wallet: another
wallet's call is turned away before it parks. `UnderWayMeansCharging` leaves
out a gateway that is stopping and a payment that took longer to be taken than
the charge is given, because there the code answers from the clock.

### ChainSearch and SettlementVerdict

A block is a time and what it does with the authorization. A poll reads only
the finalized prefix its endpoint knows of, so `reconcile`, with its bisection,
its hint and its blocks, is one action; which read fails, how far the endpoint
lags and whether the hinted transaction is found are chosen freely. The
refinement maps the chain's final word to `truth` and the kept completion to
`word`. `VerdictIsReached` is `SettlementVerdict!Spec`, its fairness included:
no completion before the chain has decided, none that differs from it, none
that changes, and one in the end. It is stated for `ValidAfter < NotBefore`,
which is how buyers sign: a *cancellation* in a block no later than `validAfter`
is outside the window the search reads, and its attempt stays unknown.

### PayoutWallet

A wallet stands for itself and its split. A change is read (`Ask`), announced
with no lock held (`HandedOver`, `NotAnnounced`) and written where the row still
holds what was read (`Write`). A pending change takes effect by the clock alone,
in `WalletAt`, as `payoutWalletAt` computes it. `ReplacedOnlyAsAnnounced` is what
ADR-0019 says of a replacement, and it fails (section 6, item 2);
`InForceWasAnnounced` is what does hold: a wallet that comes back in that way was
itself announced its whole wait before, or is the first (`first`). `MoneyIsPaidOut` is
about one payout list: that `splitsToPayOutFor` and the row are two reads, with a
write possible in between, is not in it.

### Worker

A delivery is one message of one poll; an order handed over again is another
delivery. The loop, room, the tail of each order, the handler and the sending
are separate steps, handlers may never return, and a stop may come anywhere.
`said` and `accounted` record what the log told the merchant.

### WooLedger

The row of `woo_orders` with its seven phases, the grant with its revision, the
create request of each hand-over and press, and the shop, which may commit a
request late or never. Each statement of `woo-shops.ts` is one step with its
condition, each await of `woo-worker.ts` and `woo-recovery.ts` is a cut.
`Processes` is how many dashboards draw at once, two during a deploy. The recovery
page binds an order the merchant names only when it is Processing or Completed
(`Look`).

### ScanJobs

Run *k* of the queue's job works as attempt *k*; nothing stops the first when
the queue retries. Time is kept as three ages, each counted to the first
instant at which it no longer matters, so the model needs no clock bound and
every lateness is in it.

A run fetches the site in three rounds and writes the checks of a round before it
begins the next (`WrittenAfter`, the three lists of `emitChecks`); a check once written
is not written again by its attempt, although the score is of the evaluation at
the end. So a stored check is kept with how much was fetched when it was worked
out (`basis`), and `ScoreIsOfItsChecks` demands that this was all its result is made
of (`MadeOf`, what `evaluateChecks` reads for it): it is then the check that was
scored. Not in it: a request refused in a later round because the scan's own
limit was reached is added to the evidence of other checks, which changes their
wording and no score.

### BrowserObservations

The token of a lease is the worker that took it. A provider's run is what it
has cost so far, whether it goes on and whether anything of it is stored. It is
started with `maxTotalChargeUsd` (`apify-browser-client.ts` 52), but nothing makes
the provider keep to that, and the code does not rely on it: `actualUsageUsd` cuts
a reported usage at 9,999 only, the reconciler adds what exceeds the reservation to
the day, and the janitor has an alarm for a day past its budget
(`browser-observation-janitor.ts` 72-77). So a run here goes on costing up to
`MaxBillUsd`, a bound above `MaxRunUsd`. `OverBudgetOnlyByTheBills` says that such
bills are the only way past a day's budget: no run is reserved that does not fit.
The janitor and the reconciler may come at any time after a row's end. Aborts fail as one of
the faults. The reconciler settles a row only once no run of it goes on
(`JanitorSettles`): the provider gives a run 120 seconds at most
(`apify-browser-client.ts` 51, `env.ts` 39), and a bill is asked for half an hour
after the row's end (`browser-observation-repository.ts` 610). A run still going
then would go on to cost more than the day counts, so `BreakerCoversTheBill`
rests on that margin. It also rests on what the provider bills: its third conjunct
is about each bill up to the reservation, and is about the whole bill only if the
provider honours `maxTotalChargeUsd`. Beyond the reservation the day may count too
little: a run whose first reported usage already reaches its reservation is
settled with that usage and never reconciled, and one settled conservatively is
counted at its reservation, whatever the bill.

## 3. Runs

One run per component; each checks safety and, where the module states
fairness, liveness. The gate and the wallet of a merchant are checked in one run:
they share no variable, and a behaviour of `MCMerchant` moves one of them. One run
is expected to fail.

| Run | Instance | States | What it shows |
|---|---|---|---|
| `order_life` | 3 modes, both price checks, sale by 2, clock to 9, timers 1 late, 2 hand-overs | 317 k | money rules, payment stage, late charge answers, one receipt, open list; late goods are not charged; orders in progress end by their timers |
| `payment_claims` | 2 orders (one charged after its goods), 2 authorizations, 2 requests, clock to 4 | 1.3 M | one order per payment, kept claims, only checked charges, returns pay for nothing else, abandoned claims go |
| `charging` | synchronous and asynchronous order, 2 payments, 2 faults, clock to 5 | 83 k | charged at most once, books agree with the chain, charges accounted for, orders end |
| `dispatch` | 3 modes, 2 polls with a key each, 3 hand-overs, 1 fault, clock to 3 | 1.1 M | an erased address is on no envelope, a silent merchant is not forgotten, an ended order is handed to nobody, a paid one is handed over |
| `merchant` | 6 callers, 2 places, 2 a second, a line of 3; or 3 wallets, 2 sessions, 4 requests, a wait of 2, clock to 5; symmetry over wallets and sessions | 136 k | limits and counters, no missed wake-up, order of arrival; money is paid out, buyers pay the first wallet or an announced one |
| `payout_wallet_overtaken` | the same wallets and sessions | violated | a wallet that was left comes back in force at once (section 6, item 2) |
| `parks` | 2 calls, clock to 4; symmetry over calls | 4.2 M | no call sleeps beside an answer; none is told a dead sale is under way |
| `chain_search` | every chain of 7 blocks with gaps of 1 or 2, 2 blocks a poll | 75 k | the search passes over nothing; it implements `SettlementVerdict` |
| `sdk_worker` | an order handed over twice, 2 events of it, a price question, room for 3, batches of 2 | 1.3 M | one handler per order, what was given up stays so and nothing is lost in silence, a stop ends |
| `woo_ledger` | 2 hand-overs, 2 presses, 2 grants, 2 processes; symmetry | 981 k | one create per sale; answers rest on the shop |
| `scan_jobs` | 3 checks, one of each round, 2 attempts | 43 k | a score is of its checks, a result stands, every scan ends |
| `browser_observations` | 2 observations, 2 workers, a budget of one run, bills above a reservation, 2 days, 1 fault; symmetry over workers | 4.4 M | the breaker covers the bill, only a bill takes a day past its budget, one paid run |

`TypeOK` is a conjunct of the first invariant of each module, except `OrderLife`
and `PaymentClaims`, where it is proved.

Bounds. Policy durations are 1 to 3 ticks, the fewest that keep the code's
order between them (the price check ends before the quote, the pause of a
redelivery grows and is capped, the window ends after two pauses; in `parks`
both synchronous waits fit in the budget, as `arithmeticProblems` demands). The
clock runs past the last deadline the last act can start (`LastAct`,
`LastSale`, `LastRequest`). Two payments are the fewest in which an earlier
attempt's answer meets a later attempt; two faults let a process die and the
reminder that would have helped be lost as well. Two requests race for a
claim; a crash makes a request free to be the next caller. In `dispatch`, three
hand-overs are a first one, a redelivery and a duplicate from the sweep, and
the fulfillment deadline of the asynchronous modes lies beyond the clock, so that
such an order cannot leave `paid` by expiring; the synchronous one can. In
`chain_search` the window holds more blocks than two polls read, so the cursor
is saved and resumed at least twice. Two grants let a row refused under one be
reopened under the other. In `browser_observations` a run uses up a day's budget,
so one unit counted too little shows, and a run may cost one unit more than was
reserved for it. `scan_jobs` has no clock bound and checks deadlock; the others stop
at their bounds.

Symmetry is used in runs without liveness properties only.

Fairness. Time passes. A due reminder is delivered (`pg-boss` retries it, and the
daily sweep starts it again when it is lost). The recovery runs every minute
and in the end reads what the chain shows (a deployment without an RPC address
has no recovery, `recovery.ts` 389, and there `ChargeIsAccountedFor` is not promised);
the chain grows and finalizes. The
sweeps and `forgetOldClaims` run. In `dispatch` a merchant with a working key
keeps polling, which is what the SDK's worker does. In `scan_jobs` a live worker
goes on, because each of its requests has a deadline; the queue need not retry.
In `sdk_worker` the loop's own turns and the stop's timer come. Nothing is assumed
of buyers, merchants, handlers, requests, shops or the facilitator. Faults are
bounded by `MaxFaults` where they consume a retry: a system whose every process
dies before every write promises nothing.

## 4. Proofs

All statements are for every value of the constants under the named
assumptions of the modules (durations are natural numbers, a bound is not
negative, a claim is kept at least as long as an authorization may stay valid,
and so on). Each module proves `Init => IInv` and `IInv /\ [Next]_vars => IInv'`,
one lemma per action or group of like actions, and takes its theorems from that;
every `IInv` is also checked by TLC on the instance of its run.

`OrderMachineProofs` has one lemma per `From...` operator: the order it returns is
well-formed and `Consistent`, and its effects account for charges, receipts and
closures. They meet in `TransitionStep`. A second group is about an order that is
sold (`InHand`): what a transition does to its address, to its envelopes and to
the wait for its goods; `Dispatch` and `Parks` rest on it. `Consistent` says which payment stages,
instants and held goods each state may carry; it is much stronger than the rules
of `money.ts`, because a state reached with, say, a stray `settled` would let a
later event charge again.

| Module | Theorems | Inductive invariant, and why it is needed |
|---|---|---|
| `OrderLifeProofs`, any policy, hand-overs, length of life | `TypeCorrect`, `MoneyRulesHold`, `NobodyIsChargedTwice` (`PaymentTellsTheTruth`), `ReceiptWithTheSale` (`OneReceiptPerSale`), `AnswersAreTaken` (`ChargeAnswerIsTaken`), `PaidIsRemembered` (`PaidOrderIsNotForgotten`), `LateGoodsAreFree` (`LateGoodsAreNotCharged`) | `Consistent(order)`, the accounts of charges and receipts, and `ClosureKnown`: what a merchant knew when closing. `AnswersAreTaken` needs that an unresolved payment occurs only in states that take both answers. |
| `ChargingProofs`, any number of payments, faults and instants | `PaysAtMostOnce` (`ChargedAtMostOnce`), `BooksAgree` (`BooksAgreeWithTheChain`) | Every attempt but the current one is `Dead`: it moved nothing, and the facilitator either no longer has it or holds it past its validity, so that the token can never execute it. A kept answer and a reading not yet applied are true of the chain (`AnswerKept`, `ReadingHolds`); a payment being verified is the order's first (`VerifiedIsFirst`). |
| `DispatchProofs`, any policy, mode, polls, keys, faults | `AddressErased` (`AddressIsNowhereAfterErasure`), `HandOverRemembered` (`HandOverIsNotForgotten`), `NothingEndedIsHandedOut` (`EndedOrderIsNotHandedOut`) | The row holds the address exactly while the order needs it, and once it does not, the stream has neither an envelope of the parcel nor a drawn one kept (`Address`); the deliveries spent, with the one open, are no more than the real hand-overs, and a reminder of a silence is of one of them (`Accounts`); without a fault an unanswered hand-over has its reminder, an envelope on the stream or in a poll, or no redelivery left (`Unanswered => Remembered`) |
| `ParksProofs`, any policy, budget and number of calls | `NobodySleeps` (`NobodySleepsOnAnAnswer`), `InProgressMeansCharging` (`UnderWayMeansCharging`) | A wake-up is on its way only once the goods are no longer awaited, a charge that skips its wake-up was of an order that had its answer before (`ChargeIsAwaited`), a call asleep after an answer has one to come, and a call awake while goods are awaited has waited as long as its park lasts (`OrderOK`, `CallOK`). |
| `MoneyProofs`: `PaymentClaims`, any number of orders, payments, wallets, requests | `ClaimsTypeCorrect`, `TakenPaymentsAreKept`, `OneOrderPerPayment`, `OnlyCheckedPaymentsAreCharged`, `ReturnedPaymentsPayNothingElse` | A request under way carries an order and a payment; what it calls fit to charge has been found fit; an order that exists has taken the payment it is charged with. For the last theorem also `RInv`: a claim outlives its authorization (`ClaimOutlivesPayment`, from `Asked <= ClaimRetention`), and a returned payment is `Guarded`: claimed by its order, released by it, or past its validity and settled for no other. |
| `MoneyProofs`: `PayoutWallet`, any wallets, sessions, requests | `MoneyIsPaid` (`MoneyIsPaidOut`), `PaysAnnouncedWallets` (`InForceWasAnnounced`) | The wallet on the row, the one a request read and the one it will write in force were announced the whole wait before, or are the first (`Announced`, `AskOK`); a pending change, stored or about to be, was announced its whole wait before its instant (`Told`); each wallet on the row is recorded (`Recorded`). |
| `MoneyProofs`: `BrowserObservations`, any observations, workers, days, faults and budget | `PaidForOnce` (`OnePaidRun`), `DayExceedsByOverchargesAlone` (`OverBudgetOnlyByTheBills`), `BreakerCountsTheBill` (`BreakerCoversTheBill`) | A worker that may still start the paid run is alone at its observation, which has no run yet (`WorkOK`); an ended row counts all that was reserved, or its run is over and its bill counted, as far as it was reserved for (`EntryOK`); a day's counters are the sums over its rows (`BooksOK`). |
| `WorkerProofs`: `Worker`, any messages, batches and room | `OneHandlerHolds` (`OneHandlerPerOrder`), `GivenUpHolds` (`GivenUpStaysGivenUp`) | The works of an order form a line in which only the first has begun (`WorkLine`, `BegunIsFirst`), no second fulfilment of it is in hand (`OneFulfilment`), and phases, words and accounts agree (`PhasesTell`, `InSight`). |
| `RecoveryProofs`: `WooLedger`, any hand-overs, presses, grants, processes | `OneCreate` (`OneCreatePerSale`), `AnswersRest` (`AnswersRestOnTheShop`) | Whoever may send the create is the row's one maker, and holds it before a request leaves (`OneMaker`, `TakenFirst`); what the row, a hand-over and the follower carry is in the shop (`RowRests`, `JobsRest`, `FollowRests`). |
| `RecoveryProofs`: `ChainSearch`, any window, pace of the chain, blocks a poll, lag, failed reads | `SearchPassesOverNothing` (`CursorNotPastTheUse`), `SearchImplementsTheVerdict` (`Verdict!SafeSpec`) | Blocks are at least a second apart, so that the bisection may begin as many blocks below the head as the head is seconds past the window (`Paced`); an authorization is used once (`UsedOnce`) and only while the token accepts it (`Accepted`); the saved cursor lies before the use (`PollsOK`) |
| `WorkerProofs`: `ScanJobs`, any checks and deadlines, the queue's two attempts | `ScoreHolds` (`ScoreIsOfItsChecks`), `ResultStandsHolds` (`ResultStands`) | A run is fetched once and so begins with nothing written (`FetchedOnce`, `NothingBeforeTheClaim`), what the run of the row's attempt has written is in the rows (`WritesAreInTheRows`), a check is written no sooner than what it is made of is fetched (`WrittenInTime`), and a second attempt is never given back (`SecondIsTheLast`). |
| `WorkerProofs`: `MerchantGate`, any callers, payers, places, rate and line | `GateKeepsItsLimits` (`LimitsHold`), `GateLeavesNoPlaceFree` (`NobodyWaitsForAFreePlace`), `GateServesInTurn` (`PlacesGoInTurn`) | The counters are the places held (`Counts`), the line is the callers that wait, each once (`Queues`), no payer stands twice in either (`Apart`), and nobody waits that could be let in (`Fair`). The same holds after each waiter of a pass (`Passed`), because a place taken or a payer held only makes it harder to be let in. A forgotten line is equal to the one that comes back (`NothingIsForgotten`). |

Three of these rest on what a recursive definition computes: the sums over the
rows of a day, the bisection, and the pass over a merchant's line. The library's
induction theorems take an operator as a parameter and cannot be used, so each of
these is proved by its least counterexample: of all subsets of a finite set, of
all distances between the ends of the bisection, of all places in line, there is
a least at which the claim fails (`SmallestSet`, `LeastNatural`, from the library's
`WFMin` and the well-foundedness of the finite subsets of a set), and the step
before it refutes it. That the recursion has a solution at all is proved in the
same way for the folds, and by naming the solution for the bisection.

Only model-checked: the liveness properties `InProgressEnds`, `UnkeptClaimGoes`,
`ChargeIsAccountedFor`, `OrderDoesNotHang`, `PaidOrderIsHandedOver`, `StopEnds` and
`ScanEnds`, and the fairness in `VerdictIsReached`, whose safety part is
`SearchImplementsTheVerdict`. The prover has neither fairness nor `ENABLED`. Every
safety invariant and every action property a run checks is also proved.

## 5. Not modelled, and the plan

Next, in this order:

1. `Worker` composed with `Dispatch` over one stream.
2. Price questions on the stream and who waits for them.
3. The connector's cart registry and price answers.

Not modelled:

* The sweep of receipts (`runner.ts` 757-775). It may replace a receipt the
  ordinary path wrote after the sweep's snapshot; the code's comment
  (`runner.ts` 718-722) knows it and accepts it, and no document promises more.
* That a browser observation ends. It needs fairness of both workers, the
  janitor and the provider over the state space of its safety run, more than
  TLC finishes.
* The dashboard's sign-in, codes and sessions, API keys: single conditional
  statements.
* HTTP routing and wording, pages, contracts and schemas, catalogue readiness,
  scanner parsing and scoring, analytics, consent and logs, deployment scripts.
  They keep no shared state, or are pure functions their unit tests enumerate.
  They are most of the repository's lines.

## 6. Where the code and its documents part

Each was met while modelling or proving. The second is a run of its own; the others
break no property above.

1. **A refusal's reason.** `MerchantGate.enter` (`merchant-gate.ts` 52-54) says a payer
   already in line is "the payer's refusal, unless the merchant's places were
   taken as well". Line 68 answers `"payer"` before it looks at the places: in
   `MerchantGate`, let both places be taken, a payer wait, and a second call of that
   payer come. No limit is broken.
2. **A wallet put back.** ADR-0019 (56-57) says a conditional write "refuses one
   overtaken meanwhile". `setPayoutWallet` (`store.ts` 410) compares the row's
   columns, and a pending change takes effect with no write (`runtime.ts` 146).
   A request that read the row before that instant and writes after it passes
   the comparison and puts the earlier wallet back in force at once, unannounced.
   `payout_wallet_overtaken` shows it as a violation of `ReplacedOnlyAsAnnounced`. No
   wallet nobody was ever told of comes into force in this way: that is
   `InForceWasAnnounced`, which is proved.
3. **Storage after an abort that failed.** `browser-observation-job.ts` 309 aborts "so a
   live Actor cannot recreate storage after storage_cleaned_at is recorded".
   Lines 251 and 313 and the janitor's line 31 pass over an abort's error, so in
   `BrowserObservations` a fault at the abort lets `ActorWrites` store something
   after the row is marked clean.
4. **"No order was created".** The header of `woo-worker.ts` (14) and the refusals
   at 216 and 226 say so; `recordPrecreateRefusal` (`woo-shops.ts` 782-786) changes
   nothing when another process (ADR-0004, 24-25) has claimed the row meanwhile,
   and the refusal is given all the same. In `WooLedger`, let one hand-over
   inspect, another claim and create, and the first refuse. One create has left,
   as `OneCreatePerSale` says; the gateway was told none had.
5. **A returned payment released.** The port (`ports/store.ts` 1135) says that
   `claimPayment` "binds one payment to one order for good", and
   `returning-payment.ts` (11) that an authorization is bound by its claim. A first
   proof of `ReturnPaysForNothingElse` without its exception failed here. Let two
   requests check one payment as a return of a working order and both claim it;
   let the order expire and get its goods late, so that it takes a new payment;
   one request is then turned away and releases the claim (`gateway.ts` `#payAgain`);
   the order is paid with another payment; and the second request is answered
   "already yours" (`runner.ts` `presentVerifiedPayment`), which reads no claim. The payment
   is free to buy another order although it has just got one back. Nobody is
   charged twice, and both orders are paid for. TLC shows it on the instance in
   which both authorizations are valid until 1 and requests act at 0, once the
   exception is taken out; in the run's own instance the two are never valid
   together, and the theorem covers the rest.
