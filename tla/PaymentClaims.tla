---------------------------- MODULE PaymentClaims ----------------------------
(***************************************************************************)
(* Payments racing for orders.  A payment is one signed authorization; it  *)
(* may buy at most one order, and only the payment layer's check makes it  *)
(* fit to charge.  Requests of payPurchase run in gateway processes of     *)
(* their own: they read the order, have the payment checked with no lock   *)
(* held, claim it, and decide under the order's lock; each may die between *)
(* any two of those steps.  The claims table is what binds them.           *)
(*                                                                         *)
(* An order is kept here by its stage, what its state and payment mean to  *)
(* a further payment; OrderMachine has the order itself.                   *)
(***************************************************************************)
EXTENDS Naturals, FiniteSets

CONSTANTS Orders,          \* order identifiers, one for each stamped price
          ChargedAfter,    \* the orders charged after their goods (synchronous)
          Payments,        \* signed authorizations
          Payers,          \* wallets
          PayerOf,         \* PayerOf[p]: the wallet that signed p
          ValidBefore,     \* ValidBefore[p]: the instant p stops being valid
          Asked,           \* how long an authorization may stay valid at its check
          ClaimRetention,  \* how long a claim nobody kept is remembered
          Requests,        \* calls of payPurchase under way at once
          LastRequest,     \* bound: the last instant a request takes a step at
          MaxTime,         \* bound: the last instant of the clock
          Nobody           \* no order, and no payer

ASSUME ClaimsAssumption ==
    /\ ChargedAfter \subseteq Orders
    /\ PayerOf \in [Payments -> Payers]
    /\ ValidBefore \in [Payments -> Nat]
    /\ Asked \in Nat /\ ClaimRetention \in Nat /\ Asked <= ClaimRetention
    /\ LastRequest \in Nat /\ MaxTime \in Nat
    /\ Nobody \notin Orders /\ Nobody \notin Payers

VARIABLES
    now,        \* the clock
    merchant,   \* "as_priced", or "moved": paid at another address since
    stage,      \* stage[o]: what the order is to a further payment
    owner,      \* owner[o]: paidBy, the wallet whose payment the order took
    charge,     \* charge[o]: paymentFingerprint, the payment it is charged with
    claim,      \* claim[p]: the row of payment_claims, holder Nobody for no row
    request,    \* request[r]: where a call of payPurchase has got to
    bought,     \* every <<o, p>>: order o took payment p to charge it
    unchecked,  \* every <<o, p>>: o took p although its request had no charge checked
    returned,   \* every <<o, p>>: p got back the finished purchase o, uncharged
    released,   \* every <<o, p>>: order o gave its claim on p up
    settled     \* every <<o, p>>: the charge of p for o moved the money

vars == <<now, merchant, stage, owner, charge, claim, request,
          bought, unchecked, returned, released, settled>>

orderVars == <<stage, owner, charge>>
history == <<bought, unchecked, returned, released, settled>>

(* "none": the price is unsold.  "working": the goods are being made for a *)
(* verified payment.  "charging": the charge is out, or was given up on    *)
(* with its outcome unknown.  "closing": the same, and its merchant closed *)
(* the order meanwhile.  "unpaid": goods are held and a new payment is     *)
(* taken.  "returns": paid, or closed with an owner; a payment only        *)
(* returns it.                                                             *)
(* "expired": ended with nothing held, late goods may still come.          *)
(* "over": ended with nothing held.                                        *)
Stage == {"none", "working", "charging", "closing", "unpaid", "returns", "expired", "over"}

UnresolvedPayment(o) == stage[o] \in {"charging", "closing"}
OverWithNothingHeld(o) == stage[o] \in {"expired", "over"}
TakesANewPayment(o) == stage[o] = "unpaid"

Step == {"idle", "checking_new", "admitting", "checking", "checked", "claimed",
         "releasing"}

Claim == [holder : Orders \union {Nobody}, hold : {"none", "claimed", "retained"}, at : Nat]

NoClaim == [holder |-> Nobody, hold |-> "none", at |-> 0]

Request == [step : Step, order : Orders \union {Nobody}, payment : Payments \union {Nobody},
            payee : {"as_priced", "moved"}, fit : {"charge", "return", "undecided"},
            by : {"nobody", "gateway", "payment_layer"}]
NoRequest == [step |-> "idle", order |-> Nobody, payment |-> Nobody,
              payee |-> "as_priced", fit |-> "undecided", by |-> "nobody"]

Init ==
    /\ now = 0 /\ merchant = "as_priced"
    /\ stage = [o \in Orders |-> "none"]
    /\ owner = [o \in Orders |-> Nobody]
    /\ charge = [o \in Orders |-> Nobody]
    /\ claim = [p \in Payments |-> NoClaim]
    /\ request = [r \in Requests |-> NoRequest]
    /\ bought = {} /\ unchecked = {} /\ returned = {} /\ released = {} /\ settled = {}

-----------------------------------------------------------------------------
(* A request.                                                              *)

At(r, step) == now <= LastRequest /\ request[r].step = step
Goes(r, step) == request' = [request EXCEPT ![r].step = step]
Leaves(r) == request' = [request EXCEPT ![r] = NoRequest]

Used(p) == \E o \in Orders : <<o, p>> \in settled
ValidNow(p) == now < ValidBefore[p] /\ ValidBefore[p] <= now + Asked

(* payPurchase and the first reads of #admit and #payAgain: the order as it *)
(* stands, and where its merchant is paid.  An unresolved charge or an     *)
(* ending with nothing held turns the payment away unchecked.              *)
Arrive(r) ==
    /\ At(r, "idle")
    /\ \E o \in Orders, p \in Payments :
         /\ ~UnresolvedPayment(o) /\ ~OverWithNothingHeld(o)
         /\ request' = [request EXCEPT ![r] =
           [step |-> IF stage[o] = "none" THEN "checking_new" ELSE "checking",
            order |-> o, payment |-> p, payee |-> merchant,
            fit |-> IF stage[o] # "none" /\ ~TakesANewPayment(o)
                    THEN "return" ELSE "undecided", by |-> "nobody"]]
    /\ UNCHANGED <<now, merchant, orderVars, claim, history>>

\* The check of a price's first payment: standing, window, the payment layer.
CheckNew(r) ==
    LET p == request[r].payment
    IN  /\ At(r, "checking_new")
        /\ IF request[r].payee = "as_priced" /\ ValidNow(p) /\ ~Used(p)
           THEN request' = [request EXCEPT ![r].step = "admitting", ![r].fit = "charge",
                                           ![r].by = "payment_layer"]
           ELSE Leaves(r)
        /\ UNCHANGED <<now, merchant, orderVars, claim, history>>

\* Mutant: a claim another order holds is taken over by the admission.
ClaimIsFree(o, p) == TRUE

\* The insert of admitOrder does nothing where another order's row stands.
ClaimIsOurs(o, p) == claim[p].holder \in {Nobody, o}

\* The order takes the request's payment, to be charged.
Accepts(r, next) ==
    LET o == request[r].order
        p == request[r].payment
    IN  /\ stage' = [stage EXCEPT ![o] = next]
        /\ owner' = [owner EXCEPT ![o] = PayerOf[p]]
        /\ charge' = [charge EXCEPT ![o] = p]
        /\ bought' = bought \union {<<o, p>>}
        /\ unchecked' = IF request[r].by = "payment_layer" THEN unchecked
                        ELSE unchecked \union {<<o, p>>}

(* admitOrder, one transaction: the order under this identifier, where the *)
(* merchant is paid, and the claim are read again inside it.  The try-lock *)
(* turns a request away (busy) while another is admitting the same order.  *)
Admit(r) ==
    LET o == request[r].order
        p == request[r].payment
        refused == stage[o] # "none" \/ merchant # "as_priced" \/ ~ClaimIsOurs(o, p)
        rival == \E q \in Requests \ {r} : /\ request[q].step = "admitting"
                                           /\ request[q].order = o
    IN  /\ At(r, "admitting")
        /\ Leaves(r)
        /\ \/ /\ refused \/ rival
              /\ UNCHANGED <<orderVars, claim, bought, unchecked>>
           \/ /\ ~refused
              /\ claim' = [claim EXCEPT ![p] =
                    [holder |-> o, hold |-> "retained",
                     at |-> IF claim[p].holder = o THEN claim[p].at ELSE now]]
              /\ Accepts(r, IF o \in ChargedAfter THEN "working" ELSE "charging")
        /\ UNCHANGED <<now, merchant, returned, released, settled>>

\* returningPayment: a claim this order has kept is the one that paid it.
NotYetUsedHere(o, p) ==
    claim[p].holder = Nobody \/ (claim[p].holder = o /\ claim[p].hold # "retained")

(* The check of a further payment.  For an order that takes no new one it  *)
(* is made `here`, by this gateway alone, from the signature, the claims   *)
(* and the chain where that answers; where the signature cannot be told    *)
(* here, and for any other order, by the payment layer.  The order is read *)
(* again after it.                                                         *)
Check(r) ==
    LET o == request[r].order
        p == request[r].payment
        stillOpen == ~UnresolvedPayment(o) /\ owner[o] = PayerOf[p]
    IN  /\ At(r, "checking")
        /\ \E here \in {FALSE} \union {request[r].fit = "return"} :
             \/ /\ ValidNow(p)
                /\ IF here THEN NotYetUsedHere(o, p) ELSE ~Used(p)
                /\ IF stillOpen
                   THEN request' = [request EXCEPT ![r].step = "checked",
                                      ![r].fit = IF here \/ request[r].payee = "moved"
                                                 THEN "return" ELSE "charge",
                                      ![r].by = IF here THEN "gateway" ELSE "payment_layer"]
                   ELSE Leaves(r)
             \/ /\ ~ValidNow(p) \/ Used(p) \/ (here /\ ~NotYetUsedHere(o, p))
                /\ Leaves(r)
        /\ UNCHANGED <<now, merchant, orderVars, claim, history>>

\* claimPayment: one statement; the row that stands says who holds the payment.
ClaimPayment(r) ==
    LET o == request[r].order
        p == request[r].payment
    IN  /\ At(r, "checked")
        /\ claim' = IF claim[p].holder # Nobody THEN claim
                    ELSE [claim EXCEPT ![p] = [holder |-> o, hold |-> "claimed", at |-> now]]
        /\ IF claim'[p].holder = o THEN Goes(r, "claimed") ELSE Leaves(r)
        /\ UNCHANGED <<now, merchant, orderVars, history>>

\* The retain_payment write: refused, and the order's change with it, where the
\* claim is no longer this order's.
RetainPayment(o, p) ==
    /\ claim[p].holder = o
    /\ claim' = [claim EXCEPT ![p].hold = "retained"]

\* Mutant: a payment checked only for a return is charged all the same.
FitToCharge(r) == TRUE

\* only_returns turns away a payment that was not checked for a charge.
MayBeCharged(r) == request[r].fit = "charge"

(* presentVerifiedPayment: who owns the order and what it takes are decided *)
(* under its lock.                                                         *)
Present(r) ==
    LET o == request[r].order
        p == request[r].payment
        ours == owner[o] = PayerOf[p]
    IN  /\ At(r, "claimed")
        /\ \/ \* not_owner, only_returns: turned away, and the claim given up
              /\ ~ours \/ (TakesANewPayment(o) /\ ~MayBeCharged(r))
              /\ Goes(r, "releasing")
              /\ UNCHANGED <<orderVars, claim, history>>
           \/ \* already_yours, and refused while a charge is out: the claim stands
              /\ ours /\ ~TakesANewPayment(o)
              /\ Leaves(r)
              /\ returned' = IF stage[o] = "returns" THEN returned \union {<<o, p>>}
                             ELSE returned
              /\ UNCHANGED <<orderVars, claim, bought, unchecked, released, settled>>
           \/ \* took
              /\ ours /\ TakesANewPayment(o) /\ MayBeCharged(r)
              /\ Leaves(r)
              /\ RetainPayment(o, p)
              /\ Accepts(r, "charging")
              /\ UNCHANGED <<returned, released, settled>>
           \/ \* the claim was lost meanwhile: the whole change is rolled back
              /\ ours /\ TakesANewPayment(o) /\ MayBeCharged(r)
              /\ claim[p].holder # o
              /\ Leaves(r)
              /\ UNCHANGED <<orderVars, claim, history>>
        /\ UNCHANGED <<now, merchant>>

\* Mutant: a claim is released whether or not its order kept it.
ReleasesKept(o, p) == claim[p].holder = o

Releasable(o, p) == claim[p].holder = o /\ claim[p].hold # "retained"

\* releaseClaim.
Release(r) ==
    LET o == request[r].order
        p == request[r].payment
    IN  /\ At(r, "releasing")
        /\ IF Releasable(o, p)
           THEN claim' = [claim EXCEPT ![p] = NoClaim] /\ released' = released \union {<<o, p>>}
           ELSE UNCHANGED <<claim, released>>
        /\ Leaves(r)
        /\ UNCHANGED <<now, merchant, orderVars, bought, unchecked, returned, settled>>

\* A process dies, or the check refuses or throws for reasons of its own.
Crash(r) ==
    /\ request[r].step # "idle"
    /\ Leaves(r)
    /\ UNCHANGED <<now, merchant, orderVars, claim, history>>

-----------------------------------------------------------------------------
(* What else moves: the orders, the merchant, the clock, the daily job.    *)

\* The stage an order moves to when its goods or its deadline come.
Moves(o, from, to) ==
    /\ stage[o] = from
    /\ stage' = [stage EXCEPT ![o] = to]
    /\ UNCHANGED <<now, merchant, owner, charge, claim, request, history>>

GoodsArrive(o) == Moves(o, "working", "charging")
GoodsLate(o) == Moves(o, "expired", "unpaid")
GoodsOverdue(o) == Moves(o, "working", "expired")
MerchantRefuses(o) == Moves(o, "working", "over")

\* close_called: an ending that holds nothing is left as it is, a charge under way goes on.
MerchantCloses(o) ==
    \/ stage[o] \in {"working", "unpaid"} /\ Moves(o, stage[o], "returns")
    \/ Moves(o, "charging", "closing")

ChargeFails(o) ==
    \/ Moves(o, "charging", IF o \in ChargedAfter THEN "unpaid" ELSE "over")
    \/ Moves(o, "closing", "returns")

\* The token moves an authorization's money once, and only while it is valid.
ChargeSettles(o) ==
    LET p == charge[o]
    IN  /\ UnresolvedPayment(o)
        /\ ~Used(p) /\ now < ValidBefore[p]
        /\ stage' = [stage EXCEPT ![o] = "returns"]
        /\ settled' = settled \union {<<o, p>>}
        /\ UNCHANGED <<now, merchant, owner, charge, claim, request, bought, unchecked, returned, released>>

MerchantMoves ==
    /\ merchant = "as_priced"
    /\ merchant' = "moved"
    /\ UNCHANGED <<now, orderVars, claim, request, history>>

\* Mutant: the job keeps the claims of orders that exist.
OldAndOrderless(p) ==
    /\ claim[p].hold = "claimed"
    /\ claim[p].at + ClaimRetention < now
    /\ stage[claim[p].holder] = "none"

\* Mutant: the job forgets every claim nobody kept, however fresh.
Unkept(p) == claim[p].hold = "claimed"

OldClaim(p) == claim[p].hold = "claimed" /\ claim[p].at + ClaimRetention < now

\* forgetOldClaims, once a day.
ForgetOldClaims ==
    /\ \E p \in Payments : OldClaim(p)
    /\ claim' = [p \in Payments |-> IF OldClaim(p) THEN NoClaim ELSE claim[p]]
    /\ UNCHANGED <<now, merchant, orderVars, request, history>>

Tick ==
    /\ now < MaxTime
    /\ now' = now + 1
    /\ UNCHANGED <<merchant, orderVars, claim, request, history>>

Next ==
    \/ \E r \in Requests :
         \/ Arrive(r) \/ CheckNew(r) \/ Admit(r) \/ Check(r)
         \/ ClaimPayment(r) \/ Present(r) \/ Release(r) \/ Crash(r)
    \/ \E o \in Orders :
         \/ GoodsArrive(o) \/ GoodsLate(o) \/ GoodsOverdue(o) \/ MerchantRefuses(o)
         \/ MerchantCloses(o) \/ ChargeFails(o) \/ ChargeSettles(o)
    \/ MerchantMoves \/ ForgetOldClaims \/ Tick

Spec == Init /\ [][Next]_vars

(* The clock moves and the daily job runs; no request owes a step.         *)
LiveSpec == Spec /\ WF_vars(Tick) /\ WF_vars(ForgetOldClaims)

-----------------------------------------------------------------------------
(* Every variable has its type.                                            *)
TypeOK ==
    /\ now \in Nat /\ merchant \in {"as_priced", "moved"}
    /\ stage \in [Orders -> Stage]
    /\ owner \in [Orders -> Payers \union {Nobody}]
    /\ charge \in [Orders -> Payments \union {Nobody}]
    /\ claim \in [Payments -> Claim]
    /\ request \in [Requests -> Request]
    /\ bought \subseteq Orders \X Payments /\ unchecked \subseteq Orders \X Payments
    /\ returned \subseteq Orders \X Payments /\ released \subseteq Orders \X Payments
    /\ settled \subseteq Orders \X Payments

(* One authorization buys one order, however its presentations, their      *)
(* releases, a crash between claim and decision, and the daily job         *)
(* interleave (gateway.ts: "One authorisation buys one order").            *)
OnePaymentBuysOneOrder ==
    \A p \in Payments, o1, o2 \in Orders :
        <<o1, p>> \in bought /\ <<o2, p>> \in bought => o1 = o2

(* A payment an order took stays that order's in the claims table for good.*)
TakenPaymentIsKept ==
    \A o \in Orders, p \in Payments :
        <<o, p>> \in bought => claim[p].holder = o /\ claim[p].hold = "retained"

(* A payment that is charged was found fit to charge by the payment layer, *)
(* for that order and by the request that presents it, even when the order *)
(* came to take a new charge while the payment was being checked only to   *)
(* return it.                                                              *)
ChargedPaymentWasChecked == unchecked = {}

(* A payment that got back a finished purchase never pays for another one, *)
(* unless the purchase's own order gave the claim up in turning another    *)
(* presentation of that payment away (releaseClaim): neither the daily job *)
(* nor a rival admission frees a claim while its authorization is good.    *)
ReturnPaysForNothingElse ==
    \A p \in Payments, o1, o2 \in Orders :
        /\ <<o1, p>> \in returned /\ <<o1, p>> \notin released
        /\ <<o2, p>> \in settled
        => o1 = o2

(* A claim nobody kept does not hold a payment for ever: the buyer of a    *)
(* presentation that died, or was refused, can use it again.               *)
UnkeptClaimGoes ==
    \A p \in Payments : (claim[p].hold = "claimed") ~> (claim[p].hold # "claimed")
=============================================================================
