---------------------------- MODULE MoneyProofs ----------------------------
(***************************************************************************)
(* Proofs about what money may do: about PaymentClaims (what a payment     *)
(* buys), PayoutWallet (where the money goes) and BrowserObservations      *)
(* (what the paid runs of the scanner may cost), one part for each.        *)
(*                                                                         *)
(* For any number of orders, payments and requests: one payment buys one   *)
(* order, no payment is charged that was not checked for a charge, and one *)
(* that got a finished purchase back pays for nothing else while its claim *)
(* is not released.                                                        *)
(*                                                                         *)
(* The table's rule (TakenPaymentIsKept) is inductive once a request under *)
(* way is known to carry an order and a payment; the rule about checks     *)
(* needs in addition that whatever a request calls fit to charge the       *)
(* payment layer has found so.  A step is proved by its two halves: what   *)
(* it does to its request, and what it does to the claims and histories.   *)
(***************************************************************************)
EXTENDS PaymentClaims, PayoutWallet, BrowserObservations, SequenceTheorems, FiniteSetTheorems,
        WellFoundedInduction, TLAPS

\* A request under way carries an order and a payment; it asks for an order to be
\* admitted only with a payment fit to charge.
UnderWay ==
    \A r \in Requests :
        /\ request[r].step # "idle" => request[r].order \in Orders
                                        /\ request[r].payment \in Payments
        /\ request[r].step = "admitting" => request[r].fit = "charge"

\* What a request calls fit to charge, the payment layer has found fit.
FitMeansChecked ==
    \A r \in Requests : request[r].fit = "charge" => request[r].by = "payment_layer"

RequestsAreSound == request \in [Requests -> Request] /\ UnderWay /\ FitMeansChecked
TableIsSound == TakenPaymentIsKept /\ ChargedPaymentWasChecked

\* An order that exists has taken the payment it is charged with.
OrdersAreSound == \A o \in Orders : stage[o] # "none" => <<o, charge[o]>> \in bought

IInv == TypeOK /\ RequestsAreSound /\ TableIsSound /\ OrdersAreSound

(* Nothing is sold and nothing claimed to begin with.                      *)
LEMMA InitIInv == Init => IInv
  <1> SUFFICES ASSUME Init PROVE IInv
    OBVIOUS
  <1> USE ClaimsAssumption DEF Init
  <1>1. TypeOK
    BY DEF TypeOK, Stage, Claim, NoClaim, Request, NoRequest, Step
  <1>2. RequestsAreSound
    BY <1>1 DEF RequestsAreSound, UnderWay, FitMeansChecked, NoRequest, TypeOK
  <1>3. TableIsSound
    BY DEF TableIsSound, TakenPaymentIsKept, ChargedPaymentWasChecked
  <1>4. OrdersAreSound
    BY DEF OrdersAreSound
  <1> QED
    BY <1>1, <1>2, <1>3, <1>4 DEF IInv

-----------------------------------------------------------------------------
(* The requests' half.                                                     *)

(* Replacing one request by a sound one keeps them all sound.              *)
LEMMA SoundRequest ==
    ASSUME RequestsAreSound, NEW r \in Requests, NEW n \in Request,
           request' = [request EXCEPT ![r] = n],
           n.step # "idle" => n.order \in Orders /\ n.payment \in Payments,
           n.step = "admitting" => n.fit = "charge",
           n.fit = "charge" => n.by = "payment_layer"
    PROVE  RequestsAreSound'
  <1>1. /\ request' \in [Requests -> Request] /\ request'[r] = n
        /\ \A q \in Requests \ {r} : request'[q] = request[q]
    BY DEF RequestsAreSound
  <1>2. UnderWay'
    BY <1>1 DEF RequestsAreSound, UnderWay
  <1>3. FitMeansChecked'
    BY <1>1 DEF RequestsAreSound, FitMeansChecked
  <1> QED
    BY <1>1, <1>2, <1>3 DEF RequestsAreSound

(* A request that leaves is sound.                                         *)
LEMMA LeavesSound ==
    ASSUME RequestsAreSound, NEW r \in Requests, Leaves(r)
    PROVE  RequestsAreSound'
  <1>1. NoRequest \in Request /\ NoRequest.step = "idle" /\ NoRequest.fit = "undecided"
    BY DEF NoRequest, Request, Step
  <1> QED
    BY <1>1, SoundRequest DEF Leaves

(* A request that goes on with the payment it was checked with is sound.   *)
LEMMA GoesSound ==
    ASSUME RequestsAreSound, NEW r \in Requests, request[r].step # "idle",
           NEW step \in {"claimed", "releasing"}, Goes(r, step)
    PROVE  RequestsAreSound'
  <1> DEFINE n == [request[r] EXCEPT !.step = step]
  <1>1. request[r] \in Request
    BY DEF RequestsAreSound
  <1>2. /\ n \in Request /\ n.step = step /\ n.fit = request[r].fit /\ n.by = request[r].by
        /\ n.order = request[r].order /\ n.payment = request[r].payment
    BY <1>1 DEF Request, Step
  <1>3. request' = [request EXCEPT ![r] = n]
    BY DEF Goes
  <1>4. /\ request[r].order \in Orders /\ request[r].payment \in Payments
        /\ request[r].fit = "charge" => request[r].by = "payment_layer"
    BY DEF RequestsAreSound, UnderWay, FitMeansChecked
  <1> HIDE DEF n
  <1> QED
    BY <1>2, <1>3, <1>4, SoundRequest

(* A request that was checked is sound, when the payment layer checked for *)
(* a charge.                                                               *)
LEMMA CheckedSound ==
    ASSUME RequestsAreSound, NEW r \in Requests, request[r].step # "idle",
           NEW step \in Step, NEW fit \in {"charge", "return"},
           NEW by \in {"gateway", "payment_layer"},
           request' = [request EXCEPT ![r].step = step, ![r].fit = fit, ![r].by = by],
           step = "admitting" => fit = "charge", fit = "charge" => by = "payment_layer"
    PROVE  RequestsAreSound'
  <1> DEFINE n == [request[r] EXCEPT !.step = step, !.fit = fit, !.by = by]
  <1>1. request[r] \in Request /\ request \in [Requests -> Request]
    BY DEF RequestsAreSound
  <1>2. /\ n \in Request /\ n.step = step /\ n.fit = fit /\ n.by = by
        /\ n.order = request[r].order /\ n.payment = request[r].payment
    BY <1>1 DEF Request
  <1>3. request' = [request EXCEPT ![r] = n]
    BY <1>1 DEF Request
  <1>4. request[r].order \in Orders /\ request[r].payment \in Payments
    BY DEF RequestsAreSound, UnderWay
  <1> HIDE DEF n
  <1> QED
    BY <1>2, <1>3, <1>4, SoundRequest

-----------------------------------------------------------------------------
(* The table's half.                                                       *)

(* No kept claim is touched and nothing new is bought.                     *)
LEMMA KeptClaimsStand ==
    ASSUME TableIsSound, bought' = bought, unchecked' = unchecked,
           \A p \in Payments : claim[p].hold = "retained" => claim'[p] = claim[p]
    PROVE  TableIsSound'
  BY DEF TableIsSound, TakenPaymentIsKept, ChargedPaymentWasChecked

(* Orders that are left alone stay sound.                                  *)
LEMMA OrdersStand ==
    ASSUME OrdersAreSound, UNCHANGED orderVars, bought \subseteq bought'
    PROVE  OrdersAreSound'
  BY DEF OrdersAreSound, orderVars

(* An order takes a payment nobody else holds, and keeps it.               *)
LEMMA TakenAndKept ==
    ASSUME TableIsSound, bought \subseteq Orders \X Payments, Nobody \notin Orders,
           NEW o \in Orders, NEW p \in Payments,
           bought' = bought \union {<<o, p>>}, unchecked' = unchecked,
           claim[p].holder \in {Nobody, o},
           claim'[p].holder = o, claim'[p].hold = "retained",
           \A q \in Payments \ {p} : claim'[q] = claim[q]
    PROVE  TableIsSound'
  <1>1. TakenPaymentIsKept'
    <2> SUFFICES ASSUME NEW x \in Orders, NEW q \in Payments, <<x, q>> \in bought'
                 PROVE  claim'[q].holder = x /\ claim'[q].hold = "retained"
      BY DEF TakenPaymentIsKept
    <2>1. CASE <<x, q>> \in bought
      <3>1. claim[q].holder = x /\ claim[q].hold = "retained"
        BY <2>1 DEF TableIsSound, TakenPaymentIsKept
      <3> QED
        BY <3>1
    <2>2. CASE <<x, q>> = <<o, p>>
      BY <2>2
    <2> QED
      BY <2>1, <2>2
  <1>2. ChargedPaymentWasChecked'
    BY DEF TableIsSound, ChargedPaymentWasChecked
  <1> QED
    BY <1>1, <1>2 DEF TableIsSound
-----------------------------------------------------------------------------
(* The actions.                                                            *)

(* What arrives carries an order and a payment, and is fit for nothing yet. *)
LEMMA ArriveStep == ASSUME IInv, NEW r \in Requests, Arrive(r) PROVE IInv'
  <1>1. PICK o \in Orders, p \in Payments :
          request' = [request EXCEPT ![r] =
            [step |-> IF stage[o] = "none" THEN "checking_new" ELSE "checking",
             order |-> o, payment |-> p, payee |-> merchant,
             fit |-> IF stage[o] # "none" /\ ~TakesANewPayment(o)
                     THEN "return" ELSE "undecided", by |-> "nobody"]]
    BY DEF Arrive
  <1> DEFINE fits == IF stage[o] # "none" /\ ~TakesANewPayment(o) THEN "return" ELSE "undecided"
             steps == IF stage[o] = "none" THEN "checking_new" ELSE "checking"
             n == [step |-> steps, order |-> o, payment |-> p, payee |-> merchant,
                   fit |-> fits, by |-> "nobody"]
  <1>2. /\ fits \in {"return", "undecided"} /\ steps \in {"checking_new", "checking"}
        /\ merchant \in {"as_priced", "moved"}
    BY DEF IInv, TypeOK
  <1>3. request' = [request EXCEPT ![r] = n]
    BY <1>1
  <1> HIDE DEF fits, steps
  <1>4. n \in Request
    BY <1>2 DEF Request, Step
  <1>5. n.order = o /\ n.payment = p /\ n.fit = fits /\ n.step = steps
    OBVIOUS
  <1> HIDE DEF n
  <1>6. RequestsAreSound'
    BY <1>2, <1>3, <1>4, <1>5, SoundRequest DEF Arrive, history, IInv
  <1>7. TableIsSound'
    BY KeptClaimsStand DEF Arrive, history, IInv
  <1>8. TypeOK'
    BY <1>6 DEF IInv, TypeOK, Arrive, orderVars, history, RequestsAreSound
  <1>9. OrdersAreSound'
    BY OrdersStand DEF IInv, Arrive, history
  <1> QED
    BY <1>6, <1>7, <1>8, <1>9 DEF IInv

(* The first payment for a price is checked, or turned away.               *)
LEMMA CheckNewStep == ASSUME IInv, NEW r \in Requests, CheckNew(r) PROVE IInv'
  <1>1. request[r].step # "idle"
    BY DEF CheckNew, At
  <1>2. RequestsAreSound'
    <2>1. CASE Leaves(r)
      BY <2>1, LeavesSound DEF IInv
    <2>2. CASE request' = [request EXCEPT ![r].step = "admitting", ![r].fit = "charge",
                                          ![r].by = "payment_layer"]
      BY <1>1, <2>2, CheckedSound DEF IInv, Step
    <2> QED
      BY <2>1, <2>2 DEF CheckNew
  <1>3. TableIsSound'
    BY KeptClaimsStand DEF CheckNew, IInv, history
  <1>4. TypeOK'
    BY <1>2 DEF IInv, TypeOK, CheckNew, orderVars, history, RequestsAreSound
  <1>5. OrdersAreSound'
    BY OrdersStand DEF IInv, CheckNew, history
  <1> QED
    BY <1>2, <1>3, <1>4, <1>5 DEF IInv

(* A further payment is checked, for a charge or for a return only.        *)
LEMMA CheckStep == ASSUME IInv, NEW r \in Requests, Check(r) PROVE IInv'
  <1>1. request[r].step # "idle" /\ UNCHANGED <<now, merchant, orderVars, claim, history>>
    BY DEF Check, At
  <1>2. RequestsAreSound'
    <2>1. CASE Leaves(r)
      BY <2>1, LeavesSound DEF IInv
    <2>2. ASSUME NEW here \in BOOLEAN,
                 request' = [request EXCEPT ![r].step = "checked",
                               ![r].fit = IF here \/ request[r].payee = "moved"
                                          THEN "return" ELSE "charge",
                               ![r].by = IF here THEN "gateway" ELSE "payment_layer"]
          PROVE  RequestsAreSound'
      <3>1. PICK fit \in {"charge", "return"} :
              fit = IF here \/ request[r].payee = "moved" THEN "return" ELSE "charge"
        OBVIOUS
      <3>2. PICK by \in {"gateway", "payment_layer"} :
              by = IF here THEN "gateway" ELSE "payment_layer"
        OBVIOUS
      <3>3. request' = [request EXCEPT ![r].step = "checked", ![r].fit = fit, ![r].by = by]
        BY <2>2, <3>1, <3>2
      <3>4. (fit = "charge" => by = "payment_layer") /\ "checked" \in Step
        BY <3>1, <3>2 DEF Step
      <3> QED
        BY <1>1, <3>3, <3>4, CheckedSound DEF IInv
    <2> QED
      BY <2>1, <2>2 DEF Check
  <1>3. TableIsSound'
    BY <1>1, KeptClaimsStand DEF IInv, history
  <1>4. TypeOK'
    BY <1>1, <1>2 DEF IInv, TypeOK, orderVars, history, RequestsAreSound
  <1>5. OrdersAreSound'
    BY <1>1, OrdersStand DEF IInv, history
  <1> QED
    BY <1>2, <1>3, <1>4, <1>5 DEF IInv

(* The claim is taken where no row stands, and only read where one does.   *)
LEMMA ClaimStep == ASSUME IInv, NEW r \in Requests, ClaimPayment(r) PROVE IInv'
  <1> DEFINE o == request[r].order
             p == request[r].payment
             claimed == [holder |-> o, hold |-> "claimed", at |-> now]
  <1> USE ClaimsAssumption
  <1>1. request[r].step # "idle" /\ o \in Orders /\ p \in Payments
    BY DEF IInv, RequestsAreSound, UnderWay, ClaimPayment, At
  <1>2. /\ claim' = IF claim[p].holder # Nobody THEN claim ELSE [claim EXCEPT ![p] = claimed]
        /\ Goes(r, "claimed") \/ Leaves(r)
        /\ UNCHANGED <<now, merchant, orderVars, history>>
    BY DEF ClaimPayment
  <1>3. RequestsAreSound'
    BY <1>1, <1>2, GoesSound, LeavesSound DEF IInv, history
  <1>4. claimed \in Claim /\ claim \in [Payments -> Claim]
    BY <1>1 DEF IInv, TypeOK, Claim
  <1>5. claim' \in [Payments -> Claim]
    BY <1>2, <1>4
  <1>6. TableIsSound'
    <2>1. bought \subseteq Orders \X Payments
      BY DEF IInv, TypeOK
    <2>2. TakenPaymentIsKept'
      <3> SUFFICES ASSUME NEW x \in Orders, NEW q \in Payments, <<x, q>> \in bought
                   PROVE  claim'[q].holder = x /\ claim'[q].hold = "retained"
        BY <1>2 DEF TakenPaymentIsKept, history
      <3>1. claim[q].holder = x /\ claim[q].hold = "retained"
        BY DEF IInv, TableIsSound, TakenPaymentIsKept
      <3>2. claim'[q] = claim[q]
        BY <1>2, <1>4, <3>1
      <3> QED
        BY <3>1, <3>2
    <2> QED
      BY <1>2, <2>2 DEF IInv, TableIsSound, ChargedPaymentWasChecked, history
  <1>7. TypeOK'
    BY <1>2, <1>3, <1>5 DEF IInv, TypeOK, orderVars, history, RequestsAreSound
  <1>8. OrdersAreSound'
    BY OrdersStand DEF IInv, ClaimPayment, history
  <1> QED
    BY <1>3, <1>6, <1>7, <1>8 DEF IInv

(* What an order takes is typed, and not unchecked where a charge was      *)
(* checked for.                                                            *)
LEMMA AcceptsTyped ==
    ASSUME TypeOK, NEW r \in Requests, request[r].order \in Orders,
           request[r].payment \in Payments, request[r].by = "payment_layer",
           NEW next \in Stage, Accepts(r, next)
    PROVE  /\ stage' \in [Orders -> Stage]
           /\ owner' \in [Orders -> Payers \union {Nobody}]
           /\ charge' \in [Orders -> Payments \union {Nobody}]
           /\ bought' \subseteq Orders \X Payments /\ unchecked' = unchecked
           /\ OrdersAreSound => OrdersAreSound'
  BY ClaimsAssumption DEF TypeOK, Accepts, OrdersAreSound

(* An order is born with its payment kept, or nothing is written.          *)
LEMMA AdmitStep == ASSUME IInv, NEW r \in Requests, Admit(r) PROVE IInv'
  <1> DEFINE o == request[r].order
             p == request[r].payment
             claimed == [holder |-> o, hold |-> "retained",
                     at |-> IF claim[p].holder = o THEN claim[p].at ELSE now]
             next == IF o \in ChargedAfter THEN "working" ELSE "charging"
  <1> USE ClaimsAssumption
  <1>1. /\ o \in Orders /\ p \in Payments
        /\ request[r].fit = "charge" /\ request[r].by = "payment_layer"
    BY DEF IInv, RequestsAreSound, UnderWay, FitMeansChecked, Admit, At
  <1>2. /\ Leaves(r)
        /\ UNCHANGED <<now, merchant, returned, released, settled>>
    BY DEF Admit
  <1>3. RequestsAreSound'
    BY <1>2, LeavesSound DEF IInv
  <1>4. CASE UNCHANGED <<orderVars, claim, bought, unchecked>>
    <2>1. TableIsSound'
      BY <1>2, <1>4, KeptClaimsStand DEF IInv
    <2>2. TypeOK'
      BY <1>2, <1>3, <1>4 DEF IInv, TypeOK, orderVars, RequestsAreSound
    <2>3. OrdersAreSound'
      BY <1>4, OrdersStand DEF IInv
    <2> QED
      BY <1>3, <2>1, <2>2, <2>3 DEF IInv
  <1>5. CASE /\ ClaimIsOurs(o, p)
             /\ claim' = [claim EXCEPT ![p] = claimed]
             /\ Accepts(r, next)
    <2>1. claim \in [Payments -> Claim] /\ claim[p] \in Claim
      BY <1>1 DEF IInv, TypeOK
    <2>2. claim[p].at \in Nat /\ now \in Nat
      BY <2>1 DEF IInv, TypeOK, Claim
    <2>3. claimed \in Claim /\ claimed.holder = o /\ claimed.hold = "retained"
      BY <1>1, <2>2 DEF Claim
    <2> HIDE DEF claimed
    <2>4. /\ claim' \in [Payments -> Claim] /\ claim'[p] = claimed
          /\ \A q \in Payments \ {p} : claim'[q] = claim[q]
      BY <1>1, <1>5, <2>1, <2>3
    <2>5. next \in Stage
      BY DEF Stage
    <2>6. TableIsSound'
      BY <1>1, <1>2, <1>5, <2>3, <2>4, TakenAndKept DEF IInv, TypeOK, Accepts, ClaimIsOurs
    <2> HIDE DEF next
    <2>7. TypeOK'
      BY <1>1, <1>2, <1>3, <1>5, <2>4, <2>5, AcceptsTyped DEF IInv, TypeOK, RequestsAreSound
    <2>8. OrdersAreSound'
      BY <1>1, <1>5, <2>5, AcceptsTyped DEF IInv
    <2> QED
      BY <1>3, <2>6, <2>7, <2>8 DEF IInv
  <1> QED
    BY <1>4, <1>5 DEF Admit

(* Under the order's lock a payment is turned away, is the owner's asking  *)
(* again, or is taken and kept.                                            *)
LEMMA PresentStep == ASSUME IInv, NEW r \in Requests, Present(r) PROVE IInv'
  <1> DEFINE o == request[r].order
             p == request[r].payment
  <1> USE ClaimsAssumption
  <1>1. /\ request[r].step # "idle" /\ o \in Orders /\ p \in Payments
        /\ request[r].fit = "charge" => request[r].by = "payment_layer"
    BY DEF IInv, RequestsAreSound, UnderWay, FitMeansChecked, Present, At
  <1>2. UNCHANGED <<now, merchant, released, settled>> /\ (Leaves(r) \/ Goes(r, "releasing"))
    BY DEF Present, history
  <1>3. RequestsAreSound'
    BY <1>1, <1>2, LeavesSound, GoesSound DEF IInv
  <1>4. CASE UNCHANGED <<orderVars, claim, bought, unchecked>>
    <2>1. TableIsSound'
      BY <1>2, <1>4, KeptClaimsStand DEF IInv
    <2>2. returned' \subseteq Orders \X Payments
      <3>1. returned' = returned \/ returned' = returned \union {<<o, p>>}
        BY DEF Present, history, Accepts
      <3> QED
        BY <1>1, <3>1 DEF IInv, TypeOK
    <2>3. TypeOK'
      BY <1>2, <1>3, <1>4, <2>2 DEF IInv, TypeOK, orderVars, RequestsAreSound
    <2>4. OrdersAreSound'
      BY <1>4, OrdersStand DEF IInv
    <2> QED
      BY <1>3, <2>1, <2>3, <2>4 DEF IInv
  <1>5. CASE /\ MayBeCharged(r) /\ RetainPayment(o, p) /\ Accepts(r, "charging")
             /\ UNCHANGED <<returned, settled>>
    <2> DEFINE claimed == [claim[p] EXCEPT !.hold = "retained"]
    <2>1. claim \in [Payments -> Claim] /\ claim[p] \in Claim /\ claim[p].holder = o
      BY <1>1, <1>5 DEF IInv, TypeOK, RetainPayment
    <2>2. claimed \in Claim /\ claimed.holder = o /\ claimed.hold = "retained"
      BY <2>1 DEF Claim
    <2>3. claim' = [claim EXCEPT ![p] = claimed]
      BY <1>5 DEF RetainPayment
    <2> HIDE DEF claimed
    <2>4. /\ claim' \in [Payments -> Claim] /\ claim'[p] = claimed
          /\ \A q \in Payments \ {p} : claim'[q] = claim[q]
      BY <1>1, <2>1, <2>2, <2>3
    <2>5. request[r].by = "payment_layer"
      BY <1>1, <1>5 DEF MayBeCharged
    <2>6. TableIsSound'
      BY <1>1, <1>5, <2>1, <2>2, <2>4, <2>5, TakenAndKept DEF IInv, TypeOK, Accepts
    <2>7. "charging" \in Stage
      BY DEF Stage
    <2>8. TypeOK'
      BY <1>1, <1>2, <1>3, <1>5, <2>4, <2>5, <2>7, AcceptsTyped DEF IInv, TypeOK, RequestsAreSound
    <2>9. OrdersAreSound'
      BY <1>1, <1>5, <2>5, <2>7, AcceptsTyped DEF IInv
    <2> QED
      BY <1>3, <2>6, <2>8, <2>9 DEF IInv
  <1> QED
    BY <1>4, <1>5 DEF Present, history

(* Only a claim nobody kept is given up.                                   *)
LEMMA ReleaseStep == ASSUME IInv, NEW r \in Requests, Release(r) PROVE IInv'
  <1> DEFINE o == request[r].order
             p == request[r].payment
  <1>1. o \in Orders /\ p \in Payments
    BY DEF IInv, RequestsAreSound, UnderWay, Release, At
  <1>2. /\ claim' = IF Releasable(o, p) THEN [claim EXCEPT ![p] = NoClaim] ELSE claim
        /\ released' = released \/ released' = released \union {<<o, p>>}
        /\ Leaves(r) /\ UNCHANGED <<now, merchant, orderVars, bought, unchecked, returned, settled>>
    BY DEF Release
  <1>3. RequestsAreSound'
    BY <1>2, LeavesSound DEF IInv
  <1>4. NoClaim \in Claim /\ claim \in [Payments -> Claim]
    BY DEF NoClaim, Claim, IInv, TypeOK
  <1>5. /\ claim' \in [Payments -> Claim]
        /\ \A q \in Payments : claim[q].hold = "retained" => claim'[q] = claim[q]
    BY <1>1, <1>2, <1>4 DEF Releasable
  <1>6. TableIsSound'
    BY <1>2, <1>5, KeptClaimsStand DEF IInv
  <1>7. TypeOK'
    BY <1>1, <1>2, <1>3, <1>5 DEF IInv, TypeOK, orderVars, RequestsAreSound
  <1>8. OrdersAreSound'
    BY OrdersStand DEF IInv, Release
  <1> QED
    BY <1>3, <1>6, <1>7, <1>8 DEF IInv

(* The daily job forgets only claims nobody kept.                          *)
LEMMA ForgetStep == ASSUME IInv, ForgetOldClaims PROVE IInv'
  <1>1. NoClaim \in Claim /\ claim \in [Payments -> Claim]
    BY DEF NoClaim, Claim, IInv, TypeOK
  <1>2. /\ claim' \in [Payments -> Claim]
        /\ \A q \in Payments : claim[q].hold = "retained" => claim'[q] = claim[q]
    BY <1>1 DEF ForgetOldClaims, OldClaim
  <1>3. TableIsSound'
    BY <1>2, KeptClaimsStand DEF IInv, ForgetOldClaims, history
  <1>4. RequestsAreSound'
    BY DEF IInv, RequestsAreSound, UnderWay, FitMeansChecked, ForgetOldClaims, history
  <1>5. TypeOK'
    BY <1>2 DEF IInv, TypeOK, ForgetOldClaims, orderVars, history
  <1>6. OrdersAreSound'
    BY OrdersStand DEF IInv, ForgetOldClaims, history
  <1> QED
    BY <1>3, <1>4, <1>5, <1>6 DEF IInv

(* Steps that touch neither a request nor the table.                       *)
LEMMA ElsewhereStep ==
    ASSUME IInv, TypeOK', OrdersAreSound', UNCHANGED <<claim, request, bought, unchecked>>
    PROVE  IInv'
  <1>1. TableIsSound'
    BY KeptClaimsStand DEF IInv
  <1>2. RequestsAreSound'
    BY DEF IInv, RequestsAreSound, UnderWay, FitMeansChecked
  <1> QED
    BY <1>1, <1>2 DEF IInv

(* An order that moves between the stages of an order that exists.         *)
LEMMA MovesStep ==
    ASSUME IInv, NEW o \in Orders, NEW from \in Stage \ {"none"}, NEW to \in Stage,
           Moves(o, from, to)
    PROVE  IInv'
  <1>1. TypeOK'
    BY DEF IInv, TypeOK, Moves, history
  <1>2. OrdersAreSound'
    BY DEF IInv, OrdersAreSound, Moves, history, TypeOK
  <1> QED
    BY <1>1, <1>2, ElsewhereStep DEF Moves, history

(* What an order does of itself.                                           *)
LEMMA OrderStep ==
    ASSUME IInv, NEW o \in Orders,
           \/ GoodsArrive(o) \/ GoodsLate(o) \/ GoodsOverdue(o) \/ MerchantRefuses(o)
           \/ MerchantCloses(o) \/ ChargeFails(o) \/ ChargeSettles(o)
    PROVE  IInv'
  <1>1. CASE GoodsArrive(o) \/ GoodsLate(o) \/ GoodsOverdue(o) \/ MerchantRefuses(o)
             \/ MerchantCloses(o)
    BY <1>1, MovesStep DEF GoodsArrive, GoodsLate, GoodsOverdue, MerchantRefuses,
                           MerchantCloses, Stage
  <1>2. CASE ChargeFails(o)
    <2>1. PICK to \in Stage : to = IF o \in ChargedAfter THEN "unpaid" ELSE "over"
      BY DEF Stage
    <2>2. "charging" \in Stage /\ "closing" \in Stage /\ "returns" \in Stage
      BY DEF Stage
    <2>3. Moves(o, "charging", to) \/ Moves(o, "closing", "returns")
      BY <1>2, <2>1 DEF ChargeFails
    <2> QED
      BY <2>2, <2>3, MovesStep
  <1>3. CASE ChargeSettles(o)
    <2>1. stage[o] # "none"
      BY <1>3 DEF ChargeSettles, UnresolvedPayment
    <2>2. <<o, charge[o]>> \in Orders \X Payments
      BY <2>1 DEF IInv, OrdersAreSound, TypeOK
    <2>3. "returns" \in Stage
      BY DEF Stage
    <2>4. TypeOK'
      BY <1>3, <2>2, <2>3 DEF IInv, TypeOK, ChargeSettles
    <2>5. OrdersAreSound'
      BY <1>3, <2>1 DEF IInv, OrdersAreSound, ChargeSettles, TypeOK
    <2> QED
      BY <1>3, <2>4, <2>5, ElsewhereStep DEF ChargeSettles
  <1> QED
    BY <1>1, <1>2, <1>3

(* Every step keeps the invariant.                                         *)
LEMMA NextIInv == IInv /\ [Next]_vars => IInv'
  <1> SUFFICES ASSUME IInv, [Next]_vars PROVE IInv'
    OBVIOUS
  <1>1. ASSUME NEW r \in Requests, Crash(r) PROVE IInv'
    <2>1. RequestsAreSound'
      BY <1>1, LeavesSound DEF IInv, Crash, history
    <2>2. TableIsSound'
      BY <1>1, KeptClaimsStand DEF IInv, Crash, history
    <2>3. TypeOK'
      BY <1>1, <2>1 DEF IInv, TypeOK, Crash, orderVars, history, RequestsAreSound
    <2>4. OrdersAreSound'
      BY <1>1, OrdersStand DEF IInv, Crash, history
    <2> QED
      BY <2>1, <2>2, <2>3, <2>4 DEF IInv
  <1>2. CASE MerchantMoves \/ Tick \/ UNCHANGED vars
    <2>1. TypeOK'
      BY <1>2 DEF IInv, TypeOK, MerchantMoves, Tick, vars, orderVars, history
    <2>2. OrdersAreSound'
      BY <1>2, OrdersStand DEF IInv, MerchantMoves, Tick, vars, orderVars, history
    <2> QED
      BY <1>2, <2>1, <2>2, ElsewhereStep DEF MerchantMoves, Tick, vars, history
  <1> QED
    BY <1>1, <1>2, ArriveStep, CheckNewStep, AdmitStep, CheckStep, ClaimStep, PresentStep,
       ReleaseStep, OrderStep, ForgetStep DEF Next

-----------------------------------------------------------------------------
(* The invariant holds in every reachable state.                           *)
THEOREM ClaimsInvariant == Spec => []IInv
  BY InitIInv, NextIInv, PTL DEF Spec

(* Every reachable state is typed.                                         *)
THEOREM ClaimsTypeCorrect == Spec => []TypeOK
  <1>1. IInv => TypeOK
    BY DEF IInv
  <1> QED
    BY <1>1, ClaimsInvariant, PTL

(* claimPayment, releaseClaim, the retain_payment write, admitOrder and    *)
(* forgetOldClaims together never let go of a payment an order took.       *)
THEOREM TakenPaymentsAreKept == Spec => []TakenPaymentIsKept
  <1>1. IInv => TakenPaymentIsKept
    BY DEF IInv, TableIsSound
  <1> QED
    BY <1>1, ClaimsInvariant, PTL

(* However many requests present one authorization, for however many       *)
(* orders, at most one order takes it.                                     *)
THEOREM OneOrderPerPayment == Spec => []OnePaymentBuysOneOrder
  <1>1. IInv => OnePaymentBuysOneOrder
    BY DEF IInv, TableIsSound, TakenPaymentIsKept, OnePaymentBuysOneOrder
  <1> QED
    BY <1>1, ClaimsInvariant, PTL

(* A payment checked only to return a purchase is never charged, whatever  *)
(* the order came to while the check ran.                                  *)
THEOREM OnlyCheckedPaymentsAreCharged == Spec => []ChargedPaymentWasChecked
  <1>1. IInv => ChargedPaymentWasChecked
    BY DEF IInv, TableIsSound
  <1> QED
    BY <1>1, ClaimsInvariant, PTL

-----------------------------------------------------------------------------
(* What a returned purchase leaves behind.  A claim is taken by a request  *)
(* whose payment was checked, and an authorization that passes the check   *)
(* ends within Asked; the job lets a claim stand for ClaimRetention, which *)
(* is no less.  So until the authorization ends only its own order can     *)
(* give the claim up, and afterwards the token moves nothing for it.       *)

Late == {"admitting", "checked", "claimed", "releasing"}

\* A payment that passed its check ends within Asked of it.
CheckedEndsSoon ==
    \A r \in Requests :
        request[r].step \in Late => ValidBefore[request[r].payment] <= now + Asked

\* The authorization of a claimed payment ends before the job may forget the claim.
ClaimOutlivesPayment ==
    \A p \in Payments :
        claim[p].holder # Nobody => ValidBefore[p] <= claim[p].at + ClaimRetention

\* What keeps p from paying for an order other than o.
Guarded(o, p) ==
    \/ <<o, p>> \in released
    \/ claim[p].holder = o
    \/ ValidBefore[p] <= now /\ \A x \in Orders : <<x, p>> \in settled => x = o

ReturnsAreGuarded ==
    /\ \A r \in Requests :
         request[r].step = "claimed" => Guarded(request[r].order, request[r].payment)
    /\ \A o \in Orders, p \in Payments : <<o, p>> \in returned => Guarded(o, p)

RInv == /\ CheckedEndsSoon /\ ClaimOutlivesPayment /\ ReturnsAreGuarded
        /\ settled \subseteq bought

\* What a step does to a row of the claims, and to a request.
RowMoves(p) ==
    \/ claim'[p].holder = claim[p].holder /\ claim'[p].at = claim[p].at
    \/ /\ claim[p].holder = Nobody
       /\ ValidBefore[p] <= claim'[p].at + ClaimRetention
    \/ /\ claim'[p].holder = Nobody
       /\ <<claim[p].holder, p>> \in released' \/ claim[p].at + ClaimRetention < now

RequestMoves(r) ==
    \/ request'[r] = request[r]
    \/ request'[r].step \notin Late
    \/ /\ request'[r].step # "claimed"
       /\ ValidBefore[request'[r].payment] <= now + Asked
    \/ /\ request'[r].step = "claimed" /\ request[r].step = "checked"
       /\ request'[r].order = request[r].order /\ request'[r].payment = request[r].payment
       /\ claim'[request[r].payment].holder = request[r].order

\* What every step does to the histories.
HistoryMoves ==
    /\ now <= now' /\ released \subseteq released'
    /\ bought \subseteq bought'
    /\ \A x \in Orders, p \in Payments : <<x, p>> \in settled' =>
         <<x, p>> \in settled \/ (now < ValidBefore[p] /\ <<x, p>> \in bought)
    /\ \A x \in Orders, p \in Payments : <<x, p>> \in returned' =>
         \/ <<x, p>> \in returned
         \/ \E r \in Requests : /\ request[r].step = "claimed"
                                /\ request[r].order = x /\ request[r].payment = p

StepsAreSafe ==
    /\ \A p \in Payments : RowMoves(p)
    /\ \A r \in Requests : RequestMoves(r)
    /\ HistoryMoves

(* A guard stands through every safe step.                                 *)
LEMMA GuardStands ==
    ASSUME IInv, RInv, now' \in Nat, HistoryMoves, NEW o \in Orders, NEW p \in Payments,
           RowMoves(p), Guarded(o, p)
    PROVE  Guarded(o, p)'
  <1> USE ClaimsAssumption
  <1>1. now \in Nat /\ ValidBefore[p] \in Nat /\ claim[p].at \in Nat /\ now <= now'
    BY DEF IInv, TypeOK, Claim, HistoryMoves
  <1>2. CASE <<o, p>> \in released
    BY <1>2 DEF Guarded, HistoryMoves
  <1>3. CASE claim[p].holder = o
    <2>1. ASSUME NEW x \in Orders, <<x, p>> \in settled' PROVE x = o
      <3>1. <<x, p>> \in bought
        BY <2>1 DEF HistoryMoves, RInv
      <3> QED
        BY <1>3, <3>1 DEF IInv, TableIsSound, TakenPaymentIsKept
    <2>2. ValidBefore[p] <= claim[p].at + ClaimRetention /\ o # Nobody
      BY <1>3 DEF RInv, ClaimOutlivesPayment
    <2>3. CASE claim'[p].holder = claim[p].holder
      BY <1>3, <2>3 DEF Guarded
    <2>4. CASE <<claim[p].holder, p>> \in released'
      BY <1>3, <2>4 DEF Guarded
    <2>5. CASE claim[p].at + ClaimRetention < now
      <3>1. ValidBefore[p] <= now'
        BY <1>1, <2>2, <2>5
      <3> QED
        BY <2>1, <3>1 DEF Guarded
    <2> QED
      BY <1>3, <2>2, <2>3, <2>4, <2>5 DEF RowMoves
  <1>4. CASE ValidBefore[p] <= now /\ \A x \in Orders : <<x, p>> \in settled => x = o
    <2>1. ~(now < ValidBefore[p]) /\ ValidBefore[p] <= now'
      BY <1>1, <1>4
    <2>2. ASSUME NEW x \in Orders, <<x, p>> \in settled' PROVE x = o
      BY <1>4, <2>1, <2>2 DEF HistoryMoves
    <2> QED
      BY <2>1, <2>2 DEF Guarded
  <1> QED
    BY <1>2, <1>3, <1>4 DEF Guarded

(* Safe steps keep what a returned purchase leaves behind.                 *)
LEMMA SafeStepKeepsRInv ==
    ASSUME IInv, RInv, IInv', StepsAreSafe
    PROVE  RInv'
  <1> USE ClaimsAssumption
  <1>0. /\ now \in Nat /\ now' \in Nat /\ now <= now' /\ Asked \in Nat /\ ClaimRetention \in Nat
        /\ HistoryMoves
    BY DEF IInv, TypeOK, StepsAreSafe, HistoryMoves
  <1>1. CheckedEndsSoon'
    <2> SUFFICES ASSUME NEW r \in Requests, request'[r].step \in Late
                 PROVE  ValidBefore[request'[r].payment] <= now' + Asked
      BY DEF CheckedEndsSoon
    <2>1. RequestMoves(r)
      BY DEF StepsAreSafe
    <2>2. request'[r].payment \in Payments
      BY DEF IInv, RequestsAreSound, UnderWay, Late
    <2>3. ValidBefore[request'[r].payment] <= now + Asked
      BY <2>1 DEF RequestMoves, RInv, CheckedEndsSoon, Late
    <2>4. ValidBefore[request'[r].payment] \in Nat
      BY <2>2
    <2> QED
      BY <1>0, <2>3, <2>4
  <1>2. ClaimOutlivesPayment'
    <2> SUFFICES ASSUME NEW p \in Payments, claim'[p].holder # Nobody
                 PROVE  ValidBefore[p] <= claim'[p].at + ClaimRetention
      BY DEF ClaimOutlivesPayment
    <2>1. RowMoves(p)
      BY DEF StepsAreSafe
    <2> QED
      BY <2>1 DEF RowMoves, RInv, ClaimOutlivesPayment
  <1>3. ReturnsAreGuarded'
    <2>1. ASSUME NEW o \in Orders, NEW p \in Payments, Guarded(o, p) PROVE Guarded(o, p)'
      BY <1>0, <2>1, GuardStands DEF StepsAreSafe
    <2>2. ASSUME NEW r \in Requests, request[r].step = "claimed"
          PROVE  /\ request[r].order \in Orders /\ request[r].payment \in Payments
                 /\ Guarded(request[r].order, request[r].payment)
      BY <2>2 DEF IInv, RequestsAreSound, UnderWay, RInv, ReturnsAreGuarded
    <2>3. ASSUME NEW r \in Requests, request'[r].step = "claimed"
          PROVE  Guarded(request[r].order, request[r].payment)'
      <3>1. RequestMoves(r)
        BY DEF StepsAreSafe
      <3>2. CASE request'[r] = request[r]
        <4>1. PICK o \in Orders, p \in Payments : o = request[r].order /\ p = request[r].payment
          BY <2>2, <2>3, <3>2
        <4>2. Guarded(o, p)'
          BY <2>1, <2>2, <2>3, <3>2, <4>1
        <4>3. o = request'[r].order /\ p = request'[r].payment
          BY <3>2, <4>1
        <4> QED
          BY <4>2, <4>3 DEF Guarded
      <3>3. CASE claim'[request[r].payment].holder = request[r].order
                 /\ request'[r].order = request[r].order
                 /\ request'[r].payment = request[r].payment
        BY <3>3 DEF Guarded
      <3> QED
        BY <2>3, <3>1, <3>2, <3>3 DEF RequestMoves, Late
    <2>4. ASSUME NEW o \in Orders, NEW p \in Payments, <<o, p>> \in returned'
          PROVE  Guarded(o, p)'
      <3>1. Guarded(o, p)
        BY <1>0, <2>2, <2>4 DEF HistoryMoves, RInv, ReturnsAreGuarded
      <3> QED
        BY <2>1, <3>1
    <2> QED
      BY <2>3, <2>4 DEF ReturnsAreGuarded
  <1>4. (settled \subseteq bought)'
    <2> SUFFICES ASSUME NEW o \in Orders, NEW p \in Payments, <<o, p>> \in settled'
                 PROVE  <<o, p>> \in bought'
      BY DEF IInv, TypeOK
    <2> QED
      BY <1>0 DEF HistoryMoves, RInv
  <1> QED
    BY <1>1, <1>2, <1>3, <1>4 DEF RInv

(* A request leaves with nothing owed.                                     *)
LEMMA LeavesSafely ==
    ASSUME IInv, NEW r \in Requests, Leaves(r)
    PROVE  \A q \in Requests : RequestMoves(q)
  <1>1. request \in [Requests -> Request]
    BY DEF IInv, TypeOK
  <1>2. ASSUME NEW q \in Requests PROVE q = r \/ request'[q] = request[q]
    BY <1>1 DEF Leaves
  <1>3. request'[r].step \notin Late
    BY <1>1 DEF Leaves, NoRequest, Late
  <1> QED
    BY <1>2, <1>3 DEF RequestMoves

(* Every step is safe.                                                     *)
LEMMA NextIsSafe == ASSUME IInv, RInv, [Next]_vars PROVE StepsAreSafe
  <1> USE ClaimsAssumption
  <1>0. /\ now \in Nat /\ claim \in [Payments -> Claim] /\ request \in [Requests -> Request]
        /\ \A q \in Requests : request[q].step # "idle" =>
             request[q].order \in Orders /\ request[q].payment \in Payments
    BY DEF IInv, TypeOK, RequestsAreSound, UnderWay
  <1>1. ASSUME NEW r \in Requests, Arrive(r) PROVE StepsAreSafe
    <2>1. \A q \in Requests : RequestMoves(q)
      BY <1>0, <1>1 DEF Arrive, RequestMoves, Late
    <2> QED
      BY <1>0, <1>1, <2>1 DEF Arrive, StepsAreSafe, RowMoves, HistoryMoves, history
  <1>2. ASSUME NEW r \in Requests, CheckNew(r) PROVE StepsAreSafe
    <2>1. \A q \in Requests : RequestMoves(q)
      <3>1. CASE Leaves(r)
        BY <3>1, LeavesSafely
      <3>2. CASE /\ ValidNow(request[r].payment)
                 /\ request' = [request EXCEPT ![r].step = "admitting", ![r].fit = "charge",
                                                ![r].by = "payment_layer"]
        <4>1. /\ request'[r].step = "admitting" /\ request'[r].payment = request[r].payment
              /\ \A q \in Requests \ {r} : request'[q] = request[q]
          BY <1>0, <3>2 DEF Request
        <4> QED
          BY <3>2, <4>1 DEF RequestMoves, ValidNow
      <3> QED
        BY <1>2, <3>1, <3>2 DEF CheckNew
    <2> QED
      BY <1>0, <1>2, <2>1 DEF CheckNew, StepsAreSafe, RowMoves, HistoryMoves, history
  <1>3. ASSUME NEW r \in Requests, Admit(r) PROVE StepsAreSafe
    <2>1. \A q \in Requests : RequestMoves(q)
      BY <1>3, LeavesSafely DEF Admit
    <2>2. ASSUME NEW p \in Payments PROVE RowMoves(p)
      <3> DEFINE o == request[r].order
                 m == request[r].payment
                 claimed == [holder |-> o, hold |-> "retained",
                         at |-> IF claim[m].holder = o THEN claim[m].at ELSE now]
      <3>1. CASE claim' = claim
        BY <3>1 DEF RowMoves
      <3>2. CASE ClaimIsOurs(o, m) /\ claim' = [claim EXCEPT ![m] = claimed]
        <4>1. o \in Orders /\ m \in Payments /\ ValidBefore[m] <= now + Asked
          BY <1>0, <1>3 DEF Admit, At, RInv, CheckedEndsSoon, Late
        <4>2. ValidBefore[m] <= now + ClaimRetention
          BY <1>0, <4>1
        <4>3. CASE p # m
          BY <1>0, <3>2, <4>3 DEF RowMoves
        <4>4. CASE p = m /\ claim[m].holder = o
          BY <1>0, <3>2, <4>4 DEF RowMoves
        <4>5. CASE p = m /\ claim[m].holder # o
          <5>1. claim[p].holder = Nobody /\ claim'[p].at = now
            BY <1>0, <3>2, <4>1, <4>5 DEF ClaimIsOurs
          <5> QED
            BY <4>2, <4>5, <5>1 DEF RowMoves
        <4> QED
          BY <4>3, <4>4, <4>5
      <3> QED
        BY <1>3, <3>1, <3>2 DEF Admit
    <2>3. HistoryMoves
      BY <1>0, <1>3 DEF Admit, HistoryMoves, Accepts
    <2> QED
      BY <2>1, <2>2, <2>3 DEF StepsAreSafe
  <1>4. ASSUME NEW r \in Requests, Check(r) PROVE StepsAreSafe
    <2>1. \A q \in Requests : RequestMoves(q)
      <3>1. CASE Leaves(r)
        BY <3>1, LeavesSafely
      <3>2. ASSUME ValidNow(request[r].payment), NEW here \in BOOLEAN,
                   request' = [request EXCEPT ![r].step = "checked",
                                 ![r].fit = IF here \/ request[r].payee = "moved"
                                            THEN "return" ELSE "charge",
                                 ![r].by = IF here THEN "gateway" ELSE "payment_layer"]
            PROVE  \A q \in Requests : RequestMoves(q)
        <4>1. /\ request'[r].step = "checked" /\ request'[r].payment = request[r].payment
              /\ \A q \in Requests \ {r} : request'[q] = request[q]
          BY <1>0, <3>2 DEF Request
        <4> QED
          BY <3>2, <4>1 DEF RequestMoves, ValidNow
      <3> QED
        BY <1>4, <3>1, <3>2 DEF Check
    <2> QED
      BY <1>0, <1>4, <2>1 DEF Check, StepsAreSafe, RowMoves, HistoryMoves, history
  <1>5. ASSUME NEW r \in Requests, ClaimPayment(r) PROVE StepsAreSafe
    <2> DEFINE o == request[r].order
               m == request[r].payment
    <2>1. /\ o \in Orders /\ m \in Payments /\ request[r].step = "checked"
          /\ ValidBefore[m] <= now + Asked
      BY <1>0, <1>5 DEF ClaimPayment, At, RInv, CheckedEndsSoon, Late
    <2>2. \A q \in Requests : RequestMoves(q)
      <3>1. CASE Leaves(r)
        BY <3>1, LeavesSafely
      <3>2. CASE claim'[m].holder = o /\ Goes(r, "claimed")
        <4>1. /\ request'[r].step = "claimed" /\ request'[r].order = o
              /\ request'[r].payment = m
              /\ \A q \in Requests \ {r} : request'[q] = request[q]
          BY <1>0, <3>2 DEF Goes, Request
        <4> QED
          BY <2>1, <3>2, <4>1 DEF RequestMoves
      <3> QED
        BY <1>5, <3>1, <3>2 DEF ClaimPayment
    <2>3. ASSUME NEW p \in Payments PROVE RowMoves(p)
      <3>1. CASE claim' = claim
        BY <3>1 DEF RowMoves
      <3>2. CASE /\ claim[m].holder = Nobody
                 /\ claim' = [claim EXCEPT ![m] = [holder |-> o, hold |-> "claimed", at |-> now]]
        <4>1. CASE p # m
          BY <1>0, <3>2, <4>1 DEF RowMoves
        <4>2. CASE p = m
          <5>1. claim'[p].at = now /\ ValidBefore[p] <= now + ClaimRetention
            BY <1>0, <2>1, <3>2, <4>2
          <5> QED
            BY <3>2, <4>2, <5>1 DEF RowMoves
        <4> QED
          BY <4>1, <4>2
      <3> QED
        BY <1>5, <3>1, <3>2 DEF ClaimPayment
    <2>4. HistoryMoves
      BY <1>0, <1>5 DEF ClaimPayment, HistoryMoves, history
    <2> QED
      BY <2>2, <2>3, <2>4 DEF StepsAreSafe
  <1>6. ASSUME NEW r \in Requests, Present(r) PROVE StepsAreSafe
    <2> DEFINE o == request[r].order
               m == request[r].payment
    <2>1. /\ o \in Orders /\ m \in Payments /\ request[r].step = "claimed"
          /\ ValidBefore[m] <= now + Asked
      BY <1>0, <1>6 DEF Present, At, RInv, CheckedEndsSoon, Late
    <2>2. \A q \in Requests : RequestMoves(q)
      <3>1. CASE Leaves(r)
        BY <3>1, LeavesSafely
      <3>2. CASE Goes(r, "releasing")
        <4>1. /\ request'[r].step = "releasing" /\ request'[r].payment = m
              /\ \A q \in Requests \ {r} : request'[q] = request[q]
          BY <1>0, <3>2 DEF Goes, Request
        <4> QED
          BY <2>1, <4>1 DEF RequestMoves
      <3> QED
        BY <1>6, <3>1, <3>2 DEF Present
    <2>3. ASSUME NEW p \in Payments PROVE RowMoves(p)
      <3>1. claim' = claim \/ claim' = [claim EXCEPT ![m].hold = "retained"]
        BY <1>6 DEF Present, RetainPayment
      <3>2. claim'[p].holder = claim[p].holder /\ claim'[p].at = claim[p].at
        BY <1>0, <2>1, <3>1 DEF Claim
      <3> QED
        BY <3>2 DEF RowMoves
    <2>4. /\ now' = now /\ released' = released /\ settled' = settled
          /\ bought \subseteq bought'
          /\ returned' = returned \/ returned' = returned \union {<<o, m>>}
      BY <1>6 DEF Present, Accepts, history
    <2>5. HistoryMoves
      BY <1>0, <2>1, <2>4 DEF HistoryMoves
    <2> QED
      BY <2>2, <2>3, <2>5 DEF StepsAreSafe
  <1>7. ASSUME NEW r \in Requests, Release(r) PROVE StepsAreSafe
    <2> DEFINE o == request[r].order
               m == request[r].payment
    <2>1. \A q \in Requests : RequestMoves(q)
      BY <1>7, LeavesSafely DEF Release
    <2>2. ASSUME NEW p \in Payments PROVE RowMoves(p)
      <3>1. CASE claim' = claim
        BY <3>1 DEF RowMoves
      <3>2. CASE /\ claim[m].holder = o /\ claim' = [claim EXCEPT ![m] = NoClaim]
                 /\ released' = released \union {<<o, m>>}
        BY <1>0, <3>2 DEF RowMoves, NoClaim
      <3> QED
        BY <1>7, <3>1, <3>2 DEF Release, Releasable
    <2>3. HistoryMoves
      BY <1>0, <1>7 DEF Release, HistoryMoves
    <2> QED
      BY <2>1, <2>2, <2>3 DEF StepsAreSafe
  <1>8. ASSUME NEW r \in Requests, Crash(r) PROVE StepsAreSafe
    <2>1. \A q \in Requests : RequestMoves(q)
      BY <1>8, LeavesSafely DEF Crash
    <2> QED
      BY <1>0, <1>8, <2>1 DEF Crash, StepsAreSafe, RowMoves, HistoryMoves, history
  <1>9. ASSUME NEW o \in Orders,
               \/ GoodsArrive(o) \/ GoodsLate(o) \/ GoodsOverdue(o) \/ MerchantRefuses(o)
               \/ MerchantCloses(o) \/ ChargeFails(o)
        PROVE  StepsAreSafe
    <2>1. UNCHANGED <<now, claim, request, history>>
      BY <1>9 DEF GoodsArrive, GoodsLate, GoodsOverdue, MerchantRefuses, MerchantCloses,
                  ChargeFails, Moves
    <2> QED
      BY <1>0, <2>1 DEF StepsAreSafe, RowMoves, RequestMoves, HistoryMoves, history
  <1>10. ASSUME NEW o \in Orders, ChargeSettles(o) PROVE StepsAreSafe
    <2>1. <<o, charge[o]>> \in bought /\ now < ValidBefore[charge[o]]
      BY <1>10 DEF ChargeSettles, UnresolvedPayment, IInv, OrdersAreSound
    <2>2. HistoryMoves
      BY <1>0, <1>10, <2>1 DEF ChargeSettles, HistoryMoves
    <2> QED
      BY <1>10, <2>2 DEF ChargeSettles, StepsAreSafe, RowMoves, RequestMoves
  <1>11. CASE ForgetOldClaims
    <2>1. ASSUME NEW p \in Payments PROVE RowMoves(p)
      BY <1>0, <1>11 DEF ForgetOldClaims, OldClaim, RowMoves, NoClaim
    <2> QED
      BY <1>0, <1>11, <2>1 DEF ForgetOldClaims, StepsAreSafe, RequestMoves, HistoryMoves, history
  <1>12. CASE MerchantMoves \/ Tick \/ UNCHANGED vars
    BY <1>0, <1>12 DEF MerchantMoves, Tick, vars, StepsAreSafe, RowMoves, RequestMoves,
                       HistoryMoves, history
  <1> QED
    BY <1>1, <1>2, <1>3, <1>4, <1>5, <1>6, <1>7, <1>8, <1>9, <1>10, <1>11, <1>12 DEF Next

(* A payment that got back a finished purchase pays for no other order:    *)
(* returningPayment's check, claimPayment and forgetOldClaims leave its    *)
(* claim standing until the authorization ends, and only releaseClaim of   *)
(* the same order gives it up.                                             *)
THEOREM ReturnedPaymentsPayNothingElse == Spec => []ReturnPaysForNothingElse
  <1>1. Init => RInv
    BY ClaimsAssumption DEF Init, RInv, CheckedEndsSoon, ClaimOutlivesPayment,
       ReturnsAreGuarded, NoRequest, NoClaim, Late
  <1>2. IInv /\ IInv' /\ RInv /\ [Next]_vars => RInv'
    BY NextIsSafe, SafeStepKeepsRInv
  <1>3. IInv /\ RInv => ReturnPaysForNothingElse
    <2> SUFFICES ASSUME IInv, RInv, NEW p \in Payments, NEW o1 \in Orders, NEW o2 \in Orders,
                        <<o1, p>> \in returned, <<o1, p>> \notin released,
                        <<o2, p>> \in settled
                 PROVE  o1 = o2
      BY DEF ReturnPaysForNothingElse
    <2>1. Guarded(o1, p) /\ claim[p].holder = o2
      BY DEF RInv, ReturnsAreGuarded, IInv, TableIsSound, TakenPaymentIsKept
    <2> QED
      BY <2>1 DEF Guarded
  <1> QED
    BY <1>1, <1>2, <1>3, ClaimsInvariant, PTL DEF Spec

-----------------------------------------------------------------------------
(***************************************************************************)
(* The wallet the merchant is paid into, for any wallets, any number of    *)
(* sessions and any wait.                                                  *)
(*                                                                         *)
(* Nothing rewrites the row when a change's wait ends, and a request holds *)
(* what it read while others write; so the invariant speaks of the row as  *)
(* stored, pending change included, and of what every request under way    *)
(* carries.                                                                *)
(***************************************************************************)

Asking == [step : {"idle", "announcing", "writing"}, to : Wallets \cup {NoWallet},
           from : Wallets \cup {NoWallet}, at : Nat, read : Row, next : Row]

\* A pending change replaces one wallet by another.
RowOK(r) == r.pending # NoChange =>
    /\ r.address \in Wallets /\ r.pending.wallet \in Wallets /\ r.pending.wallet # r.address

\* Every account was told of a pending change, its whole wait ahead.
Told(r) == r.pending # NoChange =>
    \E m \in messages : m.to = r.pending.wallet /\ m.at + WaitMs <= r.pending.from

\* The first wallet, and one every account was told of the whole wait before.
Announced(w) == w = first \/ \E m \in messages : m.to = w /\ m.at + WaitMs <= clock

\* What a request carries: whom it replaces, and what its write puts in force.
AskOK(a) ==
    /\ a.step = "announcing" =>
         a.to \in Wallets /\ a.from \in Wallets /\ a.from # a.to /\ Announced(a.from)
    /\ a.step = "writing" =>
         /\ RowOK(a.next) /\ Told(a.next) /\ a.next.address \in Wallets
         /\ Announced(a.next.address) \/ a.read = Unset

Recorded == {row.address, row.pending.wallet} \ {NoWallet} \subseteq recorded

WalletIInv ==
    /\ WalletTypeOK
    /\ asking \in [Sessions -> Asking] /\ \A s \in Sessions : AskOK(asking[s])
    /\ RowOK(row) /\ Told(row)
    /\ Recorded /\ paidInto \subseteq recorded
    /\ (first = NoWallet) = (row.address = NoWallet)
    /\ row.address # NoWallet => Announced(row.address)

-----------------------------------------------------------------------------

LEMMA NoChangeRows ==
    /\ NoChange \in Change /\ Unset \in Row /\ NotAsking \in Asking /\ NotAsking.step = "idle"
    /\ Unset.pending = NoChange /\ Unset.address = NoWallet /\ NoChange.wallet = NoWallet
    /\ AskOK(NotAsking)
BY DEF NoChange, Unset, Row, Change, NotAsking, Asking, AskOK

LEMMA AloneRow ==
    ASSUME NEW w \in Wallets
    PROVE  Alone(w) \in Row /\ Alone(w).address = w /\ Alone(w).pending = NoChange
BY NoChangeRows DEF Alone, Row

\* The wallet in force is the address, or the change whose moment has come.
LEMMA WalletInForce ==
    ASSUME NEW r \in Row, RowOK(r), NEW at \in Nat
    PROVE  /\ WalletAt(r, at) \in Row
           /\ \/ WalletAt(r, at) = r
              \/ /\ r.pending # NoChange /\ r.pending.from <= at
                 /\ WalletAt(r, at).address = r.pending.wallet
                 /\ WalletAt(r, at).pending = NoChange
           /\ WalletAt(r, at).address = NoWallet => r.address = NoWallet /\ r.pending = NoChange
<1>1. CASE r.pending # NoChange /\ r.pending.from <= at
  BY <1>1, NoChangeRows, WalletAssumption DEF WalletAt, Row, RowOK
<1>2. CASE ~(r.pending # NoChange /\ r.pending.from <= at)
  BY <1>2, WalletAssumption DEF WalletAt, Row, RowOK
<1> QED BY <1>1, <1>2

LEMMA InitWallet == WalletInit => WalletIInv
<1> SUFFICES ASSUME WalletInit PROVE WalletIInv
  OBVIOUS
<1>1. asking \in [Sessions -> Asking] /\ \A s \in Sessions : AskOK(asking[s])
  BY NoChangeRows DEF WalletInit
<1>2. RowOK(row) /\ Told(row) /\ Recorded
  BY NoChangeRows DEF WalletInit, RowOK, Told, Recorded
<1>3. WalletTypeOK
  BY NoChangeRows, WalletAssumption DEF WalletInit, WalletTypeOK
<1> QED BY <1>1, <1>2, <1>3, NoChangeRows DEF WalletIInv, WalletInit

\* Nothing that was announced is unannounced by the clock or a message more.
LEMMA StaysAnnounced ==
    ASSUME WalletIInv, NEW w \in Wallets, Announced(w), messages \subseteq messages',
           clock <= clock', clock' \in Nat, first # NoWallet => first' = first
    PROVE  Announced(w)'
<1>1. CASE w = first
  BY <1>1, WalletAssumption DEF Announced
<1>2. CASE w # first
  <2>1. PICK m \in messages : m.to = w /\ m.at + WaitMs <= clock
    BY <1>2 DEF Announced
  <2>2. m.at \in Nat /\ clock \in Nat /\ WaitMs \in Nat
    BY WalletAssumption DEF WalletIInv, WalletTypeOK
  <2>3. m \in messages' /\ m.at + WaitMs <= clock'
    BY <2>1, <2>2
  <2> QED BY <2>1, <2>3 DEF Announced
<1> QED BY <1>1, <1>2

\* The wallet in force was announced, whether the row says so or the clock.
LEMMA InForceAnnounced == WalletIInv => InForce = NoWallet \/ Announced(InForce)
<1> SUFFICES ASSUME WalletIInv, InForce # NoWallet PROVE Announced(InForce)
  OBVIOUS
<1>1. row \in Row /\ RowOK(row) /\ Told(row) /\ clock \in Nat
      /\ messages \subseteq [to : Wallets, at : 0..LastInstant]
  BY WalletAssumption DEF WalletIInv, WalletTypeOK
<1>2. CASE InForce = row.address
  BY <1>2 DEF WalletIInv
<1>3. CASE row.pending # NoChange /\ row.pending.from <= clock /\ InForce = row.pending.wallet
  <2>1. PICK m \in messages : m.to = row.pending.wallet /\ m.at + WaitMs <= row.pending.from
    BY <1>1, <1>3 DEF Told
  <2>2. m.at \in Nat /\ row.pending.from \in Nat
    BY <1>1 DEF Row, Change
  <2>3. m.at + WaitMs <= clock
    BY <1>1, <1>3, <2>1, <2>2, WalletAssumption
  <2> QED BY <1>3, <2>1, <2>3 DEF Announced
<1> QED BY <1>1, <1>2, <1>3, WalletInForce DEF InForce

\* A request moves on: the row and what is recorded stay.
LEMMA RequestStep ==
    ASSUME WalletIInv, NEW s \in Sessions, NEW a \in Asking, asking' = [asking EXCEPT ![s] = a],
           AskOK(a)', messages \subseteq messages',
           messages' \subseteq [to : Wallets, at : 0..LastInstant],
           asked' \in 0..MaxAsked, UNCHANGED <<clock, row, recorded, paidInto, first>>
    PROVE  WalletIInv'
<1> USE DEF WalletIInv
<1>1. asking' \in [Sessions -> Asking] /\ asking'[s] = a
      /\ \A t \in Sessions \ {s} : asking'[t] = asking[t]
  OBVIOUS
<1>2. ASSUME NEW t \in Sessions PROVE AskOK(asking[t])'
  <2>1. CASE t = s
    BY <1>1, <2>1
  <2>2. CASE t # s
    BY <1>1, <2>2 DEF AskOK, RowOK, Told, Announced
  <2> QED BY <2>1, <2>2
<1>3. WalletTypeOK'
  BY <1>1 DEF WalletTypeOK, Asking
<1> QED BY <1>1, <1>2, <1>3 DEF RowOK, Told, Recorded, Announced

LEMMA AskStep == ASSUME WalletIInv, NEW s \in Sessions, NEW w \in Wallets, Ask(s, w) PROVE WalletIInv'
<1>1. row \in Row /\ RowOK(row) /\ clock \in Nat /\ asked \in 0..MaxAsked /\ asking \in [Sessions -> Asking]
  BY WalletAssumption DEF WalletIInv, WalletTypeOK
<1>2. PICK standing : standing = WalletAt(row, clock)
  OBVIOUS
<1>3. standing \in Row /\ standing.address \in Wallets \cup {NoWallet}
      /\ (standing.address = NoWallet => row = Unset)
      /\ (standing.address # NoWallet => Announced(standing.address))
  BY <1>1, <1>2, WalletInForce, InForceAnnounced DEF Row, Unset, InForce
<1>4. PICK step \in {"announcing", "writing"} :
        /\ asking' = [asking EXCEPT ![s] =
             [step |-> step, to |-> w, from |-> standing.address, at |-> clock,
              read |-> row, next |-> Alone(w)]]
        /\ step = "announcing" => standing.address # NoWallet /\ standing.address # w
        /\ step = "writing" => standing.address = NoWallet \/ standing.address = w
  BY <1>2 DEF Ask, Replaces
<1>5. PICK a : a = [step |-> step, to |-> w, from |-> standing.address, at |-> clock,
                    read |-> row, next |-> Alone(w)]
  OBVIOUS
<1>6. a \in Asking
  BY <1>1, <1>3, <1>5, AloneRow DEF Asking
<1>7. AskOK(a)'
  <2>1. step = "announcing" => standing.address \in Wallets
    BY <1>3, <1>4
  <2>2. Alone(w).address = w /\ Alone(w).pending = NoChange
    BY AloneRow
  <2>3. UNCHANGED <<clock, messages, first>>
    BY DEF Ask
  <2> QED BY <1>3, <1>4, <1>5, <2>1, <2>2, <2>3 DEF AskOK, RowOK, Told, Announced
<1>8. asked' \in 0..MaxAsked /\ UNCHANGED <<clock, row, recorded, paidInto, messages, first>>
  BY <1>1, WalletAssumption DEF Ask
<1> QED BY <1>4, <1>5, <1>6, <1>7, <1>8, RequestStep DEF WalletIInv, WalletTypeOK

LEMMA HandedOverStep == ASSUME WalletIInv, NEW s \in Sessions, HandedOver(s) PROVE WalletIInv'
<1>1. /\ asking \in [Sessions -> Asking] /\ asking[s] \in Asking /\ AskOK(asking[s])
      /\ asking[s].step = "announcing"
      /\ clock \in 0..LastInstant /\ clock \in Nat /\ clock + WaitMs \in Nat /\ clock + WaitMs # 0
  BY WalletAssumption DEF WalletIInv, WalletTypeOK, HandedOver
<1>2. asking[s].to \in Wallets /\ asking[s].from \in Wallets /\ asking[s].from # asking[s].to
      /\ Announced(asking[s].from)
  BY <1>1 DEF AskOK
<1>3. PICK next : next = [address |-> asking[s].from,
                          pending |-> [wallet |-> asking[s].to, from |-> clock + WaitMs]]
  OBVIOUS
<1>4. PICK a : a = [asking[s] EXCEPT !.step = "writing", !.next = next]
  OBVIOUS
<1>5. asking' = [asking EXCEPT ![s] = a]
  BY <1>1, <1>3, <1>4 DEF HandedOver, TakesEffectAt, Asking
<1>6. next \in Row /\ next.address = asking[s].from /\ next.pending.wallet = asking[s].to
      /\ next.pending.from = clock + WaitMs
  BY <1>1, <1>2, <1>3 DEF Row, Change
<1>7. a \in Asking /\ a.step = "writing" /\ a.next = next /\ a.from = asking[s].from
  BY <1>1, <1>4, <1>6 DEF Asking
<1>8. PICK m : m = [to |-> asking[s].to, at |-> clock]
  OBVIOUS
<1>9. m \in messages' /\ messages' = messages \cup {m}
  BY <1>8 DEF HandedOver
<1>10. messages' \subseteq [to : Wallets, at : 0..LastInstant]
  BY <1>1, <1>2, <1>8, <1>9 DEF WalletIInv, WalletTypeOK
<1>11. AskOK(a)'
  <2>1. Told(next)'
    BY <1>1, <1>6, <1>8, <1>9 DEF Told
  <2>2. Announced(next.address)'
    BY <1>2, <1>6, <1>9 DEF HandedOver, Announced
  <2> QED BY <1>2, <1>6, <1>7, <2>1, <2>2 DEF AskOK, RowOK
<1> QED BY <1>5, <1>7, <1>9, <1>10, <1>11, RequestStep DEF HandedOver, WalletIInv, WalletTypeOK

LEMMA NotAnnouncedStep == ASSUME WalletIInv, NEW s \in Sessions, NotAnnounced(s) PROVE WalletIInv'
<1>1. AskOK(NotAsking)'
  BY NoChangeRows DEF AskOK
<1> QED BY <1>1, NoChangeRows, RequestStep DEF NotAnnounced, WalletIInv, WalletTypeOK

LEMMA WriteStep == ASSUME WalletIInv, NEW s \in Sessions, Write(s) PROVE WalletIInv'
<1>1. AskOK(NotAsking)'
  BY NoChangeRows DEF AskOK
<1>2. CASE ~StillHolds(s)
  BY <1>1, <1>2, NoChangeRows, RequestStep DEF Write, WalletIInv, WalletTypeOK
<1>3. CASE StillHolds(s)
  <2> USE DEF WalletIInv
  <2>1. asking[s] \in Asking /\ AskOK(asking[s]) /\ asking[s].step = "writing"
    BY DEF Write
  <2>2. row' = asking[s].next /\ row' \in Row /\ RowOK(asking[s].next) /\ Told(asking[s].next)
        /\ row'.address \in Wallets
    BY <1>3, <2>1 DEF Write, Asking, AskOK
  <2>3. /\ recorded' = recorded \cup ({row'.address, row'.pending.wallet} \ {NoWallet})
        /\ asking' = [asking EXCEPT ![s] = NotAsking]
        /\ UNCHANGED <<clock, paidInto, messages, asked>>
    BY <1>3 DEF Write
  <2>4. row'.pending.wallet \in Wallets \cup {NoWallet}
    BY <2>2 DEF Row, Change
  <2>5. recorded' \subseteq Wallets /\ RowOK(row)' /\ Told(row)' /\ Recorded'
    BY <2>2, <2>3, <2>4 DEF WalletTypeOK, RowOK, Told, Recorded
  <2>8. first' = (IF first = NoWallet THEN row'.address ELSE first)
    BY <1>3 DEF Write
  <2>9. clock \in Nat
    BY WalletAssumption DEF WalletTypeOK
  <2>10. ASSUME NEW w \in Wallets, Announced(w) PROVE Announced(w)'
    BY <2>3, <2>8, <2>9, <2>10, StaysAnnounced
  <2>11. Announced(row.address)'
    <3>1. CASE asking[s].read = Unset
      <4>1. first = NoWallet
        BY <1>3, <3>1, NoChangeRows DEF StillHolds
      <4> QED BY <2>8, <4>1 DEF Announced
    <3>2. CASE Announced(asking[s].next.address)
      BY <2>2, <2>10, <3>2
    <3> QED BY <2>1, <3>1, <3>2 DEF AskOK
  <2>6. asking' \in [Sessions -> Asking] /\ \A t \in Sessions : AskOK(asking[t])'
    <3>1. asking' \in [Sessions -> Asking] /\ asking'[s] = NotAsking
      BY <2>3, NoChangeRows
    <3>2. ASSUME NEW t \in Sessions, t # s PROVE AskOK(asking[t])'
      <4>1. asking'[t] = asking[t] /\ AskOK(asking[t])
        BY <2>3, <3>2
      <4>2. ASSUME asking[t].step = "announcing" PROVE Announced(asking[t].from)'
        BY <2>10, <4>1, <4>2 DEF AskOK
      <4>3. ASSUME asking[t].step = "writing"
            PROVE  Announced(asking[t].next.address)' \/ asking[t].read = Unset
        BY <2>10, <4>1, <4>3 DEF AskOK
      <4>4. UNCHANGED messages
        BY <2>3
      <4> QED BY <4>1, <4>2, <4>3, <4>4 DEF AskOK, RowOK, Told
    <3> QED BY <1>1, <3>1, <3>2
  <2>7. WalletTypeOK'
    BY <2>2, <2>3, <2>5, <2>6, <2>8 DEF WalletTypeOK, RowOK, Asking
  <2>12. (first' = NoWallet) = (row'.address = NoWallet)
    BY <2>2, <2>8, WalletAssumption
  <2> QED BY <2>3, <2>5, <2>6, <2>7, <2>11, <2>12
<1> QED BY <1>2, <1>3

LEMMA NextWallet == WalletIInv /\ [WalletNext]_walletVars => WalletIInv'
<1> SUFFICES ASSUME WalletIInv, [WalletNext]_walletVars PROVE WalletIInv'
  OBVIOUS
<1>1. CASE Sell
  <2>1. WalletTypeOK' /\ paidInto' \subseteq recorded'
    BY <1>1 DEF Sell, WalletIInv, WalletTypeOK
  <2> QED BY <1>1, <2>1 DEF Sell, WalletIInv, AskOK, RowOK, Told, Recorded, Announced
<1>2. CASE WalletTick
  <2>1. WalletTypeOK'
    BY <1>2, WalletAssumption DEF WalletTick, WalletIInv, WalletTypeOK
  <2>2. clock <= clock' /\ clock' \in Nat /\ UNCHANGED <<row, asking, messages, first>>
    BY <1>2, WalletAssumption DEF WalletTick, WalletIInv, WalletTypeOK
  <2>3. ASSUME NEW w \in Wallets, Announced(w) PROVE Announced(w)'
    BY <2>2, <2>3, StaysAnnounced
  <2>4. row.address # NoWallet => Announced(row.address)'
    <3>1. row.address \in Wallets \cup {NoWallet}
      BY DEF WalletIInv, WalletTypeOK, Row
    <3> QED BY <2>2, <2>3, <3>1 DEF WalletIInv
  <2>5. ASSUME NEW s \in Sessions PROVE AskOK(asking[s])'
    BY <2>2, <2>3 DEF WalletIInv, AskOK, RowOK, Told
  <2> QED BY <1>2, <2>1, <2>4, <2>5 DEF WalletTick, WalletIInv, RowOK, Told, Recorded
<1>3. CASE UNCHANGED walletVars
  BY <1>3 DEF walletVars, WalletIInv, WalletTypeOK, AskOK, RowOK, Told, Recorded, Announced
<1> QED BY <1>1, <1>2, <1>3, AskStep, HandedOverStep, NotAnnouncedStep, WriteStep DEF WalletNext

(* The inductive invariant holds in every state of the wallet.             *)
THEOREM WalletInvariant == WalletSpec => []WalletIInv
BY InitWallet, NextWallet, PTL DEF WalletSpec

-----------------------------------------------------------------------------

LEMMA PaidOut == WalletIInv => MoneyIsPaidOut
<1> SUFFICES ASSUME WalletIInv PROVE MoneyIsPaidOut
  OBVIOUS
<1>1. row \in Row /\ RowOK(row) /\ clock \in Nat /\ paidInto \subseteq Wallets
  BY WalletAssumption DEF WalletIInv, WalletTypeOK
<1>2. InForce \in {row.address, row.pending.wallet}
  BY <1>1, WalletInForce DEF InForce
<1>3. {InForce} \ {NoWallet} \subseteq recorded
  BY <1>2 DEF WalletIInv, Recorded
<1>4. ASSUME NEW w \in paidInto \cup ({InForce} \ {NoWallet}) PROVE w \in SplitsToPayOut
  <2>1. w \in recorded /\ HoldsMoney(w)
    BY <1>3 DEF WalletIInv, HoldsMoney
  <2> QED BY <2>1 DEF SplitsToPayOut
<1> QED BY <1>4 DEF MoneyIsPaidOut, WalletIInv

(* What was ever paid into a split is paid out, for any wallets and any    *)
(* race of sessions over the row (splitsToPayOut, setPayoutWallet's        *)
(* recorded splits).                                                       *)
THEOREM MoneyIsPaid == WalletSpec => []MoneyIsPaidOut
BY WalletInvariant, PaidOut, PTL

(* Buyers pay the first wallet or one announced the whole wait before,     *)
(* whatever sessions race and however late a write lands (setPayoutWallet's*)
(* compare-and-write, payoutWalletAt).                                     *)
THEOREM PaysAnnouncedWallets == WalletSpec => []InForceWasAnnounced
<1>1. WalletIInv => InForceWasAnnounced
  BY InForceAnnounced DEF InForceWasAnnounced, Announced
<1> QED BY <1>1, WalletInvariant, PTL

-----------------------------------------------------------------------------
(***************************************************************************)
(* BrowserObservations.  For any number of observations, workers, days and *)
(* faults: an observation is paid for once, a day goes past its budget by  *)
(* the provider's overcharges alone, and what a day counts covers what the *)
(* provider bills as far as that was reserved for.                         *)
(*                                                                         *)
(* The invariant speaks of a row with its runs (EntryOK), of a worker with *)
(* its row (WorkOK) and of a day with its rows (BooksOK).  A worker that   *)
(* may still start the paid run is the only one at its observation, which  *)
(* has no run yet; an ended row counts the whole of what was reserved, or  *)
(* more, or its run is over and its bill is counted.  The sums over the rows of a   *)
(* day come first: their recursion is unfolded by the least counterexample *)
(* among the subsets of a finite set.                                      *)
(***************************************************************************)

(* Among some subsets of a finite set there is a smallest one.             *)
LEMMA SmallestSet ==
    ASSUME NEW S, IsFiniteSet(S), NEW B, B \subseteq SUBSET S, B # {}
    PROVE  \E X \in B : \A Y \in B : Y \subseteq X => Y = X
<1>1. B \subseteq FiniteSubsetsOf(S)
  BY FS_Subset DEF FiniteSubsetsOf
<1>2. IsWellFoundedOn(StrictSubsetOrdering(S), FiniteSubsetsOf(S))
  BY FS_StrictSubsetOrderingWellFounded
<1>3. PICK X \in B : \A Y \in B : ~(<<Y, X>> \in StrictSubsetOrdering(S))
  BY <1>1, <1>2, WFMin
<1>4. ASSUME NEW Y \in B, Y \subseteq X, Y # X PROVE FALSE
  <2>1. <<Y, X>> \in StrictSubsetOrdering(S)
    BY <1>4 DEF StrictSubsetOrdering
  <2> QED BY <1>3, <2>1
<1> QED BY <1>4

One(s) == CHOOSE x \in s : TRUE

\* The member a sum takes first is one of the set.
LEMMA OneIsIn == \A s : s # {} => One(s) \in s
  BY DEF One

\* g solves the recursion of the sum on the subsets of S.
Adds(f, S, g) ==
    g = [s \in SUBSET S |-> IF s = {} THEN 0 ELSE f[One(s)] + g[s \ {One(s)}]]

\* The sum over a set is a solution of its recursion, read at the set.
LEMMA SumIs ==
    ASSUME NEW f, NEW S
    PROVE  SumFunctionOnSet(f, S) = (CHOOSE g : Adds(f, S, g))[S]
  BY DEF SumFunctionOnSet, FoldFunctionOnSet, MapThenFoldSet, Adds, One

\* A solution unfolded at one subset.
LEMMA AddsAt ==
    ASSUME NEW f, NEW S, NEW g, Adds(f, S, g), NEW s \in SUBSET S
    PROVE  g[s] = IF s = {} THEN 0 ELSE f[One(s)] + g[s \ {One(s)}]
  BY DEF Adds

\* Two solutions agree where both are defined.
LEMMA SolutionsAgree ==
    ASSUME NEW f, NEW S, IsFiniteSet(S), NEW T, T \subseteq S,
           NEW g, NEW h, Adds(f, S, g), Adds(f, T, h)
    PROVE  g[T] = h[T]
<1>1. IsFiniteSet(T)
  BY FS_Subset
<1>2. \A s \in SUBSET S : g[s] = IF s = {} THEN 0 ELSE f[One(s)] + g[s \ {One(s)}]
  BY AddsAt
<1>3. \A s \in SUBSET T : h[s] = IF s = {} THEN 0 ELSE f[One(s)] + h[s \ {One(s)}]
  BY AddsAt
<1> DEFINE B == {s \in SUBSET T : g[s] # h[s]}
<1>4. B = {}
  <2> SUFFICES ASSUME B # {} PROVE FALSE
    OBVIOUS
  <2>1. PICK s \in B : \A t \in B : t \subseteq s => t = s
    <3>1. B \subseteq SUBSET T
      OBVIOUS
    <3> HIDE DEF B
    <3> QED BY <1>1, <3>1, SmallestSet
  <2>2. s \in SUBSET T /\ s \in SUBSET S /\ g[s] # h[s]
    OBVIOUS
  <2>3. /\ g[s] = IF s = {} THEN 0 ELSE f[One(s)] + g[s \ {One(s)}]
        /\ h[s] = IF s = {} THEN 0 ELSE f[One(s)] + h[s \ {One(s)}]
    BY <2>2, <1>2, <1>3
  <2>4. s # {}
    BY <2>2, <2>3
  <2>5. One(s) \in s
    BY <2>4, OneIsIn
  <2>6. s \ {One(s)} \in SUBSET T /\ s \ {One(s)} # s /\ s \ {One(s)} \subseteq s
    BY <2>2, <2>5
  <2>7. g[s \ {One(s)}] = h[s \ {One(s)}]
    BY <2>1, <2>6
  <2> QED BY <2>2, <2>3, <2>4, <2>7
<1> QED BY <1>4

\* The sum of a set that has a solution, as one of its members and the rest.
LEMMA SumUnfolds ==
    ASSUME NEW f, NEW S, IsFiniteSet(S),
           \A T \in SUBSET S : \E g : Adds(f, T, g)
    PROVE  SumFunctionOnSet(f, S) =
             IF S = {} THEN 0 ELSE f[One(S)] + SumFunctionOnSet(f, S \ {One(S)})
<1> DEFINE G(T) == CHOOSE g : Adds(f, T, g)
<1>1. \A T \in SUBSET S : Adds(f, T, G(T))
  <2> SUFFICES ASSUME NEW T \in SUBSET S PROVE Adds(f, T, G(T))
    OBVIOUS
  <2>1. \E g : Adds(f, T, g)
    OBVIOUS
  <2> HIDE DEF Adds
  <2> QED BY <2>1
<1>2. \A T : SumFunctionOnSet(f, T) = G(T)[T]
  BY SumIs
<1> HIDE DEF G
<1>3. G(S)[S] = IF S = {} THEN 0 ELSE f[One(S)] + G(S)[S \ {One(S)}]
  BY <1>1, AddsAt
<1>4. G(S)[S \ {One(S)}] = G(S \ {One(S)})[S \ {One(S)}]
  BY <1>1, SolutionsAgree
<1> QED BY <1>2, <1>3, <1>4

\* The recursion of a sum over a finite set has a solution.
LEMMA SolutionExists ==
    ASSUME NEW f, NEW S, IsFiniteSet(S)
    PROVE  \A T \in SUBSET S : \E g : Adds(f, T, g)
<1> DEFINE B == {T \in SUBSET S : ~\E g : Adds(f, T, g)}
<1> SUFFICES ASSUME B # {} PROVE FALSE
  OBVIOUS
<1>1. PICK X \in B : \A Y \in B : Y \subseteq X => Y = X
  <2>1. B \subseteq SUBSET S
    OBVIOUS
  <2> HIDE DEF B
  <2> QED BY <2>1, SmallestSet
<1>2. IsFiniteSet(X)
  BY FS_Subset
<1>3. \A T \in SUBSET X : T # X => \E g : Adds(f, T, g)
  BY <1>1
<1>4. ASSUME NEW s \in SUBSET X, s # X, s # {}
      PROVE  SumFunctionOnSet(f, s) = f[One(s)] + SumFunctionOnSet(f, s \ {One(s)})
  <2>1. IsFiniteSet(s)
    BY <1>2, FS_Subset
  <2>2. \A T \in SUBSET s : T \in SUBSET X /\ T # X
    BY <1>4
  <2>3. \A T \in SUBSET s : \E g : Adds(f, T, g)
    BY <1>3, <2>2
  <2> QED BY <1>4, <2>1, <2>3, SumUnfolds
<1>5. X # {} => SumFunctionOnSet(f, {}) = 0
  <2> SUFFICES ASSUME X # {} PROVE SumFunctionOnSet(f, {}) = 0
    OBVIOUS
  <2>1. \A T \in SUBSET {} : \E g : Adds(f, T, g)
    BY <1>3
  <2> QED BY <2>1, SumUnfolds, FS_EmptySet
<1> DEFINE v(s) == IF s = {} THEN 0
                   ELSE IF s = X THEN f[One(X)] + SumFunctionOnSet(f, X \ {One(X)})
                   ELSE SumFunctionOnSet(f, s)
           g == [s \in SUBSET X |-> v(s)]
<1>6. \A s \in SUBSET X : v(s) = IF s = {} THEN 0 ELSE f[One(s)] + g[s \ {One(s)}]
  <2> SUFFICES ASSUME NEW s \in SUBSET X, s # {} PROVE v(s) = f[One(s)] + g[s \ {One(s)}]
    OBVIOUS
  <2>1. One(s) \in s /\ s \ {One(s)} \in SUBSET X /\ s \ {One(s)} # X
    BY OneIsIn
  <2>2. g[s \ {One(s)}] = SumFunctionOnSet(f, s \ {One(s)})
    BY <1>5, <2>1
  <2>3. v(s) = f[One(s)] + SumFunctionOnSet(f, s \ {One(s)})
    BY <1>4
  <2> QED BY <2>2, <2>3
<1>7. Adds(f, X, g)
  <2> HIDE DEF v
  <2>1. g = [s \in SUBSET X |-> IF s = {} THEN 0 ELSE f[One(s)] + g[s \ {One(s)}]]
    BY <1>6
  <2> QED BY <2>1 DEF Adds
<1> QED BY <1>7

\* The sum over a finite set, as one of its members and the rest.
LEMMA SumStep ==
    ASSUME NEW f, NEW S, IsFiniteSet(S)
    PROVE  SumFunctionOnSet(f, S) =
             IF S = {} THEN 0 ELSE f[One(S)] + SumFunctionOnSet(f, S \ {One(S)})
  BY SolutionExists, SumUnfolds

(* Sums of natural numbers over a finite set.                              *)
LEMMA SumOfNothing == \A f : SumFunctionOnSet(f, {}) = 0
  BY SumStep, FS_EmptySet

\* A sum of natural numbers is one.
LEMMA SumIsNatural ==
    ASSUME NEW f, NEW S, IsFiniteSet(S), \A x \in S : f[x] \in Nat
    PROVE  SumFunctionOnSet(f, S) \in Nat
<1> DEFINE B == {T \in SUBSET S : SumFunctionOnSet(f, T) \notin Nat}
<1>1. ASSUME B # {} PROVE FALSE
  <2>1. PICK X \in B : \A Y \in B : Y \subseteq X => Y = X
    <3>1. B \subseteq SUBSET S
      OBVIOUS
    <3> HIDE DEF B
    <3> QED BY <1>1, <3>1, SmallestSet
  <2>2. X \in SUBSET S /\ SumFunctionOnSet(f, X) \notin Nat
    OBVIOUS
  <2>3. X # {}
    BY <2>2, SumOfNothing
  <2>4. One(X) \in X /\ f[One(X)] \in Nat
    BY <2>2, <2>3, OneIsIn
  <2>5. SumFunctionOnSet(f, X) = f[One(X)] + SumFunctionOnSet(f, X \ {One(X)})
    BY <2>2, <2>3, SumStep, FS_Subset
  <2>6. X \ {One(X)} \in SUBSET S /\ X \ {One(X)} \subseteq X /\ X \ {One(X)} # X
    BY <2>2, <2>4
  <2>7. SumFunctionOnSet(f, X \ {One(X)}) \in Nat
    BY <2>1, <2>6
  <2> QED BY <2>2, <2>4, <2>5, <2>7
<1> QED BY <1>1

\* Any member may be the one that is added last.
LEMMA SumPick ==
    ASSUME NEW f, NEW S, IsFiniteSet(S), \A x \in S : f[x] \in Nat, NEW a \in S
    PROVE  SumFunctionOnSet(f, S) = f[a] + SumFunctionOnSet(f, S \ {a})
<1> DEFINE B == {T \in SUBSET S :
                   \E x \in T : SumFunctionOnSet(f, T) # f[x] + SumFunctionOnSet(f, T \ {x})}
<1>1. ASSUME B # {} PROVE FALSE
  <2>1. PICK X \in B : \A Y \in B : Y \subseteq X => Y = X
    <3>1. B \subseteq SUBSET S
      OBVIOUS
    <3> HIDE DEF B
    <3> QED BY <1>1, <3>1, SmallestSet
  <2>2. PICK x \in X : SumFunctionOnSet(f, X) # f[x] + SumFunctionOnSet(f, X \ {x})
    OBVIOUS
  <2>3. X \in SUBSET S /\ IsFiniteSet(X) /\ X # {}
    BY <2>2, FS_Subset
  <2>4. PICK y \in X : SumFunctionOnSet(f, X) = f[y] + SumFunctionOnSet(f, X \ {y})
    BY <2>3, OneIsIn, SumStep
  <2>5. x # y
    BY <2>2, <2>4
  <2>6. /\ X \ {x} \in SUBSET S /\ X \ {y} \in SUBSET S
        /\ X \ {x} # X /\ X \ {y} # X /\ X \ {x} \subseteq X /\ X \ {y} \subseteq X
        /\ x \in X \ {y} /\ y \in X \ {x} /\ (X \ {x}) \ {y} = (X \ {y}) \ {x}
    BY <2>3, <2>5
  <2>7. X \ {x} \notin B /\ X \ {y} \notin B
    BY <2>1, <2>6
  <2>8. /\ SumFunctionOnSet(f, X \ {y}) = f[x] + SumFunctionOnSet(f, (X \ {y}) \ {x})
        /\ SumFunctionOnSet(f, X \ {x}) = f[y] + SumFunctionOnSet(f, (X \ {y}) \ {x})
    BY <2>6, <2>7
  <2>9. /\ f[x] \in Nat /\ f[y] \in Nat /\ SumFunctionOnSet(f, (X \ {y}) \ {x}) \in Nat
    <3>1. (X \ {y}) \ {x} \in SUBSET S /\ IsFiniteSet((X \ {y}) \ {x})
      BY <2>3, FS_Subset
    <3> QED BY <2>3, <3>1, SumIsNatural
  <2> QED BY <2>2, <2>4, <2>8, <2>9
<1> QED BY <1>1

\* Functions that agree on the set have the same sum over it.
LEMMA SumSame ==
    ASSUME NEW f, NEW g, NEW S, IsFiniteSet(S), \A x \in S : f[x] = g[x]
    PROVE  SumFunctionOnSet(f, S) = SumFunctionOnSet(g, S)
<1> DEFINE B == {T \in SUBSET S : SumFunctionOnSet(f, T) # SumFunctionOnSet(g, T)}
<1>1. ASSUME B # {} PROVE FALSE
  <2>1. PICK X \in B : \A Y \in B : Y \subseteq X => Y = X
    <3>1. B \subseteq SUBSET S
      OBVIOUS
    <3> HIDE DEF B
    <3> QED BY <1>1, <3>1, SmallestSet
  <2>2. X \in SUBSET S /\ SumFunctionOnSet(f, X) # SumFunctionOnSet(g, X) /\ IsFiniteSet(X)
    BY FS_Subset
  <2>3. X # {}
    BY <2>2, SumOfNothing
  <2>4. One(X) \in X /\ f[One(X)] = g[One(X)]
    BY <2>2, <2>3, OneIsIn
  <2>5. /\ SumFunctionOnSet(f, X) = f[One(X)] + SumFunctionOnSet(f, X \ {One(X)})
        /\ SumFunctionOnSet(g, X) = g[One(X)] + SumFunctionOnSet(g, X \ {One(X)})
    BY <2>2, <2>3, SumStep
  <2>6. X \ {One(X)} \in SUBSET S /\ X \ {One(X)} \subseteq X /\ X \ {One(X)} # X
    BY <2>2, <2>4
  <2>7. SumFunctionOnSet(f, X \ {One(X)}) = SumFunctionOnSet(g, X \ {One(X)})
    BY <2>1, <2>6
  <2> QED BY <2>2, <2>4, <2>5, <2>7
<1> QED BY <1>1

\* What two functions cover member by member, their sums cover.
LEMMA SumCovers ==
    ASSUME NEW f, NEW g, NEW h, NEW S, IsFiniteSet(S),
           \A x \in S : f[x] \in Nat /\ g[x] \in Nat /\ h[x] \in Nat /\ f[x] + g[x] >= h[x]
    PROVE  SumFunctionOnSet(f, S) + SumFunctionOnSet(g, S) >= SumFunctionOnSet(h, S)
<1> DEFINE B == {T \in SUBSET S : ~(SumFunctionOnSet(f, T) + SumFunctionOnSet(g, T)
                                     >= SumFunctionOnSet(h, T))}
<1>1. ASSUME B # {} PROVE FALSE
  <2>1. PICK X \in B : \A Y \in B : Y \subseteq X => Y = X
    <3>1. B \subseteq SUBSET S
      OBVIOUS
    <3> HIDE DEF B
    <3> QED BY <1>1, <3>1, SmallestSet
  <2>2. /\ X \in SUBSET S /\ IsFiniteSet(X)
        /\ ~(SumFunctionOnSet(f, X) + SumFunctionOnSet(g, X) >= SumFunctionOnSet(h, X))
    BY FS_Subset
  <2>3. X # {}
    BY <2>2, SumOfNothing
  <2>4. PICK x \in X : x = One(X)
    BY <2>3, OneIsIn
  <2>5. PICK R : R = X \ {x}
    OBVIOUS
  <2>6. /\ SumFunctionOnSet(f, X) = f[x] + SumFunctionOnSet(f, R)
        /\ SumFunctionOnSet(g, X) = g[x] + SumFunctionOnSet(g, R)
        /\ SumFunctionOnSet(h, X) = h[x] + SumFunctionOnSet(h, R)
    BY <2>2, <2>3, <2>4, <2>5, SumStep
  <2>7. R \in SUBSET S /\ R \subseteq X /\ R # X /\ IsFiniteSet(R)
    BY <2>2, <2>4, <2>5, FS_Subset
  <2>8. SumFunctionOnSet(f, R) + SumFunctionOnSet(g, R) >= SumFunctionOnSet(h, R)
    BY <2>1, <2>7
  <2>9. /\ SumFunctionOnSet(f, R) \in Nat /\ SumFunctionOnSet(g, R) \in Nat
        /\ SumFunctionOnSet(h, R) \in Nat
        /\ f[x] \in Nat /\ g[x] \in Nat /\ h[x] \in Nat /\ f[x] + g[x] >= h[x]
    BY <2>2, <2>7, SumIsNatural
  <2> QED BY <2>2, <2>6, <2>8, <2>9
<1> QED BY <1>1

EntryRecord ==
    [status : Ends \cup Active \cup {"queued"}, leased : BOOLEAN, token : Workers \cup {None},
     run : {0, 1}, reserved : 0..MaxRunUsd, day : 0..LastDay, usage : Nat,
     settled : BOOLEAN, cleaned : BOOLEAN]
RunRecord == [live : BOOLEAN, stored : BOOLEAN, cost : Nat]
ToldUsage == {{}} \cup {{u} : u \in Nat}
Phases == {"idle", "reserving", "searching", "attaching", "giving_up", "exhausted", "starting",
           "unattached", "disowned", "waiting", "late", "ended", "stopping", "timed_out",
           "refusing", "completing", "marking", "failing", "cleaning", "recording"}

\* What an ended row counts covers its run: all that was reserved is counted, or more,
\* or the run is over and its bill is.
Covered(e, rs) ==
    \/ e.usage + e.reserved = MaxRunUsd
    \/ e.reserved = 0 /\ e.usage >= MaxRunUsd
    \/ /\ e.reserved = 0
       /\ Len(rs) = 1 /\ rs[1].live = FALSE /\ rs[1].cost <= e.usage

EntryOK(e, rs) ==
    /\ e \in EntryRecord /\ rs \in Seq(RunRecord) /\ Len(rs) \in {0, 1}
    /\ e.run <= Len(rs) /\ (e.token # None) = (e.status \in Active)
    /\ e.status = "queued" => Len(rs) = 0 /\ e.day = 0
    /\ e.status \notin Ends => e.usage = 0
    /\ e.day = 0 => e.reserved = 0
    /\ e.day # 0 /\ e.status \in Active => e.reserved = MaxRunUsd
    /\ e.day # 0 /\ e.status \in Ends => Covered(e, rs)

\* Workers that may still start the paid run, and workers at a run.
First == {"reserving", "exhausted", "starting"}
AtARun == {"attaching", "unattached", "disowned", "waiting", "late", "ended", "stopping",
           "timed_out", "refusing", "completing", "recording"}

WorkOK(s, r, t, e, rs) ==
    /\ s \in Phases /\ r \in {0, 1} /\ r <= Len(rs) /\ t \in ToldUsage
    /\ s \in AtARun => r = 1
    /\ s \in First => Len(rs) = 0 /\ e.status # "queued"
    /\ s \in {"reserving", "exhausted"} => e.day = 0

DayOf(e, d) == {o \in Observations : e[o].day = d}
ReservedOf(e) == [o \in Observations |-> e[o].reserved]
UsageOf(e) == [o \in Observations |-> e[o].usage]
ExcessOf(e) == [o \in Observations |-> Beyond(e[o].usage, MaxRunUsd)]

BooksOK(e, dd) ==
    /\ dd \in [1..LastDay -> [reserved : Nat, usage : Nat]]
    /\ \A d \in 1..LastDay :
         /\ dd[d].reserved = SumFunctionOnSet(ReservedOf(e), DayOf(e, d))
         /\ dd[d].usage = SumFunctionOnSet(UsageOf(e), DayOf(e, d))
         /\ dd[d].reserved + dd[d].usage
              <= DailyBudgetUsd + SumFunctionOnSet(ExcessOf(e), DayOf(e, d))

RowsOK ==
    /\ entry \in [Observations -> EntryRecord] /\ runs \in [Observations -> Seq(RunRecord)]
    /\ \A o \in Observations : EntryOK(entry[o], runs[o])
WorkersOK ==
    /\ phase \in [Workers -> Phases] /\ on \in [Workers -> Observations]
    /\ run \in [Workers -> {0, 1}] /\ reported \in [Workers -> ToldUsage]
    /\ \A w \in Workers : WorkOK(phase[w], run[w], reported[w], entry[on[w]], runs[on[w]])
    /\ \A v, w \in Workers : phase[v] \in First /\ phase[w] \in First /\ on[v] = on[w] => v = w

ObservationIInv ==
    /\ RowsOK /\ WorkersOK /\ BooksOK(entry, day)
    /\ today \in 1..LastDay /\ overdue \subseteq Observations

-----------------------------------------------------------------------------
(* The books of a day: what a change of one row does to the sums.          *)
LEMMA SumUpdate ==
    ASSUME NEW f, NEW g, NEW S, IsFiniteSet(S), NEW a \in S,
           \A x \in S : f[x] \in Nat /\ g[x] \in Nat, \A x \in S \ {a} : f[x] = g[x]
    PROVE  /\ SumFunctionOnSet(g, S) = (SumFunctionOnSet(f, S) - f[a]) + g[a]
           /\ f[a] <= SumFunctionOnSet(f, S) /\ SumFunctionOnSet(f, S) \in Nat
<1>1. IsFiniteSet(S \ {a})
  BY FS_Subset
<1>2. SumFunctionOnSet(f, S) = f[a] + SumFunctionOnSet(f, S \ {a})
  BY SumPick
<1>3. SumFunctionOnSet(g, S) = g[a] + SumFunctionOnSet(g, S \ {a})
  BY SumPick
<1>4. SumFunctionOnSet(f, S \ {a}) = SumFunctionOnSet(g, S \ {a})
  BY <1>1, SumSame
<1>5. SumFunctionOnSet(f, S \ {a}) \in Nat
  BY <1>1, SumIsNatural
<1> QED BY <1>2, <1>3, <1>4, <1>5

\* T is S and a besides, and f and g agree on S.
Joins(f, g, S, T, a) ==
    /\ a \in T /\ a \notin S /\ T = S \cup {a} /\ IsFiniteSet(T)
    /\ (\A x \in T : g[x] \in Nat) /\ \A x \in S : f[x] = g[x]

\* A member more adds its value.
LEMMA SumGrows ==
    ASSUME NEW f, NEW g, NEW S, NEW T, NEW a, Joins(f, g, S, T, a)
    PROVE  SumFunctionOnSet(g, T) = SumFunctionOnSet(f, S) + g[a]
<1> USE DEF Joins
<1>1. S = T \ {a} /\ IsFiniteSet(S)
  BY FS_Subset
<1>2. SumFunctionOnSet(g, T) = g[a] + SumFunctionOnSet(g, S)
  BY <1>1, SumPick
<1>3. SumFunctionOnSet(f, S) = SumFunctionOnSet(g, S)
  BY <1>1, SumSame
<1>4. SumFunctionOnSet(g, S) \in Nat /\ g[a] \in Nat
  BY <1>1, SumIsNatural
<1> QED BY <1>2, <1>3, <1>4

\* What the books read of the rows.
Counts(e) == \A o \in Observations : e[o].day \in Nat /\ e[o].reserved \in Nat /\ e[o].usage \in Nat

\* What is used beyond a reservation.
LEMMA ExcessIsNatural == \A u \in Nat : Beyond(u, MaxRunUsd) \in Nat
  BY ObservationsAssumption DEF Beyond

\* A day has finitely many observations.
LEMMA DaysAreFinite ==
    ASSUME NEW e, NEW d
    PROVE  IsFiniteSet(DayOf(e, d))
  BY ObservationsAssumption, FS_Subset DEF DayOf

\* Only rows that reserve on no day are changed.
LEMMA BooksStand ==
    ASSUME NEW e, NEW f, NEW dd, BooksOK(e, dd), Counts(e), Counts(f),
           \A o \in Observations :
             /\ f[o].day = e[o].day
             /\ e[o].day # 0 => f[o].reserved = e[o].reserved /\ f[o].usage = e[o].usage
    PROVE  BooksOK(f, dd)
<1> SUFFICES ASSUME NEW d \in 1..LastDay
             PROVE  /\ SumFunctionOnSet(ReservedOf(f), DayOf(f, d))
                        = SumFunctionOnSet(ReservedOf(e), DayOf(e, d))
                    /\ SumFunctionOnSet(UsageOf(f), DayOf(f, d))
                        = SumFunctionOnSet(UsageOf(e), DayOf(e, d))
                    /\ SumFunctionOnSet(ExcessOf(f), DayOf(f, d))
                        = SumFunctionOnSet(ExcessOf(e), DayOf(e, d))
  BY DEF BooksOK
<1>1. DayOf(f, d) = DayOf(e, d) /\ IsFiniteSet(DayOf(e, d))
  BY DaysAreFinite DEF DayOf
<1>2. \A o \in DayOf(e, d) : /\ ReservedOf(f)[o] = ReservedOf(e)[o]
                             /\ UsageOf(f)[o] = UsageOf(e)[o] /\ ExcessOf(f)[o] = ExcessOf(e)[o]
  BY ObservationsAssumption DEF DayOf, ReservedOf, UsageOf, ExcessOf
<1> QED BY <1>1, <1>2, SumSame

\* Of the totals only those of day D are written.
DayMovesTo(dd, ee, D, r, u) ==
    /\ ee \in [1..LastDay -> [reserved : Nat, usage : Nat]]
    /\ ee[D].reserved = r /\ ee[D].usage = u
    /\ \A d \in (1..LastDay) \ {D} : ee[d] = dd[d]

\* What an assignment of a day's two totals leaves.
LEMMA DayMoves ==
    ASSUME NEW dd \in [1..LastDay -> [reserved : Nat, usage : Nat]], NEW D \in 1..LastDay,
           NEW r \in Nat, NEW u \in Nat
    PROVE  DayMovesTo(dd, [dd EXCEPT ![D].reserved = r, ![D].usage = u], D, r, u)
  BY DEF DayMovesTo

\* A row of no day gets one.
LEMMA DaysReserve ==
    ASSUME NEW e, NEW f, NEW a \in Observations, NEW D, D # 0, e[a].day = 0, f[a].day = D,
           \A o \in Observations \ {a} : f[o].day = e[o].day
    PROVE  /\ DayOf(f, D) = DayOf(e, D) \cup {a} /\ a \notin DayOf(e, D)
           /\ \A d : d # D /\ d # 0 => DayOf(f, d) = DayOf(e, d)
  BY DEF DayOf

\* Of the rows only that of a counts differently.
OnlyRow(e, f, a) ==
    \A o \in Observations \ {a} :
      f[o].day = e[o].day /\ f[o].reserved = e[o].reserved /\ f[o].usage = e[o].usage

\* A row that gets a day adds what it counts to that day's sums.
LEMMA SumsReserve ==
    ASSUME NEW e, NEW f, NEW a \in Observations, NEW D, D # 0, e[a].day = 0, f[a].day = D,
           Counts(f),
           OnlyRow(e, f, a)
    PROVE  /\ SumFunctionOnSet(ReservedOf(f), DayOf(f, D))
               = SumFunctionOnSet(ReservedOf(e), DayOf(e, D)) + f[a].reserved
           /\ SumFunctionOnSet(UsageOf(f), DayOf(f, D))
               = SumFunctionOnSet(UsageOf(e), DayOf(e, D)) + f[a].usage
<1>1. PICK S, T : S = DayOf(e, D) /\ T = DayOf(f, D)
  OBVIOUS
<1>2. T = S \cup {a} /\ a \notin S /\ a \in T /\ IsFiniteSet(T)
  BY <1>1, DaysReserve, DaysAreFinite DEF OnlyRow
<1>3. (\A o \in S : o \in Observations \ {a}) /\ (\A o \in T : o \in Observations)
  BY <1>1, <1>2 DEF DayOf
<1>4. PICK F, G : F = ReservedOf(e) /\ G = ReservedOf(f)
  OBVIOUS
<1>5. (\A o \in S : F[o] = G[o]) /\ (\A o \in T : G[o] \in Nat) /\ G[a] = f[a].reserved
  BY <1>3, <1>4 DEF ReservedOf, Counts, OnlyRow
<1>6. PICK H, K : H = UsageOf(e) /\ K = UsageOf(f)
  OBVIOUS
<1>7. (\A o \in S : H[o] = K[o]) /\ (\A o \in T : K[o] \in Nat) /\ K[a] = f[a].usage
  BY <1>3, <1>6 DEF UsageOf, Counts, OnlyRow
<1>8. Joins(F, G, S, T, a) /\ Joins(H, K, S, T, a)
  BY <1>2, <1>5, <1>7 DEF Joins
<1>9. /\ SumFunctionOnSet(G, T) = SumFunctionOnSet(F, S) + G[a]
      /\ SumFunctionOnSet(K, T) = SumFunctionOnSet(H, S) + K[a]
  BY <1>8, SumGrows
<1> QED BY <1>1, <1>4, <1>5, <1>6, <1>7, <1>9

\* A row gives up part of its reservation, and counts as used no more than that and what
\* is beyond its reservation.
LEMMA BooksSettle ==
    ASSUME NEW e, NEW f, NEW dd, NEW ee, BooksOK(e, dd), Counts(e), Counts(f),
           NEW a \in Observations, NEW D \in 1..LastDay, e[a].day = D, f[a].day = D,
           OnlyRow(e, f, a),
           f[a].reserved <= e[a].reserved, e[a].usage <= f[a].usage,
           (f[a].reserved + f[a].usage) + Beyond(e[a].usage, MaxRunUsd)
             <= (e[a].reserved + e[a].usage) + Beyond(f[a].usage, MaxRunUsd),
           DayMovesTo(dd, ee, D, dd[D].reserved - (e[a].reserved - f[a].reserved),
                 dd[D].usage + (f[a].usage - e[a].usage))
    PROVE  BooksOK(f, ee)
<1>1. /\ dd \in [1..LastDay -> [reserved : Nat, usage : Nat]]
      /\ \A d \in 1..LastDay :
           /\ dd[d].reserved = SumFunctionOnSet(ReservedOf(e), DayOf(e, d))
           /\ dd[d].usage = SumFunctionOnSet(UsageOf(e), DayOf(e, d))
           /\ dd[d].reserved + dd[d].usage
                <= DailyBudgetUsd + SumFunctionOnSet(ExcessOf(e), DayOf(e, d))
  BY DEF BooksOK
<1>2. \A d : DayOf(f, d) = DayOf(e, d) /\ IsFiniteSet(DayOf(e, d))
  BY DaysAreFinite DEF DayOf, OnlyRow
<1>3. a \in DayOf(e, D)
  BY DEF DayOf
<1>4. \A o \in Observations :
        /\ ReservedOf(e)[o] = e[o].reserved /\ ReservedOf(f)[o] = f[o].reserved
        /\ UsageOf(e)[o] = e[o].usage /\ UsageOf(f)[o] = f[o].usage
        /\ ExcessOf(e)[o] = Beyond(e[o].usage, MaxRunUsd)
        /\ ExcessOf(f)[o] = Beyond(f[o].usage, MaxRunUsd)
  BY DEF ReservedOf, UsageOf, ExcessOf
<1>5. \A d : \A o \in DayOf(e, d) : o \in Observations /\ (d # D => o # a)
  BY DEF DayOf
<1>6. /\ e[a].reserved \in Nat /\ f[a].reserved \in Nat /\ e[a].usage \in Nat /\ f[a].usage \in Nat
      /\ \A d \in 1..LastDay : dd[d].reserved \in Nat /\ dd[d].usage \in Nat
  BY <1>1 DEF Counts
<1>7. /\ SumFunctionOnSet(ReservedOf(f), DayOf(e, D))
          = (dd[D].reserved - e[a].reserved) + f[a].reserved
      /\ e[a].reserved <= dd[D].reserved
  <2>1. \A o \in DayOf(e, D) : ReservedOf(e)[o] \in Nat /\ ReservedOf(f)[o] \in Nat
    BY <1>4, <1>5 DEF Counts
  <2>2. \A o \in DayOf(e, D) \ {a} : ReservedOf(e)[o] = ReservedOf(f)[o]
    BY <1>4, <1>5 DEF OnlyRow
  <2>3. /\ SumFunctionOnSet(ReservedOf(f), DayOf(e, D))
            = (SumFunctionOnSet(ReservedOf(e), DayOf(e, D)) - ReservedOf(e)[a]) + ReservedOf(f)[a]
        /\ ReservedOf(e)[a] <= SumFunctionOnSet(ReservedOf(e), DayOf(e, D))
    BY <1>2, <1>3, <2>1, <2>2, SumUpdate
  <2> QED BY <1>1, <1>4, <2>3
<1>8. SumFunctionOnSet(UsageOf(f), DayOf(e, D)) = (dd[D].usage - e[a].usage) + f[a].usage
  <2>1. \A o \in DayOf(e, D) : UsageOf(e)[o] \in Nat /\ UsageOf(f)[o] \in Nat
    BY <1>4, <1>5 DEF Counts
  <2>2. \A o \in DayOf(e, D) \ {a} : UsageOf(e)[o] = UsageOf(f)[o]
    BY <1>4, <1>5 DEF OnlyRow
  <2>3. SumFunctionOnSet(UsageOf(f), DayOf(e, D))
          = (SumFunctionOnSet(UsageOf(e), DayOf(e, D)) - UsageOf(e)[a]) + UsageOf(f)[a]
    BY <1>2, <1>3, <2>1, <2>2, SumUpdate
  <2> QED BY <1>1, <1>4, <2>3
<1>9. /\ ee \in [1..LastDay -> [reserved : Nat, usage : Nat]]
      /\ ee[D].reserved = dd[D].reserved - (e[a].reserved - f[a].reserved)
      /\ ee[D].usage = dd[D].usage + (f[a].usage - e[a].usage)
      /\ \A d \in (1..LastDay) \ {D} : ee[d] = dd[d]
  BY DEF DayMovesTo
<1>12. /\ SumFunctionOnSet(ExcessOf(f), DayOf(e, D))
          = (SumFunctionOnSet(ExcessOf(e), DayOf(e, D)) - Beyond(e[a].usage, MaxRunUsd))
              + Beyond(f[a].usage, MaxRunUsd)
       /\ SumFunctionOnSet(ExcessOf(e), DayOf(e, D)) \in Nat
  <2>1. \A o \in DayOf(e, D) : ExcessOf(e)[o] \in Nat /\ ExcessOf(f)[o] \in Nat
    BY <1>4, <1>5, ExcessIsNatural DEF Counts
  <2>2. \A o \in DayOf(e, D) \ {a} : ExcessOf(e)[o] = ExcessOf(f)[o]
    BY <1>4, <1>5 DEF OnlyRow
  <2>3. /\ SumFunctionOnSet(ExcessOf(f), DayOf(e, D))
            = (SumFunctionOnSet(ExcessOf(e), DayOf(e, D)) - ExcessOf(e)[a]) + ExcessOf(f)[a]
        /\ SumFunctionOnSet(ExcessOf(e), DayOf(e, D)) \in Nat
    BY <1>2, <1>3, <2>1, <2>2, SumUpdate
  <2> QED BY <1>4, <2>3
<1> SUFFICES ASSUME NEW d \in 1..LastDay
             PROVE  /\ ee[d].reserved = SumFunctionOnSet(ReservedOf(f), DayOf(f, d))
                    /\ ee[d].usage = SumFunctionOnSet(UsageOf(f), DayOf(f, d))
                    /\ ee[d].reserved + ee[d].usage
                         <= DailyBudgetUsd + SumFunctionOnSet(ExcessOf(f), DayOf(f, d))
  BY <1>9 DEF BooksOK
<1>10. CASE d = D
  <2>1. DailyBudgetUsd \in Nat
    BY ObservationsAssumption
  <2>2. ee[D].reserved + ee[D].usage
          <= DailyBudgetUsd + SumFunctionOnSet(ExcessOf(f), DayOf(e, D))
    <3>1. PICK r, u, r1, u1, r2, u2, x, x1, x2 :
            /\ r = dd[D].reserved /\ u = dd[D].usage /\ r1 = e[a].reserved /\ u1 = e[a].usage
            /\ r2 = f[a].reserved /\ u2 = f[a].usage
            /\ x = SumFunctionOnSet(ExcessOf(e), DayOf(e, D))
            /\ x1 = Beyond(e[a].usage, MaxRunUsd) /\ x2 = Beyond(f[a].usage, MaxRunUsd)
      OBVIOUS
    <3>2. /\ r \in Nat /\ u \in Nat /\ r1 \in Nat /\ u1 \in Nat /\ r2 \in Nat /\ u2 \in Nat
          /\ x \in Nat /\ x1 \in Nat /\ x2 \in Nat
          /\ r + u <= DailyBudgetUsd + x /\ (r2 + u2) + x1 <= (r1 + u1) + x2
      BY <1>1, <1>6, <1>12, <3>1, ExcessIsNatural
    <3>3. (r - (r1 - r2)) + (u + (u2 - u1)) <= DailyBudgetUsd + ((x - x1) + x2)
      BY <2>1, <3>2
    <3>4. ee[D].reserved = r - (r1 - r2) /\ ee[D].usage = u + (u2 - u1)
      BY <1>9, <3>1
    <3>5. SumFunctionOnSet(ExcessOf(f), DayOf(e, D)) = (x - x1) + x2
      BY <1>12, <3>1
    <3> QED BY <3>3, <3>4, <3>5
  <2>3. /\ ee[D].reserved = (dd[D].reserved - e[a].reserved) + f[a].reserved
        /\ ee[D].usage = (dd[D].usage - e[a].usage) + f[a].usage
    BY <1>6, <1>9
  <2> QED BY <1>2, <1>7, <1>8, <1>10, <2>2, <2>3
<1>11. CASE d # D
  <2>1. ee[d] = dd[d]
    BY <1>9, <1>11
  <2>2. \A o \in DayOf(e, d) : /\ ReservedOf(f)[o] = ReservedOf(e)[o]
                               /\ UsageOf(f)[o] = UsageOf(e)[o] /\ ExcessOf(f)[o] = ExcessOf(e)[o]
    BY <1>4, <1>5, <1>11 DEF OnlyRow
  <2>3. /\ SumFunctionOnSet(ReservedOf(f), DayOf(e, d))
            = SumFunctionOnSet(ReservedOf(e), DayOf(e, d))
        /\ SumFunctionOnSet(UsageOf(f), DayOf(e, d)) = SumFunctionOnSet(UsageOf(e), DayOf(e, d))
        /\ SumFunctionOnSet(ExcessOf(f), DayOf(e, d)) = SumFunctionOnSet(ExcessOf(e), DayOf(e, d))
    BY <1>2, <2>2, SumSame
  <2> QED BY <1>1, <1>2, <2>1, <2>3
<1> QED BY <1>10, <1>11

\* A row of no day reserves on day D.
LEMMA BooksReserve ==
    ASSUME NEW e, NEW f, NEW dd, NEW ee, BooksOK(e, dd), Counts(e), Counts(f),
           NEW a \in Observations, NEW D \in 1..LastDay, e[a].day = 0, f[a].day = D,
           OnlyRow(e, f, a),
           f[a].usage = 0,
           dd[D].reserved + dd[D].usage + f[a].reserved <= DailyBudgetUsd,
           DayMovesTo(dd, ee, D, dd[D].reserved + f[a].reserved, dd[D].usage)
    PROVE  BooksOK(f, ee)
<1>1. /\ dd \in [1..LastDay -> [reserved : Nat, usage : Nat]]
      /\ \A d \in 1..LastDay :
           /\ dd[d].reserved = SumFunctionOnSet(ReservedOf(e), DayOf(e, d))
           /\ dd[d].usage = SumFunctionOnSet(UsageOf(e), DayOf(e, d))
           /\ dd[d].reserved + dd[d].usage
                <= DailyBudgetUsd + SumFunctionOnSet(ExcessOf(e), DayOf(e, d))
  BY DEF BooksOK
<1>2. /\ DayOf(f, D) = DayOf(e, D) \cup {a} /\ a \notin DayOf(e, D) /\ IsFiniteSet(DayOf(e, D))
      /\ \A d \in (1..LastDay) \ {D} : DayOf(f, d) = DayOf(e, d) /\ IsFiniteSet(DayOf(e, d))
  <2>1. D # 0 /\ \A d \in 1..LastDay : d # 0
    OBVIOUS
  <2> QED BY <2>1, DaysReserve, DaysAreFinite DEF OnlyRow
<1>3. \A o \in Observations :
        /\ ReservedOf(e)[o] = e[o].reserved /\ ReservedOf(f)[o] = f[o].reserved
        /\ UsageOf(e)[o] = e[o].usage /\ UsageOf(f)[o] = f[o].usage
        /\ e[o].reserved \in Nat /\ f[o].reserved \in Nat
        /\ e[o].usage \in Nat /\ f[o].usage \in Nat
  BY DEF ReservedOf, UsageOf, Counts
<1>4. \A d \in 1..LastDay : \A o \in DayOf(e, d) : o \in Observations \ {a}
  BY DEF DayOf
<1>5. \A d \in 1..LastDay : dd[d].reserved \in Nat /\ dd[d].usage \in Nat
  BY <1>1
<1>6. /\ SumFunctionOnSet(ReservedOf(f), DayOf(f, D)) = dd[D].reserved + f[a].reserved
      /\ SumFunctionOnSet(UsageOf(f), DayOf(f, D)) = dd[D].usage + f[a].usage
      /\ SumFunctionOnSet(ExcessOf(f), DayOf(f, D)) \in Nat
  <2>1. D # 0
    OBVIOUS
  <2>2. \A o \in DayOf(f, D) : ExcessOf(f)[o] \in Nat
    BY ExcessIsNatural DEF DayOf, ExcessOf, Counts
  <2>3. SumFunctionOnSet(ExcessOf(f), DayOf(f, D)) \in Nat
    BY <2>2, DaysAreFinite, SumIsNatural
  <2> QED BY <1>1, <2>1, <2>3, SumsReserve
<1>7. dd[D].usage + f[a].usage = dd[D].usage
  BY <1>5
<1>8. /\ ee \in [1..LastDay -> [reserved : Nat, usage : Nat]]
      /\ ee[D].reserved = dd[D].reserved + f[a].reserved /\ ee[D].usage = dd[D].usage
      /\ \A d \in (1..LastDay) \ {D} : ee[d] = dd[d]
  BY DEF DayMovesTo
<1> SUFFICES ASSUME NEW d \in 1..LastDay
             PROVE  /\ ee[d].reserved = SumFunctionOnSet(ReservedOf(f), DayOf(f, d))
                    /\ ee[d].usage = SumFunctionOnSet(UsageOf(f), DayOf(f, d))
                    /\ ee[d].reserved + ee[d].usage
                         <= DailyBudgetUsd + SumFunctionOnSet(ExcessOf(f), DayOf(f, d))
  BY <1>8 DEF BooksOK
<1>9. CASE d = D
  <2>1. DailyBudgetUsd \in Nat
    BY ObservationsAssumption
  <2>2. ee[D].reserved + ee[D].usage
          <= DailyBudgetUsd + SumFunctionOnSet(ExcessOf(f), DayOf(f, D))
    <3>1. ee[D].reserved + ee[D].usage <= DailyBudgetUsd
      BY <1>3, <1>5, <1>8, <2>1
    <3>2. ee[D].reserved \in Nat /\ ee[D].usage \in Nat
      BY <1>8
    <3> QED BY <1>6, <2>1, <3>1, <3>2
  <2> QED BY <1>6, <1>7, <1>8, <1>9, <2>2
<1>10. CASE d # D
  <2>1. ee[d] = dd[d]
    BY <1>8, <1>10
  <2>2. \A o \in DayOf(e, d) : /\ ReservedOf(f)[o] = ReservedOf(e)[o]
                               /\ UsageOf(f)[o] = UsageOf(e)[o] /\ ExcessOf(f)[o] = ExcessOf(e)[o]
    BY <1>3, <1>4 DEF OnlyRow, ExcessOf
  <2>3. /\ SumFunctionOnSet(ReservedOf(f), DayOf(e, d))
            = SumFunctionOnSet(ReservedOf(e), DayOf(e, d))
        /\ SumFunctionOnSet(UsageOf(f), DayOf(e, d)) = SumFunctionOnSet(UsageOf(e), DayOf(e, d))
        /\ SumFunctionOnSet(ExcessOf(f), DayOf(e, d)) = SumFunctionOnSet(ExcessOf(e), DayOf(e, d))
    BY <1>2, <1>10, <2>2, SumSame
  <2> QED BY <1>1, <1>2, <1>10, <2>1, <2>3
<1> QED BY <1>9, <1>10

-----------------------------------------------------------------------------
(* What a change of a row, a run or a worker may be.                       *)

\* The row changes as its workers bear it, and as those that may still start a run do.
Keeps(e, rs, f, ss) == Len(ss) >= Len(rs) /\ (f.status = "queued" => e.status = "queued")
Same(e, rs, f, ss) == Len(ss) = Len(rs) /\ Keeps(e, rs, f, ss) /\ (e.day = 0 => f.day = 0)

\* A worker bears a row that stays the same to it.
LEMMA WorkStands ==
    ASSUME NEW s, NEW r, NEW t, NEW e, NEW rs, NEW f, NEW ss,
           WorkOK(s, r, t, e, rs), Same(e, rs, f, ss)
    PROVE  WorkOK(s, r, t, f, ss)
  BY DEF WorkOK, Same, Keeps

\* A worker that starts no run bears more.
LEMMA WorkGoesOn ==
    ASSUME NEW s, NEW r, NEW t, NEW e, NEW rs \in Seq(RunRecord), NEW f,
           NEW ss \in Seq(RunRecord),
           WorkOK(s, r, t, e, rs), s \notin First, Keeps(e, rs, f, ss)
    PROVE  WorkOK(s, r, t, f, ss)
  BY DEF WorkOK, Keeps, First

\* Only the row and the runs of o change.
RowAt(o) ==
    /\ entry' = [entry EXCEPT ![o] = entry'[o]] /\ runs' = [runs EXCEPT ![o] = runs'[o]]
RowsKeep == \A o \in Observations : Same(entry[o], runs[o], entry'[o], runs'[o])

\* Replacing one row and its runs by sound ones keeps the rows sound.
LEMMA RowUpdate ==
    ASSUME RowsOK, NEW o \in Observations, RowAt(o), EntryOK(entry'[o], runs'[o])
    PROVE  RowsOK'
<1>1. entry'[o] \in EntryRecord /\ runs'[o] \in Seq(RunRecord)
  BY DEF EntryOK
<1>2. entry' \in [Observations -> EntryRecord] /\ runs' \in [Observations -> Seq(RunRecord)]
  BY <1>1 DEF RowsOK, RowAt
<1>3. \A p \in Observations \ {o} : entry'[p] = entry[p] /\ runs'[p] = runs[p]
  BY DEF RowsOK, RowAt
<1>4. \A p \in Observations : EntryOK(entry'[p], runs'[p])
  BY <1>3 DEF RowsOK
<1> QED BY <1>2, <1>4 DEF RowsOK

\* A row is the same as itself.
LEMMA SameAsBefore == \A e, rs : rs \in Seq(RunRecord) => Same(e, rs, e, rs)
<1> SUFFICES ASSUME NEW e, NEW rs \in Seq(RunRecord) PROVE Same(e, rs, e, rs)
  OBVIOUS
<1>1. Len(rs) \in Nat
  OBVIOUS
<1> QED BY <1>1 DEF Same, Keeps

\* A row that stays the same to its workers keeps all the rows so.
LEMMA RowKeeps ==
    ASSUME RowsOK, NEW o \in Observations, RowAt(o),
           Same(entry[o], runs[o], entry'[o], runs'[o])
    PROVE  RowsKeep
<1>1. \A p \in Observations \ {o} : entry'[p] = entry[p] /\ runs'[p] = runs[p]
  BY DEF RowsOK, RowAt
<1>2. \A p \in Observations : runs[p] \in Seq(RunRecord)
  BY DEF RowsOK
<1> QED BY <1>1, <1>2, SameAsBefore DEF RowsKeep

\* So does a step that changes no row.
LEMMA NothingKeeps ==
    ASSUME RowsOK, UNCHANGED <<entry, runs>>
    PROVE  RowsOK' /\ RowsKeep
<1>1. \A p \in Observations : runs[p] \in Seq(RunRecord)
  BY DEF RowsOK
<1>2. RowsOK'
  BY DEF RowsOK
<1>3. RowsKeep
  BY <1>1, SameAsBefore DEF RowsKeep
<1> QED BY <1>2, <1>3

\* One worker goes on, and the others bear what became of their rows.
OthersOK(w) ==
    \A v \in Workers \ {w} : WorkOK(phase[v], run[v], reported[v], entry'[on[v]], runs'[on[v]])

\* A worker that goes on soundly keeps the workers sound, when no second one may start the run.
LEMMA WorkerUpdate ==
    ASSUME WorkersOK, NEW w \in Workers, NEW s, NEW o \in Observations, NEW r, NEW t,
           phase' = [phase EXCEPT ![w] = s], on' = [on EXCEPT ![w] = o],
           run' = [run EXCEPT ![w] = r], reported' = [reported EXCEPT ![w] = t],
           WorkOK(s, r, t, entry'[o], runs'[o]), OthersOK(w),
           s \in First => \A v \in Workers \ {w} : ~(phase[v] \in First /\ on[v] = o)
    PROVE  WorkersOK'
<1>1. s \in Phases /\ r \in {0, 1} /\ t \in ToldUsage
  BY DEF WorkOK
<1>2. /\ phase' \in [Workers -> Phases] /\ on' \in [Workers -> Observations]
      /\ run' \in [Workers -> {0, 1}] /\ reported' \in [Workers -> ToldUsage]
  BY <1>1 DEF WorkersOK
<1>3. /\ phase'[w] = s /\ on'[w] = o /\ run'[w] = r /\ reported'[w] = t
      /\ \A v \in Workers \ {w} : /\ phase'[v] = phase[v] /\ on'[v] = on[v]
                                  /\ run'[v] = run[v] /\ reported'[v] = reported[v]
  BY DEF WorkersOK
<1>4. ASSUME NEW v \in Workers
      PROVE  WorkOK(phase'[v], run'[v], reported'[v], entry'[on'[v]], runs'[on'[v]])
  <2>1. CASE v = w
    BY <1>3, <2>1
  <2>2. CASE v # w
    <3>1. WorkOK(phase[v], run[v], reported[v], entry'[on[v]], runs'[on[v]])
      BY <2>2 DEF OthersOK
    <3> QED BY <1>3, <2>2, <3>1
  <2> QED BY <2>1, <2>2
<1>5. ASSUME NEW v \in Workers, NEW x \in Workers, phase'[v] \in First, phase'[x] \in First,
             on'[v] = on'[x], v # x
      PROVE  FALSE
  <2>1. CASE v = w
    BY <1>3, <1>5, <2>1
  <2>2. CASE x = w
    BY <1>3, <1>5, <2>2
  <2>3. CASE v # w /\ x # w
    BY <1>3, <1>5, <2>3 DEF WorkersOK
  <2> QED BY <2>1, <2>2, <2>3
<1> QED BY <1>2, <1>4, <1>5 DEF WorkersOK

\* Where the rows stay the same to them, every worker stands.
LEMMA AllStand ==
    ASSUME WorkersOK, RowsKeep, NEW v \in Workers
    PROVE  WorkOK(phase[v], run[v], reported[v], entry'[on[v]], runs'[on[v]])
<1>1. on[v] \in Observations /\ WorkOK(phase[v], run[v], reported[v], entry[on[v]], runs[on[v]])
  BY DEF WorkersOK
<1>2. Same(entry[on[v]], runs[on[v]], entry'[on[v]], runs'[on[v]])
  BY <1>1 DEF RowsKeep
<1> QED BY <1>1, <1>2, WorkStands

\* A worker that is done is sound.
LEMMA WorkerSkips ==
    ASSUME WorkersOK, RowsKeep, NEW w \in Workers, Skips(w)
    PROVE  WorkersOK'
<1>1. OthersOK(w)
  BY AllStand DEF OthersOK
<1>2. on[w] \in Observations /\ on' = [on EXCEPT ![w] = on[w]]
  BY DEF WorkersOK, Skips
<1>3. WorkOK("idle", 0, {}, entry'[on[w]], runs'[on[w]])
  <2>1. WorkOK(phase[w], run[w], reported[w], entry'[on[w]], runs'[on[w]])
    BY AllStand
  <2>2. 0 <= Len(runs'[on[w]])
    BY <2>1 DEF WorkOK
  <2> QED BY <2>2 DEF WorkOK, Phases, AtARun, First, ToldUsage
<1>4. "idle" \notin First
  BY DEF First
<1> QED BY <1>1, <1>2, <1>3, <1>4, WorkerUpdate DEF Skips

\* A worker that turns to a phase it is fit for is sound.
LEMMA WorkerTurns ==
    ASSUME WorkersOK, RowsKeep, NEW w \in Workers, NEW s, Turns(w, s), UNCHANGED mine,
           WorkOK(s, run[w], reported[w], entry'[on[w]], runs'[on[w]]),
           s \in First => phase[w] \in First
    PROVE  WorkersOK'
<1>1. OthersOK(w)
  BY AllStand DEF OthersOK
<1>2. /\ on[w] \in Observations /\ on' = [on EXCEPT ![w] = on[w]]
      /\ run' = [run EXCEPT ![w] = run[w]] /\ reported' = [reported EXCEPT ![w] = reported[w]]
  BY DEF WorkersOK, mine
<1>3. s \in First => \A v \in Workers \ {w} : ~(phase[v] \in First /\ on[v] = on[w])
  BY DEF WorkersOK
<1>4. phase' = [phase EXCEPT ![w] = s]
  BY DEF Turns
<1> QED BY <1>1, <1>2, <1>3, <1>4, WorkerUpdate

\* Workers that do nothing stay sound.
LEMMA WorkersStand ==
    ASSUME WorkersOK, RowsKeep, UNCHANGED <<phase, mine>>
    PROVE  WorkersOK'
<1>1. \A v \in Workers : WorkOK(phase[v], run[v], reported[v], entry'[on[v]], runs'[on[v]])
  BY AllStand
<1>2. /\ phase' = phase /\ on' = on /\ run' = run /\ reported' = reported
  BY DEF mine
<1> QED BY <1>1, <1>2 DEF WorkersOK

\* The books when no row counts differently.
LEMMA RowsCount == RowsOK => Counts(entry)
  BY DEF RowsOK, Counts, EntryRecord

\* Rows that count for their days as before leave the books in order.
LEMMA BooksKept ==
    ASSUME RowsOK, RowsOK', BooksOK(entry, day), UNCHANGED day,
           \A o \in Observations :
             /\ entry'[o].day = entry[o].day
             /\ entry[o].day # 0 => /\ entry'[o].reserved = entry[o].reserved
                                    /\ entry'[o].usage = entry[o].usage
    PROVE  BooksOK(entry', day')
<1>1. Counts(entry) /\ Counts(entry')
  BY RowsCount DEF RowsOK, Counts, EntryRecord
<1>2. BooksOK(entry', day)
  BY <1>1, BooksStand
<1> QED BY <1>2

-----------------------------------------------------------------------------
(* The invariant, part by part.                                            *)
LEMMA Whole ==
    ASSUME ObservationIInv, RowsOK', WorkersOK', BooksOK(entry', day'), UNCHANGED <<today, overdue>>
    PROVE  ObservationIInv'
  BY DEF ObservationIInv, BooksOK, DayOf, ReservedOf, UsageOf

\* What a worker knows of its row.
LEMMA WorkerKnows ==
    ASSUME ObservationIInv, NEW w \in Workers
    PROVE  /\ RowsOK /\ WorkersOK /\ BooksOK(entry, day) /\ on[w] \in Observations
           /\ EntryOK(entry[on[w]], runs[on[w]]) /\ entry[on[w]] \in EntryRecord
           /\ runs[on[w]] \in Seq(RunRecord)
           /\ WorkOK(phase[w], run[w], reported[w], entry[on[w]], runs[on[w]])
  BY DEF ObservationIInv, RowsOK, WorkersOK

\* A step that changes neither rows nor runs nor books.
LEMMA OnlyAWorker ==
    ASSUME ObservationIInv, UNCHANGED <<books, runs, world>>,
           RowsKeep => WorkersOK'
    PROVE  ObservationIInv'
<1>1. RowsOK /\ WorkersOK /\ BooksOK(entry, day)
  BY DEF ObservationIInv
<1>2. UNCHANGED <<entry, day, runs, today, overdue>>
  BY DEF books, world
<1>3. RowsOK' /\ RowsKeep
  BY <1>1, <1>2, NothingKeeps
<1>4. WorkersOK'
  BY <1>3
<1>5. BooksOK(entry', day')
  BY <1>1, <1>2
<1> QED BY <1>2, <1>3, <1>4, <1>5, Whole

\* The same of one that lets a worker skip, or turn to a phase it is fit for.
LEMMA OnlySkips ==
    ASSUME ObservationIInv, NEW w \in Workers, Skips(w), UNCHANGED <<books, runs, world>>
    PROVE  ObservationIInv'
<1>1. WorkersOK
  BY DEF ObservationIInv
<1> QED BY <1>1, OnlyAWorker, WorkerSkips

\* A step of one worker alone, to a phase it is fit for.
LEMMA OnlyTurns ==
    ASSUME ObservationIInv, NEW w \in Workers, NEW s, Turns(w, s), UNCHANGED mine,
           UNCHANGED <<books, runs, world>>,
           WorkOK(s, run[w], reported[w], entry[on[w]], runs[on[w]]),
           s \in First => phase[w] \in First
    PROVE  ObservationIInv'
<1>1. WorkersOK
  BY DEF ObservationIInv
<1>2. WorkOK(s, run[w], reported[w], entry'[on[w]], runs'[on[w]])
  BY DEF books
<1>3. RowsKeep => WorkersOK'
  BY <1>1, <1>2, WorkerTurns
<1> QED BY <1>3, OnlyAWorker

\* A worker's death leaves everything to the lease.
LEMMA DiesKeeps ==
    ASSUME ObservationIInv, NEW w \in Workers, Dies(w)
    PROVE  ObservationIInv'
  BY OnlySkips DEF Dies

\* An error leads to the catch clause, or past it to the cleaning.
LEMMA ThrowsKeeps ==
    ASSUME ObservationIInv, NEW w \in Workers, Throws(w)
    PROVE  ObservationIInv'
<1>1. PICK s \in {"failing", "cleaning"} :
        Turns(w, s) /\ UNCHANGED mine /\ UNCHANGED <<books, runs, world>>
  BY DEF Throws
<1>2. WorkOK(s, run[w], reported[w], entry[on[w]], runs[on[w]]) /\ s \notin First
  BY WorkerKnows DEF WorkOK, Phases, AtARun, First
<1> QED BY <1>1, <1>2, OnlyTurns

\* A worker whose row is another's skips, or disowns the run it is at.
LEMMA UnattachedKeeps ==
    ASSUME ObservationIInv, NEW w \in Workers, Unattached(w)
    PROVE  ObservationIInv'
<1>1. /\ phase[w] = "unattached" /\ UNCHANGED <<books, runs, world>>
      /\ Skips(w) \/ (Turns(w, "disowned") /\ UNCHANGED mine)
  BY DEF Unattached
<1>2. CASE Skips(w)
  BY <1>1, <1>2, OnlySkips
<1>3. CASE Turns(w, "disowned") /\ UNCHANGED mine
  <2>1. /\ WorkOK("disowned", run[w], reported[w], entry[on[w]], runs[on[w]])
        /\ "disowned" \notin First
    BY <1>1, WorkerKnows DEF WorkOK, Phases, AtARun, First
  <2> QED BY <1>1, <1>3, <2>1, OnlyTurns
<1> QED BY <1>1, <1>2, <1>3

\* An observation has one run at most, so there is only one to find.
LEMMA MaxOfOne == \A x \in Int : Max({x}) = x
  BY DEF Max

\* The run that findRecentRun finds is the only one.
LEMMA TheRun ==
    ASSUME ObservationIInv, NEW o \in Observations
    PROVE  /\ Len(runs[o]) \in {0, 1} /\ DOMAIN runs[o] = 1..Len(runs[o])
           /\ Found(o) # {} => Found(o) = {1} /\ Max(Found(o)) = 1 /\ Len(runs[o]) = 1
<1>1. Len(runs[o]) \in {0, 1} /\ runs[o] \in Seq(RunRecord)
  BY DEF ObservationIInv, RowsOK, EntryOK
<1>2. DOMAIN runs[o] = 1..Len(runs[o])
  BY <1>1
<1>3. ASSUME Found(o) # {} PROVE Found(o) = {1} /\ Len(runs[o]) = 1
  <2>1. PICK n \in DOMAIN runs[o] : n \in Found(o)
    BY <1>3 DEF Found
  <2>2. Len(runs[o]) = 1
    BY <1>1, <1>2, <2>1
  <2>3. DOMAIN runs[o] = {1}
    BY <1>2, <2>2
  <2> QED BY <1>3, <2>2, <2>3 DEF Found
<1> QED BY <1>1, <1>2, <1>3, MaxOfOne

\* The search attaches the one run there is, gives up or skips.
LEMMA SearchKeeps ==
    ASSUME ObservationIInv, NEW w \in Workers, Search(w)
    PROVE  ObservationIInv'
<1>1. UNCHANGED <<books, runs, world>>
  BY DEF Search
<1>2. CASE Skips(w)
  BY <1>1, <1>2, OnlySkips
<1>3. CASE Turns(w, "giving_up") /\ UNCHANGED mine
  <2>1. /\ WorkOK("giving_up", run[w], reported[w], entry[on[w]], runs[on[w]])
        /\ "giving_up" \notin First
    BY WorkerKnows DEF WorkOK, Phases, AtARun, First
  <2> QED BY <1>1, <1>3, <2>1, OnlyTurns
<1>4. CASE /\ Found(on[w]) # {}
           /\ run' = [run EXCEPT ![w] = Max(Found(on[w]))] /\ Turns(w, "attaching")
           /\ UNCHANGED <<on, reported, faults>>
  <2>1. on[w] \in Observations /\ WorkersOK
    BY WorkerKnows
  <2>2. Max(Found(on[w])) = 1 /\ Len(runs[on[w]]) = 1
    BY <1>4, <2>1, TheRun
  <2>3. /\ WorkOK("attaching", 1, reported[w], entry[on[w]], runs[on[w]])
        /\ "attaching" \notin First
    BY <2>2, WorkerKnows DEF WorkOK, Phases, AtARun, First
  <2>4. ASSUME RowsKeep PROVE WorkersOK'
    <3>1. OthersOK(w)
      BY <2>1, <2>4, AllStand DEF OthersOK
    <3>2. WorkOK("attaching", 1, reported[w], entry'[on[w]], runs'[on[w]])
      BY <1>1, <2>3 DEF books
    <3>3. /\ phase' = [phase EXCEPT ![w] = "attaching"] /\ on' = [on EXCEPT ![w] = on[w]]
          /\ run' = [run EXCEPT ![w] = 1] /\ reported' = [reported EXCEPT ![w] = reported[w]]
      BY <1>4, <2>1, <2>2 DEF Turns, WorkersOK
    <3> QED BY <2>1, <2>3, <3>1, <3>2, <3>3, WorkerUpdate
  <2> QED BY <1>1, <2>4, OnlyAWorker
<1> QED BY <1>2, <1>3, <1>4 DEF Search

\* What a run reports is within what it cost.
LEMMA WaitKeeps ==
    ASSUME ObservationIInv, NEW w \in Workers, Wait(w)
    PROVE  ObservationIInv'
<1>1. UNCHANGED <<books, runs, world>> /\ phase[w] = "waiting"
  BY DEF Wait
<1>2. PICK told \in ToldUsage : reported' = [reported EXCEPT ![w] = told]
  <2>1. PICK told \in {{}} \cup {{u} : u \in 0..runs[on[w]][run[w]].cost} :
          reported' = [reported EXCEPT ![w] = told]
    BY DEF Wait
  <2>2. run[w] = 1 /\ run[w] <= Len(runs[on[w]]) /\ runs[on[w]] \in Seq(RunRecord)
    BY <1>1, WorkerKnows DEF WorkOK, AtARun
  <2>3. runs[on[w]][run[w]] \in RunRecord
    BY <2>2
  <2>4. runs[on[w]][run[w]].cost \in Nat
    BY <2>3 DEF RunRecord
  <2>5. 0..runs[on[w]][run[w]].cost \subseteq Nat
    BY <2>4
  <2>6. told \in ToldUsage
    BY <2>5 DEF ToldUsage
  <2> QED BY <2>1, <2>6
<1>3. PICK s \in {"late", "ended"} : Turns(w, s) /\ UNCHANGED <<on, run>>
  BY DEF Wait
<1>4. WorkersOK /\ on[w] \in Observations
  BY WorkerKnows
<1>5. WorkOK(s, run[w], told, entry[on[w]], runs[on[w]]) /\ s \notin First
  BY <1>1, <1>2, WorkerKnows DEF WorkOK, Phases, AtARun, First
<1>6. ASSUME RowsKeep PROVE WorkersOK'
  <2>1. OthersOK(w)
    BY <1>4, <1>6, AllStand DEF OthersOK
  <2>2. WorkOK(s, run[w], told, entry'[on[w]], runs'[on[w]])
    BY <1>1, <1>5 DEF books
  <2>3. /\ phase' = [phase EXCEPT ![w] = s] /\ on' = [on EXCEPT ![w] = on[w]]
        /\ run' = [run EXCEPT ![w] = run[w]] /\ reported' = [reported EXCEPT ![w] = told]
    BY <1>2, <1>3, <1>4 DEF Turns, WorkersOK
  <2> QED BY <1>4, <1>5, <2>1, <2>2, <2>3, WorkerUpdate
<1> QED BY <1>1, <1>6, OnlyAWorker

\* A new day changes no row.
LEMMA DayPassesKeeps == ObservationIInv /\ DayPasses => ObservationIInv'
<1> SUFFICES ASSUME ObservationIInv, DayPasses PROVE ObservationIInv'
  OBVIOUS
<1>1. /\ RowsOK /\ WorkersOK /\ BooksOK(entry, day)
      /\ overdue \subseteq Observations /\ today \in 1..LastDay
  BY DEF ObservationIInv
<1>2. UNCHANGED <<entry, day, runs, overdue, phase, mine>> /\ today < LastDay /\ today' = today + 1
  BY DEF DayPasses, books
<1>3. today' \in 1..LastDay
  BY <1>1, <1>2, ObservationsAssumption
<1>4. RowsOK' /\ WorkersOK' /\ BooksOK(entry', day')
  BY <1>1, <1>2, NothingKeeps, WorkersStand
<1> QED BY <1>1, <1>2, <1>3, <1>4 DEF ObservationIInv, BooksOK, DayOf, ReservedOf, UsageOf

\* Nor do six hours.
LEMMA SixHoursKeeps ==
    ASSUME ObservationIInv, NEW o \in Observations, SixHoursPass(o)
    PROVE  ObservationIInv'
<1>1. /\ RowsOK /\ WorkersOK /\ BooksOK(entry, day)
      /\ overdue \subseteq Observations /\ today \in 1..LastDay
  BY DEF ObservationIInv
<1>2. UNCHANGED <<entry, day, runs, today, phase, mine>> /\ overdue' = overdue \cup {o}
  BY DEF SixHoursPass, books
<1>3. overdue' \subseteq Observations /\ today' \in 1..LastDay
  BY <1>1, <1>2
<1>4. RowsOK' /\ WorkersOK' /\ BooksOK(entry', day')
  BY <1>1, <1>2, NothingKeeps, WorkersStand
<1> QED BY <1>3, <1>4 DEF ObservationIInv, BooksOK, DayOf, ReservedOf, UsageOf

-----------------------------------------------------------------------------
(* Steps that change a row or its runs, and count nothing differently.     *)

\* f counts for its day as e does.
CountsAlike(e, f) == f.day = e.day /\ f.reserved = e.reserved /\ f.usage = e.usage

\* A row and its runs change, and count as before.
LEMMA QuietRow ==
    ASSUME ObservationIInv, NEW o \in Observations, NEW f, NEW ss,
           entry' = [entry EXCEPT ![o] = f], runs' = [runs EXCEPT ![o] = ss],
           UNCHANGED <<day, today, overdue>>,
           EntryOK(f, ss), CountsAlike(entry[o], f)
    PROVE  /\ RowsOK' /\ BooksOK(entry', day')
           /\ WorkersOK' => ObservationIInv'
           /\ Same(entry[o], runs[o], f, ss) => RowsKeep
<1>1. RowsOK /\ WorkersOK /\ BooksOK(entry, day)
  BY DEF ObservationIInv
<1>2. entry'[o] = f /\ runs'[o] = ss /\ RowAt(o)
  BY <1>1 DEF RowsOK, RowAt
<1>3. RowsOK'
  BY <1>1, <1>2, RowUpdate
<1>4. Same(entry[o], runs[o], f, ss) => RowsKeep
  BY <1>1, <1>2, RowKeeps
<1>5. \A p \in Observations : CountsAlike(entry[p], entry'[p])
  BY <1>1, <1>2 DEF RowsOK, CountsAlike
<1>6. BooksOK(entry', day')
  BY <1>1, <1>3, <1>5, BooksKept DEF CountsAlike
<1> QED BY <1>3, <1>4, <1>6, Whole

\* The lease says nothing of what a row counts.
LEMMA LeasedOrNot ==
    ASSUME NEW e, NEW rs, NEW x \in BOOLEAN, EntryOK(e, rs)
    PROVE  /\ EntryOK([e EXCEPT !.leased = x], rs) /\ CountsAlike(e, [e EXCEPT !.leased = x])
           /\ Same(e, rs, [e EXCEPT !.leased = x], rs)
<1>1. PICK f : f = [e EXCEPT !.leased = x]
  OBVIOUS
<1>2. f \in EntryRecord
  BY <1>1 DEF EntryOK, EntryRecord
<1>3. /\ f.status = e.status /\ f.token = e.token /\ f.run = e.run /\ f.reserved = e.reserved
      /\ f.day = e.day /\ f.usage = e.usage
  BY <1>1 DEF EntryOK, EntryRecord
<1>4. EntryOK(f, rs)
  BY <1>2, <1>3 DEF EntryOK, Covered
<1>5. CountsAlike(e, f) /\ Same(e, rs, f, rs)
  BY <1>3 DEF CountsAlike, Same, Keeps, EntryOK
<1> QED BY <1>1, <1>4, <1>5

\* The lease of a row is taken or lost.
LEMMA LeaseMoves ==
    ASSUME ObservationIInv, NEW o \in Observations, NEW x \in BOOLEAN,
           entry' = [entry EXCEPT ![o].leased = x], UNCHANGED <<day, runs, today, overdue>>
    PROVE  RowsKeep /\ (WorkersOK' => ObservationIInv')
<1>1. PICK f : f = [entry[o] EXCEPT !.leased = x]
  OBVIOUS
<1>2. RowsOK
  BY DEF ObservationIInv
<1>3. entry' = [entry EXCEPT ![o] = f] /\ runs' = [runs EXCEPT ![o] = runs[o]]
  BY <1>1, <1>2 DEF RowsOK
<1>4. EntryOK(entry[o], runs[o])
  BY <1>2 DEF RowsOK
<1>5. /\ EntryOK(f, runs[o]) /\ CountsAlike(entry[o], f)
      /\ Same(entry[o], runs[o], f, runs[o])
  BY <1>1, <1>4, LeasedOrNot
<1> QED BY <1>3, <1>5, QuietRow

\* A lease that runs out.
LEMMA LeaseExpiresKeeps ==
    ASSUME ObservationIInv, NEW o \in Observations, LeaseExpires(o)
    PROVE  ObservationIInv'
<1>1. /\ entry' = [entry EXCEPT ![o].leased = FALSE]
      /\ UNCHANGED <<day, runs, today, overdue, phase, mine>>
  BY DEF LeaseExpires, world
<1>2. RowsKeep /\ (WorkersOK' => ObservationIInv')
  BY <1>1, LeaseMoves
<1>3. WorkersOK
  BY DEF ObservationIInv
<1> QED BY <1>1, <1>2, <1>3, WorkersStand

\* A heartbeat on its timer.
LEMMA HeartbeatKeeps ==
    ASSUME ObservationIInv, NEW w \in Workers, Heartbeat(w)
    PROVE  ObservationIInv'
<1>1. /\ entry' = [entry EXCEPT ![on[w]].leased = TRUE]
      /\ UNCHANGED <<day, runs, today, overdue, phase, mine>>
  BY DEF Heartbeat, world
<1>2. WorkersOK /\ on[w] \in Observations
  BY WorkerKnows
<1>3. RowsKeep /\ (WorkersOK' => ObservationIInv')
  BY <1>1, <1>2, LeaseMoves
<1> QED BY <1>1, <1>2, <1>3, WorkersStand

\* The heartbeat after the wait, and what the worker turns to.
LEMMA StillOwnedKeeps ==
    ASSUME ObservationIInv, NEW w \in Workers, StillOwned(w)
    PROVE  ObservationIInv'
<1>1. phase[w] \in {"late", "ended"} /\ UNCHANGED <<day, runs, today, overdue>>
  BY DEF StillOwned, world
<1>2. WorkersOK /\ on[w] \in Observations
  BY WorkerKnows
<1>3. CASE Holds(w)
  <2>1. PICK s \in {"stopping", "refusing", "completing"} :
          /\ Turns(w, s) /\ UNCHANGED mine /\ entry' = [entry EXCEPT ![on[w]].leased = TRUE]
    BY <1>3 DEF StillOwned
  <2>2. RowsKeep /\ (WorkersOK' => ObservationIInv')
    BY <1>1, <1>2, <2>1, LeaseMoves
  <2>3. WorkOK(phase[w], run[w], reported[w], entry'[on[w]], runs'[on[w]])
    BY <1>2, <2>2, AllStand
  <2>4. WorkOK(s, run[w], reported[w], entry'[on[w]], runs'[on[w]]) /\ s \notin First
    BY <1>1, <2>3 DEF WorkOK, Phases, AtARun, First
  <2> QED BY <1>2, <2>1, <2>2, <2>4, WorkerTurns
<1>4. CASE ~Holds(w)
  <2>1. Skips(w) /\ UNCHANGED <<books, runs, world>>
    BY <1>4 DEF StillOwned, books, world
  <2> QED BY <2>1, OnlySkips
<1> QED BY <1>3, <1>4

\* A row its run is attached to.
LEMMA RunningEntry ==
    ASSUME NEW e, NEW rs, EntryOK(e, rs), e.status \in Active, Len(rs) = 1,
           NEW f, f = [e EXCEPT !.status = "running", !.run = 1, !.leased = TRUE]
    PROVE  EntryOK(f, rs) /\ CountsAlike(e, f) /\ Same(e, rs, f, rs)
<1>1. f \in EntryRecord
  BY DEF EntryOK, EntryRecord, Active
<1>2. /\ f.status = "running" /\ f.token = e.token /\ f.run = 1 /\ f.reserved = e.reserved
      /\ f.day = e.day /\ f.usage = e.usage
  BY DEF EntryOK, EntryRecord
<1>3. EntryOK(f, rs)
  BY <1>1, <1>2 DEF EntryOK, Active, Ends
<1> QED BY <1>2, <1>3 DEF CountsAlike, Same, Keeps

\* attachRun: the row names the run, or stays as it was.
LEMMA AttachKeeps ==
    ASSUME ObservationIInv, NEW w \in Workers, Attach(w)
    PROVE  ObservationIInv'
<1>1. phase[w] = "attaching" /\ UNCHANGED <<day, mine, runs, today, overdue>>
  BY DEF Attach, world
<1>2. /\ WorkersOK /\ on[w] \in Observations /\ EntryOK(entry[on[w]], runs[on[w]]) /\ RowsOK
      /\ WorkOK(phase[w], run[w], reported[w], entry[on[w]], runs[on[w]])
  BY WorkerKnows
<1>3. run[w] = 1 /\ Len(runs[on[w]]) = 1
  BY <1>1, <1>2 DEF WorkOK, AtARun, EntryOK
<1>4. CASE Holds(w) /\ entry[on[w]].status = "starting"
  <2>1. PICK f : f = [entry[on[w]] EXCEPT !.status = "running", !.run = 1, !.leased = TRUE]
    OBVIOUS
  <2>2. entry' = [entry EXCEPT ![on[w]] = f] /\ runs' = [runs EXCEPT ![on[w]] = runs[on[w]]]
    BY <1>1, <1>2, <1>3, <1>4, <2>1 DEF Attach, RowsOK
  <2>3. /\ EntryOK(f, runs[on[w]]) /\ CountsAlike(entry[on[w]], f)
        /\ Same(entry[on[w]], runs[on[w]], f, runs[on[w]])
    BY <1>2, <1>3, <1>4, <2>1, RunningEntry DEF Active
  <2>4. RowsKeep /\ (WorkersOK' => ObservationIInv')
    BY <1>1, <1>2, <2>2, <2>3, QuietRow
  <2>5. WorkOK(phase[w], run[w], reported[w], entry'[on[w]], runs'[on[w]])
    BY <1>2, <2>4, AllStand
  <2>6. /\ WorkOK("waiting", run[w], reported[w], entry'[on[w]], runs'[on[w]])
        /\ "waiting" \notin First
    BY <1>1, <2>5 DEF WorkOK, Phases, AtARun, First
  <2>7. Turns(w, "waiting") /\ UNCHANGED mine
    BY <1>1, <1>4 DEF Attach
  <2> QED BY <1>2, <2>4, <2>6, <2>7, WorkerTurns
<1>5. CASE ~(Holds(w) /\ entry[on[w]].status = "starting")
  <2>1. Turns(w, "unattached") /\ UNCHANGED mine /\ UNCHANGED <<books, runs, world>>
    BY <1>5 DEF Attach, books
  <2>2. /\ WorkOK("unattached", run[w], reported[w], entry[on[w]], runs[on[w]])
        /\ "unattached" \notin First
    BY <1>1, <1>2 DEF WorkOK, Phases, AtARun, First
  <2> QED BY <2>1, <2>2, OnlyTurns
<1> QED BY <1>4, <1>5

\* A row that is claimed.
LEMMA ClaimedEntry ==
    ASSUME NEW e, NEW rs, EntryOK(e, rs), e.status \notin Ends, NEW w \in Workers,
           NEW f, f = [e EXCEPT !.status = "starting", !.token = w, !.leased = TRUE]
    PROVE  EntryOK(f, rs) /\ CountsAlike(e, f) /\ Same(e, rs, f, rs) /\ f.status = "starting"
<1>1. f \in EntryRecord
  BY DEF EntryOK, EntryRecord, Active
<1>2. /\ f.status = "starting" /\ f.token = w /\ f.run = e.run /\ f.reserved = e.reserved
      /\ f.day = e.day /\ f.usage = e.usage
  BY DEF EntryOK, EntryRecord
<1>3. w # None /\ e.status \in Active \cup {"queued"}
  BY ObservationsAssumption DEF None, EntryOK, EntryRecord
<1>4. EntryOK(f, rs)
  BY <1>1, <1>2, <1>3 DEF EntryOK, Active, Ends
<1> QED BY <1>2, <1>4 DEF CountsAlike, Same, Keeps, EntryOK

\* claim: only a queued row sends a worker to reserve and to start.
LEMMA ClaimKeeps ==
    ASSUME ObservationIInv, NEW w \in Workers, NEW o \in Observations, ClaimEntry(w, o)
    PROVE  ObservationIInv'
<1>1. /\ UNCHANGED <<day, reported, runs, today, overdue>> /\ entry[o].status \notin Ends
      /\ on' = [on EXCEPT ![w] = o] /\ run' = [run EXCEPT ![w] = entry[o].run]
      /\ phase' = [phase EXCEPT ![w] = Begins(o)]
  BY DEF ClaimEntry, world, Turns
<1>2. WorkersOK /\ RowsOK /\ EntryOK(entry[o], runs[o])
  BY DEF ObservationIInv, RowsOK
<1>3. PICK f : f = [entry[o] EXCEPT !.status = "starting", !.token = w, !.leased = TRUE]
  OBVIOUS
<1>4. entry' = [entry EXCEPT ![o] = f] /\ runs' = [runs EXCEPT ![o] = runs[o]]
  BY <1>1, <1>2, <1>3 DEF ClaimEntry, RowsOK
<1>5. /\ EntryOK(f, runs[o]) /\ CountsAlike(entry[o], f) /\ Same(entry[o], runs[o], f, runs[o])
      /\ f.status = "starting"
  BY <1>1, <1>2, <1>3, ClaimedEntry
<1>6. RowsKeep /\ (WorkersOK' => ObservationIInv')
  BY <1>1, <1>4, <1>5, QuietRow
<1>7. entry'[o] = f /\ runs'[o] = runs[o]
  BY <1>1, <1>2, <1>4 DEF RowsOK
<1>8. WorkOK(Begins(o), entry[o].run, reported[w], f, runs[o])
  <2>1. reported[w] \in ToldUsage
    BY <1>2 DEF WorkersOK
  <2>2. entry[o].run \in {0, 1} /\ entry[o].run <= Len(runs[o]) /\ f.day = entry[o].day
    BY <1>2, <1>5 DEF EntryOK, EntryRecord, CountsAlike
  <2>3. CASE entry[o].run # 0
    <3>1. Begins(o) = "attaching" /\ entry[o].run = 1
      BY <2>2, <2>3 DEF Begins
    <3> QED BY <2>1, <2>2, <3>1 DEF WorkOK, Phases, AtARun, First
  <2>4. CASE entry[o].run = 0 /\ entry[o].status # "queued"
    <3>1. Begins(o) = "searching"
      BY <2>4 DEF Begins
    <3> QED BY <2>1, <2>2, <3>1 DEF WorkOK, Phases, AtARun, First
  <2>5. CASE entry[o].run = 0 /\ entry[o].status = "queued"
    <3>1. Begins(o) = "reserving" /\ Len(runs[o]) = 0 /\ f.day = 0
      BY <1>2, <2>2, <2>5 DEF Begins, EntryOK
    <3> QED BY <1>5, <2>1, <2>2, <3>1 DEF WorkOK, Phases, AtARun, First
  <2> QED BY <2>3, <2>4, <2>5
<1>9. ASSUME Begins(o) \in First, NEW v \in Workers, phase[v] \in First, on[v] = o PROVE FALSE
  <2>1. entry[o].status = "queued"
    BY <1>9 DEF Begins, First
  <2>2. entry[on[v]].status # "queued"
    BY <1>2, <1>9 DEF WorkersOK, WorkOK
  <2> QED BY <1>9, <2>1, <2>2
<1>10. OthersOK(w)
  BY <1>2, <1>6, AllStand DEF OthersOK
<1>11. reported' = [reported EXCEPT ![w] = reported[w]]
  BY <1>1, <1>2 DEF WorkersOK
<1>12. WorkOK(Begins(o), entry[o].run, reported[w], entry'[o], runs'[o])
  BY <1>7, <1>8
<1>13. WorkersOK'
  BY <1>1, <1>2, <1>9, <1>10, <1>11, <1>12, WorkerUpdate
<1> QED BY <1>6, <1>13

-----------------------------------------------------------------------------
(* Steps of the provider's runs.                                           *)

\* A run that is over stays over and costs what it cost.
RunMoves(this, that) ==
    /\ that \in RunRecord
    /\ this.live = FALSE => that.live = FALSE /\ that.cost = this.cost
RunsMove(rs, ss) ==
    /\ ss \in Seq(RunRecord) /\ Len(ss) = Len(rs)
    /\ Len(rs) = 1 => RunMoves(rs[1], ss[1])

\* A row bears what its run does: one that is settled has a run that is over.
LEMMA RowBearsItsRun ==
    ASSUME NEW e, NEW rs, NEW ss, EntryOK(e, rs), RunsMove(rs, ss)
    PROVE  EntryOK(e, ss) /\ CountsAlike(e, e) /\ Same(e, rs, e, ss)
<1>1. Len(ss) = Len(rs) /\ ss \in Seq(RunRecord) /\ Len(rs) \in {0, 1}
  BY DEF RunsMove, EntryOK
<1>2. Covered(e, rs) => Covered(e, ss)
  BY <1>1 DEF Covered, RunsMove, RunMoves
<1> QED BY <1>1, <1>2 DEF EntryOK, CountsAlike, Same, Keeps

\* The run of an observation moves, and its row may be recorded as cleaned.
LEMMA RunUpdate ==
    ASSUME NEW rs \in Seq(RunRecord), NEW n \in 1..Len(rs), Len(rs) \in {0, 1},
           NEW that, RunMoves(rs[n], that)
    PROVE  RunsMove(rs, [rs EXCEPT ![n] = that])
<1>1. n = 1 /\ Len(rs) = 1
  OBVIOUS
<1>2. that \in RunRecord
  BY DEF RunMoves
<1>3. /\ [rs EXCEPT ![n] = that] \in Seq(RunRecord) /\ Len([rs EXCEPT ![n] = that]) = Len(rs)
      /\ [rs EXCEPT ![n] = that][1] = that
  BY <1>1, <1>2, ExceptSeq
<1> QED BY <1>1, <1>3 DEF RunsMove

\* A run of the observation moves.
LEMMA RunChanges ==
    ASSUME ObservationIInv, NEW o \in Observations, NEW n \in 1..Len(runs[o]),
           NEW that, RunMoves(runs[o][n], that),
           runs' = [runs EXCEPT ![o][n] = that]
    PROVE  \E ss : runs' = [runs EXCEPT ![o] = ss] /\ RunsMove(runs[o], ss)
<1>1. RowsOK /\ runs[o] \in Seq(RunRecord) /\ Len(runs[o]) \in {0, 1}
  BY DEF ObservationIInv, RowsOK, EntryOK
<1>2. RunsMove(runs[o], [runs[o] EXCEPT ![n] = that])
  BY <1>1, RunUpdate
<1>3. runs' = [runs EXCEPT ![o] = [runs[o] EXCEPT ![n] = that]]
  BY <1>1 DEF RowsOK
<1> QED BY <1>2, <1>3

\* A step that changes only a run, as runs do.
LEMMA OnlyARun ==
    ASSUME ObservationIInv, NEW o \in Observations, NEW ss, RunsMove(runs[o], ss),
           runs' = [runs EXCEPT ![o] = ss], UNCHANGED <<books, world>>
    PROVE  RowsKeep /\ (WorkersOK' => ObservationIInv')
<1>1. RowsOK /\ EntryOK(entry[o], runs[o])
  BY DEF ObservationIInv, RowsOK
<1>2. entry' = [entry EXCEPT ![o] = entry[o]] /\ UNCHANGED <<day, today, overdue>>
  BY <1>1 DEF RowsOK, books, world
<1>3. /\ EntryOK(entry[o], ss) /\ CountsAlike(entry[o], entry[o])
      /\ Same(entry[o], runs[o], entry[o], ss)
  BY <1>1, RowBearsItsRun
<1> QED BY <1>2, <1>3, QuietRow

\* The run a step speaks of is the first.
LEMMA RunIsThere ==
    ASSUME ObservationIInv, NEW o \in Observations, NEW n \in 1..Len(runs[o])
    PROVE  n = 1 /\ Len(runs[o]) = 1 /\ runs[o][n] \in RunRecord /\ runs[o][n].live \in BOOLEAN
           /\ runs[o][n].stored \in BOOLEAN /\ runs[o][n].cost \in Nat
<1>1. runs[o] \in Seq(RunRecord) /\ Len(runs[o]) \in {0, 1}
  BY DEF ObservationIInv, RowsOK, EntryOK
<1>2. n = 1 /\ Len(runs[o]) = 1 /\ runs[o][n] \in RunRecord
  BY <1>1
<1> QED BY <1>2 DEF RunRecord

\* What an abort makes of a run.
LEMMA AbortedRun ==
    ASSUME NEW this \in RunRecord, NEW works \in BOOLEAN, NEW deleted \in BOOLEAN
    PROVE  RunMoves(this, [live |-> this.live /\ ~works, stored |-> this.stored /\ ~deleted,
                           cost |-> this.cost])
<1>1. PICK l, s : l = (this.live /\ ~works) /\ s = (this.stored /\ ~deleted)
  OBVIOUS
<1>2. this.live \in BOOLEAN /\ this.stored \in BOOLEAN /\ this.cost \in Nat
  BY DEF RunRecord
<1>3. l \in BOOLEAN /\ s \in BOOLEAN
  BY <1>1, <1>2
<1>4. ASSUME this.live = FALSE PROVE l = FALSE
  BY <1>1, <1>4
<1>5. RunMoves(this, [live |-> l, stored |-> s, cost |-> this.cost])
  BY <1>2, <1>3, <1>4 DEF RunMoves, RunRecord
<1> QED BY <1>1, <1>5

\* An abort is a move of the run.
LEMMA AbortMoves ==
    ASSUME ObservationIInv, NEW o \in Observations, NEW n \in 1..Len(runs[o]),
           NEW deleted \in BOOLEAN, Abort(o, n, deleted)
    PROVE  \E ss : runs' = [runs EXCEPT ![o] = ss] /\ RunsMove(runs[o], ss)
<1>1. PICK works \in BOOLEAN :
        runs' = [runs EXCEPT ![o][n] =
                  [live |-> runs[o][n].live /\ ~works, stored |-> runs[o][n].stored /\ ~deleted,
                   cost |-> runs[o][n].cost]]
  BY DEF Abort
<1>2. PICK that : that = [live |-> runs[o][n].live /\ ~works,
                          stored |-> runs[o][n].stored /\ ~deleted, cost |-> runs[o][n].cost]
  OBVIOUS
<1>3. runs[o][n] \in RunRecord
  BY RunIsThere
<1>4. RunMoves(runs[o][n], that)
  BY <1>2, <1>3, AbortedRun
<1>5. runs' = [runs EXCEPT ![o][n] = that]
  BY <1>1, <1>2
<1> QED BY <1>4, <1>5, RunChanges

\* A worker at a run.
LEMMA AtTheRun ==
    ASSUME ObservationIInv, NEW w \in Workers, run[w] # 0
    PROVE  on[w] \in Observations /\ run[w] = 1 /\ run[w] \in 1..Len(runs[on[w]])
<1>1. /\ run[w] \in {0, 1} /\ run[w] <= Len(runs[on[w]])
      /\ on[w] \in Observations /\ runs[on[w]] \in Seq(RunRecord)
  BY WorkerKnows DEF WorkOK
<1>2. Len(runs[on[w]]) \in Nat
  BY <1>1
<1> QED BY <1>1, <1>2

\* A run nobody owns is aborted.
LEMMA DisownKeeps ==
    ASSUME ObservationIInv, NEW w \in Workers, Disown(w)
    PROVE  ObservationIInv'
<1>1. /\ phase[w] = "disowned" /\ Skips(w) /\ UNCHANGED <<books, world>>
      /\ \E deleted \in BOOLEAN : Abort(on[w], run[w], deleted)
  BY DEF Disown
<1>2. WorkersOK /\ run[w] # 0
  BY <1>1, WorkerKnows DEF WorkOK, AtARun
<1>3. PICK ss : runs' = [runs EXCEPT ![on[w]] = ss] /\ RunsMove(runs[on[w]], ss)
  BY <1>1, <1>2, AtTheRun, AbortMoves
<1>4. RowsKeep /\ (WorkersOK' => ObservationIInv')
  BY <1>1, <1>2, <1>3, AtTheRun, OnlyARun
<1> QED BY <1>1, <1>2, <1>4, WorkerSkips

\* A worker turns to a phase it is fit for while its run moves.
LEMMA TurnsAtARun ==
    ASSUME ObservationIInv, NEW w \in Workers, NEW s, Turns(w, s), UNCHANGED mine, run[w] # 0,
           s \in Phases \ First, NEW ss, runs' = [runs EXCEPT ![on[w]] = ss],
           RunsMove(runs[on[w]], ss), UNCHANGED <<books, world>>
    PROVE  ObservationIInv'
<1>1. WorkersOK /\ run[w] = 1
  BY WorkerKnows, AtTheRun
<1>2. RowsKeep /\ (WorkersOK' => ObservationIInv')
  BY AtTheRun, OnlyARun
<1>3. WorkOK(phase[w], run[w], reported[w], entry'[on[w]], runs'[on[w]])
  BY <1>1, <1>2, AllStand
<1>4. WorkOK(s, run[w], reported[w], entry'[on[w]], runs'[on[w]]) /\ s \notin First
  BY <1>1, <1>3 DEF WorkOK, First
<1> QED BY <1>1, <1>2, <1>4, WorkerTurns

\* A run is aborted at the timeout.
LEMMA StopKeeps ==
    ASSUME ObservationIInv, NEW w \in Workers, Stop(w)
    PROVE  ObservationIInv'
<1>1. /\ phase[w] = "stopping" /\ Turns(w, "timed_out") /\ UNCHANGED mine
      /\ Abort(on[w], run[w], FALSE) /\ UNCHANGED <<books, world>>
  BY DEF Stop
<1>2. run[w] # 0
  BY <1>1, WorkerKnows DEF WorkOK, AtARun
<1>3. PICK ss : runs' = [runs EXCEPT ![on[w]] = ss] /\ RunsMove(runs[on[w]], ss)
  BY <1>1, <1>2, AtTheRun, AbortMoves
<1>4. "timed_out" \in Phases \ First
  BY DEF Phases, First
<1> QED BY <1>1, <1>2, <1>3, <1>4, TurnsAtARun

\* The catch clause's abort, where there is a run.
LEMMA FailKeeps ==
    ASSUME ObservationIInv, NEW w \in Workers, Fail(w)
    PROVE  ObservationIInv'
<1>1. Turns(w, "marking") /\ UNCHANGED mine /\ UNCHANGED <<books, world>>
  BY DEF Fail
<1>2. "marking" \in Phases \ First /\ "marking" \notin AtARun
  BY DEF Phases, First, AtARun
<1>3. CASE run[w] = 0
  <2>1. UNCHANGED <<books, runs, world>>
    BY <1>1, <1>3 DEF Fail
  <2>2. WorkOK("marking", run[w], reported[w], entry[on[w]], runs[on[w]])
    BY WorkerKnows DEF WorkOK, Phases, First, AtARun
  <2> QED BY <1>1, <1>2, <2>1, <2>2, OnlyTurns
<1>4. CASE run[w] # 0
  <2>1. Abort(on[w], run[w], FALSE)
    BY <1>4 DEF Fail
  <2>2. PICK ss : runs' = [runs EXCEPT ![on[w]] = ss] /\ RunsMove(runs[on[w]], ss)
    BY <1>4, <2>1, AtTheRun, AbortMoves
  <2> QED BY <1>1, <1>2, <1>4, <2>2, TurnsAtARun
<1> QED BY <1>3, <1>4

\* What is stored of a run says nothing of its cost.
LEMMA StoredMoves ==
    ASSUME ObservationIInv, NEW o \in Observations, NEW n \in 1..Len(runs[o]),
           NEW x \in BOOLEAN, runs' = [runs EXCEPT ![o][n].stored = x]
    PROVE  \E ss : runs' = [runs EXCEPT ![o] = ss] /\ RunsMove(runs[o], ss)
<1>1. PICK that : that = [runs[o][n] EXCEPT !.stored = x]
  OBVIOUS
<1>2. runs[o][n] \in RunRecord
  BY RunIsThere
<1>3. RunMoves(runs[o][n], that)
  BY <1>1, <1>2 DEF RunMoves, RunRecord
<1>4. runs' = [runs EXCEPT ![o][n] = that]
  BY <1>1
<1> QED BY <1>3, <1>4, RunChanges

\* The finally clause deletes what is stored, and no cost.
LEMMA CleanKeeps ==
    ASSUME ObservationIInv, NEW w \in Workers, Clean(w)
    PROVE  ObservationIInv'
<1>1. CASE Skips(w) /\ UNCHANGED runs /\ UNCHANGED <<books, world>>
  BY <1>1, OnlySkips
<1>2. CASE /\ run[w] # 0 /\ runs' = [runs EXCEPT ![on[w]][run[w]].stored = FALSE]
           /\ Turns(w, "recording") /\ UNCHANGED mine /\ UNCHANGED <<books, world>>
  <2>1. PICK ss : runs' = [runs EXCEPT ![on[w]] = ss] /\ RunsMove(runs[on[w]], ss)
    BY <1>2, AtTheRun, StoredMoves
  <2>2. "recording" \in Phases \ First
    BY DEF Phases, First
  <2> QED BY <1>2, <2>1, <2>2, TurnsAtARun
<1> QED BY <1>1, <1>2 DEF Clean

\* The provider's Actor stores something.
LEMMA ActorWritesKeeps ==
    ASSUME ObservationIInv, NEW o \in Observations, NEW n \in DOMAIN runs[o], ActorWrites(o, n)
    PROVE  ObservationIInv'
<1>1. n \in 1..Len(runs[o]) /\ WorkersOK
  BY TheRun DEF ObservationIInv
<1>2. /\ runs' = [runs EXCEPT ![o][n].stored = TRUE] /\ UNCHANGED <<books, world>>
      /\ UNCHANGED <<phase, mine>>
  BY DEF ActorWrites
<1>3. PICK ss : runs' = [runs EXCEPT ![o] = ss] /\ RunsMove(runs[o], ss)
  BY <1>1, <1>2, StoredMoves
<1> QED BY <1>1, <1>2, <1>3, OnlyARun, WorkersStand

\* A run that goes on, costs more or ends.
LEMMA LiveRunMoves ==
    ASSUME ObservationIInv, NEW o \in Observations, NEW n \in DOMAIN runs[o], runs[o][n].live,
           NEW that \in RunRecord, runs' = [runs EXCEPT ![o][n] = that],
           UNCHANGED <<books, world>>, UNCHANGED <<phase, mine>>
    PROVE  ObservationIInv'
<1>1. n \in 1..Len(runs[o]) /\ WorkersOK
  BY TheRun DEF ObservationIInv
<1>2. ASSUME runs[o][n].live = FALSE PROVE FALSE
  BY <1>2
<1>3. RunMoves(runs[o][n], that)
  BY <1>2 DEF RunMoves
<1>4. PICK ss : runs' = [runs EXCEPT ![o] = ss] /\ RunsMove(runs[o], ss)
  BY <1>1, <1>3, RunChanges
<1> QED BY <1>1, <1>4, OnlyARun, WorkersStand

\* It costs more.
LEMMA ActorSpendsKeeps ==
    ASSUME ObservationIInv, NEW o \in Observations, NEW n \in DOMAIN runs[o], ActorSpends(o, n)
    PROVE  ObservationIInv'
<1>1. runs[o][n] \in RunRecord
  BY TheRun, RunIsThere
<1>2. PICK cost \in Nat : cost = runs[o][n].cost + 1
  BY <1>1 DEF RunRecord
<1>3. PICK that \in RunRecord : that = [runs[o][n] EXCEPT !.cost = cost]
  BY <1>1 DEF RunRecord
<1>4. runs' = [runs EXCEPT ![o][n] = that]
  BY <1>2, <1>3 DEF ActorSpends
<1> QED BY <1>4, LiveRunMoves DEF ActorSpends

\* It ends.
LEMMA ActorEndsKeeps ==
    ASSUME ObservationIInv, NEW o \in Observations, NEW n \in DOMAIN runs[o], ActorEnds(o, n)
    PROVE  ObservationIInv'
<1>1. runs[o][n] \in RunRecord
  BY TheRun, RunIsThere
<1>2. PICK that \in RunRecord : that = [runs[o][n] EXCEPT !.live = FALSE]
  BY <1>1 DEF RunRecord
<1>3. runs' = [runs EXCEPT ![o][n] = that]
  BY <1>2 DEF ActorEnds
<1> QED BY <1>3, LiveRunMoves DEF ActorEnds

-----------------------------------------------------------------------------
(* The start of the paid run, and the rows that are ended and settled.     *)
LEMMA StartedRow ==
    ASSUME NEW e, NEW rs, EntryOK(e, rs), Len(rs) = 0, e.status # "queued",
           NEW ss, ss = Append(rs, Started)
    PROVE  EntryOK(e, ss) /\ CountsAlike(e, e) /\ Len(ss) = 1 /\ Keeps(e, rs, e, ss)
<1>1. Started \in RunRecord
  BY ObservationsAssumption DEF Started, RunRecord
<1>2. ss \in Seq(RunRecord) /\ Len(ss) = 1
  BY <1>1 DEF EntryOK
<1>3. Covered(e, rs) => Covered(e, ss)
  BY <1>2 DEF Covered
<1>4. EntryOK(e, ss)
  BY <1>2, <1>3 DEF EntryOK, EntryRecord
<1> QED BY <1>2, <1>4 DEF CountsAlike, Keeps

\* The others of a row whose only first worker takes the step.
LEMMA OthersGoOn ==
    ASSUME RowsOK, RowsOK', WorkersOK, NEW w \in Workers, phase[w] \in First,
           RowAt(on[w]), Keeps(entry[on[w]], runs[on[w]], entry'[on[w]], runs'[on[w]])
    PROVE  OthersOK(w)
<1> SUFFICES ASSUME NEW v \in Workers \ {w}
             PROVE  WorkOK(phase[v], run[v], reported[v], entry'[on[v]], runs'[on[v]])
  BY DEF OthersOK
<1>1. /\ on[v] \in Observations /\ on[w] \in Observations
      /\ WorkOK(phase[v], run[v], reported[v], entry[on[v]], runs[on[v]])
  BY DEF WorkersOK
<1>2. CASE on[v] # on[w]
  <2>1. entry'[on[v]] = entry[on[v]] /\ runs'[on[v]] = runs[on[v]]
    BY <1>1, <1>2 DEF RowAt, RowsOK
  <2> QED BY <1>1, <2>1
<1>3. CASE on[v] = on[w]
  <2>1. phase[v] \notin First
    BY <1>3 DEF WorkersOK
  <2>2. runs[on[v]] \in Seq(RunRecord) /\ runs'[on[v]] \in Seq(RunRecord)
    BY <1>1 DEF RowsOK
  <2>3. Keeps(entry[on[v]], runs[on[v]], entry'[on[v]], runs'[on[v]])
    BY <1>3
  <2> QED BY <1>1, <2>1, <2>2, <2>3, WorkGoesOn
<1> QED BY <1>2, <1>3

\* provider.start: the only worker that may starts the first run, whatever becomes of the answer.
LEMMA StartKeeps ==
    ASSUME ObservationIInv, NEW w \in Workers, Start(w)
    PROVE  ObservationIInv'
<1>1. /\ phase[w] = "starting" /\ UNCHANGED <<books, world>>
      /\ UNCHANGED <<entry, day, today, overdue>>
  BY DEF Start, books, world
<1>2. /\ WorkersOK /\ RowsOK /\ on[w] \in Observations /\ EntryOK(entry[on[w]], runs[on[w]])
      /\ WorkOK(phase[w], run[w], reported[w], entry[on[w]], runs[on[w]])
  BY WorkerKnows
<1>3. /\ Len(runs[on[w]]) = 0 /\ entry[on[w]].status # "queued"
      /\ phase[w] \in First /\ reported[w] \in ToldUsage
  BY <1>1, <1>2 DEF WorkOK, First
<1>4. PICK ss : ss = Append(runs[on[w]], Started)
  OBVIOUS
<1>5. /\ EntryOK(entry[on[w]], ss) /\ CountsAlike(entry[on[w]], entry[on[w]]) /\ Len(ss) = 1
      /\ Keeps(entry[on[w]], runs[on[w]], entry[on[w]], ss)
  BY <1>2, <1>3, <1>4, StartedRow
<1>6. ASSUME runs' = [runs EXCEPT ![on[w]] = ss]
      PROVE  /\ OthersOK(w) /\ (WorkersOK' => ObservationIInv')
             /\ entry'[on[w]] = entry[on[w]] /\ runs'[on[w]] = ss
  <2>1. entry' = [entry EXCEPT ![on[w]] = entry[on[w]]]
    BY <1>1, <1>2 DEF RowsOK
  <2>2. RowsOK' /\ (WorkersOK' => ObservationIInv')
    BY <1>1, <1>2, <1>5, <1>6, <2>1, QuietRow
  <2>3. entry'[on[w]] = entry[on[w]] /\ runs'[on[w]] = ss /\ RowAt(on[w])
    BY <1>2, <1>6, <2>1 DEF RowsOK, RowAt
  <2> QED BY <1>2, <1>3, <1>5, <2>2, <2>3, OthersGoOn
<1>7. CASE /\ runs' = [runs EXCEPT ![on[w]] = Append(@, Started)]
           /\ run' = [run EXCEPT ![w] = Len(runs[on[w]]) + 1] /\ Turns(w, "attaching")
           /\ UNCHANGED <<on, reported>>
  <2>1. runs' = [runs EXCEPT ![on[w]] = ss] /\ run' = [run EXCEPT ![w] = 1]
    <3>1. Len(runs[on[w]]) + 1 = 1
      BY <1>3
    <3> QED BY <1>4, <1>7, <3>1
  <2>2. /\ WorkOK("attaching", 1, reported[w], entry'[on[w]], runs'[on[w]])
        /\ "attaching" \notin First
    <3>1. runs'[on[w]] = ss
      BY <1>6, <2>1
    <3>2. /\ WorkOK("attaching", 1, reported[w], entry'[on[w]], ss)
          /\ "attaching" \notin First
      BY <1>3, <1>5 DEF WorkOK, Phases, First, AtARun
    <3> QED BY <3>1, <3>2
  <2>3. /\ phase' = [phase EXCEPT ![w] = "attaching"] /\ on' = [on EXCEPT ![w] = on[w]]
        /\ reported' = [reported EXCEPT ![w] = reported[w]]
    BY <1>2, <1>7 DEF Turns, WorkersOK
  <2>4. WorkersOK'
    BY <1>2, <1>6, <2>1, <2>2, <2>3, WorkerUpdate
  <2> QED BY <1>6, <2>1, <2>4
<1>8. CASE Skips(w) /\ runs' = runs
  BY <1>1, <1>8, OnlySkips
<1>9. CASE Skips(w) /\ runs' = [runs EXCEPT ![on[w]] = Append(@, Started)]
  <2>1. runs' = [runs EXCEPT ![on[w]] = ss]
    BY <1>4, <1>9
  <2>2. /\ WorkOK("idle", 0, {}, entry'[on[w]], runs'[on[w]])
        /\ "idle" \notin First
    <3>1. runs'[on[w]] = ss
      BY <1>6, <2>1
    <3>2. /\ WorkOK("idle", 0, {}, entry'[on[w]], ss)
          /\ "idle" \notin First
      BY <1>5 DEF WorkOK, Phases, First, AtARun, ToldUsage
    <3> QED BY <3>1, <3>2
  <2>3. /\ phase' = [phase EXCEPT ![w] = "idle"] /\ on' = [on EXCEPT ![w] = on[w]]
        /\ run' = [run EXCEPT ![w] = 0] /\ reported' = [reported EXCEPT ![w] = {}]
    BY <1>2, <1>9 DEF Skips, WorkersOK
  <2>4. WorkersOK'
    BY <1>2, <1>6, <2>1, <2>2, <2>3, WorkerUpdate
  <2> QED BY <1>6, <2>1, <2>4
<1> QED BY <1>7, <1>8, <1>9 DEF Start

\* What is reserved for a row is within its day's total.
LEMMA ReservedIsCounted ==
    ASSUME NEW e, NEW dd, BooksOK(e, dd), Counts(e), NEW a \in Observations,
           NEW D \in 1..LastDay, e[a].day = D
    PROVE  e[a].reserved <= dd[D].reserved
<1>1. PICK S, F : S = DayOf(e, D) /\ F = ReservedOf(e)
  OBVIOUS
<1>2. a \in S /\ IsFiniteSet(S)
  BY <1>1, DaysAreFinite DEF DayOf
<1>3. (\A o \in S : F[o] \in Nat) /\ F[a] = e[a].reserved
  BY <1>1 DEF DayOf, ReservedOf, Counts
<1>4. F[a] <= SumFunctionOnSet(F, S)
  <2>1. IsFiniteSet(S \ {a})
    BY <1>2, FS_Subset
  <2>2. SumFunctionOnSet(F, S) = F[a] + SumFunctionOnSet(F, S \ {a})
    BY <1>2, <1>3, SumPick
  <2>3. SumFunctionOnSet(F, S \ {a}) \in Nat /\ F[a] \in Nat
    BY <1>2, <1>3, <2>1, SumIsNatural
  <2> QED BY <2>2, <2>3
<1>5. dd[D].reserved = SumFunctionOnSet(F, S)
  BY <1>1 DEF BooksOK
<1> QED BY <1>3, <1>4, <1>5

\* The statement that settles a row with its day.
Writes(dd, ee, D, x, y) == ee = [dd EXCEPT ![D].reserved = Beyond(@, x), ![D].usage = @ + y]

\* Settling takes from a day's reservations no more than they hold.
LEMMA DaySettles ==
    ASSUME NEW dd \in [1..LastDay -> [reserved : Nat, usage : Nat]], NEW D \in 1..LastDay,
           NEW x \in Nat, NEW y \in Nat, x <= dd[D].reserved, NEW ee, Writes(dd, ee, D, x, y)
    PROVE  DayMovesTo(dd, ee, D, dd[D].reserved - x, dd[D].usage + y)
<1>1. PICK r, u : r = dd[D].reserved - x /\ u = dd[D].usage + y
  OBVIOUS
<1>2. dd[D].reserved \in Nat /\ dd[D].usage \in Nat
  OBVIOUS
<1>3. r \in Nat /\ u \in Nat /\ r = Beyond(dd[D].reserved, x)
  BY <1>1, <1>2 DEF Beyond
<1>4. ee = [dd EXCEPT ![D].reserved = r, ![D].usage = u]
  BY <1>1, <1>3 DEF Writes
<1>5. DayMovesTo(dd, ee, D, r, u)
  BY <1>3, <1>4 DEF DayMovesTo
<1> QED BY <1>1, <1>5

\* A row is settled, its day with it, and what its workers read stays as it was.
Settles(e, f) ==
    /\ f.day = e.day /\ f.reserved <= e.reserved /\ e.usage <= f.usage
    /\ (f.reserved + f.usage) + Beyond(e.usage, MaxRunUsd)
         <= (e.reserved + e.usage) + Beyond(f.usage, MaxRunUsd)

\* A row is settled with its day.
LEMMA SettledRow ==
    ASSUME ObservationIInv, NEW o \in Observations, NEW f, EntryOK(f, runs[o]),
           entry' = [entry EXCEPT ![o] = f], UNCHANGED <<runs, today, overdue>>,
           Same(entry[o], runs[o], f, runs[o]), f.day = entry[o].day,
           entry[o].day # 0 => Settles(entry[o], f),
           NEW x, NEW y, x = entry[o].reserved - f.reserved, y = f.usage - entry[o].usage,
           day' = IF entry[o].day = 0 THEN day
                  ELSE [day EXCEPT ![entry[o].day].reserved = Beyond(@, x),
                                   ![entry[o].day].usage = @ + y]
    PROVE  RowsKeep /\ (WorkersOK' => ObservationIInv')
<1>1. RowsOK /\ BooksOK(entry, day) /\ entry[o] \in EntryRecord /\ f \in EntryRecord
  BY DEF ObservationIInv, RowsOK, EntryOK
<1>2. entry'[o] = f /\ runs'[o] = runs[o] /\ RowAt(o)
  BY <1>1 DEF RowsOK, RowAt
<1>3. RowsOK' /\ RowsKeep
  BY <1>1, <1>2, RowUpdate, RowKeeps
<1>4. Counts(entry) /\ Counts(entry') /\ \A p \in Observations \ {o} : entry'[p] = entry[p]
  BY <1>1, <1>3 DEF RowsOK, Counts, EntryRecord
<1>5. OnlyRow(entry, entry', o)
  BY <1>4 DEF OnlyRow
<1>6. BooksOK(entry', day')
  <2>1. CASE entry[o].day = 0
    <3>1. \A p \in Observations :
            /\ entry'[p].day = entry[p].day
            /\ entry[p].day # 0 => /\ entry'[p].reserved = entry[p].reserved
                                   /\ entry'[p].usage = entry[p].usage
      BY <1>2, <1>4, <2>1
    <3> QED BY <1>1, <1>3, <2>1, <3>1, BooksKept
  <2>2. CASE entry[o].day # 0
    <3>1. PICK D \in 1..LastDay : D = entry[o].day
      BY <1>1, <2>2 DEF EntryRecord
    <3>2. /\ entry[o].reserved \in Nat /\ f.reserved \in Nat /\ entry[o].usage \in Nat
          /\ f.usage \in Nat
      BY <1>1, ObservationsAssumption DEF EntryRecord
    <3>3. x \in Nat /\ y \in Nat /\ x <= entry[o].reserved
      BY <2>2, <3>2 DEF Settles
    <3>4. day \in [1..LastDay -> [reserved : Nat, usage : Nat]]
      BY <1>1 DEF BooksOK
    <3>5. entry[o].reserved <= day[D].reserved
      BY <1>1, <1>4, <3>1, ReservedIsCounted
    <3>6. day[D].reserved \in Nat /\ x <= day[D].reserved
      BY <3>1, <3>2, <3>3, <3>4, <3>5
    <3>7. Writes(day, day', D, x, y)
      BY <2>2, <3>1 DEF Writes
    <3>8. DayMovesTo(day, day', D, day[D].reserved - x, day[D].usage + y)
      BY <3>3, <3>4, <3>6, <3>7, DaySettles
    <3>9. DayMovesTo(day, day', D, day[D].reserved - (entry[o].reserved - entry'[o].reserved),
                day[D].usage + (entry'[o].usage - entry[o].usage))
      BY <1>2, <3>8
    <3>10. entry'[o].day = D /\ Settles(entry[o], entry'[o])
      BY <1>2, <2>2, <3>1
    <3> QED BY <1>1, <1>4, <1>5, <3>1, <3>9, <3>10, BooksSettle DEF Settles
  <2> QED BY <2>1, <2>2
<1> QED BY <1>3, <1>6, Whole

\* What a row that is ended with a told usage becomes.
EndedEntry(e, end, told) ==
    [e EXCEPT !.status = end, !.usage = ActualUsage(told, e.reserved),
              !.reserved = Remaining(e.reserved, ActualUsage(told, e.reserved)),
              !.settled = (Remaining(e.reserved, ActualUsage(told, e.reserved)) = 0),
              !.token = None, !.leased = FALSE]

\* What a run is taken to have cost, and what stays reserved.
LEMMA ActualUsageIs ==
    ASSUME NEW told \in ToldUsage, NEW held \in 0..MaxRunUsd
    PROVE  /\ ActualUsage(told, held) \in Nat
           /\ Remaining(held, ActualUsage(told, held)) =
                IF ActualUsage(told, held) <= held THEN held - ActualUsage(told, held) ELSE 0
           /\ Remaining(held, ActualUsage(told, held)) \in 0..held
<1>1. MaxRunUsd \in Nat
  BY ObservationsAssumption
<1>2. ActualUsage(told, held) \in Nat
  <2>1. CASE told = {}
    BY <1>1, <2>1 DEF ActualUsage
  <2>2. CASE told # {}
    <3>1. PICK u \in Nat : told = {u}
      BY <2>2 DEF ToldUsage
    <3>2. Max(told) = u
      BY <3>1, MaxOfOne
    <3> QED BY <2>2, <3>1, <3>2 DEF ActualUsage
  <2> QED BY <2>1, <2>2
<1>3. PICK u \in Nat : u = ActualUsage(told, held)
  BY <1>2
<1> QED BY <1>1, <1>3 DEF Remaining, Beyond, Least

\* A row that is ended counts, used and kept, what it had reserved, or more.
LEMMA EndedRow ==
    ASSUME NEW e, NEW rs, EntryOK(e, rs), e.status \in Active, NEW end \in Ends,
           NEW told \in ToldUsage,
           NEW f, f = EndedEntry(e, end, told)
    PROVE  /\ EntryOK(f, rs) /\ Same(e, rs, f, rs) /\ f.day = e.day
           /\ e.day # 0 => Settles(e, f)
           /\ e.usage = 0 /\ (e.day # 0 => e.reserved > 0)
<1>1. /\ e \in EntryRecord /\ e.reserved \in 0..MaxRunUsd /\ e.usage = 0
      /\ e.day = 0 => e.reserved = 0
      /\ e.day # 0 => e.reserved = MaxRunUsd
  BY DEF EntryOK, EntryRecord, Active, Ends
<1>2. PICK u, k : u = ActualUsage(told, e.reserved) /\ k = Remaining(e.reserved, u)
  OBVIOUS
<1>3. /\ u \in Nat /\ k = IF u <= e.reserved THEN e.reserved - u ELSE 0
      /\ k \in 0..e.reserved
  BY <1>1, <1>2, ActualUsageIs
<1>4. MaxRunUsd \in Nat /\ MaxRunUsd > 0
  BY ObservationsAssumption
<1>5. PICK x \in BOOLEAN : x = (k = 0)
  OBVIOUS
<1>6. f = [e EXCEPT !.status = end, !.usage = u, !.reserved = k, !.settled = x,
                    !.token = None, !.leased = FALSE]
  BY <1>2, <1>5 DEF EndedEntry
<1>7. k \in 0..MaxRunUsd /\ u \in Nat
  BY <1>1, <1>3, <1>4
<1>8. f \in EntryRecord
  BY <1>1, <1>5, <1>6, <1>7 DEF EntryRecord
<1>9. /\ f.status = end /\ f.usage = u /\ f.reserved = k /\ f.token = None /\ f.day = e.day
      /\ f.run = e.run
  BY <1>1, <1>6 DEF EntryRecord
<1>10. f.day # 0 => Covered(f, rs)
  BY <1>1, <1>3, <1>4, <1>9 DEF Covered
<1>11. f.day = 0 => f.reserved = 0
  BY <1>1, <1>3, <1>9
<1>12. f.status \in Ends /\ f.status \notin Active /\ f.status # "queued"
  BY <1>9 DEF Ends, Active
<1>13. EntryOK(f, rs)
  BY <1>8, <1>9, <1>10, <1>11, <1>12 DEF EntryOK
<1>14. Same(e, rs, f, rs)
  <2>1. Len(rs) \in Nat
    BY DEF EntryOK
  <2> QED BY <2>1, <1>9, <1>12 DEF Same, Keeps
<1>15. e.day # 0 => Settles(e, f)
  BY <1>1, <1>3, <1>4, <1>9 DEF Settles, Beyond
<1> QED BY <1>1, <1>4, <1>9, <1>13, <1>14, <1>15

\* complete and markTerminal settle a row with the day it was reserved on.
LEMMA EndRowKeeps ==
    ASSUME ObservationIInv, NEW o \in Observations, NEW end \in Ends, NEW told \in ToldUsage,
           entry[o].status \in Active, EndRow(o, end, told), UNCHANGED <<runs, world>>
    PROVE  RowsKeep /\ (WorkersOK' => ObservationIInv')
<1>1. RowsOK /\ EntryOK(entry[o], runs[o]) /\ entry[o] \in EntryRecord
  BY DEF ObservationIInv, RowsOK
<1>2. PICK f : f = EndedEntry(entry[o], end, told)
  OBVIOUS
<1>3. /\ EntryOK(f, runs[o]) /\ Same(entry[o], runs[o], f, runs[o]) /\ f.day = entry[o].day
      /\ entry[o].day # 0 => Settles(entry[o], f)
      /\ entry[o].usage = 0 /\ (entry[o].day # 0 => entry[o].reserved > 0)
  BY <1>1, <1>2, EndedRow
<1>4. entry' = [entry EXCEPT ![o] = f]
  BY <1>1, <1>2 DEF EndRow, EndedEntry, RowsOK
<1>5. PICK x, y : x = entry[o].reserved - f.reserved /\ y = f.usage - entry[o].usage
  OBVIOUS
<1>6. f.usage \in Nat /\ f.usage = ActualUsage(told, entry[o].reserved)
      /\ f.reserved = Remaining(entry[o].reserved, ActualUsage(told, entry[o].reserved))
  BY <1>1, <1>2, <1>3 DEF EndedEntry, EntryOK, EntryRecord
<1>7. y = f.usage
  BY <1>3, <1>5, <1>6
<1>8. day' = IF entry[o].day # 0 /\ entry[o].reserved > 0
             THEN [day EXCEPT ![entry[o].day].reserved = Beyond(@, x),
                              ![entry[o].day].usage = @ + y]
             ELSE day
  BY <1>5, <1>6, <1>7 DEF EndRow, SettlesWith
<1>9. day' = IF entry[o].day = 0 THEN day
             ELSE [day EXCEPT ![entry[o].day].reserved = Beyond(@, x),
                              ![entry[o].day].usage = @ + y]
  BY <1>3, <1>8
<1>10. UNCHANGED <<runs, today, overdue>>
  BY DEF world
<1> QED BY <1>3, <1>4, <1>5, <1>9, <1>10, SettledRow

\* A worker that ends its row or finds it lost, and skips.
LEMMA EndsAndSkips ==
    ASSUME ObservationIInv, NEW w \in Workers, NEW end \in Ends, NEW told \in ToldUsage,
           IF Holds(w) THEN EndRow(on[w], end, told) ELSE UNCHANGED books,
           Skips(w), UNCHANGED <<runs, world>>
    PROVE  ObservationIInv'
<1>1. WorkersOK /\ on[w] \in Observations
  BY WorkerKnows
<1>2. CASE Holds(w)
  <2>1. EndRow(on[w], end, told) /\ entry[on[w]].status \in Active
    BY <1>2 DEF Holds
  <2>2. RowsKeep /\ (WorkersOK' => ObservationIInv')
    BY <1>1, <2>1, EndRowKeeps
  <2> QED BY <1>1, <2>2, WorkerSkips
<1>3. CASE ~Holds(w)
  BY <1>3, OnlySkips
<1> QED BY <1>2, <1>3

\* A row is given up after six hours.
LEMMA GiveUpKeeps ==
    ASSUME ObservationIInv, NEW w \in Workers, GiveUp(w)
    PROVE  ObservationIInv'
<1>1. "failed" \in Ends /\ {} \in ToldUsage
  BY DEF Ends, ToldUsage
<1> QED BY <1>1, EndsAndSkips DEF GiveUp

\* A row is skipped for the day's budget.
LEMMA ExhaustedKeeps ==
    ASSUME ObservationIInv, NEW w \in Workers, Exhausted(w)
    PROVE  ObservationIInv'
<1>1. "budget_skipped" \in Ends /\ {0} \in ToldUsage
  BY ObservationsAssumption DEF Ends, ToldUsage
<1> QED BY <1>1, EndsAndSkips DEF Exhausted

\* What a row is marked with is a usage: the greater of two where the run timed out.
LEMMA ToldIsToldAtTheEnd ==
    ASSUME ObservationIInv, NEW w \in Workers
    PROVE  ToldAtTheEnd(w) \in ToldUsage
<1>1. reported[w] \in ToldUsage /\ MaxRunUsd \in Nat
  BY WorkerKnows, ObservationsAssumption DEF WorkOK
<1>2. Max(reported[w] \cup {MaxRunUsd}) \in Nat
  <2>1. CASE reported[w] = {}
    BY <1>1, <2>1, MaxOfOne
  <2>2. ASSUME NEW u \in Nat, reported[w] = {u} PROVE Max(reported[w] \cup {MaxRunUsd}) \in Nat
    <3>1. PICK S : S = {u, MaxRunUsd}
      OBVIOUS
    <3>2. \E x \in S : \A y \in S : x >= y
      <4>1. CASE u >= MaxRunUsd
        BY <1>1, <3>1, <4>1
      <4>2. CASE MaxRunUsd >= u
        BY <1>1, <3>1, <4>2
      <4> QED BY <1>1, <4>1, <4>2
    <3>3. Max(S) \in S
      BY <3>2 DEF Max
    <3>4. reported[w] \cup {MaxRunUsd} = S
      BY <2>2, <3>1
    <3> QED BY <1>1, <3>1, <3>3, <3>4
  <2> QED BY <1>1, <2>1, <2>2 DEF ToldUsage
<1> QED BY <1>1, <1>2 DEF ToldAtTheEnd, ToldUsage

\* A row ends with its run.
LEMMA EndKeeps ==
    ASSUME ObservationIInv, NEW w \in Workers, End(w)
    PROVE  ObservationIInv'
<1>1. PICK end \in Ends : end = IF phase[w] = "completing" THEN "completed" ELSE "failed"
  BY DEF Ends
<1>2. PICK told \in ToldUsage : told = ToldAtTheEnd(w)
  BY ToldIsToldAtTheEnd
<1>3. WorkersOK /\ on[w] \in Observations /\ UNCHANGED <<runs, world>>
  BY WorkerKnows DEF End
<1>4. CASE ~Holds(w)
  <2>1. Skips(w) /\ UNCHANGED <<books, runs, world>>
    BY <1>3, <1>4 DEF End
  <2> QED BY <2>1, OnlySkips
<1>5. CASE Holds(w)
  <2>1. EndRow(on[w], end, told) /\ entry[on[w]].status \in Active
    BY <1>1, <1>2, <1>5 DEF End, Holds
  <2>2. RowsKeep /\ (WorkersOK' => ObservationIInv')
    BY <1>3, <2>1, EndRowKeeps
  <2>3. CASE Skips(w)
    BY <1>3, <2>2, <2>3, WorkerSkips
  <2>4. CASE Turns(w, "cleaning") /\ UNCHANGED mine
    <3>1. WorkOK(phase[w], run[w], reported[w], entry'[on[w]], runs'[on[w]])
      BY <1>3, <2>2, AllStand
    <3>2. /\ WorkOK("cleaning", run[w], reported[w], entry'[on[w]], runs'[on[w]])
          /\ "cleaning" \notin First
      BY <3>1 DEF WorkOK, Phases, First, AtARun
    <3> QED BY <1>3, <2>2, <2>4, <3>2, WorkerTurns
  <2> QED BY <1>5, <2>3, <2>4 DEF End
<1> QED BY <1>4, <1>5

ReservedEntry(e, D) == [e EXCEPT !.reserved = MaxRunUsd, !.day = D]

\* A row that reserves.
LEMMA ReservedRow ==
    ASSUME NEW e, NEW rs, EntryOK(e, rs), e.status \in Active, e.day = 0, NEW D \in 1..LastDay,
           NEW f, f = ReservedEntry(e, D)
    PROVE  /\ EntryOK(f, rs) /\ Keeps(e, rs, f, rs) /\ f.status = e.status
           /\ f.day = D /\ f.reserved = MaxRunUsd /\ f.usage = 0
<1> USE DEF ReservedEntry
<1>1. e \in EntryRecord /\ MaxRunUsd \in 0..MaxRunUsd /\ e.usage = 0 /\ Len(rs) \in Nat
  BY ObservationsAssumption DEF EntryOK, Active, Ends
<1>2. f \in EntryRecord
  <2>1. D \in 0..LastDay
    OBVIOUS
  <2> QED BY <1>1, <2>1 DEF EntryRecord
<1>3. /\ f.status = e.status /\ f.token = e.token /\ f.run = e.run /\ f.reserved = MaxRunUsd
      /\ f.day = D /\ f.usage = e.usage /\ D # 0
  BY <1>1 DEF EntryRecord
<1>4. EntryOK(f, rs)
  BY <1>2, <1>3 DEF EntryOK, Active, Ends
<1> QED BY <1>1, <1>3, <1>4 DEF Keeps

\* What a reservation leaves of a day's totals.
LEMMA DayReserves ==
    ASSUME NEW dd \in [1..LastDay -> [reserved : Nat, usage : Nat]], NEW D \in 1..LastDay,
           NEW x \in Nat, NEW ee, ee = [dd EXCEPT ![D].reserved = @ + x]
    PROVE  DayMovesTo(dd, ee, D, dd[D].reserved + x, dd[D].usage)
<1>1. PICK r \in Nat : r = dd[D].reserved + x
  OBVIOUS
<1>2. ee = [dd EXCEPT ![D].reserved = r]
  BY <1>1
<1>3. DayMovesTo(dd, ee, D, r, dd[D].usage)
  BY <1>2 DEF DayMovesTo
<1> QED BY <1>1, <1>3

\* reserveDailyBudget: a reservation is made once for a row, and where it fits.
LEMMA ReserveKeeps ==
    ASSUME ObservationIInv, NEW w \in Workers, Reserve(w)
    PROVE  ObservationIInv'
<1>1. phase[w] = "reserving" /\ UNCHANGED <<runs, world>> /\ UNCHANGED <<today, overdue>>
  BY DEF Reserve, world
<1>2. /\ WorkersOK /\ RowsOK /\ BooksOK(entry, day) /\ on[w] \in Observations
      /\ EntryOK(entry[on[w]], runs[on[w]]) /\ today \in 1..LastDay
      /\ WorkOK(phase[w], run[w], reported[w], entry[on[w]], runs[on[w]])
  BY WorkerKnows DEF ObservationIInv
<1>3. /\ entry[on[w]].day = 0 /\ Len(runs[on[w]]) = 0 /\ entry[on[w]].status # "queued"
      /\ phase[w] \in First
  BY <1>1, <1>2 DEF WorkOK, First
<1>4. CASE Skips(w) /\ UNCHANGED books
  BY <1>1, <1>4, OnlySkips
<1>5. CASE Turns(w, "starting") /\ UNCHANGED <<books, mine>>
  <2>1. WorkOK("starting", run[w], reported[w], entry[on[w]], runs[on[w]])
    BY <1>2, <1>3 DEF WorkOK, Phases, First, AtARun
  <2> QED BY <1>1, <1>3, <1>5, <2>1, OnlyTurns
<1>6. CASE Turns(w, "exhausted") /\ UNCHANGED <<books, mine>>
  <2>1. WorkOK("exhausted", run[w], reported[w], entry[on[w]], runs[on[w]])
    BY <1>2, <1>3 DEF WorkOK, Phases, First, AtARun
  <2> QED BY <1>1, <1>3, <1>6, <2>1, OnlyTurns
<1>7. CASE /\ Holds(w) /\ Fits(today)
           /\ day' = [day EXCEPT ![today].reserved = @ + MaxRunUsd]
           /\ entry' = [entry EXCEPT ![on[w]].reserved = MaxRunUsd, ![on[w]].day = today]
           /\ Turns(w, "starting") /\ UNCHANGED mine
  <2>1. PICK f : f = ReservedEntry(entry[on[w]], today)
    OBVIOUS
  <2>2. entry' = [entry EXCEPT ![on[w]] = f] /\ runs' = [runs EXCEPT ![on[w]] = runs[on[w]]]
    BY <1>1, <1>2, <1>7, <2>1 DEF RowsOK, ReservedEntry
  <2>3. /\ EntryOK(f, runs[on[w]]) /\ Keeps(entry[on[w]], runs[on[w]], f, runs[on[w]])
        /\ f.status = entry[on[w]].status /\ f.day = today /\ f.reserved = MaxRunUsd /\ f.usage = 0
    <3>1. entry[on[w]].status \in Active
      BY <1>7 DEF Holds
    <3> QED BY <1>2, <1>3, <2>1, <3>1, ReservedRow
  <2>4. entry'[on[w]] = f /\ runs'[on[w]] = runs[on[w]] /\ RowAt(on[w])
    BY <1>2, <2>2 DEF RowsOK, RowAt
  <2>5. RowsOK'
    BY <1>2, <2>3, <2>4, RowUpdate
  <2>6. BooksOK(entry', day')
    <3>1. Counts(entry) /\ Counts(entry') /\ \A p \in Observations \ {on[w]} : entry'[p] = entry[p]
      BY <1>2, <2>2, <2>5 DEF RowsOK, Counts, EntryRecord
    <3>2. OnlyRow(entry, entry', on[w])
      BY <3>1 DEF OnlyRow
    <3>3. day \in [1..LastDay -> [reserved : Nat, usage : Nat]] /\ MaxRunUsd \in Nat
      BY <1>2, ObservationsAssumption DEF BooksOK
    <3>4. DayMovesTo(day, day', today, day[today].reserved + MaxRunUsd, day[today].usage)
      BY <1>2, <1>7, <3>3, DayReserves
    <3>5. day[today].reserved + day[today].usage + MaxRunUsd <= DailyBudgetUsd
      BY <1>7 DEF Fits
    <3>6. /\ entry'[on[w]].day = today /\ entry'[on[w]].reserved = MaxRunUsd
          /\ entry'[on[w]].usage = 0
      BY <2>3, <2>4
    <3>7. /\ DayMovesTo(day, day', today, day[today].reserved + entry'[on[w]].reserved,
                        day[today].usage)
          /\ day[today].reserved + day[today].usage + entry'[on[w]].reserved <= DailyBudgetUsd
      BY <3>4, <3>5, <3>6
    <3> QED BY <1>2, <1>3, <3>1, <3>2, <3>6, <3>7, BooksReserve
  <2>7. WorkersOK'
    <3>1. Keeps(entry[on[w]], runs[on[w]], entry'[on[w]], runs'[on[w]])
      BY <2>3, <2>4
    <3>2. OthersOK(w)
      BY <1>2, <1>3, <2>4, <2>5, <3>1, OthersGoOn
    <3>3. WorkOK("starting", run[w], reported[w], f, runs[on[w]])
      BY <1>2, <1>3, <2>3 DEF WorkOK, Phases, First, AtARun
    <3>4. WorkOK("starting", run[w], reported[w], entry'[on[w]], runs'[on[w]])
      BY <2>4, <3>3
    <3>5. \A v \in Workers \ {w} : ~(phase[v] \in First /\ on[v] = on[w])
      BY <1>2, <1>3 DEF WorkersOK
    <3>6. /\ phase' = [phase EXCEPT ![w] = "starting"] /\ on' = [on EXCEPT ![w] = on[w]]
          /\ run' = [run EXCEPT ![w] = run[w]] /\ reported' = [reported EXCEPT ![w] = reported[w]]
      BY <1>2, <1>7 DEF WorkersOK, Turns, mine
    <3> QED BY <1>2, <3>2, <3>4, <3>5, <3>6, WorkerUpdate
  <2> QED BY <1>1, <2>5, <2>6, <2>7, Whole
<1> QED BY <1>4, <1>5, <1>6, <1>7 DEF Reserve

\* The record of a storage that was deleted.
LEMMA CleanedRow ==
    ASSUME NEW e, NEW rs, EntryOK(e, rs), Len(rs) = 1,
           NEW f, f = [e EXCEPT !.cleaned = TRUE, !.run = 1]
    PROVE  EntryOK(f, rs) /\ CountsAlike(e, f) /\ Same(e, rs, f, rs)
<1>1. f \in EntryRecord
  BY DEF EntryOK, EntryRecord
<1>2. /\ f.status = e.status /\ f.token = e.token /\ f.run = 1 /\ f.reserved = e.reserved
      /\ f.day = e.day /\ f.usage = e.usage
  BY DEF EntryOK, EntryRecord
<1>3. Covered(e, rs) => Covered(f, rs)
  BY <1>2 DEF Covered
<1>4. EntryOK(f, rs)
  BY <1>1, <1>2, <1>3 DEF EntryOK
<1> QED BY <1>2, <1>4 DEF CountsAlike, Same, Keeps

\* markStorageCleaned, beside a move of the run.
LEMMA StorageCleanedKeeps ==
    ASSUME ObservationIInv, NEW o \in Observations, Len(runs[o]) = 1, entry' = StorageCleaned(o, 1),
           NEW ss, runs' = [runs EXCEPT ![o] = ss], RunsMove(runs[o], ss),
           UNCHANGED <<day, world>>
    PROVE  RowsKeep /\ (WorkersOK' => ObservationIInv')
<1>1. RowsOK /\ EntryOK(entry[o], runs[o]) /\ UNCHANGED <<day, today, overdue>>
  BY DEF ObservationIInv, RowsOK, world
<1>2. PICK f :
        /\ entry' = [entry EXCEPT ![o] = f]
        /\ f \in {entry[o], [entry[o] EXCEPT !.cleaned = TRUE, !.run = 1]}
  <2>1. CASE entry' = entry
    BY <1>1, <2>1 DEF RowsOK
  <2>2. CASE entry' = [entry EXCEPT ![o].cleaned = TRUE, ![o].run = 1]
    BY <1>1, <2>2 DEF RowsOK
  <2> QED BY <2>1, <2>2 DEF StorageCleaned
<1>3. /\ EntryOK(entry[o], ss) /\ CountsAlike(entry[o], entry[o])
      /\ Same(entry[o], runs[o], entry[o], ss)
  BY <1>1, RowBearsItsRun
<1>4. Len(ss) = 1
  BY DEF RunsMove
<1>5. CASE f = entry[o]
  BY <1>1, <1>2, <1>3, <1>5, QuietRow
<1>6. CASE f = [entry[o] EXCEPT !.cleaned = TRUE, !.run = 1]
  <2>1. EntryOK(f, ss) /\ CountsAlike(entry[o], f) /\ Same(entry[o], ss, f, ss)
    BY <1>3, <1>4, <1>6, CleanedRow
  <2>2. Same(entry[o], runs[o], f, ss)
    BY <1>4, <2>1 DEF Same, Keeps
  <2> QED BY <1>1, <1>2, <2>1, <2>2, QuietRow
<1> QED BY <1>2, <1>5, <1>6

\* A worker records that it cleaned up.
LEMMA RecordKeeps ==
    ASSUME ObservationIInv, NEW w \in Workers, Record(w)
    PROVE  ObservationIInv'
<1>1. /\ phase[w] = "recording" /\ entry' = StorageCleaned(on[w], run[w]) /\ Skips(w)
      /\ UNCHANGED <<day, world>> /\ runs' = runs
  BY DEF Record
<1>2. /\ WorkersOK /\ RowsOK /\ on[w] \in Observations /\ run[w] = 1
      /\ EntryOK(entry[on[w]], runs[on[w]])
  BY <1>1, WorkerKnows DEF WorkOK, AtARun
<1>3. Len(runs[on[w]]) = 1
  BY <1>2, WorkerKnows DEF WorkOK, EntryOK
<1>4. runs[on[w]] \in Seq(RunRecord) /\ runs[on[w]][1] \in RunRecord
  BY <1>2, <1>3 DEF EntryOK
<1>5. RunsMove(runs[on[w]], runs[on[w]])
  BY <1>4 DEF RunsMove, RunMoves
<1>6. runs' = [runs EXCEPT ![on[w]] = runs[on[w]]]
  BY <1>1, <1>2 DEF RowsOK
<1>7. RowsKeep /\ (WorkersOK' => ObservationIInv')
  BY <1>1, <1>2, <1>3, <1>5, <1>6, StorageCleanedKeeps
<1> QED BY <1>1, <1>2, <1>7, WorkerSkips

\* The janitor stops and cleans the one run there may be.
LEMMA JanitorCleansKeeps ==
    ASSUME ObservationIInv, NEW o \in Observations, JanitorCleans(o)
    PROVE  ObservationIInv'
<1>1. /\ Match(o) # {} /\ Abort(o, Max(Match(o)), TRUE) /\ entry' = StorageCleaned(o, Max(Match(o)))
      /\ UNCHANGED <<day, world>> /\ UNCHANGED <<phase, mine>>
  BY DEF JanitorCleans
<1>2. WorkersOK /\ EntryOK(entry[o], runs[o])
  BY DEF ObservationIInv, RowsOK
<1>3. Max(Match(o)) = 1 /\ Len(runs[o]) = 1
  <2>1. CASE entry[o].run # 0
    <3>1. entry[o].run = 1 /\ Len(runs[o]) = 1
      BY <1>2, <2>1 DEF EntryOK, EntryRecord
    <3>2. Match(o) = {1}
      BY <2>1, <3>1 DEF Match
    <3> QED BY <3>1, <3>2, MaxOfOne
  <2>2. CASE entry[o].run = 0
    <3>1. Match(o) = Found(o)
      BY <2>2 DEF Match
    <3> QED BY <1>1, <3>1, TheRun
  <2> QED BY <2>1, <2>2
<1>4. PICK ss : runs' = [runs EXCEPT ![o] = ss] /\ RunsMove(runs[o], ss)
  <2>1. 1 \in 1..Len(runs[o])
    BY <1>3
  <2>2. Abort(o, 1, TRUE)
    BY <1>1, <1>3
  <2> QED BY <2>1, <2>2, AbortMoves
<1>5. entry' = StorageCleaned(o, 1)
  BY <1>1, <1>3
<1>6. RowsKeep /\ (WorkersOK' => ObservationIInv')
  BY <1>1, <1>3, <1>4, <1>5, StorageCleanedKeeps
<1> QED BY <1>1, <1>2, <1>6, WorkersStand

\* What the janitor takes a row's run to have cost.
Over(rs) == Len(rs) = 1 => rs[1].live = FALSE
SettledEntry(e, used) == [e EXCEPT !.usage = used, !.reserved = 0, !.settled = TRUE]
Taken(e, rs) ==
    {Max({e.usage, rs[n].cost}) : n \in {e.run} \ {0}} \cup {e.usage + e.reserved}

\* Half an hour on, with the run over, its bill or the whole reservation covers it.
LEMMA SettledUsage ==
    ASSUME NEW e, NEW rs, EntryOK(e, rs), e.status \in Ends,
           Over(rs),
           NEW used \in Taken(e, rs),
           NEW f, f = SettledEntry(e, used)
    PROVE  /\ EntryOK(f, rs) /\ Same(e, rs, f, rs)
           /\ f.day = e.day /\ f.reserved = 0 /\ f.usage = used
           /\ e.day # 0 => Settles(e, f)
<1>1. /\ e \in EntryRecord /\ e.usage \in Nat /\ e.reserved \in 0..MaxRunUsd /\ MaxRunUsd \in Nat
      /\ e.day = 0 => e.reserved = 0
      /\ e.day # 0 => Covered(e, rs)
  BY ObservationsAssumption DEF EntryOK, EntryRecord
<1>2. \/ used = e.usage + e.reserved
      \/ /\ Len(rs) = 1 /\ rs[1].cost \in Nat
         /\ used = IF e.usage >= rs[1].cost THEN e.usage ELSE rs[1].cost
  <2>1. SUFFICES ASSUME NEW n \in {e.run} \ {0}, used = Max({e.usage, rs[n].cost})
                 PROVE  /\ Len(rs) = 1 /\ rs[1].cost \in Nat
                        /\ used = IF e.usage >= rs[1].cost THEN e.usage ELSE rs[1].cost
    BY DEF Taken
  <2>2. n = 1 /\ Len(rs) = 1 /\ rs \in Seq(RunRecord)
    BY <1>1 DEF EntryOK, EntryRecord
  <2>3. rs[1] \in RunRecord
    <3>1. 1 \in 1..Len(rs)
      BY <2>2
    <3> QED BY <2>2, <3>1, ElementOfSeq
  <2>4. rs[1].cost \in Nat
    BY <2>3 DEF RunRecord
  <2>5. PICK c \in Nat : c = rs[1].cost
    BY <2>4
  <2>6. used = Max({e.usage, c})
    BY <2>1, <2>2, <2>5
  <2>7. PICK S : S = {e.usage, c}
    OBVIOUS
  <2>8. used = Max(S)
    BY <2>6, <2>7
  <2>9. CASE e.usage >= c
    <3>1. e.usage \in S /\ \A y \in S : y \in Nat /\ e.usage >= y
      BY <1>1, <2>7, <2>9
    <3>2. Max(S) \in S /\ \A y \in S : Max(S) >= y
      BY <3>1 DEF Max
    <3>3. Max(S) = e.usage
      BY <3>1, <3>2
    <3> QED BY <2>2, <2>4, <2>5, <2>8, <2>9, <3>3
  <2>10. CASE ~(e.usage >= c)
    <3>1. c \in S /\ \A y \in S : y \in Nat /\ c >= y
      BY <1>1, <2>7, <2>10
    <3>2. Max(S) \in S /\ \A y \in S : Max(S) >= y
      BY <3>1 DEF Max
    <3>3. Max(S) \in Nat /\ c >= Max(S) /\ Max(S) >= c /\ c \in Nat
      BY <3>1, <3>2
    <3>4. Max(S) = c
      BY <3>3
    <3> QED BY <2>2, <2>4, <2>5, <2>8, <2>10, <3>4
  <2> QED BY <2>9, <2>10
<1>3. used \in Nat /\ used >= e.usage
  BY <1>1, <1>2
<1>4. f \in EntryRecord
  <2>1. 0 \in 0..MaxRunUsd
    BY <1>1
  <2> QED BY <1>1, <1>3, <2>1 DEF EntryRecord, SettledEntry
<1>5. /\ f.status = e.status /\ f.token = e.token /\ f.run = e.run /\ f.reserved = 0
      /\ f.day = e.day /\ f.usage = used
  BY <1>1 DEF EntryRecord, SettledEntry
<1>6. ASSUME e.day # 0
      PROVE  Covered(f, rs) /\ Settles(e, f)
  <2>1. PICK u, r, x : u = e.usage /\ r = e.reserved /\ x = MaxRunUsd
    OBVIOUS
  <2>2. u \in Nat /\ r \in Nat /\ x \in Nat
    BY <1>1, <2>1
  <2>3. used \in Nat /\ used >= u
    BY <1>3, <2>1
  <2>4. \/ u + r = x
        \/ r = 0 /\ used = u
        \/ r = 0 /\ u >= x
    <3>1. CASE Len(rs) = 1 /\ rs[1].cost <= e.usage /\ e.reserved = 0
      BY <1>1, <1>2, <2>1, <3>1
    <3> QED BY <1>1, <1>6, <2>1, <2>2, <3>1 DEF Covered
  <2>5. (0 + used) + Beyond(u, x) <= (r + u) + Beyond(used, x)
    BY <2>2, <2>3, <2>4 DEF Beyond
  <2>6. Settles(e, f)
    BY <1>3, <1>5, <2>1, <2>2, <2>5 DEF Settles
  <2>7. CASE used = e.usage + e.reserved
    <3>1. used = u + r
      BY <2>1, <2>7
    <3>2. CASE Len(rs) = 1 /\ rs[1].live = FALSE /\ rs[1].cost <= e.usage /\ e.reserved = 0
      BY <1>1, <1>5, <2>6, <2>7, <3>2 DEF Covered
    <3>3. CASE u + r = x
      <4>1. f.usage + f.reserved = MaxRunUsd
        BY <1>5, <2>1, <2>2, <3>1, <3>3
      <4> QED BY <2>6, <4>1 DEF Covered
    <3>4. CASE r = 0 /\ u >= x
      <4>1. f.reserved = 0 /\ f.usage >= MaxRunUsd
        BY <1>5, <2>1, <2>2, <3>1, <3>4
      <4> QED BY <2>6, <4>1 DEF Covered
    <3> QED BY <1>1, <1>6, <2>1, <3>2, <3>3, <3>4 DEF Covered
  <2>8. CASE /\ Len(rs) = 1 /\ rs[1].cost \in Nat
             /\ used = IF e.usage >= rs[1].cost THEN e.usage ELSE rs[1].cost
    <3>1. PICK c \in Nat : c = rs[1].cost
      BY <2>8
    <3>2. c <= used /\ used \in Nat
      BY <2>1, <2>2, <2>8, <3>1
    <3> QED BY <1>5, <2>6, <2>8, <3>1, <3>2 DEF Covered, Over
  <2> QED BY <1>2, <2>6, <2>7, <2>8
<1>7. EntryOK(f, rs)
  BY <1>4, <1>5, <1>6 DEF EntryOK, Ends, Active
<1>8. e.day # 0 => Settles(e, f)
  BY <1>6
<1>9. Same(e, rs, f, rs)
  <2>1. Len(rs) \in Nat
    BY DEF EntryOK
  <2> QED BY <1>5, <2>1 DEF Same, Keeps
<1> QED BY <1>5, <1>7, <1>8, <1>9

\* reconcileUsage and settleUsageConservatively keep the books.
LEMMA JanitorSettlesKeeps ==
    ASSUME ObservationIInv, NEW o \in Observations, JanitorSettles(o)
    PROVE  ObservationIInv'
<1>1. /\ entry[o].status \in Ends /\ UNCHANGED <<phase, mine>> /\ UNCHANGED <<runs, today, overdue>>
      /\ \A n \in DOMAIN runs[o] : ~runs[o][n].live
  BY DEF JanitorSettles, world
<1>2. WorkersOK /\ RowsOK /\ EntryOK(entry[o], runs[o])
  BY DEF ObservationIInv, RowsOK
<1>3. PICK used \in Taken(entry[o], runs[o]) :
        /\ entry' = [entry EXCEPT ![o].usage = used, ![o].reserved = 0, ![o].settled = TRUE]
        /\ day' = IF entry[o].day = 0 THEN day
                  ELSE [day EXCEPT ![entry[o].day].reserved = Beyond(@, entry[o].reserved),
                                   ![entry[o].day].usage = @ + (used - entry[o].usage)]
  BY DEF JanitorSettles, Taken
<1>4. Over(runs[o])
  <2>1. ASSUME Len(runs[o]) = 1 PROVE ~runs[o][1].live /\ runs[o][1].live \in BOOLEAN
    <3>1. 1 \in 1..Len(runs[o]) /\ 1 \in DOMAIN runs[o]
      BY <2>1, TheRun
    <3>2. runs[o][1].live \in BOOLEAN
      BY <3>1, RunIsThere
    <3>3. ~runs[o][1].live
      BY <1>1, <3>1
    <3> QED BY <3>2, <3>3
  <2> QED BY <2>1 DEF Over
<1>5. PICK f : f = SettledEntry(entry[o], used)
  OBVIOUS
<1>6. entry' = [entry EXCEPT ![o] = f]
  BY <1>2, <1>3, <1>5 DEF RowsOK, SettledEntry
<1>7. /\ EntryOK(f, runs[o]) /\ Same(entry[o], runs[o], f, runs[o]) /\ f.day = entry[o].day
      /\ f.reserved = 0 /\ f.usage = used
      /\ entry[o].day # 0 => Settles(entry[o], f)
  BY <1>1, <1>2, <1>4, <1>5, SettledUsage
<1>8. PICK x, y : x = entry[o].reserved - f.reserved /\ y = f.usage - entry[o].usage
  OBVIOUS
<1>9. x = entry[o].reserved /\ y = used - entry[o].usage
  BY <1>2, <1>7, <1>8, ObservationsAssumption DEF EntryOK, EntryRecord
<1>10. day' = IF entry[o].day = 0 THEN day
              ELSE [day EXCEPT ![entry[o].day].reserved = Beyond(@, x),
                               ![entry[o].day].usage = @ + y]
  BY <1>3, <1>9
<1>11. RowsKeep /\ (WorkersOK' => ObservationIInv')
  BY <1>1, <1>6, <1>7, <1>8, <1>10, SettledRow
<1> QED BY <1>1, <1>2, <1>11, WorkersStand

-----------------------------------------------------------------------------
(* The invariant.                                                          *)
LEMMA ObservationInitially == ObservationInit => ObservationIInv
<1> SUFFICES ASSUME ObservationInit PROVE ObservationIInv
  OBVIOUS
<1>1. /\ entry = [o \in Observations |-> Queued] /\ runs = [o \in Observations |-> <<>>]
      /\ today = 1 /\ day = [d \in 1..LastDay |-> [reserved |-> 0, usage |-> 0]]
      /\ phase = [w \in Workers |-> "idle"]
      /\ on = [w \in Workers |-> CHOOSE o \in Observations : TRUE]
      /\ run = [w \in Workers |-> 0] /\ reported = [w \in Workers |-> {}] /\ overdue = {}
  BY DEF ObservationInit
<1>2. EntryOK(Queued, <<>>)
  BY ObservationsAssumption DEF EntryOK, EntryRecord, Queued, Ends, Active, None
<1>3. RowsOK
  BY <1>1, <1>2 DEF RowsOK, EntryOK
<1>4. WorkersOK
  <2>1. on \in [Workers -> Observations]
    <3>1. (CHOOSE o \in Observations : TRUE) \in Observations
      BY ObservationsAssumption
    <3> QED BY <1>1, <3>1
  <2>2. \A w \in Workers : phase[w] = "idle" /\ run[w] = 0 /\ reported[w] = {} /\ runs[on[w]] = <<>>
    BY <1>1, <2>1
  <2>3. \A e : WorkOK("idle", 0, {}, e, <<>>)
    BY DEF WorkOK, Phases, First, AtARun, ToldUsage
  <2>4. /\ phase \in [Workers -> Phases] /\ run \in [Workers -> {0, 1}]
        /\ reported \in [Workers -> ToldUsage]
    BY <1>1 DEF Phases, ToldUsage
  <2>5. "idle" \notin First
    BY DEF First
  <2> QED BY <2>1, <2>2, <2>3, <2>4, <2>5 DEF WorkersOK
<1>5. BooksOK(entry, day)
  <2>1. ASSUME NEW d \in 1..LastDay
        PROVE  DayOf(entry, d) = {}
    BY <1>1 DEF DayOf, Queued
  <2>2. \A d \in 1..LastDay : day[d].reserved = 0 /\ day[d].usage = 0
    BY <1>1
  <2>3. day \in [1..LastDay -> [reserved : Nat, usage : Nat]]
    BY <1>1
  <2>4. 0 + 0 <= DailyBudgetUsd + 0
    BY ObservationsAssumption
  <2> QED BY <2>1, <2>2, <2>3, <2>4, SumOfNothing DEF BooksOK
<1>6. today \in 1..LastDay /\ overdue \subseteq Observations
  BY <1>1, ObservationsAssumption
<1> QED BY <1>3, <1>4, <1>5, <1>6 DEF ObservationIInv

\* Every step keeps the invariant.
LEMMA ObservationStep == ObservationIInv /\ [ObservationNext]_observationVars => ObservationIInv'
<1> SUFFICES ASSUME ObservationIInv, [ObservationNext]_observationVars PROVE ObservationIInv'
  OBVIOUS
<1>1. ASSUME NEW w \in Workers, Works(w) PROVE ObservationIInv'
  <2>1. CASE Search(w)      BY <2>1, SearchKeeps
  <2>2. CASE GiveUp(w)      BY <2>2, GiveUpKeeps
  <2>3. CASE Reserve(w)     BY <2>3, ReserveKeeps
  <2>4. CASE Exhausted(w)   BY <2>4, ExhaustedKeeps
  <2>5. CASE Start(w)       BY <2>5, StartKeeps
  <2>6. CASE Attach(w)      BY <2>6, AttachKeeps
  <2>7. CASE Unattached(w)  BY <2>7, UnattachedKeeps
  <2>8. CASE Disown(w)      BY <2>8, DisownKeeps
  <2>9. CASE Wait(w)        BY <2>9, WaitKeeps
  <2>10. CASE StillOwned(w) BY <2>10, StillOwnedKeeps
  <2>11. CASE Stop(w)       BY <2>11, StopKeeps
  <2>12. CASE End(w)        BY <2>12, EndKeeps
  <2>13. CASE Fail(w)       BY <2>13, FailKeeps
  <2>14. CASE Clean(w)      BY <2>14, CleanKeeps
  <2>15. CASE Record(w)     BY <2>15, RecordKeeps
  <2> QED BY <1>1, <2>1, <2>2, <2>3, <2>4, <2>5, <2>6, <2>7, <2>8, <2>9, <2>10, <2>11, <2>12,
             <2>13, <2>14, <2>15 DEF Works
<1>2. ASSUME NEW w \in Workers, Heartbeat(w) \/ Throws(w) \/ Dies(w) PROVE ObservationIInv'
  BY <1>2, HeartbeatKeeps, ThrowsKeeps, DiesKeeps
<1>3. ASSUME NEW w \in Workers, NEW o \in Observations, ClaimEntry(w, o) PROVE ObservationIInv'
  BY <1>3, ClaimKeeps
<1>4. ASSUME NEW o \in Observations,
             JanitorCleans(o) \/ JanitorSettles(o) \/ LeaseExpires(o) \/ SixHoursPass(o)
      PROVE  ObservationIInv'
  BY <1>4, JanitorCleansKeeps, JanitorSettlesKeeps, LeaseExpiresKeeps, SixHoursKeeps
<1>5. ASSUME NEW o \in Observations, NEW n \in DOMAIN runs[o],
             ActorWrites(o, n) \/ ActorSpends(o, n) \/ ActorEnds(o, n)
      PROVE  ObservationIInv'
  BY <1>5, ActorWritesKeeps, ActorSpendsKeeps, ActorEndsKeeps
<1>6. CASE UNCHANGED observationVars
  <2>1. UNCHANGED <<entry, day, runs, today, overdue, phase, mine>>
    BY <1>6 DEF observationVars, mine
  <2>2. UNCHANGED <<books, runs, world>> /\ WorkersOK
    BY <2>1 DEF books, world, ObservationIInv
  <2> QED BY <2>1, <2>2, OnlyAWorker, WorkersStand
<1> QED BY <1>1, <1>2, <1>3, <1>4, <1>5, <1>6, DayPassesKeeps DEF ObservationNext

(* The invariant of the browser observations: every row, every worker and  *)
(* the books of every day fit together in every reachable state of         *)
(* processBrowserObservationJob, the repository's statements and the       *)
(* janitor.                                                                *)
THEOREM ObservationInvariant == ObservationSpec => []ObservationIInv
  BY ObservationInitially, ObservationStep, PTL DEF ObservationSpec

(* However its workers die, lose their leases or lose the provider's       *)
(* answer, an observation is paid for once: only the claim of a queued row *)
(* reaches provider.start.                                                 *)
THEOREM PaidForOnce == ObservationSpec => []OnePaidRun
<1>1. ASSUME ObservationIInv PROVE OnePaidRun
  <2>1. ASSUME NEW o \in Observations PROVE Len(runs[o]) <= 1
    <3>1. PICK k \in {0, 1} : k = Len(runs[o])
      BY <1>1, TheRun
    <3>2. k <= 1
      OBVIOUS
    <3> QED BY <3>1, <3>2
  <2> QED BY <2>1 DEF OnePaidRun
<1> QED BY <1>1, ObservationInvariant, PTL

(* reserveDailyBudget makes a reservation only where it fits beside all    *)
(* that the day counts, and settling one (complete, markTerminal,          *)
(* reconcileUsage, settleUsageConservatively) never counts more than it    *)
(* held but for what its run was billed beyond it: a day goes past its     *)
(* budget by such overcharges of its own runs alone.                       *)
THEOREM DayExceedsByOverchargesAlone == ObservationSpec => []OverBudgetOnlyByTheBills
<1>1. ObservationIInv => OverBudgetOnlyByTheBills
  BY DEF ObservationIInv, BooksOK, OverBudgetOnlyByTheBills, Excess, ExcessOf, Of, DayOf
<1> QED BY <1>1, ObservationInvariant, PTL

\* The bill of an observation is what its one run cost.
LEMMA BillIs ==
    ASSUME ObservationIInv, NEW o \in Observations
    PROVE  Bill[o] = IF Len(runs[o]) = 1 THEN runs[o][1].cost ELSE 0
<1>1. Len(runs[o]) \in {0, 1} /\ DOMAIN runs[o] = 1..Len(runs[o])
  BY TheRun
<1>2. PICK c : c = [n \in DOMAIN runs[o] |-> runs[o][n].cost]
  OBVIOUS
<1>3. Bill[o] = SumFunctionOnSet(c, DOMAIN c) /\ DOMAIN c = DOMAIN runs[o]
  BY <1>2 DEF Bill, SumFunction, SumFunctionOnSet, FoldFunction
<1>4. CASE Len(runs[o]) = 0
  <2>1. DOMAIN c = {}
    BY <1>1, <1>3, <1>4
  <2> QED BY <1>3, <1>4, <2>1, SumOfNothing
<1>5. CASE Len(runs[o]) = 1
  <2>1. DOMAIN c = {1}
    BY <1>1, <1>3, <1>5
  <2>2. c[1] = runs[o][1].cost /\ c[1] \in Nat
    <3>1. 1 \in 1..Len(runs[o])
      BY <1>5
    <3>2. runs[o][1].cost \in Nat
      BY <3>1, RunIsThere
    <3> QED BY <1>1, <1>2, <3>1, <3>2
  <2>3. IsFiniteSet({1}) /\ {1} \ {1} = {}
    BY FS_Singleton
  <2>4. SumFunctionOnSet(c, {1}) = c[1] + SumFunctionOnSet(c, {1} \ {1})
    BY <2>2, <2>3, SumPick
  <2>5. SumFunctionOnSet(c, {1}) = c[1] + 0
    BY <2>3, <2>4, SumOfNothing
  <2> QED BY <1>3, <1>5, <2>1, <2>2, <2>5
<1> QED BY <1>1, <1>4, <1>5

\* A row with a day counts at least what its run has cost, as far as that was reserved.
LEMMA RowCoversItsBill ==
    ASSUME ObservationIInv, NEW o \in Observations, entry[o].day # 0
    PROVE  /\ entry[o].reserved \in Nat /\ entry[o].usage \in Nat /\ Foreseen[o] \in Nat
           /\ entry[o].reserved + entry[o].usage >= Foreseen[o]
<1>1. EntryOK(entry[o], runs[o]) /\ MaxRunUsd \in Nat
  BY ObservationsAssumption DEF ObservationIInv, RowsOK
<1>2. /\ entry[o].reserved \in Nat /\ entry[o].usage \in Nat
      /\ entry[o].status \in Ends \cup Active \cup {"queued"}
  BY <1>1 DEF EntryOK, EntryRecord
<1>3. PICK b \in Nat : b = Bill[o]
  <2>1. CASE Len(runs[o]) = 1
    <3>1. 1 \in 1..Len(runs[o])
      BY <2>1
    <3> QED BY <2>1, <3>1, BillIs, RunIsThere
  <2>2. CASE Len(runs[o]) # 1
    BY <1>1, <2>2, BillIs
  <2> QED BY <2>1, <2>2
<1>4. Foreseen[o] = Least(b, MaxRunUsd)
  BY <1>3 DEF Foreseen
<1>5. \/ entry[o].reserved + entry[o].usage >= MaxRunUsd
      \/ entry[o].usage >= b
  <2>1. CASE entry[o].status \in Active
    BY <1>1, <1>2, <2>1 DEF EntryOK, Active, Ends
  <2>2. CASE entry[o].status \in Ends
    <3>1. Covered(entry[o], runs[o])
      BY <1>1, <2>2 DEF EntryOK
    <3>2. CASE entry[o].usage + entry[o].reserved >= MaxRunUsd
      BY <1>2, <3>2
    <3>3. CASE Len(runs[o]) = 1 /\ runs[o][1].cost <= entry[o].usage
      <4>1. b = runs[o][1].cost
        BY <1>3, <3>3, BillIs
      <4> QED BY <1>2, <1>3, <3>3, <4>1
    <3> QED BY <1>1, <1>2, <3>1, <3>2, <3>3 DEF Covered
  <2>3. CASE entry[o].status = "queued"
    BY <1>1, <2>3 DEF EntryOK
  <2> QED BY <1>2, <2>1, <2>2, <2>3
<1> QED BY <1>1, <1>2, <1>3, <1>4, <1>5 DEF Least

(* The circuit breaker counts what is really owed: a day's totals are the  *)
(* sums of its rows, settled with the day they were reserved on, and what  *)
(* the provider bills for the runs of those rows, each up to what was      *)
(* reserved for it, is within them, however late or little the usage is    *)
(* reported.                                                               *)
THEOREM BreakerCountsTheBill == ObservationSpec => []BreakerCoversTheBill
<1>1. ASSUME ObservationIInv PROVE BreakerCoversTheBill
  <2>1. ObservationTypeOK
    <3>1. ASSUME NEW o \in Observations
          PROVE  /\ entry[o].status \in Ends \cup Active \cup {"queued"}
                 /\ entry[o].token \in Workers \cup {None} /\ entry[o].run \in 0..Len(runs[o])
                 /\ entry[o].reserved \in 0..MaxRunUsd /\ entry[o].usage \in Nat
                 /\ entry[o].day \in 0..LastDay
                 /\ (entry[o].token # None) = (entry[o].status \in Active)
      <4>1. EntryOK(entry[o], runs[o])
        BY <1>1 DEF ObservationIInv, RowsOK
      <4>2. (entry[o].token # None) = (entry[o].status \in Active)
        BY <4>1 DEF EntryOK
      <4>3. entry[o] \in EntryRecord /\ entry[o].run <= Len(runs[o]) /\ Len(runs[o]) \in {0, 1}
        BY <4>1 DEF EntryOK
      <4>4. entry[o].run \in 0..Len(runs[o])
        BY <4>3 DEF EntryRecord
      <4> QED BY <4>2, <4>3, <4>4 DEF EntryRecord
    <3>2. ASSUME NEW w \in Workers PROVE run[w] \in 0..Len(runs[on[w]])
      BY <1>1, WorkerKnows DEF WorkOK, EntryOK
    <3> QED BY <1>1, <3>1, <3>2 DEF ObservationTypeOK, ObservationIInv, WorkersOK
  <2>2. ASSUME NEW d \in 1..LastDay
        PROVE  /\ day[d].reserved = SumFunctionOnSet(Reserved, Of(d))
               /\ day[d].usage = SumFunctionOnSet(Usage, Of(d))
               /\ day[d].reserved + day[d].usage >= SumFunctionOnSet(Foreseen, Of(d))
    <3>1. Of(d) = DayOf(entry, d) /\ Reserved = ReservedOf(entry) /\ Usage = UsageOf(entry)
      BY DEF Of, DayOf, Reserved, ReservedOf, Usage, UsageOf
    <3>2. /\ day[d].reserved = SumFunctionOnSet(Reserved, Of(d))
          /\ day[d].usage = SumFunctionOnSet(Usage, Of(d))
      BY <1>1, <3>1 DEF ObservationIInv, BooksOK
    <3>3. PICK S, R, U, B : S = Of(d) /\ R = Reserved /\ U = Usage /\ B = Foreseen
      OBVIOUS
    <3>4. IsFiniteSet(S)
      BY <3>1, <3>3, DaysAreFinite
    <3>5. ASSUME NEW o \in S
          PROVE  R[o] \in Nat /\ U[o] \in Nat /\ B[o] \in Nat /\ R[o] + U[o] >= B[o]
      <4>1. o \in Observations /\ entry[o].day # 0
        BY <3>3 DEF Of
      <4>2. R[o] = entry[o].reserved /\ U[o] = entry[o].usage
        BY <3>3, <4>1 DEF Reserved, Usage
      <4> QED BY <1>1, <3>3, <4>1, <4>2, RowCoversItsBill
    <3>6. SumFunctionOnSet(R, S) + SumFunctionOnSet(U, S) >= SumFunctionOnSet(B, S)
      BY <3>4, <3>5, SumCovers
    <3> QED BY <3>2, <3>3, <3>6
  <2> QED BY <2>1, <2>2 DEF BreakerCoversTheBill
<1> QED BY <1>1, ObservationInvariant, PTL
=============================================================================
