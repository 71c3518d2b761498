------------------------------ MODULE WooLedger ------------------------------
(***************************************************************************)
(* One paid sale of a connected WooCommerce shop, filled by the dashboard  *)
(* as the merchant's worker: woo-worker.ts (hand-overs and shipments),     *)
(* woo-recovery.ts (the merchant's recovery page) and the ledger row of    *)
(* woo-shops.ts they share.  A hand-over is delivered at least once, the   *)
(* shop's answer to a create may be lost, late or false, the dashboard may *)
(* die anywhere, and a second order in the shop is a second parcel packed  *)
(* for one payment.                                                        *)
(*                                                                         *)
(* A shop order is named by the attempt whose request made it.  Left out:  *)
(* prices, fingerprints, addresses and permissions (an inspection fits the *)
(* sale, does not, or was not answered), a second shop of the account, and *)
(* the rest of the gateway, of which `sale' keeps what an answer moves.    *)
(***************************************************************************)
EXTENDS Naturals, FiniteSets

CONSTANTS
    HandOvers,    \* hand-overs of the order drawn off the stream
    Presses,      \* presses of the merchant's recovery page
    MaxRevision,  \* bound on the grants of the shop
    Processes,    \* dashboard processes drawing the stream; two in a deploy
    NoOrder

ASSUME WooAssumption ==
    /\ MaxRevision \in Nat \ {0} /\ Processes \in Nat \ {0}
    /\ HandOvers \cap Presses = {}
    /\ NoOrder \notin HandOvers \cup Presses

Makers == HandOvers \cup Presses

VARIABLES
    parcel,  \* order.ship_to is given
    sale,    \* the gateway's order: owed, taken_on, delivered, unfulfilled, closed
    row,     \* the woo_orders row; phase "absent" is no row
    grant,   \* the woo_connections row
    shop,    \* each maker's create request and the shop order it became
    job,     \* where each hand-over and press has got to, and what it read
    follow   \* the pass over shipments: idle, or what it is about to do

vars == <<parcel, sale, row, grant, shop, job, follow>>

Phase == {"absent", "shop_silent", "precreate_refused", "create_unknown",
          "placed", "shipped", "closed"}
\* claimOf: a placed row keeps answering for its order after it was followed.
HasOrder == {"placed", "shipped", "closed"}
\* recoveryOrder: the phases a recovery may start from.
Recoverable == {"precreate_refused", "shop_silent", "create_unknown", "placed"}

Idle == [at |-> "idle", revision |-> 0, write |-> FALSE, phase |-> "absent",
         order |-> NoOrder, word |-> "none"]
Over == [Idle EXCEPT !.at = "over"]

Running(m) == job[m].at \notin {"idle", "over"}
InShop(order) == order \in Makers /\ shop[order] \in {"open", "completed", "ended"}

TypeOK ==
    /\ parcel \in BOOLEAN
    /\ sale \in {"owed", "taken_on", "delivered", "unfulfilled", "closed"}
    /\ row \in [phase : Phase, revision : 0..MaxRevision, order : Makers \cup {NoOrder}]
    /\ grant \in [connected : BOOLEAN, revision : 1..MaxRevision, write : BOOLEAN]
    /\ shop \in [Makers -> {"none", "sent", "dropped", "open", "completed", "ended"}]
    /\ job \in [Makers ->
          [at : {"idle", "asked", "inspecting", "silent", "refusing", "claiming",
                 "creating", "sent", "binding", "answering", "pressed", "rechecking",
                 "beginning", "looking", "delivering", "over"},
           revision : 0..MaxRevision, write : BOOLEAN, phase : Phase,
           order : Makers \cup {NoOrder},
           word : {"none", "delivered", "accepted", "refused"}]]
    /\ follow \in {"idle", "recording", "shipped", "closed"}
    /\ row.order # NoOrder <=> row.phase \in HasOrder

Init ==
    /\ parcel \in BOOLEAN
    /\ sale = "owed"
    /\ row = [phase |-> "absent", revision |-> 0, order |-> NoOrder]
    /\ grant \in [connected : {TRUE}, revision : {1}, write : BOOLEAN]
    /\ shop = [m \in Makers |-> "none"]
    /\ job = [m \in Makers |-> Idle]
    /\ follow = "idle"

-----------------------------------------------------------------------------
(* woo-shops.ts: the ledger's methods, each one statement of the database *)

\* What a hand-over says of a row that is already there.
WordOf(phase) ==
    IF phase \notin HasOrder THEN "refused" ELSE IF parcel THEN "accepted" ELSE "delivered"

\* claimOrder, recordPrecreateRefusal: an insert, or an update of a silent row.
Claims(phase) == phase \in {"absent", "shop_silent"}

RecordPrecreateRefusal(revision) ==
    row' = IF Claims(row.phase)
           THEN [phase |-> "precreate_refused", revision |-> revision, order |-> NoOrder]
           ELSE row

RecordShopSilence(revision) ==
    row' = IF row.phase = "absent"
           THEN [phase |-> "shop_silent", revision |-> revision, order |-> NoOrder]
           ELSE row

\* recordOrder: only an unbound create_unknown row is bound.
Binds(r) == r.phase = "create_unknown" /\ r.order = NoOrder

\* Mutant: a second press under the refusing grant goes through.
ReopensAnything(r, revision) ==
    r.phase \in {"shop_silent", "precreate_refused", "create_unknown"}

\* beginPrecreateRecovery: a silence reopens, a refusal only under a new grant.
Reopens(r, revision) ==
    \/ r.phase = "shop_silent"
    \/ r.phase = "precreate_refused" /\ r.revision # revision

-----------------------------------------------------------------------------
(* The gateway, for what the connector's answers move *)

StillOwed == {"owed", "taken_on"}

\* deliverOrder and a delivered answer: goods are taken late, not once closed.
TakesGoods == sale' = IF sale \in StillOwed \cup {"unfulfilled"} THEN "delivered" ELSE sale

AnswerOrder(word) ==
    \/ word = "delivered" /\ TakesGoods
    \/ word = "accepted" /\ sale' = IF sale = "owed" THEN "taken_on" ELSE sale
    \/ word = "refused" /\ sale' = IF sale \in StillOwed THEN "unfulfilled" ELSE sale

\* The time to fulfil or to ship runs out.
Deadline ==
    /\ sale \in StillOwed
    /\ sale' = "unfulfilled"
    /\ UNCHANGED <<parcel, row, grant, shop, job, follow>>

\* The merchant closes fulfilment of an unfulfilled order.
CloseFulfillment ==
    /\ sale = "unfulfilled"
    /\ sale' = "closed"
    /\ UNCHANGED <<parcel, row, grant, shop, job, follow>>

-----------------------------------------------------------------------------
(* The shop: a request sent may take effect at any later time, or never *)

ShopCreates(m) ==
    /\ shop[m] = "sent"
    /\ shop' = [shop EXCEPT ![m] = "open"]
    /\ UNCHANGED <<parcel, sale, row, grant, job, follow>>

ShopDrops(m) ==
    /\ shop[m] = "sent"
    /\ shop' = [shop EXCEPT ![m] = "dropped"]
    /\ UNCHANGED <<parcel, sale, row, grant, job, follow>>

\* The shop's owner marks the order Completed, or cancels or refunds it.
OwnerActs(m, status) ==
    /\ shop[m] = "open"
    /\ shop' = [shop EXCEPT ![m] = status]
    /\ UNCHANGED <<parcel, sale, row, grant, job, follow>>

\* The merchant disconnects, or connects again under a new grant.
Forget ==
    /\ grant.connected
    /\ grant' = [grant EXCEPT !.connected = FALSE]
    /\ UNCHANGED <<parcel, sale, row, shop, job, follow>>

Connect(write) ==
    /\ grant.revision < MaxRevision
    /\ grant' = [connected |-> TRUE, revision |-> grant.revision + 1, write |-> write]
    /\ UNCHANGED <<parcel, sale, row, shop, job, follow>>

-----------------------------------------------------------------------------
(* fillFromTheShop, fillParcelFromTheShop *)

Becomes(m, next) == job' = [job EXCEPT ![m] = next]
Goes(m, step) == Becomes(m, [job[m] EXCEPT !.at = step])
Answers(m, word) == Becomes(m, [Idle EXCEPT !.at = "answering", !.word = word])

\* A loop shares an ongoing attempt: one hand-over of the order per process.
Draw(h) ==
    /\ job[h].at = "idle" /\ sale = "owed" /\ grant.connected
    /\ Cardinality({g \in HandOvers : Running(g)}) < Processes
    /\ Becomes(h, [Idle EXCEPT !.at = "asked", !.revision = grant.revision,
                               !.write = grant.write])
    /\ UNCHANGED <<parcel, sale, row, grant, shop, follow>>

\* knownOrder, after where the payment went was read.
ReadKnown(h) ==
    /\ job[h].at = "asked"
    /\ \/ Becomes(h, Over)  \* paidInto could not be read
       \/ IF row.phase = "absent" \/ (row.phase = "shop_silent" /\ ~parcel)
          THEN Goes(h, "inspecting")
          ELSE Answers(h, WordOf(row.phase))
    /\ UNCHANGED <<parcel, sale, row, grant, shop, follow>>

\* The shop does not answer, answers what cannot be sold, or fits the sale.
Inspect(h) ==
    /\ job[h].at = "inspecting"
    /\ \/ IF parcel THEN Becomes(h, Over) ELSE Goes(h, "silent")
       \/ Goes(h, "refusing")
       \/ Goes(h, IF job[h].write THEN "claiming" ELSE "refusing")
    /\ UNCHANGED <<parcel, sale, row, grant, shop, follow>>

KeepSilence(h) ==
    /\ job[h].at = "silent"
    /\ RecordShopSilence(job[h].revision)
    /\ Becomes(h, Over)
    /\ UNCHANGED <<parcel, sale, grant, shop, follow>>

\* The sale is refused, whether or not the row took the refusal.
Refuse(h) ==
    /\ job[h].at = "refusing"
    /\ RecordPrecreateRefusal(job[h].revision)
    /\ Answers(h, "refused")
    /\ UNCHANGED <<parcel, sale, grant, shop, follow>>

Claim(h) ==
    /\ job[h].at = "claiming"
    /\ IF Claims(row.phase)
       THEN /\ row' = [phase |-> "create_unknown", revision |-> job[h].revision,
                       order |-> NoOrder]
            /\ Goes(h, "creating")
       ELSE Answers(h, WordOf(row.phase)) /\ UNCHANGED row
    /\ UNCHANGED <<parcel, sale, grant, shop, follow>>

\* placeOrder, placeParcel: the request leaves; its effect is the shop's.
SendCreate(m) ==
    /\ job[m].at = "creating"
    /\ shop' = [shop EXCEPT ![m] = "sent"]
    /\ Goes(m, "sent")
    /\ UNCHANGED <<parcel, sale, row, grant, follow>>

\* The claim stays: nothing is answered, or that it is not known.
NotVerified(h) == Becomes(h, Over) \/ Answers(h, "refused")

CreateAnswered(m) ==
    /\ job[m].at = "sent"
    /\ \/ InShop(m) /\ Becomes(m, [job[m] EXCEPT !.at = "binding", !.order = m])
       \/ IF m \in HandOvers THEN NotVerified(m) ELSE Becomes(m, Over)
    /\ UNCHANGED <<parcel, sale, row, grant, shop, follow>>

\* recordOrder, and the row read again when it was bound meanwhile.
BoundTo(order) == Binds(row) \/ (row.phase \in HasOrder /\ row.order = order)

BoundRow(order) ==
    IF Binds(row) THEN [row EXCEPT !.phase = "placed", !.order = order] ELSE row

Bind(m) ==
    /\ job[m].at = "binding"
    /\ row' = BoundRow(job[m].order)
    /\ Becomes(m, IF ~BoundTo(job[m].order) THEN Over
                  ELSE IF m \in Presses THEN [job[m] EXCEPT !.at = "delivering"]
                  ELSE [Idle EXCEPT !.at = "answering", !.word = WordOf("placed")])
    /\ UNCHANGED <<parcel, sale, grant, shop, follow>>

\* answerOrder; a call the gateway never gets changes nothing.
Answer(h) ==
    /\ job[h].at = "answering"
    /\ AnswerOrder(job[h].word) \/ UNCHANGED sale
    /\ Becomes(h, Over)
    /\ UNCHANGED <<parcel, row, grant, shop, follow>>

-----------------------------------------------------------------------------
(* woo-recovery.ts: downloads only; the order id the merchant names is one  *)
(* of the shop's, since any other is told apart by its transaction id       *)

Press(p, order) ==
    /\ job[p].at = "idle" /\ ~parcel /\ row.phase \in Recoverable
    /\ order # NoOrder =>
         \/ row.phase = "create_unknown"
         \/ row.phase = "placed" /\ row.order = order
    /\ Becomes(p, [Idle EXCEPT !.at = "pressed", !.phase = row.phase,
                               !.revision = row.revision,
                               !.order = IF row.phase = "placed" THEN row.order ELSE order])
    /\ UNCHANGED <<parcel, sale, row, grant, shop, follow>>

\* The sale, the connection and the product, from the row as it was read.
ReadTheSale(p) ==
    /\ job[p].at = "pressed"
    /\ LET precreate == job[p].phase \in {"precreate_refused", "shop_silent"}
           goesOn == /\ sale = "unfulfilled" /\ grant.connected
                     /\ precreate => /\ grant.write
                                     /\ job[p].phase = "precreate_refused" =>
                                          grant.revision # job[p].revision
                     /\ ~precreate => job[p].order # NoOrder
       IN  \/ /\ job[p].phase = "placed" /\ sale \in {"unfulfilled", "delivered"}
              /\ Goes(p, "delivering")
           \/ /\ job[p].phase # "placed" /\ goesOn
              /\ Becomes(p, [job[p] EXCEPT !.at = IF precreate THEN "rechecking" ELSE "looking",
                                           !.revision = grant.revision])
           \/ Becomes(p, Over)
    /\ UNCHANGED <<parcel, sale, row, grant, shop, follow>>

\* The shop's checks take long: the sale is read again before the ledger moves.
Recheck(p) ==
    /\ job[p].at = "rechecking"
    /\ IF sale = "unfulfilled" THEN Goes(p, "beginning") ELSE Becomes(p, Over)
    /\ UNCHANGED <<parcel, sale, row, grant, shop, follow>>

BeginPrecreateRecovery(p) ==
    /\ job[p].at = "beginning"
    /\ IF Reopens(row, job[p].revision)
       THEN /\ row' = [row EXCEPT !.phase = "create_unknown", !.revision = job[p].revision]
            /\ Goes(p, "creating")
       ELSE Becomes(p, Over) /\ UNCHANGED row
    /\ UNCHANGED <<parcel, sale, grant, shop, follow>>

\* readTheOrderInTheShop: the order named, matched on every fact of the sale,
\* and still Processing or Completed.
Look(p) ==
    /\ job[p].at = "looking"
    /\ \/ InShop(job[p].order) /\ shop[job[p].order] # "ended" /\ Goes(p, "binding")
       \/ Becomes(p, Over)
    /\ UNCHANGED <<parcel, sale, row, grant, shop, follow>>

DeliverSaved(p) ==
    /\ job[p].at = "delivering"
    /\ TakesGoods \/ UNCHANGED sale
    /\ Becomes(p, Over)
    /\ UNCHANGED <<parcel, row, grant, shop, follow>>

-----------------------------------------------------------------------------
(* followShipments: one pass reads, records with the gateway, ends the row *)

ReadShipment ==
    /\ follow = "idle" /\ parcel /\ row.phase = "placed" /\ grant.connected
    /\ \/ shop[row.order] = "completed" /\ follow' = "recording"
       \/ shop[row.order] = "ended" /\ follow' = "closed"
       \/ follow' = "closed"  \* thirty days after it was placed
    /\ UNCHANGED <<parcel, sale, row, grant, shop, job>>

\* Mutant: the shipment is ended whatever became of the call.
RecordedAnyway == sale' = sale /\ follow' = "shipped"

\* Taken or recorded already, refused for good, or no answer: asked next pass.
Recorded ==
    \/ sale # "closed" /\ TakesGoods /\ follow' = "shipped"
    \/ sale = "closed" /\ UNCHANGED sale /\ follow' = "closed"
    \/ (TakesGoods \/ UNCHANGED sale) /\ follow' = "idle"

RecordShipment ==
    /\ follow = "recording"
    /\ Recorded
    /\ UNCHANGED <<parcel, row, grant, shop, job>>

\* endParcel: a placed row, once.
EndParcel ==
    /\ follow \in {"shipped", "closed"}
    /\ row' = IF row.phase = "placed" THEN [row EXCEPT !.phase = follow] ELSE row
    /\ follow' = "idle"
    /\ UNCHANGED <<parcel, sale, grant, shop, job>>

-----------------------------------------------------------------------------

\* The dashboard dies: what was in hand is gone, what was sent is not.
Crash ==
    /\ follow # "idle" \/ \E m \in Makers : Running(m)
    /\ job' = [m \in Makers |-> IF Running(m) THEN Over ELSE job[m]]
    /\ follow' = "idle"
    /\ UNCHANGED <<parcel, sale, row, grant, shop>>

Fill(h) ==
    \/ Draw(h) \/ ReadKnown(h) \/ Inspect(h) \/ KeepSilence(h) \/ Refuse(h)
    \/ Claim(h) \/ Answer(h)

Recover(p) ==
    \/ \E order \in Makers \cup {NoOrder} : Press(p, order)
    \/ ReadTheSale(p) \/ Recheck(p) \/ BeginPrecreateRecovery(p) \/ Look(p)
    \/ DeliverSaved(p)

Next ==
    \/ Deadline \/ CloseFulfillment \/ Forget
    \/ \E write \in BOOLEAN : Connect(write)
    \/ \E h \in HandOvers : Fill(h)
    \/ \E p \in Presses : Recover(p)
    \/ \E m \in Makers : \/ SendCreate(m) \/ CreateAnswered(m) \/ Bind(m)
                         \/ ShopCreates(m) \/ ShopDrops(m)
                         \/ \E status \in {"completed", "ended"} : OwnerActs(m, status)
    \/ ReadShipment \/ RecordShipment \/ EndParcel
    \/ Crash

Spec == Init /\ [][Next]_vars

-----------------------------------------------------------------------------

\* "A merchant's shop is not ours to write to twice": over every hand-over,
\* press, crash and lost answer, one create request leaves for one sale.
OneCreatePerSale == Cardinality({m \in Makers : shop[m] # "none"}) <= 1

\* What the gateway was told rests on an order of the shop: a delivered
\* download, a parcel taken on (whose address is then erased) and a recorded
\* shipment, which also was completed there.
AnswersRestOnTheShop ==
    /\ TypeOK
    /\ sale \in {"taken_on", "delivered"} => row.phase \in HasOrder /\ InShop(row.order)
    /\ parcel /\ sale = "delivered" => shop[row.order] = "completed"
    /\ row.phase = "shipped" => sale = "delivered"

=============================================================================
