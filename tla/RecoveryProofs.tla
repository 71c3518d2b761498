--------------------------- MODULE RecoveryProofs ---------------------------
(***************************************************************************)
(* Proofs about what is found out after a call nobody answered: the create *)
(* request to the shop (WooLedger) and the charge (ChainSearch).           *)
(*                                                                         *)
(* WooLedger, for any number of hand-overs, presses, grants and dashboard  *)
(* processes.  The ledger row is the only way to a create: whoever is      *)
(* about to send one, or has sent one, moved the row to create_unknown,    *)
(* and no row that was moved there is ever claimable or reopened.  What    *)
(* the gateway is told is carried in a worker's memory between the read    *)
(* and the call, so the invariant says what each of those memories rests   *)
(* on.                                                                     *)
(*                                                                         *)
(* ChainSearch, for any window, any pace of the chain and any number of    *)
(* blocks read at a time.  Blocks are at least a second apart, so the      *)
(* bisection may start as many blocks below the head as the head is        *)
(* seconds past the window's first, and a block past the window's end      *)
(* stays past it; an authorization is used once, so a finalized cancel     *)
(* rules out a transfer.  What the bisection computes is proved by the     *)
(* least counterexample, measured by the blocks it has left between its    *)
(* ends; that it computes anything at all by naming a solution of its      *)
(* recursion outright.                                                     *)
(***************************************************************************)
EXTENDS WooLedger, ChainSearch, FiniteSetTheorems, WellFoundedInduction, TLAPS

InTheShop == {"open", "completed", "ended"}
Taken == {"create_unknown"} \cup HasOrder

\* A maker that may send the create, or has sent it.
Makes(m) == job[m].at = "creating" \/ shop[m] # "none"

OneMaker == \A m, n \in Makers : Makes(m) /\ Makes(n) => m = n

\* The row was taken for good before the create was sent.
TakenFirst == \A m \in Makers : Makes(m) => row.phase \in Taken

\* A row bound to an order is bound to one of the shop.
RowRests == row.phase \in HasOrder => InShop(row.order)

\* What the pass over shipments is about to do rests on what it read.
FollowRests ==
    /\ follow = "recording" => row.phase \in HasOrder /\ shop[row.order] = "completed"
    /\ follow = "shipped" => sale = "delivered"

\* What the memory j of a maker rests on, once it has left the rows it read.
Fits(m, j) ==
    /\ j.at = "creating" => shop[m] = "none"
    /\ j.at = "binding" => InShop(j.order)
    /\ j.at = "pressed" /\ j.phase = "placed" => row.phase \in HasOrder
    /\ j.at = "delivering" => row.phase \in HasOrder /\ parcel = FALSE
    /\ j.at = "answering" /\ j.word \in {"accepted", "delivered"} => row.phase \in HasOrder
    /\ j.at = "answering" /\ j.word = "delivered" => parcel = FALSE
    /\ m \in Presses /\ j.at \notin {"idle", "over"} => parcel = FALSE

JobsRest == \A m \in Makers : Fits(m, job[m])

IInv ==
    /\ AnswersRestOnTheShop
    /\ OneMaker /\ TakenFirst /\ RowRests /\ FollowRests /\ JobsRest

JobRecord ==
    [at : {"idle", "asked", "inspecting", "silent", "refusing", "claiming",
           "creating", "sent", "binding", "answering", "pressed", "rechecking",
           "beginning", "looking", "delivering", "over"},
     revision : 0..MaxRevision, write : BOOLEAN, phase : Phase,
     order : Makers \cup {NoOrder},
     word : {"none", "delivered", "accepted", "refused"}]
RowRecord == [phase : Phase, revision : 0..MaxRevision, order : Makers \cup {NoOrder}]
GrantRecord == [connected : BOOLEAN, revision : 1..MaxRevision, write : BOOLEAN]

-----------------------------------------------------------------------------
(* What every step keeps of the rows and of the shop.                      *)

\* A bound row stays bound to its order, and an order of the shop stays one.
Progress ==
    /\ parcel' = parcel
    /\ row.phase \in HasOrder => row'.phase \in HasOrder /\ row'.order = row.order
    /\ \A m \in Makers : /\ shop[m] \in InTheShop => shop'[m] \in InTheShop
                         /\ shop[m] = "completed" => shop'[m] = "completed"

LEMMA StillFits ==
    ASSUME Progress, NEW m \in Makers, NEW j, Fits(m, j),
           j.at = "creating" => shop'[m] = "none"
    PROVE  Fits(m, j)'
BY DEF Progress, Fits, InShop, InTheShop

LEMMA StillRests ==
    ASSUME IInv, Progress, TypeOK',
           follow' = "recording" => follow = "recording",
           follow' = "shipped" => follow = "shipped" /\ sale' = sale
    PROVE  /\ row.phase \in HasOrder => RowRests'
           /\ FollowRests'
<1>1. row.phase \in HasOrder => InShop(row.order) /\ row.order \in Makers
  BY DEF IInv, RowRests, InShop
<1>2. row.phase \in HasOrder => RowRests'
  BY <1>1 DEF Progress, RowRests, InShop, InTheShop
<1>3. FollowRests'
  BY <1>1 DEF Progress, FollowRests, IInv
<1> QED BY <1>2, <1>3

\* The typing of a maker's memory.
LEMMA Remembers ==
    ASSUME TypeOK, NEW m \in Makers, NEW j \in JobRecord, Becomes(m, j)
    PROVE  /\ job' \in [Makers -> JobRecord] /\ job'[m] = j
           /\ \A n \in Makers \ {m} : job'[n] = job[n]
BY DEF TypeOK, JobRecord, Becomes

\* A maker goes on without the row, the shop, the sale or the pass.
LEMMA GoesOn ==
    ASSUME IInv, NEW m \in Makers, NEW j \in JobRecord, Becomes(m, j), j.at # "creating",
           Fits(m, j), UNCHANGED <<parcel, sale, row, grant, shop, follow>>
    PROVE  IInv'
<1> USE DEF IInv
<1>1. /\ job' \in [Makers -> JobRecord] /\ job'[m] = j
      /\ \A n \in Makers \ {m} : job'[n] = job[n]
  BY Remembers DEF AnswersRestOnTheShop
<1>2. TypeOK'
  BY <1>1 DEF AnswersRestOnTheShop, TypeOK, JobRecord
<1>3. AnswersRestOnTheShop'
  BY <1>2 DEF AnswersRestOnTheShop, InShop
<1>4. OneMaker' /\ TakenFirst'
  BY <1>1 DEF OneMaker, TakenFirst, Makes
<1>5. JobsRest'
  <2>1. Fits(m, job[m])'
    BY <1>1 DEF Fits, InShop
  <2>2. ASSUME NEW n \in Makers \ {m} PROVE Fits(n, job[n])'
    BY <1>1 DEF JobsRest, Fits, InShop
  <2> QED BY <2>1, <2>2 DEF JobsRest
<1>6. RowRests' /\ FollowRests'
  BY DEF RowRests, FollowRests, InShop
<1> QED BY <1>3, <1>4, <1>5, <1>6

-----------------------------------------------------------------------------
(* The memories the actions leave.                                         *)

LEMMA IdleOver ==
    /\ Idle \in JobRecord /\ Over \in JobRecord /\ Over.at = "over"
    /\ \A m \in Makers : Fits(m, Over)
<1>1. 0 \in 0..MaxRevision
  BY WooAssumption
<1>2. Idle \in JobRecord
  BY <1>1, ZenonT(40) DEF Idle, JobRecord, Phase
<1>3. Over \in JobRecord /\ Over.at = "over"
  BY <1>2, ZenonT(40) DEF Over, JobRecord
<1> QED BY <1>2, <1>3 DEF Fits

\* A step of the same memory.
LEMMA SameMemory ==
    ASSUME TypeOK, NEW m \in Makers,
           NEW step \in {"inspecting", "silent", "refusing", "claiming", "creating", "sent",
                         "binding", "delivering", "beginning"}
    PROVE  LET j == [job[m] EXCEPT !.at = step] IN
           /\ j \in JobRecord /\ j.at = step /\ j.order = job[m].order
<1>1. job[m] \in JobRecord
  BY DEF TypeOK, JobRecord
<1> QED BY <1>1 DEF JobRecord

LEMMA AnswerMemory ==
    ASSUME NEW m \in HandOvers, NEW word \in {"delivered", "accepted", "refused"},
           word # "refused" => row.phase \in HasOrder, word = "delivered" => parcel = FALSE
    PROVE  LET j == [Idle EXCEPT !.at = "answering", !.word = word] IN
           /\ j \in JobRecord /\ j.at = "answering" /\ Fits(m, j)
<1> DEFINE j == [Idle EXCEPT !.at = "answering", !.word = word]
<1>1. j \in JobRecord /\ j.at = "answering" /\ j.word = word
  BY IdleOver, ZenonT(40) DEF JobRecord
<1>2. m \notin Presses
  BY WooAssumption
<1> HIDE DEF j
<1>3. Fits(m, j)
  BY <1>1, <1>2 DEF Fits
<1> QED BY <1>1, <1>3 DEF j

\* What a hand-over says of a row is true of it.
LEMMA WordFits ==
    ASSUME NEW phase, phase \in HasOrder => row.phase \in HasOrder
    PROVE  /\ WordOf(phase) \in {"delivered", "accepted", "refused"}
           /\ WordOf(phase) # "refused" => row.phase \in HasOrder
           /\ parcel \in BOOLEAN /\ WordOf(phase) = "delivered" => parcel = FALSE
BY DEF WordOf

LEMMA AnswersRow ==
    ASSUME IInv, NEW h \in HandOvers, NEW word \in {"delivered", "accepted", "refused"},
           word # "refused" => row.phase \in HasOrder, word = "delivered" => parcel = FALSE,
           Answers(h, word), UNCHANGED <<parcel, sale, row, grant, shop, follow>>
    PROVE  IInv'
<1>1. h \in Makers
  BY DEF Makers
<1> QED BY <1>1, AnswerMemory, GoesOn DEF Answers

LEMMA DrawStep == ASSUME IInv, NEW h \in HandOvers, Draw(h) PROVE IInv'
<1> DEFINE j == [Idle EXCEPT !.at = "asked", !.revision = grant.revision, !.write = grant.write]
<1>1. h \in Makers /\ h \notin Presses
  BY WooAssumption DEF Makers
<1>2. grant \in GrantRecord
  BY DEF IInv, AnswersRestOnTheShop, TypeOK, GrantRecord
<1>3. grant.revision \in 0..MaxRevision /\ grant.write \in BOOLEAN
  BY <1>2, WooAssumption DEF GrantRecord
<1>4. j \in JobRecord /\ j.at = "asked"
  BY <1>3, IdleOver, ZenonT(40) DEF JobRecord
<1>5. Becomes(h, j) /\ UNCHANGED <<parcel, sale, row, grant, shop, follow>>
  BY DEF Draw
<1> HIDE DEF j
<1>6. Fits(h, j)
  BY <1>1, <1>4 DEF Fits
<1> QED BY <1>1, <1>4, <1>5, <1>6, GoesOn

LEMMA ReadKnownStep == ASSUME IInv, NEW h \in HandOvers, ReadKnown(h) PROVE IInv'
<1>1. h \in Makers /\ h \notin Presses
  BY WooAssumption DEF Makers
<1>2. TypeOK /\ parcel \in BOOLEAN
  BY DEF IInv, AnswersRestOnTheShop, TypeOK
<1>3. UNCHANGED <<parcel, sale, row, grant, shop, follow>>
  BY DEF ReadKnown
<1>4. CASE Becomes(h, Over)
  BY <1>1, <1>3, <1>4, IdleOver, GoesOn
<1>5. CASE Goes(h, "inspecting")
  BY <1>1, <1>2, <1>3, <1>5, SameMemory, GoesOn DEF Goes, Fits
<1>6. CASE Answers(h, WordOf(row.phase))
  <2>1. /\ WordOf(row.phase) \in {"delivered", "accepted", "refused"}
        /\ WordOf(row.phase) # "refused" => row.phase \in HasOrder
        /\ WordOf(row.phase) = "delivered" => parcel = FALSE
    BY <1>2, WordFits
  <2> QED BY <1>3, <1>6, <2>1, AnswersRow
<1> QED BY <1>4, <1>5, <1>6 DEF ReadKnown

LEMMA InspectStep == ASSUME IInv, NEW h \in HandOvers, Inspect(h) PROVE IInv'
<1>1. h \in Makers /\ h \notin Presses
  BY WooAssumption DEF Makers
<1>2. TypeOK
  BY DEF IInv, AnswersRestOnTheShop
<1>3. UNCHANGED <<parcel, sale, row, grant, shop, follow>>
  BY DEF Inspect
<1>4. CASE Becomes(h, Over)
  BY <1>1, <1>3, <1>4, IdleOver, GoesOn
<1>5. ASSUME NEW step \in {"silent", "refusing", "claiming"}, Goes(h, step) PROVE IInv'
  BY <1>1, <1>2, <1>3, <1>5, SameMemory, GoesOn DEF Goes, Fits
<1> QED BY <1>4, <1>5 DEF Inspect

-----------------------------------------------------------------------------
(* The steps that move the row.                                            *)

\* A maker moves a row that is not bound.
LEMMA MovesRow ==
    ASSUME IInv, NEW m \in Makers, NEW j \in JobRecord, Becomes(m, j),
           row.phase \notin HasOrder, row' \in RowRecord, row'.phase # "shipped",
           row'.order # NoOrder <=> row'.phase \in HasOrder,
           row'.phase \in HasOrder => InShop(row'.order),
           row.phase \in Taken => row'.phase \in Taken,
           j.at = "creating" => row.phase \notin Taken /\ row'.phase \in Taken,
           Fits(m, j)', UNCHANGED <<parcel, sale, grant, shop, follow>>
    PROVE  IInv'
<1> USE DEF IInv
<1>1. /\ job' \in [Makers -> JobRecord] /\ job'[m] = j
      /\ \A n \in Makers \ {m} : job'[n] = job[n]
  BY Remembers DEF AnswersRestOnTheShop
<1>2. TypeOK'
  BY <1>1 DEF AnswersRestOnTheShop, TypeOK, JobRecord, RowRecord
<1>3. sale \notin {"taken_on", "delivered"}
  BY DEF AnswersRestOnTheShop
<1>4. AnswersRestOnTheShop'
  BY <1>2, <1>3 DEF AnswersRestOnTheShop
<1>5. TakenFirst' /\ OneMaker'
  BY <1>1 DEF TakenFirst, OneMaker, Makes
<1>6. Progress
  BY DEF Progress
<1>7. JobsRest'
  <2>1. Fits(m, job[m])'
    BY <1>1
  <2>2. ASSUME NEW n \in Makers \ {m} PROVE Fits(n, job[n])'
    <3>1. Fits(n, job[n]) /\ (job[n].at = "creating" => shop'[n] = "none")
      BY DEF JobsRest, Fits
    <3>2. PICK i : i = job[n]
      OBVIOUS
    <3>3. Fits(n, i)'
      BY <1>6, <3>1, <3>2, StillFits
    <3> QED BY <1>1, <3>2, <3>3
  <2> QED BY <2>1, <2>2 DEF JobsRest
<1>8. RowRests' /\ FollowRests'
  BY <1>3 DEF RowRests, FollowRests, InShop
<1> QED BY <1>4, <1>5, <1>7, <1>8

LEMMA KeepSilenceStep == ASSUME IInv, NEW h \in HandOvers, KeepSilence(h) PROVE IInv'
<1>1. h \in Makers /\ TypeOK
  BY DEF Makers, IInv, AnswersRestOnTheShop
<1>2. Becomes(h, Over) /\ UNCHANGED <<parcel, sale, grant, shop, follow>>
  BY DEF KeepSilence
<1>3. CASE row.phase # "absent"
  BY <1>1, <1>2, <1>3, IdleOver, GoesOn DEF KeepSilence, RecordShopSilence
<1>4. CASE row.phase = "absent"
  <2>1. /\ row'.phase = "shop_silent" /\ row'.order = NoOrder /\ row' \in RowRecord
    BY <1>1, <1>4 DEF KeepSilence, RecordShopSilence, TypeOK, RowRecord, Phase
  <2> QED BY <1>1, <1>2, <1>4, <2>1, IdleOver, MovesRow DEF HasOrder, Taken, Fits
<1> QED BY <1>3, <1>4

LEMMA RefuseStep == ASSUME IInv, NEW h \in HandOvers, Refuse(h) PROVE IInv'
<1>0. PICK j : j = [Idle EXCEPT !.at = "answering", !.word = "refused"]
  OBVIOUS
<1>1. h \in Makers /\ h \notin Presses /\ TypeOK
  BY WooAssumption DEF Makers, IInv, AnswersRestOnTheShop
<1>2. Becomes(h, j) /\ UNCHANGED <<parcel, sale, grant, shop, follow>>
  BY <1>0 DEF Refuse, Answers
<1>3. j \in JobRecord /\ j.at = "answering" /\ j.word = "refused"
  <2>1. [Idle EXCEPT !.at = "answering", !.word = "refused"] \in JobRecord
    BY IdleOver, ZenonT(40) DEF JobRecord
  <2> QED BY <1>0, <2>1 DEF Idle
<1>4. CASE ~Claims(row.phase)
  BY <1>1, <1>2, <1>3, <1>4, GoesOn DEF Refuse, RecordPrecreateRefusal, Fits
<1>5. CASE Claims(row.phase)
  <2>1. /\ row'.phase = "precreate_refused" /\ row'.order = NoOrder /\ row' \in RowRecord
    BY <1>1, <1>5 DEF Refuse, RecordPrecreateRefusal, TypeOK, RowRecord, Phase
  <2>2. Fits(h, j)'
    BY <1>1, <1>3 DEF Fits
  <2> QED BY <1>1, <1>2, <1>3, <1>5, <2>1, <2>2, MovesRow DEF HasOrder, Taken, Claims
<1> QED BY <1>4, <1>5

LEMMA ClaimStep == ASSUME IInv, NEW h \in HandOvers, Claim(h) PROVE IInv'
<1>1. h \in Makers /\ h \notin Presses /\ TypeOK /\ parcel \in BOOLEAN
  BY WooAssumption DEF Makers, IInv, AnswersRestOnTheShop, TypeOK
<1>2. CASE ~Claims(row.phase)
  <2>1. /\ WordOf(row.phase) \in {"delivered", "accepted", "refused"}
        /\ WordOf(row.phase) # "refused" => row.phase \in HasOrder
        /\ WordOf(row.phase) = "delivered" => parcel = FALSE
    BY <1>1, WordFits
  <2> QED BY <1>2, <2>1, AnswersRow DEF Claim
<1>3. CASE Claims(row.phase)
  <2>0. PICK j : j = [job[h] EXCEPT !.at = "creating"]
    OBVIOUS
  <2>1. j \in JobRecord /\ j.at = "creating"
    BY <1>1, <2>0, SameMemory
  <2>2. Becomes(h, j) /\ UNCHANGED <<parcel, sale, grant, shop, follow>>
    BY <1>3, <2>0 DEF Claim, Goes
  <2>3. job[h].revision \in 0..MaxRevision
    BY <1>1 DEF TypeOK
  <2>4. /\ row'.phase = "create_unknown" /\ row'.order = NoOrder /\ row' \in RowRecord
    BY <1>3, <2>3 DEF Claim, RowRecord, Phase
  <2>5. row.phase \notin Taken
    BY <1>3 DEF Claims, Taken, HasOrder
  <2>6. shop[h] = "none"
    BY <1>1, <2>5 DEF IInv, TakenFirst, Makes
  <2>7. Fits(h, j)'
    BY <1>1, <2>1, <2>2, <2>6 DEF Fits
  <2> QED BY <1>1, <2>1, <2>2, <2>4, <2>5, <2>7, MovesRow DEF HasOrder, Taken
<1> QED BY <1>2, <1>3

LEMMA BeginStep == ASSUME IInv, NEW p \in Presses, BeginPrecreateRecovery(p) PROVE IInv'
<1>1. p \in Makers /\ TypeOK
  BY DEF Makers, IInv, AnswersRestOnTheShop
<1>2. CASE ~Reopens(row, job[p].revision)
  BY <1>1, <1>2, IdleOver, GoesOn DEF BeginPrecreateRecovery
<1>3. CASE Reopens(row, job[p].revision)
  <2>0. PICK j : j = [job[p] EXCEPT !.at = "creating"]
    OBVIOUS
  <2>1. j \in JobRecord /\ j.at = "creating"
    BY <1>1, <2>0, SameMemory
  <2>2. /\ Becomes(p, j) /\ UNCHANGED <<parcel, sale, grant, shop, follow>>
        /\ row' = [row EXCEPT !.phase = "create_unknown", !.revision = job[p].revision]
    BY <1>3, <2>0 DEF BeginPrecreateRecovery, Goes
  <2>3. job[p].revision \in 0..MaxRevision /\ row \in RowRecord
    BY <1>1 DEF TypeOK, RowRecord
  <2>4. row.phase \in {"shop_silent", "precreate_refused"} /\ row.phase \notin HasOrder
    BY <1>3 DEF Reopens, HasOrder
  <2>5. row.order = NoOrder
    BY <1>1, <2>4 DEF TypeOK
  <2>6. /\ row'.phase = "create_unknown" /\ row'.order = NoOrder /\ row' \in RowRecord
    BY <2>2, <2>3, <2>5 DEF RowRecord, Phase
  <2>7. row.phase \notin Taken
    BY <2>4 DEF Taken, HasOrder
  <2>8. shop[p] = "none" /\ parcel = FALSE
    BY <1>1, <2>7 DEF IInv, TakenFirst, Makes, JobsRest, Fits, BeginPrecreateRecovery
  <2>9. Fits(p, j)'
    BY <1>1, <2>1, <2>2, <2>8 DEF Fits
  <2> QED BY <1>1, <2>1, <2>2, <2>6, <2>7, <2>9, MovesRow DEF HasOrder, Taken
<1> QED BY <1>2, <1>3

LEMMA BindStep == ASSUME IInv, NEW m \in Makers, Bind(m) PROVE IInv'
<1> DEFINE order == job[m].order
<1>0. PICK j : j = IF ~BoundTo(order) THEN Over
                   ELSE IF m \in Presses THEN [job[m] EXCEPT !.at = "delivering"]
                   ELSE [Idle EXCEPT !.at = "answering", !.word = WordOf("placed")]
  OBVIOUS
<1>1. TypeOK /\ parcel \in BOOLEAN /\ Fits(m, job[m]) /\ InShop(order) /\ order \in Makers
  BY DEF IInv, AnswersRestOnTheShop, TypeOK, JobsRest, Fits, Bind, InShop
<1>2. Becomes(m, j) /\ row' = BoundRow(order) /\ UNCHANGED <<parcel, sale, grant, shop, follow>>
  BY <1>0 DEF Bind
<1>3. row' \in RowRecord /\ (BoundTo(order) => row'.phase \in HasOrder)
  <2>1. CASE Binds(row)
    BY <1>1, <1>2, <2>1 DEF BoundRow, TypeOK, RowRecord, Phase, HasOrder
  <2>2. CASE ~Binds(row)
    BY <1>1, <1>2, <2>2 DEF BoundRow, TypeOK, RowRecord, BoundTo
  <2> QED BY <2>1, <2>2
<1>4. /\ WordOf("placed") \in {"accepted", "delivered"}
      /\ WordOf("placed") = "delivered" => parcel = FALSE
  BY <1>1 DEF WordOf, HasOrder
<1>5. /\ j \in JobRecord /\ j.at \in {"over", "delivering", "answering"} /\ Fits(m, j)'
  <2>1. CASE ~BoundTo(order)
    BY <1>0, <2>1, IdleOver DEF Fits
  <2>2. CASE BoundTo(order) /\ m \in Presses
    <3>1. parcel = FALSE
      BY <1>1, <2>2 DEF Fits, Bind
    <3>2. j = [job[m] EXCEPT !.at = "delivering"]
      BY <1>0, <2>2
    <3>3. j \in JobRecord /\ j.at = "delivering"
      BY <1>1, <3>2, SameMemory
    <3> QED BY <1>2, <1>3, <2>2, <3>1, <3>3 DEF Fits
  <2>3. CASE BoundTo(order) /\ m \notin Presses
    <3>1. PICK w : w = WordOf("placed")
      OBVIOUS
    <3>2. j = [Idle EXCEPT !.at = "answering", !.word = w]
      BY <1>0, <2>3, <3>1
    <3>3. w \in {"accepted", "delivered"}
      BY <1>4, <3>1
    <3>4. [Idle EXCEPT !.at = "answering", !.word = w] \in JobRecord
      BY <3>3, IdleOver, ZenonT(40) DEF JobRecord
    <3>5. j \in JobRecord /\ j.at = "answering" /\ j.word = w
      BY <3>2, <3>4 DEF Idle
    <3> QED BY <1>2, <1>3, <1>4, <2>3, <3>1, <3>5 DEF Fits
  <2> QED BY <2>1, <2>2, <2>3
<1>6. CASE Binds(row)
  <2>1. /\ row'.phase = "placed" /\ row'.order = order /\ row.phase = "create_unknown"
    BY <1>1, <1>2, <1>6 DEF BoundRow, Binds, TypeOK
  <2>2. InShop(row'.order) /\ row'.order # NoOrder
    BY <1>1, <2>1, WooAssumption DEF Makers
  <2> QED BY <1>2, <1>3, <1>5, <2>1, <2>2, MovesRow DEF HasOrder, Taken
<1>7. CASE ~Binds(row)
  <2>1. row' = row
    BY <1>2, <1>7 DEF BoundRow
  <2>2. Fits(m, j)
    BY <1>2, <1>5, <2>1 DEF Fits, InShop
  <2> QED BY <1>2, <1>5, <2>1, <2>2, GoesOn
<1> QED BY <1>6, <1>7

-----------------------------------------------------------------------------
(* The steps that move neither the row nor the shop.                       *)

LEMMA CreateAnsweredStep == ASSUME IInv, NEW m \in Makers, CreateAnswered(m) PROVE IInv'
<1>1. TypeOK /\ Fits(m, job[m]) /\ job[m].at = "sent"
      /\ UNCHANGED <<parcel, sale, row, grant, shop, follow>>
  BY DEF IInv, AnswersRestOnTheShop, JobsRest, CreateAnswered
<1>2. CASE InShop(m) /\ Becomes(m, [job[m] EXCEPT !.at = "binding", !.order = m])
  <2>1. PICK j : j = [job[m] EXCEPT !.at = "binding", !.order = m]
    OBVIOUS
  <2>2. j \in JobRecord /\ j.at = "binding" /\ j.order = m
    <3>1. job[m] \in JobRecord
      BY <1>1 DEF TypeOK, JobRecord
    <3>2. j \in JobRecord
      BY <2>1, <3>1, ZenonT(40) DEF JobRecord
    <3> QED BY <2>1, <3>1, <3>2 DEF JobRecord
  <2>3. Fits(m, j)
    BY <1>1, <1>2, <2>2 DEF Fits
  <2> QED BY <1>1, <1>2, <2>1, <2>2, <2>3, GoesOn
<1>3. CASE Becomes(m, Over)
  BY <1>1, <1>3, IdleOver, GoesOn
<1>4. CASE m \in HandOvers /\ Answers(m, "refused")
  BY <1>1, <1>4, AnswersRow
<1> QED BY <1>2, <1>3, <1>4 DEF CreateAnswered, NotVerified

LEMMA PressStep ==
    ASSUME IInv, NEW p \in Presses, NEW order \in Makers \cup {NoOrder}, Press(p, order)
    PROVE  IInv'
<1>1. PICK o : o = IF row.phase = "placed" THEN row.order ELSE order
  OBVIOUS
<1>2. PICK j : j = [Idle EXCEPT !.at = "pressed", !.phase = row.phase,
                               !.revision = row.revision, !.order = o]
  OBVIOUS
<1>3. /\ p \in Makers /\ row \in RowRecord /\ parcel = FALSE
      /\ Becomes(p, j) /\ UNCHANGED <<parcel, sale, row, grant, shop, follow>>
  <2>1. parcel \in BOOLEAN /\ row \in RowRecord
    BY DEF IInv, AnswersRestOnTheShop, TypeOK, RowRecord
  <2>2. parcel = FALSE
    BY <2>1 DEF Press
  <2>3. Becomes(p, j)
    BY <1>1, <1>2 DEF Press
  <2> QED BY <2>1, <2>2, <2>3 DEF Press, Makers
<1>4. /\ o \in Makers \cup {NoOrder} /\ row.phase \in Phase /\ row.revision \in 0..MaxRevision
  BY <1>1, <1>3 DEF RowRecord
<1>5. j \in JobRecord /\ j.at = "pressed" /\ j.phase = row.phase
  <2>1. j \in JobRecord
    BY <1>2, <1>4, IdleOver, ZenonT(40) DEF JobRecord
  <2> QED BY <1>2, <2>1 DEF Idle
<1>6. Fits(p, j)
  BY <1>3, <1>5 DEF Fits, HasOrder
<1> QED BY <1>3, <1>5, <1>6, GoesOn

LEMMA RecoverySteps ==
    ASSUME IInv, NEW p \in Presses, ReadTheSale(p) \/ Recheck(p) \/ Look(p)
    PROVE  IInv'
<1>1. p \in Makers /\ TypeOK /\ Fits(p, job[p]) /\ job[p] \in JobRecord
  BY DEF Makers, IInv, AnswersRestOnTheShop, JobsRest, TypeOK, JobRecord
<1>2. /\ UNCHANGED <<parcel, sale, row, grant, shop, follow>>
      /\ job[p].at \in {"pressed", "rechecking", "looking"} /\ parcel = FALSE
  BY <1>1 DEF ReadTheSale, Recheck, Look, Fits
<1>3. CASE Becomes(p, Over)
  BY <1>1, <1>2, <1>3, IdleOver, GoesOn
<1>4. ASSUME NEW step \in {"binding", "delivering", "beginning"}, Goes(p, step),
             step = "binding" => InShop(job[p].order),
             step = "delivering" => row.phase \in HasOrder
      PROVE  IInv'
  <2>1. PICK j : j = [job[p] EXCEPT !.at = step]
    OBVIOUS
  <2>2. j \in JobRecord /\ j.at = step /\ j.order = job[p].order
    BY <1>1, <1>4, <2>1 DEF JobRecord
  <2>3. Fits(p, j)
    BY <1>2, <1>4, <2>2 DEF Fits
  <2> QED BY <1>1, <1>2, <1>4, <2>1, <2>2, <2>3, GoesOn DEF Goes
<1>5. ASSUME NEW step \in {"rechecking", "looking"},
             Becomes(p, [job[p] EXCEPT !.at = step, !.revision = grant.revision])
      PROVE  IInv'
  <2>1. PICK j : j = [job[p] EXCEPT !.at = step, !.revision = grant.revision]
    OBVIOUS
  <2>2. grant \in GrantRecord
    BY <1>1 DEF TypeOK, GrantRecord
  <2>3. grant.revision \in 0..MaxRevision
    BY <2>2, WooAssumption DEF GrantRecord
  <2>4. j \in JobRecord
    BY <1>1, <2>1, <2>3, ZenonT(40) DEF JobRecord
  <2>5. j.at = step
    BY <1>1, <2>1 DEF JobRecord
  <2>6. Fits(p, j)
    BY <1>2, <2>5 DEF Fits
  <2> QED BY <1>1, <1>2, <1>5, <2>1, <2>4, <2>5, <2>6, GoesOn
<1>6. CASE ReadTheSale(p)
  <2>1. CASE job[p].phase = "placed" /\ Goes(p, "delivering")
    BY <1>1, <1>4, <1>6, <2>1 DEF ReadTheSale, Fits
  <2>2. CASE Becomes(p, [job[p] EXCEPT
                !.at = IF job[p].phase \in {"precreate_refused", "shop_silent"}
                       THEN "rechecking" ELSE "looking",
                !.revision = grant.revision])
    BY <1>5, <2>2
  <2> QED BY <1>3, <1>6, <2>1, <2>2 DEF ReadTheSale
<1>7. CASE Recheck(p)
  BY <1>3, <1>4, <1>7 DEF Recheck
<1>8. CASE Look(p)
  BY <1>3, <1>4, <1>8 DEF Look
<1> QED BY <1>6, <1>7, <1>8

-----------------------------------------------------------------------------
(* The sale, the pass over shipments, the shop and the grant.              *)

\* What moves only the sale and the pass, while memories are kept or lost.
LEMMA MovesSale ==
    ASSUME IInv, UNCHANGED <<parcel, row, grant, shop>>,
           sale' \in {"owed", "taken_on", "delivered", "unfulfilled", "closed"},
           follow' \in {"idle", "recording", "shipped", "closed"},
           job' \in [Makers -> JobRecord],
           \A n \in Makers : job'[n] = job[n] \/ job'[n] = Over,
           sale = "delivered" => sale' = "delivered",
           sale' \in {"taken_on", "delivered"} /\ sale' # sale => row.phase \in HasOrder,
           sale' = "delivered" /\ sale' # sale =>
               parcel = FALSE \/ shop[row.order] = "completed",
           follow' = "recording" => row.phase \in HasOrder /\ shop[row.order] = "completed",
           follow' = "shipped" => sale' = "delivered"
    PROVE  IInv'
<1> USE DEF IInv
<1>1. TypeOK'
  BY DEF AnswersRestOnTheShop, TypeOK, JobRecord
<1>2. AnswersRestOnTheShop'
  BY <1>1 DEF AnswersRestOnTheShop, InShop, RowRests
<1>3. OneMaker' /\ TakenFirst'
  BY IdleOver DEF OneMaker, TakenFirst, Makes
<1>4. RowRests' /\ FollowRests'
  BY DEF RowRests, FollowRests, InShop
<1>5. JobsRest'
  BY IdleOver DEF JobsRest, Fits, InShop
<1> QED BY <1>2, <1>3, <1>4, <1>5

\* Memories that stay, and one that is given up.
LEMMA KeptOrOver ==
    ASSUME TypeOK
    PROVE  /\ UNCHANGED job => /\ job' \in [Makers -> JobRecord]
                               /\ \A n \in Makers : job'[n] = job[n] \/ job'[n] = Over
           /\ \A m \in Makers : Becomes(m, Over) =>
                  /\ job' \in [Makers -> JobRecord]
                  /\ \A n \in Makers : job'[n] = job[n] \/ job'[n] = Over
<1>1. job \in [Makers -> JobRecord]
  BY DEF TypeOK, JobRecord
<1> QED BY <1>1, Remembers, IdleOver

LEMMA AnswerStep == ASSUME IInv, NEW h \in HandOvers, Answer(h) PROVE IInv'
<1>1. h \in Makers /\ TypeOK /\ Fits(h, job[h])
  BY DEF Makers, IInv, AnswersRestOnTheShop, JobsRest
<1>2. /\ job' \in [Makers -> JobRecord]
      /\ \A n \in Makers : job'[n] = job[n] \/ job'[n] = Over
  BY <1>1, KeptOrOver DEF Answer
<1>3. /\ sale' \in {"owed", "taken_on", "delivered", "unfulfilled", "closed"}
      /\ sale = "delivered" => sale' = "delivered"
      /\ sale' \in {"taken_on", "delivered"} /\ sale' # sale => row.phase \in HasOrder
      /\ sale' = "delivered" /\ sale' # sale => parcel = FALSE
  BY <1>1 DEF Answer, AnswerOrder, TakesGoods, StillOwed, Fits, TypeOK
<1>4. follow' = follow /\ follow \in {"idle", "recording", "shipped", "closed"} /\ FollowRests
  BY <1>1 DEF Answer, TypeOK, IInv
<1> QED BY <1>2, <1>3, <1>4, MovesSale DEF Answer, FollowRests

LEMMA DeliverSavedStep == ASSUME IInv, NEW p \in Presses, DeliverSaved(p) PROVE IInv'
<1>1. p \in Makers /\ TypeOK /\ Fits(p, job[p])
  BY DEF Makers, IInv, AnswersRestOnTheShop, JobsRest
<1>2. /\ job' \in [Makers -> JobRecord]
      /\ \A n \in Makers : job'[n] = job[n] \/ job'[n] = Over
  BY <1>1, KeptOrOver DEF DeliverSaved
<1>3. /\ sale' \in {"owed", "taken_on", "delivered", "unfulfilled", "closed"}
      /\ sale = "delivered" => sale' = "delivered"
      /\ sale' # sale => sale' = "delivered" /\ row.phase \in HasOrder /\ parcel = FALSE
  BY <1>1 DEF DeliverSaved, TakesGoods, StillOwed, Fits, TypeOK
<1>4. follow' = follow /\ follow \in {"idle", "recording", "shipped", "closed"} /\ FollowRests
  BY <1>1 DEF DeliverSaved, TypeOK, IInv
<1> QED BY <1>2, <1>3, <1>4, MovesSale DEF DeliverSaved, FollowRests

LEMMA ClockAndFollowSteps ==
    ASSUME IInv, Deadline \/ CloseFulfillment \/ ReadShipment \/ RecordShipment
    PROVE  IInv'
<1>1. TypeOK /\ UNCHANGED <<parcel, row, grant, shop, job>>
  BY DEF Deadline, CloseFulfillment, ReadShipment, RecordShipment, IInv, AnswersRestOnTheShop
<1>2. /\ job' \in [Makers -> JobRecord]
      /\ \A n \in Makers : job'[n] = job[n] \/ job'[n] = Over
  BY <1>1, KeptOrOver
<1>3. CASE Deadline \/ CloseFulfillment
  BY <1>1, <1>2, <1>3, MovesSale
     DEF Deadline, CloseFulfillment, StillOwed, TypeOK, IInv, FollowRests
<1>4. CASE ReadShipment
  BY <1>1, <1>2, <1>4, MovesSale DEF ReadShipment, TypeOK, HasOrder
<1>5. CASE RecordShipment
  <2>1. row.phase \in HasOrder /\ shop[row.order] = "completed"
    BY <1>5 DEF RecordShipment, IInv, FollowRests
  <2>2. /\ sale' \in {"owed", "taken_on", "delivered", "unfulfilled", "closed"}
        /\ sale = "delivered" => sale' = "delivered"
        /\ follow' \in {"idle", "shipped", "closed"}
        /\ follow' = "shipped" => sale' = "delivered"
    BY <1>1, <1>5 DEF RecordShipment, Recorded, TakesGoods, StillOwed, TypeOK
  <2> QED BY <1>1, <1>2, <2>1, <2>2, MovesSale
<1> QED BY <1>3, <1>4, <1>5

LEMMA CrashStep == ASSUME IInv, Crash PROVE IInv'
<1>1. TypeOK /\ job \in [Makers -> JobRecord]
  BY DEF IInv, AnswersRestOnTheShop, TypeOK, JobRecord
<1>2. /\ job' \in [Makers -> JobRecord]
      /\ \A n \in Makers : job'[n] = job[n] \/ job'[n] = Over
  BY <1>1, IdleOver DEF Crash
<1> QED BY <1>1, <1>2, MovesSale DEF Crash, TypeOK

\* A create request leaves, takes effect or is lost; the owner acts on an order.
LEMMA MovesShop ==
    ASSUME IInv, NEW m \in Makers, Makes(m),
           NEW s \in {"sent", "dropped", "open", "completed", "ended"},
           shop' = [shop EXCEPT ![m] = s], shop[m] # "completed",
           shop[m] \in InTheShop => s \in InTheShop,
           UNCHANGED <<parcel, sale, row, grant, follow>>,
           job' \in [Makers -> JobRecord], job'[m].at # "creating",
           job'[m] = job[m] \/ (job[m].at = "creating" /\ job'[m].at = "sent"),
           \A n \in Makers \ {m} : job'[n] = job[n]
    PROVE  IInv'
<1> USE DEF IInv
<1>1. /\ shop \in [Makers -> {"none", "sent", "dropped", "open", "completed", "ended"}]
      /\ shop'[m] = s /\ \A n \in Makers \ {m} : shop'[n] = shop[n]
  BY DEF AnswersRestOnTheShop, TypeOK
<1>2. TypeOK'
  BY <1>1 DEF AnswersRestOnTheShop, TypeOK, JobRecord
<1>3. Progress
  BY <1>1 DEF Progress
<1>4. RowRests' /\ FollowRests'
  <2>1. CASE row.phase \in HasOrder
    BY <1>2, <1>3, <2>1, StillRests
  <2>2. CASE row.phase \notin HasOrder
    BY <1>2, <1>3, <2>2, StillRests DEF RowRests
  <2> QED BY <2>1, <2>2
<1>5. AnswersRestOnTheShop'
  <2>1. parcel /\ sale = "delivered" => shop'[row.order] = "completed"
    BY <1>3 DEF AnswersRestOnTheShop, Progress, InShop
  <2> QED BY <1>2, <1>4, <2>1 DEF AnswersRestOnTheShop, RowRests
<1>6. OneMaker' /\ TakenFirst'
  BY <1>1 DEF OneMaker, TakenFirst, Makes
<1>7. JobsRest'
  <2>1. ASSUME NEW n \in Makers PROVE Fits(n, job[n])'
    <3>1. PICK i : i = job[n]
      OBVIOUS
    <3>2. Fits(n, i) /\ (i.at = "creating" /\ n # m => shop'[n] = "none")
      BY <1>1, <3>1 DEF JobsRest, Fits
    <3>3. CASE i.at # "creating" /\ job'[n] = job[n]
      BY <1>3, <3>1, <3>2, <3>3, StillFits
    <3>4. CASE i.at = "creating" /\ n # m
      BY <1>3, <3>1, <3>2, <3>4, StillFits
    <3>5. CASE n = m /\ i.at = "creating" /\ job'[n].at = "sent"
      <4>1. n \in Presses => parcel = FALSE
        BY <3>1, <3>2, <3>5 DEF Fits
      <4> QED BY <3>5, <4>1 DEF Fits
    <3> QED BY <3>1, <3>3, <3>4, <3>5
  <2> QED BY <2>1 DEF JobsRest
<1> QED BY <1>4, <1>5, <1>6, <1>7

LEMMA ShopSteps ==
    ASSUME IInv, NEW m \in Makers,
           \/ SendCreate(m) \/ ShopCreates(m) \/ ShopDrops(m)
           \/ \E status \in {"completed", "ended"} : OwnerActs(m, status)
    PROVE  IInv'
<1>1. TypeOK /\ job \in [Makers -> JobRecord] /\ Fits(m, job[m])
  BY DEF IInv, AnswersRestOnTheShop, JobsRest, TypeOK, JobRecord
<1>2. CASE SendCreate(m)
  <2>1. PICK j : j = [job[m] EXCEPT !.at = "sent"]
    OBVIOUS
  <2>2. j \in JobRecord /\ j.at = "sent" /\ Becomes(m, j)
    BY <1>1, <1>2, <2>1, SameMemory DEF SendCreate, Goes
  <2>3. /\ job' \in [Makers -> JobRecord] /\ job'[m] = j
        /\ \A n \in Makers \ {m} : job'[n] = job[n]
    BY <1>1, <2>2, Remembers
  <2>4. job[m].at = "creating" /\ shop[m] = "none" /\ shop' = [shop EXCEPT ![m] = "sent"]
    BY <1>1, <1>2 DEF SendCreate, Fits
  <2> QED BY <1>2, <2>2, <2>3, <2>4, MovesShop DEF SendCreate, Makes, InTheShop
<1>3. ASSUME NEW s \in {"dropped", "open", "completed", "ended"}, shop[m] \in {"sent", "open"},
             shop' = [shop EXCEPT ![m] = s], shop[m] = "open" => s \in InTheShop,
             UNCHANGED <<parcel, sale, row, grant, job, follow>>
      PROVE  IInv'
  <2>1. job[m].at # "creating"
    BY <1>1, <1>3 DEF Fits
  <2> QED BY <1>1, <1>3, <2>1, MovesShop DEF Makes, InTheShop
<1>4. CASE ShopCreates(m) \/ ShopDrops(m)
  BY <1>3, <1>4 DEF ShopCreates, ShopDrops
<1>5. CASE \E status \in {"completed", "ended"} : OwnerActs(m, status)
  BY <1>3, <1>5 DEF OwnerActs, InTheShop
<1> QED BY <1>2, <1>4, <1>5

LEMMA GrantSteps ==
    ASSUME IInv, Forget \/ \E write \in BOOLEAN : Connect(write)
    PROVE  IInv'
<1> USE DEF IInv
<1>1. grant \in GrantRecord /\ UNCHANGED <<parcel, sale, row, shop, job, follow>>
  BY DEF AnswersRestOnTheShop, TypeOK, GrantRecord, Forget, Connect
<1>2. grant' \in GrantRecord
  <2>1. CASE Forget
    BY <1>1, <2>1, ZenonT(40) DEF Forget, GrantRecord
  <2>2. ASSUME NEW write \in BOOLEAN, Connect(write) PROVE grant' \in GrantRecord
    <3>1. grant.revision + 1 \in 1..MaxRevision
      BY <1>1, <2>2, WooAssumption DEF Connect, GrantRecord
    <3> QED BY <2>2, <3>1, ZenonT(40) DEF Connect, GrantRecord
  <2> QED BY <2>1, <2>2
<1>3. TypeOK'
  BY <1>1, <1>2 DEF AnswersRestOnTheShop, TypeOK, GrantRecord
<1> QED BY <1>1, <1>3 DEF AnswersRestOnTheShop, OneMaker, TakenFirst, RowRests, FollowRests,
                         JobsRest, Makes, Fits, InShop

LEMMA EndParcelStep == ASSUME IInv, EndParcel PROVE IInv'
<1>1. TypeOK /\ row \in RowRecord /\ UNCHANGED <<parcel, sale, grant, shop, job>>
      /\ follow' = "idle"
  BY DEF IInv, AnswersRestOnTheShop, TypeOK, RowRecord, EndParcel
<1>2. CASE row.phase # "placed"
  <2>1. row' = row /\ job' \in [Makers -> JobRecord]
        /\ sale \in {"owed", "taken_on", "delivered", "unfulfilled", "closed"}
    BY <1>1, <1>2, KeptOrOver DEF EndParcel, TypeOK
  <2> QED BY <1>1, <2>1, MovesSale
<1>3. CASE row.phase = "placed"
  <2> USE DEF IInv
  <2>1. /\ row'.order = row.order /\ row'.phase = follow /\ row' \in RowRecord
        /\ follow \in {"shipped", "closed"}
    BY <1>1, <1>3 DEF EndParcel, RowRecord, Phase
  <2>2. row.phase \in HasOrder /\ row'.phase \in HasOrder /\ row.order # NoOrder
    BY <1>1, <1>3, <2>1 DEF HasOrder, TypeOK
  <2>3. TypeOK'
    BY <1>1, <2>1, <2>2 DEF TypeOK, RowRecord
  <2>4. RowRests' /\ FollowRests'
    BY <1>1, <2>1, <2>2 DEF RowRests, FollowRests, InShop
  <2>5. AnswersRestOnTheShop'
    BY <1>1, <2>1, <2>2, <2>3, <2>4 DEF AnswersRestOnTheShop, RowRests, FollowRests, InShop
  <2>6. OneMaker' /\ TakenFirst'
    BY <1>1, <2>2 DEF OneMaker, TakenFirst, Makes, Taken
  <2>7. JobsRest'
    BY <1>1, <2>1, <2>2 DEF JobsRest, Fits, InShop
  <2> QED BY <2>4, <2>5, <2>6, <2>7
<1> QED BY <1>2, <1>3

-----------------------------------------------------------------------------

LEMMA InitIInv == Init => IInv
<1> SUFFICES ASSUME Init PROVE IInv
  OBVIOUS
<1>1. parcel \in BOOLEAN /\ grant \in GrantRecord
  <2>1. 1 \in 1..MaxRevision
    BY WooAssumption
  <2> QED BY <2>1, ZenonT(40) DEF Init, GrantRecord
<1>2. job \in [Makers -> JobRecord] /\ \A m \in Makers : job[m] = Idle
  BY IdleOver DEF Init
<1>3. TypeOK
  BY <1>1, <1>2, WooAssumption DEF Init, TypeOK, JobRecord, GrantRecord, Phase, HasOrder
<1>4. AnswersRestOnTheShop /\ RowRests /\ FollowRests
  BY <1>3 DEF AnswersRestOnTheShop, RowRests, FollowRests, Init, HasOrder
<1>5. OneMaker /\ TakenFirst /\ JobsRest
  BY <1>2 DEF OneMaker, TakenFirst, JobsRest, Fits, Makes, Init, Idle
<1> QED BY <1>4, <1>5 DEF IInv

LEMMA NextIInv == IInv /\ [Next]_vars => IInv'
<1> SUFFICES ASSUME IInv, [Next]_vars PROVE IInv'
  OBVIOUS
<1>1. ASSUME NEW h \in HandOvers, Fill(h) PROVE IInv'
  BY <1>1, DrawStep, ReadKnownStep, InspectStep, KeepSilenceStep, RefuseStep, ClaimStep,
     AnswerStep DEF Fill
<1>2. ASSUME NEW p \in Presses, Recover(p) PROVE IInv'
  BY <1>2, PressStep, RecoverySteps, BeginStep, DeliverSavedStep DEF Recover
<1>3. ASSUME NEW m \in Makers,
             \/ SendCreate(m) \/ CreateAnswered(m) \/ Bind(m) \/ ShopCreates(m) \/ ShopDrops(m)
             \/ \E status \in {"completed", "ended"} : OwnerActs(m, status)
      PROVE  IInv'
  BY <1>3, CreateAnsweredStep, BindStep, ShopSteps
<1>4. CASE UNCHANGED vars
  <2>1. TypeOK'
    BY <1>4 DEF IInv, AnswersRestOnTheShop, TypeOK, vars
  <2> QED BY <1>4, <2>1 DEF IInv, AnswersRestOnTheShop, OneMaker, TakenFirst, RowRests,
                          FollowRests, JobsRest, Makes, Fits, InShop, vars
<1> QED BY <1>1, <1>2, <1>3, <1>4, ClockAndFollowSteps, GrantSteps, EndParcelStep, CrashStep
        DEF Next

(* The inductive invariant holds in every state of the sale.               *)
THEOREM Invariance == Spec => []IInv
BY InitIInv, NextIInv, PTL DEF Spec

\* No more than one maker has a request out.
LEMMA OneMakerOneCreate == OneMaker => OneCreatePerSale
<1> SUFFICES ASSUME OneMaker PROVE OneCreatePerSale
  OBVIOUS
<1> DEFINE S == {m \in Makers : shop[m] # "none"}
<1>1. CASE S = {}
  BY <1>1, FS_EmptySet DEF OneCreatePerSale
<1>2. CASE S # {}
  <2>1. PICK m : m \in S
    BY <1>2
  <2>2. S = {m}
    BY <2>1 DEF OneMaker, Makes
  <2> QED BY <2>2, FS_Singleton DEF OneCreatePerSale
<1> QED BY <1>1, <1>2

(* One create request leaves for one sale, over any number of hand-overs,  *)
(* recovery presses, dashboard processes, grants, crashes and lost answers *)
(* (claimOrder, beginPrecreateRecovery and placeOrder).                    *)
THEOREM OneCreate == Spec => []OneCreatePerSale
<1>1. IInv => OneCreatePerSale
  BY OneMakerOneCreate DEF IInv
<1> QED BY <1>1, Invariance, PTL

(* What the gateway was told of the sale rests on an order of the shop: a  *)
(* delivered download, a parcel taken on and a recorded shipment, which    *)
(* was completed there (answerOrder, deliverSaved, followShipments).       *)
THEOREM AnswersRest == Spec => []AnswersRestOnTheShop
<1>1. IInv => AnswersRestOnTheShop
  BY DEF IInv
<1> QED BY <1>1, Invariance, PTL

-----------------------------------------------------------------------------
(* ChainSearch: numbers.  A set of natural numbers has a least one, because *)
(* the intervals below its members are finite sets.                        *)
LEMMA LeastNatural ==
    ASSUME NEW T, T \subseteq Nat, T # {}
    PROVE  \E x \in T : \A y \in T : x <= y
<1> DEFINE F == {1..n : n \in T}
<1>1. F \subseteq FiniteSubsetsOf(Nat)
  <2>1. \A n \in Nat : IsFiniteSet(1..n) /\ 1..n \subseteq Nat
    BY FS_Interval
  <2>2. \A n \in Nat : 1..n \in FiniteSubsetsOf(Nat)
    BY <2>1 DEF FiniteSubsetsOf
  <2> QED BY <2>2
<1>2. IsWellFoundedOn(StrictSubsetOrdering(Nat), FiniteSubsetsOf(Nat))
  BY FS_StrictSubsetOrderingWellFounded
<1>3. F # {}
  OBVIOUS
<1>4. PICK X \in F : \A Y \in F : ~(<<Y, X>> \in StrictSubsetOrdering(Nat))
  <2> HIDE DEF F
  <2> QED BY <1>1, <1>2, <1>3, WFMin
<1>5. PICK x \in T : X = 1..x
  OBVIOUS
<1>6. ASSUME NEW y \in T, y < x PROVE FALSE
  <2>1. 1..y \in F /\ 1..y \subseteq 1..x /\ 1..y # 1..x
    BY <1>6
  <2>2. <<1..y, X>> \in StrictSubsetOrdering(Nat)
    BY <1>5, <2>1 DEF StrictSubsetOrdering
  <2> QED BY <1>4, <2>1, <2>2
<1> QED BY <1>6

LEMMA MinOfNaturals ==
    ASSUME NEW T, T \subseteq Nat, T # {}
    PROVE  Min(T) \in T /\ \A y \in T : Min(T) <= y
  BY LeastNatural DEF Min

LEMMA LeastIsMin ==
    ASSUME NEW T, T \subseteq Nat, NEW f \in T, \A y \in T : f <= y
    PROVE  Min(T) = f
<1>1. PICK m : m = Min(T)
  OBVIOUS
<1>2. m \in T /\ \A y \in T : m <= y
  BY <1>1, MinOfNaturals
<1>3. m = f
  BY <1>2
<1> QED BY <1>1, <1>3

LEMMA MaxOfTwo ==
    ASSUME NEW a \in Int, NEW b \in Int
    PROVE  Max({a, b}) = IF a >= b THEN a ELSE b
<1>1. \E x \in {a, b} : \A y \in {a, b} : x >= y
  OBVIOUS
<1>2. Max({a, b}) \in {a, b} /\ \A y \in {a, b} : Max({a, b}) >= y
  BY <1>1 DEF Max
<1> QED BY <1>2

LEMMA Halfway ==
    ASSUME NEW low \in Nat, NEW high \in Nat, low < high
    PROVE  /\ (low + high) \div 2 \in Nat
           /\ low <= (low + high) \div 2 /\ (low + high) \div 2 < high
  OBVIOUS

-----------------------------------------------------------------------------
(* The chain: blocks at least a second apart, one use, and that one where  *)
(* the token allows it.                                                    *)
Paced == \A i, j \in 0..height : i <= j => Time(i) + (j - i) <= Time(j)
UsedOnce == \A i, j \in 0..height : Event(i) # "nothing" /\ Event(j) # "nothing" => i = j
Accepted == \A b \in 0..height : Accepts(Event(b), Time(b))

ChainOK ==
    /\ blocks \in Seq([time : Nat, event : Events]) /\ Len(blocks) > 0
    /\ finalized \in 0..height /\ height <= MaxHeight
    /\ Paced /\ UsedOnce /\ Accepted

\* A block has a time and an event.
LEMMA BlockTypes ==
    ASSUME ChainOK
    PROVE  /\ height \in Nat /\ finalized \in Nat
           /\ \A n \in 0..height : Time(n) \in Nat /\ Event(n) \in Events
<1>1. blocks \in Seq([time : Nat, event : Events]) /\ Len(blocks) > 0 /\ finalized \in 0..height
  BY DEF ChainOK
<1>2. Len(blocks) \in Nat /\ Len(blocks) # 0
  BY <1>1
<1>3. \A i \in 1..Len(blocks) : blocks[i] \in [time : Nat, event : Events]
  <2> DEFINE Block == [time : Nat, event : Events]
  <2>1. blocks \in Seq(Block)
    BY <1>1
  <2> HIDE DEF Block
  <2>2. \A i \in 1..Len(blocks) : blocks[i] \in Block
    BY <2>1
  <2> QED BY <2>2 DEF Block
<1>4. height \in Nat /\ finalized \in Nat
  BY <1>1, <1>2 DEF height
<1>5. ASSUME NEW n \in 0..height PROVE Time(n) \in Nat /\ Event(n) \in Events
  <2>1. n + 1 \in 1..Len(blocks)
    BY <1>2 DEF height
  <2> QED BY <1>3, <2>1 DEF Time, Event
<1> QED BY <1>4, <1>5

LEMMA EarliestType == Earliest \in Nat /\ NotBefore <= Earliest /\ ValidAfter < Earliest
<1>1. NotBefore \in Int /\ ValidAfter + 1 \in Int /\ NotBefore \in Nat /\ ValidAfter \in Nat
  BY WindowAssumption
<1> QED BY <1>1, MaxOfTwo DEF Earliest

\* The bisection starts no later than the first block of that time.
LEMMA LowestIsBelow ==
    ASSUME ChainOK, NEW seen \in 0..height, NEW time \in Nat, Time(seen) >= time
    PROVE  /\ Lowest(seen, time) \in 0..seen
           /\ \A b \in 0..seen : b < Lowest(seen, time) => Time(b) < time
<1>1. /\ height \in Nat /\ seen \in Nat /\ Time(seen) \in Nat
      /\ \A b \in 0..seen : Time(b) \in Nat /\ b \in 0..height
  BY BlockTypes
<1>2. Lowest(seen, time) = IF 0 >= seen - (Time(seen) - time) THEN 0 ELSE seen - (Time(seen) - time)
  BY <1>1, MaxOfTwo DEF Lowest
<1>3. \A b \in 0..seen : Time(b) + (seen - b) <= Time(seen)
  BY <1>1 DEF ChainOK, Paced
<1>4. ASSUME NEW b \in 0..seen, b < Lowest(seen, time) PROVE Time(b) < time
  BY <1>1, <1>2, <1>3, <1>4
<1> QED BY <1>1, <1>2, <1>4

(* firstBlockAt finds the first block of the time it is asked for.         *)
LEMMA BisectFinds ==
    ASSUME ChainOK, NEW seen \in 0..height, NEW time \in Nat, Time(seen) >= time
    PROVE  /\ Bisect(seen, time) \in 0..seen /\ Time(Bisect(seen, time)) >= time
           /\ \A b \in 0..seen : Time(b) >= time => Bisect(seen, time) <= b
<1> DEFINE At(low, high) == {b \in low..high : b = high \/ Time(b) >= time}
           Half(low, high) == (low + high) \div 2
           Spans == (0 .. seen + 1) \X (0..seen)
           Solves(f) == f = [span \in Spans |->
                               IF span[1] >= span[2] THEN span[1]
                               ELSE IF Time((span[1] + span[2]) \div 2) >= time
                                    THEN f[<<span[1], (span[1] + span[2]) \div 2>>]
                               ELSE f[<<(span[1] + span[2]) \div 2 + 1, span[2]>>]]
           g == [span \in Spans |->
                   IF span[1] >= span[2] THEN span[1] ELSE Min(At(span[1], span[2]))]
<1>1. /\ height \in Nat /\ seen \in Nat /\ Time(seen) \in Nat
      /\ \A b \in 0..seen : Time(b) \in Nat /\ b \in 0..height
  BY BlockTypes
<1>2. \A i, j \in 0..seen : i <= j => Time(i) <= Time(j)
  <2>1. \A i, j \in 0..height : i <= j => Time(i) + (j - i) <= Time(j)
    BY DEF ChainOK, Paced
  <2> QED BY <1>1, <2>1
<1>3. \A low \in 0 .. seen + 1, high \in 0..seen :
        low < high => /\ Half(low, high) \in low .. high - 1 /\ Half(low, high) \in 0..seen
                      /\ Half(low, high) + 1 \in 0 .. seen + 1
  BY <1>1, Halfway
<1>4. \A low \in 0 .. seen + 1, high \in 0..seen :
        low < high => /\ Min(At(low, high)) \in At(low, high)
                      /\ \A b \in At(low, high) : Min(At(low, high)) <= b
  BY <1>1, MinOfNaturals
<1>5. \A low \in 0 .. seen + 1, high \in 0..seen :
        g[<<low, high>>] = IF low >= high THEN low ELSE Min(At(low, high))
  OBVIOUS
<1>6. ASSUME NEW low \in 0 .. seen + 1, NEW high \in 0..seen, low < high,
             Time(Half(low, high)) >= time
      PROVE  g[<<low, Half(low, high)>>] = Min(At(low, high))
  <2> HIDE DEF Half, g
  <2>1. CASE low = Half(low, high)
    <3>1. low \in At(low, high)
      BY <1>1, <1>6, <2>1
    <3>2. Min(At(low, high)) = low
      BY <1>1, <1>4, <1>6, <3>1
    <3>3. g[<<low, Half(low, high)>>] = low
      <4>1. low \in 0..seen /\ low >= low
        BY <1>1, <1>3, <1>6, <2>1
      <4>2. g[<<low, low>>] = low
        BY <1>5, <4>1
      <4> QED BY <2>1, <4>2
    <3> QED BY <3>2, <3>3
  <2>2. CASE low # Half(low, high)
    <3>1. At(low, Half(low, high)) \subseteq At(low, high)
      BY <1>1, <1>3, <1>6
    <3>2. Half(low, high) \in At(low, high)
      BY <1>1, <1>3, <1>6
    <3>3. \A b \in At(low, high) : b <= Half(low, high) => b \in At(low, Half(low, high))
      BY <1>1, <1>3, <1>6
    <3>4. low < Half(low, high) /\ Half(low, high) \in 0..seen
      BY <1>1, <1>3, <1>6, <2>2
    <3>5. g[<<low, Half(low, high)>>] = Min(At(low, Half(low, high)))
      BY <1>1, <1>5, <3>4
    <3>6. Min(At(low, Half(low, high))) = Min(At(low, high))
      <4> DEFINE p == Min(At(low, Half(low, high)))
                 q == Min(At(low, high))
      <4>1. p \in At(low, Half(low, high)) /\ \A b \in At(low, Half(low, high)) : p <= b
        BY <1>4, <3>4
      <4>2. q \in At(low, high) /\ \A b \in At(low, high) : q <= b
        BY <1>4, <1>6
      <4>3. p \in Int /\ q \in Int
        BY <4>1, <4>2
      <4> HIDE DEF p, q
      <4>4. q <= p /\ q <= Half(low, high)
        BY <3>1, <3>2, <4>1, <4>2
      <4>5. p <= q
        BY <3>3, <4>1, <4>2, <4>4
      <4>6. p = q
        BY <4>3, <4>4, <4>5
      <4> QED BY <4>6 DEF p, q
    <3> QED BY <3>5, <3>6
  <2> QED BY <2>1, <2>2
<1>7. ASSUME NEW low \in 0 .. seen + 1, NEW high \in 0..seen, low < high,
             ~(Time(Half(low, high)) >= time)
      PROVE  g[<<Half(low, high) + 1, high>>] = Min(At(low, high))
  <2> HIDE DEF Half, g
  <2> DEFINE h == Half(low, high)
             q == Min(At(low, high))
  <2>1. h \in low .. high - 1 /\ h \in 0..seen /\ h + 1 \in 0 .. seen + 1
    BY <1>3, <1>6, <1>7
  <2>2. q \in At(low, high) /\ \A b \in At(low, high) : q <= b
    BY <1>4, <1>7
  <2>3. Time(h) < time
    BY <1>1, <1>7, <2>1
  <2> HIDE DEF h, q
  <2>4. \A b \in low..h : Time(b) < time /\ b # high
    <3> SUFFICES ASSUME NEW b \in low..h PROVE Time(b) < time /\ b # high
      OBVIOUS
    <3>1. b \in 0..seen /\ b <= h /\ b # high
      BY <1>1, <2>1
    <3>2. Time(b) <= Time(h)
      BY <1>2, <2>1, <3>1
    <3> QED BY <1>1, <2>1, <2>3, <3>1, <3>2
  <2>5. \A b \in low..h : Time(b) \in Nat
    BY <1>1, <2>1
  <2>6. \A b \in At(low, high) : b \in h + 1 .. high
    BY <1>1, <2>1, <2>4, <2>5
  <2>7. CASE h + 1 >= high
    <3>1. q = high
      BY <1>1, <2>1, <2>2, <2>6, <2>7
    <3>2. h + 1 = high /\ high \in 0 .. seen + 1 /\ high >= high
      BY <1>1, <2>1, <2>7
    <3>3. g[<<high, high>>] = high
      BY <1>5, <3>2
    <3> QED BY <3>1, <3>2, <3>3 DEF h, q
  <2>8. CASE ~(h + 1 >= high)
    <3>1. At(h + 1, high) = At(low, high)
      BY <1>1, <2>1, <2>6
    <3>2. g[<<h + 1, high>>] = Min(At(h + 1, high))
      BY <1>1, <1>5, <2>1, <2>8
    <3> QED BY <3>1, <3>2 DEF h, q
  <2> QED BY <2>7, <2>8
<1>8. Solves(g)
  <2> SUFFICES ASSUME NEW span \in Spans
               PROVE  (IF span[1] >= span[2] THEN span[1] ELSE Min(At(span[1], span[2])))
                       = IF span[1] >= span[2] THEN span[1]
                         ELSE IF Time((span[1] + span[2]) \div 2) >= time
                              THEN g[<<span[1], (span[1] + span[2]) \div 2>>]
                         ELSE g[<<(span[1] + span[2]) \div 2 + 1, span[2]>>]
    <3> DEFINE G(span) == IF span[1] >= span[2] THEN span[1] ELSE Min(At(span[1], span[2]))
               H(span) == IF span[1] >= span[2] THEN span[1]
                          ELSE IF Time((span[1] + span[2]) \div 2) >= time
                               THEN g[<<span[1], (span[1] + span[2]) \div 2>>]
                          ELSE g[<<(span[1] + span[2]) \div 2 + 1, span[2]>>]
    <3>1. \A span \in Spans : G(span) = H(span)
      OBVIOUS
    <3>2. [span \in Spans |-> G(span)] = [span \in Spans |-> H(span)]
      <4> HIDE DEF G, H
      <4> QED BY <3>1
    <3> QED BY <3>2
  <2>1. PICK low \in 0 .. seen + 1, high \in 0..seen : span[1] = low /\ span[2] = high
    OBVIOUS
  <2> HIDE DEF g
  <2> QED BY <1>1, <1>6, <1>7, <2>1
<1> DEFINE f == CHOOSE h : Solves(h)
<1>9. Solves(f)
  <2> HIDE DEF Solves, g
  <2> QED BY <1>8
<1>10. Bisect(seen, time) = f[<<Lowest(seen, time), seen>>]
  BY DEF Bisect
<1> DEFINE Brackets(low, high) == /\ low <= high /\ Time(high) >= time
                               /\ \A b \in 0..seen : b < low => Time(b) < time
           Hit(b) == /\ b \in 0..seen /\ Time(b) >= time
                     /\ \A c \in 0..seen : Time(c) >= time => b <= c
           T == {k \in Nat : \E low, high \in 0..seen :
                               high - low = k /\ Brackets(low, high) /\ ~Hit(f[<<low, high>>])}
<1>11. \A low \in 0 .. seen + 1, high \in 0..seen :
         f[<<low, high>>] = IF low >= high THEN low
                            ELSE IF Time(Half(low, high)) >= time THEN f[<<low, Half(low, high)>>]
                            ELSE f[<<Half(low, high) + 1, high>>]
  <2> HIDE DEF f
  <2> QED BY <1>9
<1> HIDE DEF f, Half
<1>12. T = {}
  <2> SUFFICES ASSUME T # {} PROVE FALSE
    OBVIOUS
  <2>1. PICK k \in T : \A i \in T : k <= i
    BY LeastNatural
  <2>2. PICK low \in 0..seen, high \in 0..seen :
          high - low = k /\ Brackets(low, high) /\ ~Hit(f[<<low, high>>])
    OBVIOUS
  <2>3. low < high
    <3> SUFFICES ASSUME low >= high PROVE FALSE
      BY <1>1
    <3>1. low = high /\ low \in 0 .. seen + 1
      BY <1>1, <2>2
    <3>2. f[<<low, high>>] = low
      BY <1>11, <3>1
    <3>3. Hit(low)
      BY <1>1, <2>2, <3>1
    <3> QED BY <2>2, <3>2, <3>3
  <2> DEFINE h == Half(low, high)
  <2>4. h \in low .. high - 1 /\ h \in 0..seen /\ h + 1 \in 0..seen
    BY <1>1, <1>3, <2>3
  <2>5. f[<<low, high>>] = IF Time(h) >= time THEN f[<<low, h>>] ELSE f[<<h + 1, high>>]
    BY <1>1, <1>11, <2>3
  <2> HIDE DEF h
  <2>6. CASE Time(h) >= time
    <3>1. h - low \in Nat /\ ~(k <= h - low)
      BY <1>1, <2>2, <2>3, <2>4
    <3>2. Brackets(low, h)
      BY <1>1, <2>2, <2>4, <2>6
    <3>3. h - low \in T
      BY <2>2, <2>4, <2>5, <2>6, <3>1, <3>2
    <3> QED BY <2>1, <3>1, <3>3
  <2>7. CASE ~(Time(h) >= time)
    <3>1. high - (h + 1) \in Nat /\ ~(k <= high - (h + 1))
      BY <1>1, <2>2, <2>3, <2>4
    <3>2. Brackets(h + 1, high)
      <4>1. h + 1 <= high /\ Time(high) >= time
        BY <1>1, <2>2, <2>4
      <4>2. ASSUME NEW b \in 0..seen, b < h + 1 PROVE Time(b) < time
        <5>1. b <= h
          BY <1>1, <2>4, <4>2
        <5>2. Time(b) <= Time(h)
          BY <1>2, <2>4, <5>1
        <5> QED BY <1>1, <2>4, <2>7, <5>2
      <4> QED BY <4>1, <4>2
    <3>3. high - (h + 1) \in T
      BY <2>2, <2>4, <2>5, <2>7, <3>1, <3>2
    <3> QED BY <2>1, <3>1, <3>3
  <2> QED BY <2>6, <2>7
<1>13. Lowest(seen, time) \in 0..seen /\ seen \in 0..seen /\ Brackets(Lowest(seen, time), seen)
  BY <1>1, LowestIsBelow
<1>14. Hit(f[<<Lowest(seen, time), seen>>])
  <2> DEFINE low == Lowest(seen, time)
  <2>1. low \in 0..seen /\ seen - low \in Nat
    BY <1>1, <1>13
  <2> HIDE DEF low
  <2>2. Brackets(low, seen) /\ seen \in 0..seen
    BY <1>13 DEF low
  <2>3. Hit(f[<<low, seen>>])
    <3> HIDE DEF Hit, Brackets
    <3> QED BY <1>12, <2>1, <2>2
  <2> QED BY <2>3 DEF low
<1> QED BY <1>10, <1>14

-----------------------------------------------------------------------------
(* The polls: the cursor and where it may be.                              *)

\* A block whose use of the authorization is the answer.
InWindow(b) == Event(b) # "nothing" /\ Earliest <= Time(b) /\ Time(b) < ValidBefore
CursorBefore(c) == \A b \in 0..finalized : InWindow(b) => c <= b
Cursors == {NoBlock} \cup (0 .. finalized + 1)
PollsOK ==
    /\ hint \in {"none", "transfer", "other"}
    /\ verdict \in {"unknown", "settled", "failed"}
    /\ cursor \in Cursors /\ CursorBefore(cursor)

ChainIInv == ChainOK /\ PollsOK

(* Where a search begins.                                                  *)
Begins(seen) == IF cursor = NoBlock THEN Bisect(seen, Earliest) ELSE cursor

LEMMA SearchBegins ==
    ASSUME ChainOK, PollsOK, NEW seen \in 0..finalized,
           ~(cursor = NoBlock /\ Time(seen) < Earliest)
    PROVE  Begins(seen) \in 0 .. finalized + 1 /\ CursorBefore(Begins(seen))
<1>1. height \in Nat /\ finalized \in 0..height /\ seen \in 0..height /\ seen \in Nat
  BY BlockTypes DEF ChainOK
<1>2. \A b \in 0..height : Time(b) \in Nat
  BY BlockTypes
<1>3. Earliest \in Nat
  BY EarliestType
<1>4. CASE cursor = NoBlock
  <2>1. Time(seen) >= Earliest
    BY <1>1, <1>2, <1>3, <1>4
  <2>2. /\ Bisect(seen, Earliest) \in 0..seen
        /\ \A b \in 0..seen : Time(b) >= Earliest => Bisect(seen, Earliest) <= b
    BY <1>1, <1>3, <2>1, BisectFinds
  <2>3. Begins(seen) = Bisect(seen, Earliest)
    BY <1>4 DEF Begins
  <2> HIDE DEF Begins
  <2>4. \A b \in 0..finalized : Time(b) >= Earliest => Begins(seen) <= b
    BY <1>1, <2>2, <2>3
  <2>5. \A b \in 0..finalized : InWindow(b) => Time(b) >= Earliest
    BY <1>1, <1>2, <1>3 DEF InWindow
  <2> QED BY <1>1, <2>2, <2>3, <2>4, <2>5 DEF CursorBefore
<1>5. CASE cursor # NoBlock
  BY <1>5 DEF Begins, PollsOK, Cursors
<1> QED BY <1>4, <1>5

(* The blocks a poll may stop at.                                          *)
StopsOf(seen, bad) ==
    {b \in Numbers : Begins(seen) <= b /\ b < Begins(seen) + BlocksPerPoll /\ Stops(seen, bad, b)}

LEMMA SearchIs ==
    ASSUME NEW seen, NEW bad
    PROVE  Search(seen, bad) =
             IF cursor = NoBlock /\ Time(seen) < Earliest THEN Unknown(NoBlock)
             ELSE IF StopsOf(seen, bad) = {} THEN Unknown(Begins(seen) + BlocksPerPoll)
             ELSE BlockOutcome(seen, bad, Min(StopsOf(seen, bad)))
  BY DEF Search, StopsOf, Begins

\* A poll that met nothing passed nothing.
LEMMA NothingPassed ==
    ASSUME ChainOK, PollsOK, NEW seen \in 0..finalized, NEW bad,
           ~(cursor = NoBlock /\ Time(seen) < Earliest), StopsOf(seen, bad) = {}
    PROVE  /\ Begins(seen) + BlocksPerPoll \in 0 .. finalized + 1
           /\ CursorBefore(Begins(seen) + BlocksPerPoll)
<1> DEFINE s == Begins(seen)
<1>1. s \in 0 .. finalized + 1 /\ CursorBefore(s)
  BY SearchBegins
<1>2. /\ height \in Nat /\ finalized \in 0..height /\ seen \in Nat /\ MaxHeight \in Nat
      /\ height <= MaxHeight /\ BlocksPerPoll \in Nat \ {0}
  BY BlockTypes, BoundsAssumption DEF ChainOK
<1>3. \A b \in Numbers : s <= b /\ b < s + BlocksPerPoll => ~Stops(seen, bad, b)
  BY DEF StopsOf
<1> HIDE DEF s
<1>4. s \in Numbers /\ seen + 1 \in Numbers
  BY <1>1, <1>2 DEF Numbers
<1>5. Stops(seen, bad, seen + 1) /\ (s > seen => Stops(seen, bad, s))
  BY <1>1, <1>2 DEF Stops
<1>6. s <= seen /\ s + BlocksPerPoll <= seen + 1
  BY <1>1, <1>2, <1>3, <1>4, <1>5
<1>7. s + BlocksPerPoll \in 0 .. finalized + 1
  BY <1>1, <1>2, <1>6
<1>8. ASSUME NEW b \in 0..finalized, InWindow(b) PROVE s + BlocksPerPoll <= b
  <2>1. s <= b
    BY <1>1, <1>8 DEF CursorBefore
  <2>2. b \in Numbers /\ Stops(seen, bad, b)
    BY <1>2, <1>8 DEF Numbers, Stops, InWindow
  <2> QED BY <1>1, <1>2, <1>3, <2>1, <2>2
<1>9. CursorBefore(s + BlocksPerPoll)
  BY <1>8 DEF CursorBefore
<1> QED BY <1>7, <1>9 DEF s

\* A poll that stopped, stopped at or before the answer.
LEMMA FirstStop ==
    ASSUME ChainOK, PollsOK, NEW seen \in 0..finalized, NEW bad,
           ~(cursor = NoBlock /\ Time(seen) < Earliest), StopsOf(seen, bad) # {},
           NEW m, m = Min(StopsOf(seen, bad))
    PROVE  /\ m \in 0 .. finalized + 1 /\ CursorBefore(m)
           /\ Stops(seen, bad, m)
<1> DEFINE s == Begins(seen)
<1>1. s \in 0 .. finalized + 1 /\ CursorBefore(s)
  BY SearchBegins
<1>2. /\ height \in Nat /\ finalized \in 0..height /\ seen \in Nat /\ MaxHeight \in Nat
      /\ height <= MaxHeight /\ BlocksPerPoll \in Nat \ {0}
  BY BlockTypes, BoundsAssumption DEF ChainOK
<1>3. StopsOf(seen, bad) \subseteq Nat
  BY <1>2 DEF StopsOf, Numbers
<1>4. m \in StopsOf(seen, bad) /\ \A b \in StopsOf(seen, bad) : m <= b
  BY <1>3, MinOfNaturals
<1>5. /\ m \in Numbers /\ s <= m /\ m < s + BlocksPerPoll /\ Stops(seen, bad, m)
      /\ \A b \in Numbers : s <= b /\ b < s + BlocksPerPoll /\ Stops(seen, bad, b) => m <= b
  BY <1>4 DEF StopsOf
<1> HIDE DEF s
<1>6. s \in Numbers /\ seen + 1 \in Numbers
  BY <1>1, <1>2 DEF Numbers
<1>7. Stops(seen, bad, seen + 1) /\ (s > seen => Stops(seen, bad, s))
  BY <1>1, <1>2 DEF Stops
<1>8. m \in 0 .. finalized + 1
  <2>1. m \in Nat
    BY <1>2, <1>5 DEF Numbers
  <2>2. CASE s > seen
    BY <1>1, <1>2, <1>5, <1>6, <1>7, <2>1, <2>2
  <2>3. CASE s <= seen
    BY <1>1, <1>2, <1>5, <1>6, <1>7, <2>1, <2>3
  <2> QED BY <1>1, <1>2, <2>2, <2>3
<1>9. ASSUME NEW b \in 0..finalized, InWindow(b) PROVE m <= b
  <2>1. s <= b
    BY <1>1, <1>9 DEF CursorBefore
  <2>2. b \in Numbers /\ Stops(seen, bad, b)
    BY <1>2, <1>9 DEF Numbers, Stops, InWindow
  <2> QED BY <1>1, <1>2, <1>5, <1>8, <2>1, <2>2
<1> QED BY <1>5, <1>8, <1>9 DEF CursorBefore

-----------------------------------------------------------------------------
(* What the finalized chain says, and that a poll's word is what it says.  *)
LEMMA FactIs == Fact \in {"open", "paid", "void"}
  BY DEF Fact

LEMMA PaidWhenTransferred ==
    ASSUME NEW b \in 0..finalized, Event(b) = "transfer"
    PROVE  Fact = "paid"
  BY DEF Fact

LEMMA VoidWhenCancelled ==
    ASSUME ChainOK, NEW b \in 0..finalized, Event(b) = "cancel"
    PROVE  Fact = "void"
<1>1. height \in Nat /\ finalized \in 0..height
  BY BlockTypes DEF ChainOK
<1>2. ASSUME NEW c \in 0..finalized, Event(c) = "transfer" PROVE FALSE
  <2>1. b \in 0..height /\ c \in 0..height
    BY <1>1
  <2>2. b = c
    BY <1>2, <2>1 DEF ChainOK, UsedOnce
  <2> QED BY <1>2, <2>2
<1>3. Used(finalized)
  BY DEF Used
<1> QED BY <1>2, <1>3 DEF Fact

LEMMA VoidWhenLate ==
    ASSUME ChainOK, NEW b \in 0..finalized, Time(b) >= ValidBefore,
           \A c \in 0..finalized : c < b => Event(c) = "nothing"
    PROVE  Fact = "void"
<1>1. height \in Nat /\ finalized \in 0..height /\ ValidBefore \in Nat
  BY BlockTypes, WindowAssumption DEF ChainOK
<1>2. \A c \in 0..finalized : c \in 0..height /\ Time(c) \in Nat
  BY <1>1, BlockTypes
<1>3. ASSUME NEW c \in 0..finalized, b <= c PROVE Time(c) >= ValidBefore
  <2>1. Time(b) + (c - b) <= Time(c)
    BY <1>2, <1>3 DEF ChainOK, Paced
  <2> QED BY <1>1, <1>2, <1>3, <2>1
<1>4. ASSUME NEW c \in 0..finalized, Event(c) = "transfer" PROVE FALSE
  <2>1. b <= c
    BY <1>1, <1>4
  <2>2. Time(c) < ValidBefore
    BY <1>2, <1>4 DEF ChainOK, Accepted, Accepts
  <2> QED BY <1>1, <1>2, <1>3, <2>1, <2>2
<1>5. Time(finalized) >= ValidBefore
  BY <1>1, <1>3
<1> QED BY <1>4, <1>5 DEF Fact

(* An outcome the attempt may be completed with, or wait with.             *)
Right(o) ==
    /\ o.settled \in {"unknown", "settled", "failed"}
    /\ o.next \in Cursors /\ CursorBefore(o.next)
    /\ o.settled = "settled" => Fact = "paid"
    /\ o.settled = "failed" => Fact = "void"

LEMMA NoBlockIsBefore == CursorBefore(NoBlock) /\ NoBlock \in Cursors
  BY DEF CursorBefore, NoBlock, Cursors

LEMMA UnknownIsRight ==
    ASSUME NEW c \in Cursors, CursorBefore(c)
    PROVE  Right(Unknown(c))
  BY DEF Right, Unknown

LEMMA SettledIsRight == Fact = "paid" => Right(Settled)
  BY NoBlockIsBefore DEF Right, Settled

LEMMA FailedIsRight == Fact = "void" => Right(Failed)
  BY NoBlockIsBefore DEF Right, Failed

LEMMA SearchIsRight ==
    ASSUME ChainOK, PollsOK, NEW seen \in 0..finalized, NEW bad
    PROVE  Right(Search(seen, bad))
<1>1. /\ height \in Nat /\ finalized \in 0..height /\ seen \in Nat /\ ValidBefore \in Nat
      /\ \A b \in 0..height : Time(b) \in Nat
  BY BlockTypes, WindowAssumption DEF ChainOK
<1>2. CASE cursor = NoBlock /\ Time(seen) < Earliest
  BY <1>2, SearchIs, NoBlockIsBefore, UnknownIsRight
<1>3. CASE ~(cursor = NoBlock /\ Time(seen) < Earliest) /\ StopsOf(seen, bad) = {}
  <2>1. /\ Begins(seen) + BlocksPerPoll \in Cursors
        /\ CursorBefore(Begins(seen) + BlocksPerPoll)
    BY <1>3, NothingPassed DEF Cursors
  <2>2. Search(seen, bad) = Unknown(Begins(seen) + BlocksPerPoll)
    BY <1>3, SearchIs
  <2> QED BY <2>1, <2>2, UnknownIsRight
<1>4. CASE ~(cursor = NoBlock /\ Time(seen) < Earliest) /\ StopsOf(seen, bad) # {}
  <2>1. PICK m : m = Min(StopsOf(seen, bad))
    OBVIOUS
  <2>2. m \in 0 .. finalized + 1 /\ CursorBefore(m) /\ Stops(seen, bad, m)
    BY <1>4, <2>1, FirstStop
  <2>3. Search(seen, bad) = BlockOutcome(seen, bad, m)
    BY <1>4, <2>1, SearchIs
  <2>4. Right(Unknown(m))
    BY <2>2, UnknownIsRight DEF Cursors
  <2>5. CASE m > seen \/ m = bad
    BY <2>3, <2>4, <2>5 DEF BlockOutcome
  <2>6. CASE ~(m > seen \/ m = bad) /\ Time(m) >= ValidBefore
    <3>1. m \in 0..finalized
      BY <1>1, <2>2, <2>6
    <3>2. CASE m > 0 /\ ~Used(m - 1)
      <4>1. \A c \in 0..finalized : c < m => c \in 0 .. m - 1
        BY <1>1, <3>1
      <4>2. \A c \in 0..finalized : c < m => Event(c) = "nothing"
        BY <3>2, <4>1 DEF Used
      <4>3. Fact = "void"
        BY <2>6, <3>1, <4>2, VoidWhenLate
      <4> QED BY <2>3, <2>6, <3>2, <4>3, FailedIsRight DEF BlockOutcome
    <3>3. CASE ~(m > 0 /\ ~Used(m - 1))
      BY <2>3, <2>4, <2>6, <3>3 DEF BlockOutcome
    <3> QED BY <3>2, <3>3
  <2>7. CASE ~(m > seen \/ m = bad) /\ ~(Time(m) >= ValidBefore)
    <3>1. m \in 0..finalized
      BY <1>1, <2>2, <2>7
    <3>2. Search(seen, bad) = Proof(m)
      BY <2>3, <2>7 DEF BlockOutcome
    <3>3. CASE Event(m) = "cancel"
      BY <3>1, <3>2, <3>3, VoidWhenCancelled, FailedIsRight DEF Proof
    <3>4. CASE Event(m) = "transfer"
      BY <2>4, <3>1, <3>2, <3>4, PaidWhenTransferred, SettledIsRight DEF Proof
    <3>5. CASE Event(m) # "cancel" /\ Event(m) # "transfer"
      BY <2>4, <3>2, <3>5 DEF Proof
    <3> QED BY <3>3, <3>4, <3>5
  <2> QED BY <2>5, <2>6, <2>7
<1> QED BY <1>2, <1>3, <1>4

LEMMA ReconcileIsRight ==
    ASSUME ChainOK, PollsOK, NEW seen \in 0..finalized, NEW bad, NEW heard
    PROVE  Right(Reconcile(seen, bad, heard))
<1>1. /\ height \in Nat /\ finalized \in 0..height /\ seen \in Nat
  BY BlockTypes DEF ChainOK
<1>2. CASE ~Used(seen) /\ Time(seen) >= ValidBefore
  <2>1. \A c \in 0..finalized : c < seen => c \in 0..seen
    BY <1>1
  <2>2. \A c \in 0..finalized : c < seen => Event(c) = "nothing"
    BY <1>2, <2>1 DEF Used
  <2>3. Fact = "void"
    BY <1>2, <2>2, VoidWhenLate
  <2> QED BY <1>2, <2>3, FailedIsRight DEF Reconcile
<1>3. CASE ~(~Used(seen) /\ Time(seen) >= ValidBefore) /\ heard /\ Hinted(seen) # {}
  <2>1. PICK b \in 0..seen : Event(b) = "transfer"
    BY <1>3 DEF Hinted
  <2>2. b \in 0..finalized
    BY <1>1
  <2> QED BY <1>3, <2>1, <2>2, PaidWhenTransferred, SettledIsRight DEF Reconcile
<1>4. CASE /\ ~(~Used(seen) /\ Time(seen) >= ValidBefore)
           /\ ~(heard /\ Hinted(seen) # {}) /\ ~Used(seen)
  BY <1>4, NoBlockIsBefore, UnknownIsRight DEF Reconcile
<1>5. CASE ~(heard /\ Hinted(seen) # {}) /\ Used(seen)
  BY <1>5, SearchIsRight DEF Reconcile
<1> QED BY <1>2, <1>3, <1>4, <1>5

-----------------------------------------------------------------------------
(* The chain's own steps.                                                  *)

\* The first n blocks stand as they are.
Stand(n) == \A b \in 0..n : Time(b)' = Time(b) /\ Event(b)' = Event(b)

LEMMA ExtendAdds ==
    ASSUME ChainOK, Extend, NEW h, h = height + 1
    PROVE  /\ height' = h /\ height' <= MaxHeight /\ Stand(height)
           /\ blocks' \in Seq([time : Nat, event : Events]) /\ Len(blocks') > 0
           /\ Time(h)' \in Nat /\ Time(h)' > Time(height)
           /\ Accepts(Event(h), Time(h))'
           /\ Event(h)' # "nothing" => ~Used(height)
<1>1. /\ height \in Nat /\ \A n \in 0..height : Time(n) \in Nat
      /\ height < MaxHeight /\ MaxHeight \in Nat /\ MaxGap \in Nat
  BY BlockTypes, BoundsAssumption DEF Extend
<1>2. PICK gap \in 1..MaxGap, event \in Events :
        /\ Accepts(event, Time(height) + gap)
        /\ event # "nothing" => ~Used(height)
        /\ blocks' = Append(blocks, [time |-> Time(height) + gap, event |-> event])
  BY DEF Extend
<1> DEFINE Block == [time : Nat, event : Events]
           new == [time |-> Time(height) + gap, event |-> event]
<1>3. new \in Block /\ new.time = Time(height) + gap /\ new.event = event
  BY <1>1, <1>2
<1>4. blocks \in Seq(Block) /\ Len(blocks) = height + 1 /\ Len(blocks) > 0
  BY <1>1 DEF ChainOK, height
<1> HIDE DEF new, Block
<1>5. blocks' = Append(blocks, new)
  BY <1>2 DEF new
<1>6. /\ blocks' \in Seq(Block) /\ Len(blocks') = Len(blocks) + 1
      /\ \A i \in 1..Len(blocks) : blocks'[i] = blocks[i]
      /\ blocks'[Len(blocks) + 1] = new
  BY <1>3, <1>4, <1>5
<1>7. height' = h /\ height' <= MaxHeight
  BY <1>1, <1>4, <1>6 DEF height
<1>8. ASSUME NEW b \in 0..height PROVE Time(b)' = Time(b) /\ Event(b)' = Event(b)
  <2>1. b + 1 \in 1..Len(blocks)
    BY <1>1, <1>4
  <2>2. blocks'[b + 1] = blocks[b + 1]
    BY <1>6, <2>1
  <2> QED BY <2>2 DEF Time, Event
<1>9. blocks'[h + 1] = new
  BY <1>4, <1>6
<1>10. Time(h)' = blocks'[h + 1].time /\ Event(h)' = blocks'[h + 1].event
  BY <1>7 DEF Time, Event
<1>11. Time(h)' = Time(height) + gap /\ Event(h)' = event
  BY <1>3, <1>9, <1>10
<1>12. Accepts(Event(h), Time(h))'
  BY <1>2, <1>11 DEF Accepts
<1>13. Time(h)' \in Nat /\ Time(h)' > Time(height)
  BY <1>1, <1>11
<1> QED BY <1>2, <1>4, <1>6, <1>7, <1>8, <1>11, <1>12, <1>13 DEF Stand, Block

LEMMA ExtendKeepsTheChain ==
    ASSUME ChainOK, Extend
    PROVE  ChainOK' /\ Stand(finalized) /\ finalized' = finalized
<1>1. PICK h : h = height + 1
  OBVIOUS
<1>2. /\ height' = h /\ height' <= MaxHeight /\ Stand(height)
      /\ blocks' \in Seq([time : Nat, event : Events]) /\ Len(blocks') > 0
      /\ Time(h)' \in Nat /\ Time(h)' > Time(height)
      /\ Accepts(Event(h), Time(h))'
      /\ Event(h)' # "nothing" => ~Used(height)
  BY <1>1, ExtendAdds
<1>3. height \in Nat /\ finalized \in 0..height /\ \A n \in 0..height : Time(n) \in Nat
  BY BlockTypes DEF ChainOK
<1>4. finalized' = finalized
  BY DEF Extend
<1>5. \A b \in 0..height : Time(b)' = Time(b) /\ Event(b)' = Event(b)
  BY <1>2 DEF Stand
<1>6. finalized' \in 0..height' /\ \A b \in 0..height' : b \in 0..height \/ b = h
  BY <1>1, <1>2, <1>3, <1>4
<1>7. Paced'
  <2> SUFFICES ASSUME NEW i \in 0..height', NEW j \in 0..height', i <= j
               PROVE  Time(i)' + (j - i) <= Time(j)'
    BY DEF Paced
  <2>1. CASE j \in 0..height
    <3>1. i \in 0..height
      BY <1>3, <2>1
    <3>2. Time(i) + (j - i) <= Time(j)
      BY <2>1, <3>1 DEF ChainOK, Paced
    <3> QED BY <1>5, <2>1, <3>1, <3>2
  <2>2. CASE j = h /\ i \in 0..height
    <3>1. Time(i) + (height - i) <= Time(height) /\ Time(i)' = Time(i)
      BY <1>3, <1>5, <2>2 DEF ChainOK, Paced
    <3>2. Time(i) \in Nat /\ Time(height) \in Nat /\ Time(j)' \in Nat /\ Time(j)' > Time(height)
      BY <1>2, <1>3, <2>2
    <3> QED BY <1>1, <1>3, <2>2, <3>1, <3>2
  <2>3. CASE j = h /\ i = h
    BY <1>1, <1>2, <1>3, <2>3
  <2> QED BY <1>6, <2>1, <2>2, <2>3
<1>8. Event(h)' # "nothing" => \A b \in 0..height : Event(b) = "nothing"
  BY <1>2 DEF Used
<1>9. UsedOnce'
  <2> SUFFICES ASSUME NEW i \in 0..height', NEW j \in 0..height',
                      Event(i)' # "nothing", Event(j)' # "nothing"
               PROVE  i = j
    BY DEF UsedOnce
  <2>1. CASE i \in 0..height /\ j \in 0..height
    BY <1>5, <2>1 DEF ChainOK, UsedOnce
  <2>2. CASE i = h \/ j = h
    BY <1>5, <1>6, <1>8, <2>2
  <2> QED BY <1>6, <2>1, <2>2
<1>10. Accepted'
  <2> SUFFICES ASSUME NEW b \in 0..height' PROVE Accepts(Event(b), Time(b))'
    BY DEF Accepted
  <2>1. CASE b \in 0..height
    BY <1>5, <2>1 DEF ChainOK, Accepted, Accepts
  <2>2. CASE b = h
    BY <1>2, <2>2
  <2> QED BY <1>6, <2>1, <2>2
<1>11. Stand(finalized)
  BY <1>3, <1>5 DEF Stand
<1> QED BY <1>2, <1>4, <1>6, <1>7, <1>9, <1>10, <1>11 DEF ChainOK

LEMMA ReorganizeKeepsTheChain ==
    ASSUME ChainOK, Reorganize
    PROVE  ChainOK' /\ Stand(finalized) /\ finalized' = finalized
<1>1. /\ height \in Nat /\ finalized \in 0..height /\ finalized \in Nat
      /\ MaxHeight \in Nat /\ height <= MaxHeight
  BY BlockTypes, BoundsAssumption DEF ChainOK
<1>2. finalized' = finalized
  BY DEF Reorganize
<1> DEFINE Block == [time : Nat, event : Events]
<1>3. blocks \in Seq(Block) /\ Len(blocks) = height + 1
  BY <1>1 DEF ChainOK, height
<1> HIDE DEF Block
<1>4. /\ blocks' \in Seq(Block) /\ Len(blocks') = finalized + 1
      /\ \A i \in 1 .. finalized + 1 : blocks'[i] = blocks[i]
  <2>1. blocks' = SubSeq(blocks, 1, finalized + 1)
    BY DEF Reorganize
  <2>2. finalized + 1 \in 1..Len(blocks)
    BY <1>1, <1>3
  <2> QED BY <1>3, <2>1, <2>2
<1>5. height' = finalized /\ height' <= MaxHeight /\ Len(blocks') > 0
  BY <1>1, <1>4 DEF height
<1>6. ASSUME NEW b \in 0..finalized PROVE Time(b)' = Time(b) /\ Event(b)' = Event(b)
  <2>1. b + 1 \in 1 .. finalized + 1
    BY <1>1
  <2>2. blocks'[b + 1] = blocks[b + 1]
    BY <1>4, <2>1
  <2> QED BY <2>2 DEF Time, Event
<1>7. \A b \in 0..finalized : b \in 0..height
  BY <1>1
<1>8. Paced' /\ UsedOnce'
  BY <1>5, <1>6, <1>7 DEF ChainOK, Paced, UsedOnce
<1>9. Accepted'
  BY <1>5, <1>6, <1>7 DEF ChainOK, Accepted, Accepts
<1>10. finalized' \in 0..height'
  BY <1>1, <1>2, <1>5
<1> QED BY <1>2, <1>4, <1>5, <1>6, <1>8, <1>9, <1>10 DEF ChainOK, Stand, Block

LEMMA SameChain ==
    ASSUME ChainOK, UNCHANGED blocks, finalized' \in finalized..height
    PROVE  ChainOK' /\ \A n : Time(n)' = Time(n) /\ Event(n)' = Event(n)
<1>1. height' = height /\ \A n : Time(n)' = Time(n) /\ Event(n)' = Event(n)
  BY DEF height, Time, Event
<1>2. finalized' \in 0..height' /\ height' <= MaxHeight
  BY <1>1, BlockTypes DEF ChainOK
<1>3. Paced' /\ UsedOnce' /\ Accepted'
  BY <1>1 DEF ChainOK, Paced, UsedOnce, Accepted, Accepts
<1> QED BY <1>1, <1>2, <1>3 DEF ChainOK

(* While the finalized blocks stand, so does what they say.                *)
LEMMA FactStands ==
    ASSUME ChainOK, Stand(finalized), finalized' = finalized
    PROVE  Fact' = Fact /\ \A c : CursorBefore(c)' = CursorBefore(c)
<1>1. finalized \in Nat /\ \A b \in 0..finalized : Time(b)' = Time(b) /\ Event(b)' = Event(b)
  BY BlockTypes DEF Stand
<1>2. Used(finalized)' = Used(finalized) /\ Time(finalized)' = Time(finalized)
  BY <1>1 DEF Used
<1>3. Fact' = Fact
  BY <1>1, <1>2 DEF Fact
<1>4. \A c : CursorBefore(c)' = CursorBefore(c)
  BY <1>1 DEF CursorBefore, InWindow, Earliest
<1> QED BY <1>3, <1>4

LEMMA FinalizeKeeps ==
    ASSUME ChainIInv, Finalize
    PROVE  /\ ChainOK' /\ cursor' \in Cursors' /\ CursorBefore(cursor)'
           /\ Fact # "open" => Fact' = Fact
<1>1. /\ height \in Nat /\ finalized \in 0..height /\ finalized \in Nat /\ ValidBefore \in Nat
      /\ \A b \in 0..height : Time(b) \in Nat
  BY BlockTypes, WindowAssumption DEF ChainIInv, ChainOK
<1>2. /\ UNCHANGED <<blocks, cursor>> /\ finalized' \in (finalized + 1) .. height
      /\ finalized' \in finalized..height
  BY <1>1 DEF Finalize
<1>3. ChainOK' /\ \A n : Time(n)' = Time(n) /\ Event(n)' = Event(n)
  BY <1>2, SameChain DEF ChainIInv
<1>4. cursor \in {NoBlock} \cup (0 .. finalized + 1) /\ CursorBefore(cursor)
  BY DEF ChainIInv, PollsOK, Cursors
<1>5. cursor' \in Cursors'
  BY <1>1, <1>2, <1>4 DEF Cursors
<1>6. CursorBefore(cursor)'
  <2> SUFFICES ASSUME NEW b \in 0..finalized', InWindow(b)' PROVE cursor <= b
    BY <1>2 DEF CursorBefore
  <2>1. InWindow(b)
    BY <1>3 DEF InWindow, Earliest
  <2>2. CASE b \in 0..finalized
    BY <1>4, <2>1, <2>2 DEF CursorBefore
  <2>3. CASE b > finalized
    BY <1>1, <1>2, <1>4, <2>3 DEF NoBlock
  <2> QED BY <1>1, <1>2, <2>2, <2>3
<1>7. Fact # "open" => Fact' = Fact
  <2>1. \A b \in 0..finalized : b \in 0..finalized'
    BY <1>1, <1>2
  <2>2. CASE Fact = "paid"
    <3>1. PICK b \in 0..finalized : Event(b) = "transfer"
      BY <2>2 DEF Fact
    <3>2. \E c \in 0..finalized' : Event(c)' = "transfer"
      BY <1>3, <2>1, <3>1
    <3> QED BY <2>2, <3>2 DEF Fact
  <2>3. CASE Fact = "void" /\ Used(finalized)
    <3>1. PICK b \in 0..finalized : Event(b) # "nothing"
      BY <2>3 DEF Used
    <3>2. Event(b) # "transfer"
      BY <2>3 DEF Fact
    <3>3. b \in 0..finalized' /\ Event(b)' # "nothing" /\ Event(b)' # "transfer"
      BY <1>3, <2>1, <3>1, <3>2
    <3>4. \A c \in 0..finalized' : Event(c)' # "transfer"
      <4> SUFFICES ASSUME NEW c \in 0..finalized', Event(c)' = "transfer" PROVE FALSE
        OBVIOUS
      <4>1. b \in 0..height /\ c \in 0..height
        BY <1>1, <1>2
      <4>2. b = c
        BY <1>3, <3>1, <4>1 DEF ChainIInv, ChainOK, UsedOnce
      <4> QED BY <3>3, <4>2
    <3>5. Used(finalized)'
      BY <3>3 DEF Used
    <3> QED BY <2>3, <3>4, <3>5 DEF Fact
  <2>4. CASE Fact = "void" /\ ~Used(finalized)
    <3>1. Time(finalized) >= ValidBefore
      BY <2>4 DEF Fact
    <3>2. ASSUME NEW c \in 0..finalized', Event(c)' = "transfer" PROVE FALSE
      <4>1. c \in 0..height /\ Event(c) = "transfer"
        BY <1>1, <1>2, <1>3, <3>2
      <4>2. Time(c) < ValidBefore
        BY <4>1 DEF ChainIInv, ChainOK, Accepted, Accepts
      <4>3. ~(c <= finalized)
        BY <1>1, <2>4, <4>1 DEF Used
      <4>4. Time(finalized) + (c - finalized) <= Time(c)
        BY <1>1, <4>1, <4>3 DEF ChainIInv, ChainOK, Paced
      <4> QED BY <1>1, <3>1, <4>1, <4>2, <4>3, <4>4
    <3>3. Time(finalized)' >= ValidBefore
      <4>1. PICK f : f = finalized'
        OBVIOUS
      <4>2. f \in 0..height /\ finalized <= f
        BY <1>1, <1>2, <4>1
      <4>3. Time(finalized) + (f - finalized) <= Time(f)
        BY <1>1, <4>2 DEF ChainIInv, ChainOK, Paced
      <4>4. Time(f) >= ValidBefore
        BY <1>1, <3>1, <4>2, <4>3
      <4>5. Time(finalized)' = Time(f)
        BY <1>2, <4>1 DEF Time
      <4> QED BY <4>4, <4>5
    <3> QED BY <2>4, <3>2, <3>3 DEF Fact
  <2> QED BY <2>2, <2>3, <2>4, FactIs
<1> QED BY <1>3, <1>5, <1>6, <1>7

-----------------------------------------------------------------------------
LEMMA InitChain == ChainInit => ChainIInv
<1> SUFFICES ASSUME ChainInit PROVE ChainIInv
  OBVIOUS
<1>1. blocks = <<[time |-> 0, event |-> "nothing"]>> /\ finalized = 0 /\ cursor = NoBlock
  BY DEF ChainInit
<1>2. /\ Len(blocks) = 1 /\ blocks[1] = [time |-> 0, event |-> "nothing"] /\ height = 0
      /\ blocks \in Seq([time : Nat, event : Events])
  BY <1>1 DEF height, Events
<1>3. Time(0) = 0 /\ Event(0) = "nothing"
  BY <1>2 DEF Time, Event
<1>4. 0..height = {0} /\ height <= MaxHeight
  BY <1>2, BoundsAssumption
<1>5. Paced /\ UsedOnce /\ Accepted
  BY <1>2, <1>3, <1>4 DEF Paced, UsedOnce, Accepted, Accepts
<1>6. ChainOK
  BY <1>1, <1>2, <1>4, <1>5 DEF ChainOK
<1>7. PollsOK
  BY <1>1, NoBlockIsBefore DEF PollsOK, ChainInit
<1> QED BY <1>6, <1>7 DEF ChainIInv

(* A poll: its word is what the finalized chain says.                      *)
LEMMA PollKeeps ==
    ASSUME ChainIInv, NEW seen \in 0..finalized, NEW bad, NEW heard, Poll(seen, bad, heard)
    PROVE  /\ ChainIInv' /\ Fact' = Fact /\ verdict = "unknown"
           /\ verdict' = "settled" => Fact = "paid"
           /\ verdict' = "failed" => Fact = "void"
<1>1. PICK o : /\ o = Reconcile(seen, bad, heard)
               /\ verdict' = o.settled /\ cursor' = Progressed(o.next)
  BY DEF Poll
<1>2. Right(o)
  BY <1>1, ReconcileIsRight DEF ChainIInv
<1>3. UNCHANGED <<blocks, finalized, hint>> /\ verdict = "unknown"
  BY DEF Poll
<1>4. height \in Nat /\ finalized \in finalized..height
  BY BlockTypes DEF ChainIInv, ChainOK
<1>5. ChainOK' /\ \A n : Time(n)' = Time(n) /\ Event(n)' = Event(n)
  BY <1>3, <1>4, SameChain DEF ChainIInv
<1>6. Fact' = Fact /\ \A c : CursorBefore(c)' = CursorBefore(c)
  BY <1>3, <1>5, FactStands DEF Stand, ChainIInv
<1>7. Progressed(o.next) \in {o.next, cursor}
  BY DEF Progressed
<1>8. cursor' \in Cursors /\ CursorBefore(Progressed(o.next))
  BY <1>1, <1>2, <1>7 DEF Right, ChainIInv, PollsOK
<1>9. PICK c : c = Progressed(o.next)
  OBVIOUS
<1>10. CursorBefore(c)'
  BY <1>6, <1>8, <1>9
<1>11. CursorBefore(cursor)'
  BY <1>1, <1>9, <1>10 DEF CursorBefore
<1>12. PollsOK'
  BY <1>1, <1>2, <1>3, <1>8, <1>11 DEF PollsOK, Right, Cursors, ChainIInv
<1> QED BY <1>1, <1>2, <1>3, <1>5, <1>6, <1>12 DEF Right, ChainIInv

(* Every step keeps the invariant, and is a step of SettlementVerdict.     *)
Tells ==
    \/ Fact' = Fact /\ verdict' = verdict
    \/ Fact = "open" /\ Fact' \in {"paid", "void"} /\ verdict' = verdict
    \/ /\ Fact # "open" /\ verdict = "unknown" /\ Fact' = Fact
       /\ verdict' = IF Fact = "paid" THEN "settled" ELSE "failed"

LEMMA NextChain == ChainIInv /\ [ChainNext]_chainVars => ChainIInv' /\ Tells
<1> SUFFICES ASSUME ChainIInv, [ChainNext]_chainVars PROVE ChainIInv' /\ Tells
  OBVIOUS
<1>1. ASSUME finalized' = finalized, Stand(finalized), ChainOK', UNCHANGED <<hint, cursor, verdict>>
      PROVE  ChainIInv' /\ Tells
  <2>1. Fact' = Fact /\ \A c : CursorBefore(c)' = CursorBefore(c)
    BY <1>1, FactStands DEF ChainIInv
  <2>2. PICK c : c = cursor
    OBVIOUS
  <2>3. CursorBefore(c)'
    BY <2>1, <2>2 DEF ChainIInv, PollsOK
  <2>4. CursorBefore(cursor)'
    BY <1>1, <2>2, <2>3 DEF CursorBefore
  <2>5. PollsOK'
    BY <1>1, <2>4 DEF ChainIInv, PollsOK, Cursors
  <2> QED BY <1>1, <2>1, <2>5 DEF ChainIInv, Tells
<1>2. CASE Extend
  BY <1>1, <1>2, ExtendKeepsTheChain DEF ChainIInv, Extend
<1>3. CASE Reorganize
  BY <1>1, <1>3, ReorganizeKeepsTheChain DEF ChainIInv, Reorganize
<1>4. CASE Finalize
  <2>1. /\ ChainOK' /\ cursor' \in Cursors' /\ CursorBefore(cursor)'
        /\ Fact # "open" => Fact' = Fact
    BY <1>4, FinalizeKeeps
  <2>2. UNCHANGED <<hint, verdict>>
    BY <1>4 DEF Finalize
  <2>3. PollsOK'
    BY <2>1, <2>2 DEF ChainIInv, PollsOK
  <2>4. Fact' \in {"open", "paid", "void"}
    BY DEF Fact
  <2>5. Tells
    BY <2>1, <2>2, <2>4 DEF Tells
  <2> QED BY <2>1, <2>3, <2>5 DEF ChainIInv
<1>5. CASE PollBadly
  <2>1. PICK seen \in 0..finalized, bad \in {NoBlock} \cup (0..finalized), heard \in BOOLEAN :
          Poll(seen, bad, heard)
    BY <1>5 DEF PollBadly
  <2>2. /\ ChainIInv' /\ Fact' = Fact /\ verdict = "unknown"
        /\ verdict' = "settled" => Fact = "paid"
        /\ verdict' = "failed" => Fact = "void"
    BY <2>1, PollKeeps
  <2>3. verdict' \in {"unknown", "settled", "failed"}
    BY <2>2 DEF ChainIInv, PollsOK
  <2> QED BY <2>2, <2>3 DEF Tells
<1>6. CASE UNCHANGED chainVars
  <2>1. UNCHANGED <<blocks, finalized, hint, cursor, verdict>>
    BY <1>6 DEF chainVars
  <2>2. height \in Nat /\ finalized' \in finalized..height
    BY <2>1, BlockTypes DEF ChainIInv, ChainOK
  <2>3. ChainOK' /\ Stand(finalized)
    BY <2>1, <2>2, SameChain DEF ChainIInv, Stand
  <2> QED BY <1>1, <2>1, <2>3
<1> QED BY <1>2, <1>3, <1>4, <1>5, <1>6 DEF ChainNext

(* The inductive invariant of the search holds in every state: the chain   *)
(* is paced, used once and where the token allows, and the cursor is at or *)
(* before the use (Eip3009Recovery, completePaymentAttempt).               *)
THEOREM ChainInvariant == ChainSpec => []ChainIInv
<1>1. ChainIInv /\ [ChainNext]_chainVars => ChainIInv'
  BY NextChain
<1> QED BY InitChain, <1>1, PTL DEF ChainSpec

(* The bisection of firstBlockAt finds the first block of the window, and  *)
(* the saved cursor never passes the block that used the authorization,    *)
(* for any chain, lag, failed read and reorganisation.                     *)
THEOREM SearchPassesOverNothing == ChainSpec => []CursorNotPastTheUse
<1>1. ChainIInv => CursorNotPastTheUse
  <2> SUFFICES ASSUME ChainIInv PROVE CursorNotPastTheUse
    OBVIOUS
  <2>1. /\ height \in Nat /\ finalized \in 0..height /\ Earliest \in Nat
        /\ \A b \in 0..height : Time(b) \in Nat
    BY BlockTypes, EarliestType DEF ChainIInv, ChainOK
  <2>2. ChainTypeOK
    <3>1. blocks # <<>>
      BY DEF ChainIInv, ChainOK
    <3>2. cursor \in {NoBlock} \cup (0 .. height + 1)
      BY <2>1 DEF ChainIInv, PollsOK, Cursors
    <3> QED BY <3>1, <3>2 DEF ChainIInv, ChainOK, PollsOK, ChainTypeOK
  <2>3. ASSUME NEW seen \in 0..finalized, Time(seen) >= Earliest
        PROVE  Bisect(seen, Earliest) = Min({b \in 0..seen : Time(b) >= Earliest})
    <3> DEFINE S == {b \in 0..seen : Time(b) >= Earliest}
    <3>1. PICK f : f = Bisect(seen, Earliest)
      OBVIOUS
    <3>2. seen \in 0..height /\ seen \in Nat
      BY <2>1
    <3>3. f \in S /\ \A b \in S : f <= b
      BY <2>1, <2>3, <3>1, <3>2, BisectFinds DEF ChainIInv
    <3>4. S \subseteq Nat /\ S # {}
      BY <3>2, <3>3
    <3>5. Min(S) = f
      <4> HIDE DEF S
      <4> QED BY <3>3, <3>4, LeastIsMin
    <3> QED BY <3>1, <3>5
  <2>4. ASSUME NEW b \in 0..finalized,
               Event(b) # "nothing" /\ Earliest <= Time(b) /\ Time(b) < ValidBefore
        PROVE  cursor <= b
    BY <2>4 DEF ChainIInv, PollsOK, CursorBefore, InWindow
  <2> QED BY <2>2, <2>3, <2>4 DEF CursorNotPastTheUse
<1> QED BY <1>1, ChainInvariant, PTL

(* The search implements SettlementVerdict, but for its fairness: the      *)
(* attempt is completed once, after the finalized chain decided and with   *)
(* what it decided (reconcile, blockOutcome, proof, hinted).               *)
THEOREM SearchImplementsTheVerdict == ChainSpec => Verdict!SafeSpec
<1>1. ChainInit => Verdict!Init
  <2> SUFFICES ASSUME ChainInit PROVE Fact = "open" /\ verdict = "unknown"
    BY DEF Verdict!Init
  <2>1. blocks = <<[time |-> 0, event |-> "nothing"]>> /\ finalized = 0 /\ verdict = "unknown"
    BY DEF ChainInit
  <2>2. Time(0) = 0 /\ Event(0) = "nothing" /\ 0..0 = {0}
    BY <2>1 DEF Time, Event
  <2>3. ~Used(finalized) /\ ~(Time(finalized) >= ValidBefore)
    BY <2>1, <2>2, WindowAssumption DEF Used
  <2> QED BY <2>1, <2>2, <2>3 DEF Fact
<1>2. Tells => [Verdict!Next]_(Verdict!vars)
  BY DEF Tells, Verdict!Next, Verdict!vars, Verdict!Decide, Verdict!Tell, Verdict!WordFor
<1>3. ChainIInv /\ [ChainNext]_chainVars => [Verdict!Next]_(Verdict!vars)
  BY <1>2, NextChain
<1> QED BY <1>1, <1>3, ChainInvariant, PTL DEF ChainSpec, Verdict!SafeSpec
=============================================================================
