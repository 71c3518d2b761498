----------------------------- MODULE ChainSearch -----------------------------
(***************************************************************************)
(* The recovery of a charge nobody answered for: Eip3009Recovery           *)
(* (src/apps/gateway/src/adapters/x402/recovery.ts) reads the chain a few  *)
(* blocks at a time, and the runner keeps its cursor and its verdict       *)
(* (#reconcileOne, completePaymentAttempt).                                *)
(*                                                                         *)
(* One authorization and the chain it may be used on.  A block is its time *)
(* and what it does with the authorization.  The finalized prefix never    *)
(* changes, the rest may be reorganised.  A poll reads only the finalized  *)
(* prefix its endpoint knows of, which may lag, so it is one action.       *)
(***************************************************************************)
EXTENDS Integers, Sequences, FiniteSetsExt

CONSTANTS
    ValidAfter, ValidBefore,   \* the signed window, both ends excluded
    NotBefore,                 \* when it was checked unused, less the clocks' skew
    BlocksPerPoll,             \* BLOCKS_PER_POLL
    MaxHeight,                 \* bound: the last block's number
    MaxGap                     \* bound: seconds between two blocks

ASSUME WindowAssumption ==
    /\ ValidAfter \in Nat /\ ValidBefore \in Nat /\ NotBefore \in Nat
    /\ 0 < ValidBefore /\ ValidAfter < ValidBefore
ASSUME BoundsAssumption ==
    BlocksPerPoll \in Nat \ {0} /\ MaxHeight \in Nat /\ MaxGap \in Nat \ {0}

VARIABLES
    blocks,      \* the chain; block n is blocks[n + 1]
    finalized,   \* the number of the last finalized block
    hint,        \* attempt.transaction: a hash of the transfer, of something else, or none
    cursor,      \* attempt.nextBlock
    verdict      \* attempt.completion: settled, failed or still unknown

chainVars == <<blocks, finalized, hint, cursor, verdict>>

NoBlock == -1
Events == {"nothing", "transfer", "cancel"}

height == Len(blocks) - 1
Time(n) == blocks[n + 1].time
Event(n) == blocks[n + 1].event

(* authorizationState(context, n): the token's word at block n.            *)
Used(n) == \E b \in 0..n : Event(b) # "nothing"

ChainTypeOK ==
    /\ blocks \in Seq([time : Nat, event : Events]) /\ blocks # <<>>
    /\ finalized \in 0..height
    /\ hint \in {"none", "transfer", "other"}
    /\ cursor \in {NoBlock} \cup (0 .. height + 1)
    /\ verdict \in {"unknown", "settled", "failed"}

ChainInit ==
    /\ blocks = <<[time |-> 0, event |-> "nothing"]>>
    /\ finalized = 0
    /\ hint \in {"none", "transfer", "other"}
    /\ cursor = NoBlock
    /\ verdict = "unknown"

-----------------------------------------------------------------------------
(* The chain.  A transfer is refused outside the signed window, a          *)
(* cancellation is not, and a nonce is used once.  The facilitator's check *)
(* refused a used one, so neither comes before NotBefore.                  *)
Accepts(event, time) ==
    \/ event = "nothing"
    \/ event = "transfer" /\ NotBefore <= time /\ ValidAfter < time /\ time < ValidBefore
    \/ event = "cancel" /\ NotBefore <= time

Extend ==
    /\ height < MaxHeight
    /\ \E gap \in 1..MaxGap, event \in Events :
        /\ Accepts(event, Time(height) + gap)
        /\ event # "nothing" => ~Used(height)
        /\ blocks' = Append(blocks, [time |-> Time(height) + gap, event |-> event])
    /\ UNCHANGED <<finalized, hint, cursor, verdict>>

Finalize ==
    /\ finalized < height
    /\ finalized' \in (finalized + 1) .. height
    /\ UNCHANGED <<blocks, hint, cursor, verdict>>

Reorganize ==
    /\ finalized < height
    /\ blocks' = SubSeq(blocks, 1, finalized + 1)
    /\ UNCHANGED <<finalized, hint, cursor, verdict>>

-----------------------------------------------------------------------------
(* What a poll answers.                                                    *)
Unknown(next) == [settled |-> "unknown", next |-> next]
Settled == [settled |-> "settled", next |-> NoBlock]
Failed == [settled |-> "failed", next |-> NoBlock]

Earliest == Max({NotBefore, ValidAfter + 1})

(* firstBlockAt: the bisection, and where it starts.                       *)
Lowest(seen, time) == Max({0, seen - (Time(seen) - time)})

Bisect(seen, time) ==
    LET between[span \in (0 .. seen + 1) \X (0..seen)] ==
            LET low == span[1]
                high == span[2]
                middle == (low + high) \div 2
            IN  IF low >= high THEN low
                ELSE IF Time(middle) >= time THEN between[<<low, middle>>]
                ELSE between[<<middle + 1, high>>]
    IN  between[<<Lowest(seen, time), seen>>]

(* proof: the verdict of the receipt in block b, if it carries one.        *)
Proof(b) ==
    IF Event(b) = "cancel" THEN Failed
    ELSE IF Event(b) = "transfer" /\ ValidAfter < Time(b) /\ Time(b) < ValidBefore THEN Settled
    ELSE Unknown(b)

(* hinted: the named transaction, once its block is finalized.             *)
\* Mutant: the receipt is taken from any block.
HintedAtTheHead(seen) == {b \in 0..height : hint = "transfer" /\ Event(b) = "transfer"}
Hinted(seen) == {b \in 0..seen : hint = "transfer" /\ Event(b) = "transfer"}

(* blockOutcome: whether block b ends the search, and with what.  The      *)
(* receipts of block bad are not to be had, or not complete.               *)
Stops(seen, bad, b) ==
    b > seen \/ b = bad \/ Time(b) >= ValidBefore \/ Event(b) # "nothing"

\* Mutant: a block that could not be read is passed over.
BlockOutcomeSkips(seen, bad, b) ==
    IF b > seen THEN Unknown(b)
    ELSE IF b = bad THEN Unknown(b + 1)
    ELSE IF Time(b) >= ValidBefore
         THEN IF b > 0 /\ ~Used(b - 1) THEN Failed ELSE Unknown(b)
    ELSE Proof(b)
BlockOutcome(seen, bad, b) ==
    IF b > seen \/ b = bad THEN Unknown(b)
    ELSE IF Time(b) >= ValidBefore
         THEN IF b > 0 /\ ~Used(b - 1) THEN Failed ELSE Unknown(b)
    ELSE Proof(b)

Numbers == 0 .. (MaxHeight + 1)

Search(seen, bad) ==
    LET start == IF cursor = NoBlock THEN Bisect(seen, Earliest) ELSE cursor
        stops == {b \in Numbers : start <= b /\ b < start + BlocksPerPoll /\ Stops(seen, bad, b)}
    IN  IF cursor = NoBlock /\ Time(seen) < Earliest THEN Unknown(NoBlock)
        ELSE IF stops = {} THEN Unknown(start + BlocksPerPoll)
        ELSE BlockOutcome(seen, bad, Min(stops))

(* reconcile: heard says whether the named transaction could be read.      *)
Reconcile(seen, bad, heard) ==
    IF ~Used(seen) /\ Time(seen) >= ValidBefore THEN Failed
    ELSE IF heard /\ Hinted(seen) # {} THEN Settled
    ELSE IF ~Used(seen) THEN Unknown(NoBlock)
    ELSE Search(seen, bad)

(* completePaymentAttempt: an unknown outcome moves the cursor forward.    *)
Progressed(next) == IF next > cursor THEN next ELSE cursor

(* #reconcileOne, for an attempt without a completion.                     *)
Poll(seen, bad, heard) ==
    /\ verdict = "unknown"
    /\ \E outcome \in {Reconcile(seen, bad, heard)} :
        /\ verdict' = outcome.settled
        /\ cursor' = Progressed(outcome.next)
    /\ UNCHANGED <<blocks, finalized, hint>>

(* A poll through an endpoint that lags, or whose reads fail somewhere.    *)
PollBadly ==
    \E seen \in 0..finalized, bad \in {NoBlock} \cup (0..finalized), heard \in BOOLEAN :
        Poll(seen, bad, heard)
PollWell == Poll(finalized, NoBlock, TRUE)

ChainNext == Extend \/ Finalize \/ Reorganize \/ PollBadly

ChainSpec == ChainInit /\ [][ChainNext]_chainVars

(* The chain grows and finalizes, and the minutely recovery goes on: in    *)
(* the end an endpoint that is up to date answers all it is asked.         *)
ChainLiveSpec ==
    ChainSpec /\ WF_chainVars(Extend) /\ SF_chainVars(Finalize) /\ WF_chainVars(PollWell)

-----------------------------------------------------------------------------
(* The search passes over nothing.  It starts right: the bisection of      *)
(* firstBlockAt, with the lower end it starts from, finds the first block  *)
(* of the window on whatever finalized block it is asked.  And the saved   *)
(* cursor never passes the block that answers: reads that fail, endpoints  *)
(* that lag and reorganisations leave the use ahead of it.                 *)
CursorNotPastTheUse ==
    /\ ChainTypeOK
    /\ \A seen \in 0..finalized :
         Time(seen) >= Earliest =>
            Bisect(seen, Earliest) = Min({b \in 0..seen : Time(b) >= Earliest})
    /\ \A b \in 0..finalized :
         (Event(b) # "nothing" /\ Earliest <= Time(b) /\ Time(b) < ValidBefore) => cursor <= b

(* What the chain has made final of the authorization.                     *)
Fact ==
    IF \E b \in 0..finalized : Event(b) = "transfer" THEN "paid"
    ELSE IF Used(finalized) \/ Time(finalized) >= ValidBefore THEN "void"
    ELSE "open"

Verdict == INSTANCE SettlementVerdict WITH truth <- Fact, word <- verdict

(* The search implements SettlementVerdict: the attempt is completed with  *)
(* what the finalized chain decided, after it decided and once, so that no *)
(* reorganisation makes the word false; and it is completed, because the   *)
(* polls go on from where the last one stopped until they reach the block  *)
(* that answers.                                                           *)
VerdictIsReached == Verdict!Spec
=============================================================================
