------------------------- MODULE SettlementVerdict -------------------------
(***************************************************************************)
(* What the recovery of an unanswered charge promises the order: the chain *)
(* decides once whether the payment was made, and the attempt is completed *)
(* with that word and with no other, once, and not for ever left open.     *)
(*                                                                         *)
(* PaymentRecoveryOutcome of src/apps/gateway/src/ports/facilitator.ts is  *)
(* the interface; ChainSearch is shown to implement this.                  *)
(***************************************************************************)
VARIABLES
    truth,   \* what the chain has made final of the authorization
    word     \* what the attempt was completed with

vars == <<truth, word>>

WordFor(fact) == IF fact = "paid" THEN "settled" ELSE "failed"

Init == truth = "open" /\ word = "unknown"

Decide ==
    /\ truth = "open"
    /\ truth' \in {"paid", "void"}
    /\ UNCHANGED word

Tell ==
    /\ truth # "open" /\ word = "unknown"
    /\ word' = WordFor(truth)
    /\ UNCHANGED truth

Next == Decide \/ Tell

SafeSpec == Init /\ [][Next]_vars
Spec == SafeSpec /\ WF_vars(Tell)
=============================================================================
