----------------------------- MODULE MCMerchant -----------------------------
(* What the gateway keeps for one merchant: its line at a gate, in memory, *)
(* and its payout wallet, in its row.  The two share no variable and no    *)
(* step, so a behaviour moves one of them and leaves the other as it began.*)
(* Six callers: two act for one payer, two for another, two for nobody;    *)
(* two places, and a line long enough for a waiter to be passed.  A wallet *)
(* is told from another only by being one.                                 *)
EXTENDS MerchantGate, PayoutWallet, TLC

CONSTANTS c1, c2, c3, c4, alice, bob

MCPayerOf == [c \in Callers |-> CASE c \in {c1, c2} -> alice
                                  [] c \in {c3, c4} -> bob
                                  [] OTHER -> NoPayer]

MerchantInit == GateInit /\ WalletInit

MerchantNext ==
    \/ WalletInit /\ GateNext /\ UNCHANGED walletVars
    \/ GateInit /\ WalletNext /\ UNCHANGED gateVars

MerchantSpec == MerchantInit /\ [][MerchantNext]_<<gateVars, walletVars>>

Symmetry == Permutations(Wallets) \cup Permutations(Sessions)
=============================================================================
