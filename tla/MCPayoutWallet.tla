--------------------------- MODULE MCPayoutWallet ---------------------------
(* PayoutWallet for TLC: a wallet is told from another only by being one.  *)
EXTENDS PayoutWallet, TLC
Symmetry == Permutations(Wallets) \cup Permutations(Sessions)
=============================================================================
