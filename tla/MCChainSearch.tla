--------------------------- MODULE MCChainSearch ---------------------------
(* A window of more blocks than two polls read.                            *)
EXTENDS ChainSearch
=============================================================================
