------------------------------ MODULE MCParks ------------------------------
(* Parks for TLC: the calls of one wallet are alike.                       *)
EXTENDS Parks, TLC
CallSymmetry == Permutations(Calls)
=============================================================================
