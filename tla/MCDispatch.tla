---------------------------- MODULE MCDispatch ----------------------------
(* Dispatch for TLC: two polls, so that one draws what the other returns.  *)
EXTENDS Dispatch
=============================================================================
