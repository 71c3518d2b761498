----------------------------- MODULE MCCharging -----------------------------
(* Charging for TLC.  Payment n's authorization outlives the order's wait  *)
(* for its charge, as the deployment's does.                               *)
EXTENDS Charging
=============================================================================
