----------------------------- MODULE MCWooLedger -----------------------------
(* Instances of WooLedger: hand-overs are interchangeable, and so are presses. *)
EXTENDS WooLedger, TLC

Symmetry == Permutations(HandOvers) \cup Permutations(Presses)
=============================================================================
