----------------------- MODULE MCBrowserObservations -----------------------
(* BrowserObservations for TLC: the workers may be exchanged.              *)
EXTENDS BrowserObservations, TLC

WorkerSymmetry == Permutations(Workers)
=============================================================================
