----------------------------- MODULE MCScanJobs -----------------------------
(* ScanJobs for TLC: three checks, one written after each of the runner's  *)
(* rounds of requests, so that a report can hold one of each attempt.      *)
EXTENDS ScanJobs
=============================================================================
