------------------------------ MODULE ScanJobs ------------------------------
(***************************************************************************)
(* One scan on its way from the page that asked for it to its score: the   *)
(* row in `scans`, its checks, the job on the queue `scan-v1`, the worker  *)
(* runs the queue hands the job to, and the sweeper that closes a scan     *)
(* nobody is working on any more.                                          *)
(*                                                                         *)
(* The queue hands a job out once and retries it once, so run k is the one *)
(* that works as attempt k.  Nothing stops the first when the queue has    *)
(* given up on it: both may be at work, and only the statements of the     *)
(* repository keep them apart.  A check is kept as the attempt that wrote  *)
(* it and how much of the site that attempt had fetched when the result    *)
(* was worked out, a score as the attempt that reached it.                 *)
(*                                                                         *)
(* Time is kept as three ages, each counted up to the first instant at     *)
(* which it no longer matters.                                             *)
(***************************************************************************)
EXTENDS Naturals

CONSTANTS Checks,        \* the checks of a scan, by their numbers
          DeadlineMs,    \* a scan's deadline, from its queueing
          ExpireMs,      \* the queue's expireInSeconds
          LostAfterMs    \* finishLostScans' lostAfterMs

ASSUME ScanJobsAssumption ==
    /\ Checks # {} /\ Checks \subseteq 1..18
    /\ DeadlineMs \in Nat \ {0} /\ ExpireMs \in Nat \ {0} /\ LostAfterMs \in Nat \ {0}

VARIABLES
    status,    \* scans.status
    attempt,   \* scans.attempt_no
    checks,    \* scan_checks: the attempt that wrote each check, 0 for none
    basis,     \* what was fetched when the result of a check that is there was worked out
    score,     \* the attempt whose evaluation the row's score is, 0 for none
    forgotten, \* whether the scan's address has been deleted
    completed, \* scan_completed events emitted
    job,       \* the queue's job
    retries,   \* its retryCount
    run,       \* run[k]: how far the worker run that works as attempt k is
    written,   \* written[k]: the checks that run has seen written
    fetched,   \* fetched[k]: how much of the site it has fetched
    quiet,     \* time since the scan's last sign of life
    age,       \* time since the scan was queued
    held       \* time since the queue handed the job out

scanVars == <<status, attempt, checks, basis, score, forgotten, completed, job, retries,
              run, written, fetched, quiet, age, held>>

report == <<checks, basis>>
row == <<status, attempt, report, score, forgotten, completed>>
memory == <<written, fetched>>
queue == <<job, retries, held>>
clocks == <<quiet, age>>

Attempts == 1..2
Terminal == {"completed", "partial", "failed"}
Status == {"queued", "running"} \cup Terminal

\* A run fetches the job, claims the scan, evaluates and writes its checks; a run
\* that failed still has to say so; a run that is over, or whose process died,
\* writes nothing more.
Step == {"idle", "fetched", "deleted", "expired", "scanning", "failing", "over"}

\* createOrReplayScan: the scan, queued, and its job are one transaction.
ScanInit ==
    /\ status = "queued" /\ attempt = 1 /\ score = 0
    /\ checks = [c \in Checks |-> 0] /\ basis = [c \in Checks |-> 0]
    /\ forgotten = FALSE /\ completed = 0
    /\ job = "waiting" /\ retries = 0
    /\ run = [k \in Attempts |-> "idle"] /\ written = [k \in Attempts |-> {}]
    /\ fetched = [k \in Attempts |-> 0]
    /\ quiet = 0 /\ age = 0 /\ held = 0

-----------------------------------------------------------------------------
(* The queue, as far as one job goes.                                      *)

Moves(k, step) == run' = [run EXCEPT ![k] = step]

\* A worker draws the job; retryCount says which attempt it works as.
Fetch(k) ==
    /\ job = "waiting" /\ k = retries + 1
    /\ job' = "active" /\ held' = 0 /\ Moves(k, "fetched")
    /\ UNCHANGED <<row, retries, memory, clocks>>

\* What the queue makes of the end of the run it waits for: the end of a run it
\* has given up on tells it nothing.
Told(k, failed) ==
    IF job = "active" /\ k = retries + 1
    THEN /\ job' = IF ~failed THEN "done" ELSE IF retries = 0 THEN "waiting" ELSE "failed"
         /\ retries' = IF failed /\ retries = 0 THEN 1 ELSE retries
         /\ held' = held
    ELSE UNCHANGED queue

Resolves(k) == Moves(k, "over") /\ Told(k, FALSE)
Throws(k) == Moves(k, "over") /\ Told(k, TRUE)

\* The queue gives up on a job it heard nothing of, and retries it once.
JobExpires ==
    /\ job = "active" /\ held >= ExpireMs
    /\ job' = IF retries = 0 THEN "waiting" ELSE "failed"
    /\ retries' = 1
    /\ UNCHANGED <<row, run, memory, clocks, held>>

-----------------------------------------------------------------------------
(* The repository's statements.                                            *)

\* Mutant: checks of an earlier attempt stay where they are.
ChecksStay(k) == checks

\* claim: a later attempt starts without the checks of the one before it.
ChecksForClaim(k) == IF k > attempt THEN [c \in Checks |-> 0] ELSE checks

\* Mutant: a scan that is over may be claimed.
ClaimableWhenOver(k) == attempt <= k /\ ~(status = "running" /\ attempt >= k)

\* claim: the scan is not over, nor a later attempt's, nor this attempt's already.
Claimable(k) ==
    /\ status \notin Terminal
    /\ attempt <= k
    /\ ~(status = "running" /\ attempt >= k)

\* The condition upsertCheck, heartbeat, commitTerminal and markSystemFailure share.
Owns(k) == status = "running" /\ attempt = k

-----------------------------------------------------------------------------
(* processScanJob.                                                         *)

\* What the claimed run finds first: an address that was deleted before the claim
\* read it, or a deadline already passed.
ClaimedStep ==
    IF forgotten THEN "deleted" ELSE IF age >= DeadlineMs THEN "expired" ELSE "scanning"

Claim(k) ==
    /\ run[k] = "fetched"
    /\ \/ /\ ~Claimable(k)
          /\ Resolves(k) /\ UNCHANGED <<row, clocks, memory>>
       \/ /\ Claimable(k)
          /\ status' = "running" /\ attempt' = k
          /\ checks' = ChecksForClaim(k) /\ UNCHANGED basis
          /\ quiet' = 0
          /\ Moves(k, ClaimedStep)
          /\ UNCHANGED <<score, forgotten, completed, memory, age, queue>>

\* A scan whose address was deleted is closed, or the statement fails and the
\* queue hears of it.
ClosesDeleted(k) ==
    /\ run[k] = "deleted"
    /\ \/ /\ IF Owns(k) THEN status' = "failed" /\ quiet' = 0 ELSE UNCHANGED <<status, quiet>>
          /\ Resolves(k)
       \/ UNCHANGED <<status, quiet>> /\ Throws(k)
    /\ UNCHANGED <<attempt, report, score, forgotten, completed, memory, age>>

\* What a run fetches, in this order: robots.txt; the page, its sitemap and what
\* is known of its agents; the product page and the OAuth documents.
Everything == 3

\* emitChecks: how much the run has fetched when it works a check out.
WrittenAfter(c) ==
    IF c \in {1, 2, 3} THEN 1
    ELSE IF c \in {4, 7, 8, 9, 10, 13, 14, 16, 17, 18} THEN 2 ELSE Everything

\* evaluateChecks: how much of it the check's result is made of.
MadeOf(c) ==
    IF c \in {5, 6, 12, 15}      \* the product page
         \/ c = 11               \* the OAuth documents
    THEN Everything
    ELSE IF c \in {1, 2, 3} THEN 1 ELSE IF c = 16 THEN 0 ELSE 2

\* The runner's next requests, once the checks of the last are written.
FetchMore(k) ==
    /\ run[k] = "scanning" /\ fetched[k] < Everything
    /\ \A c \in Checks : WrittenAfter(c) <= fetched[k] => c \in written[k]
    /\ fetched' = [fetched EXCEPT ![k] = @ + 1]
    /\ UNCHANGED <<row, queue, run, written, clocks>>

\* upsertCheck, once per check: as the checks come in, and none is left at the end.
WriteCheck(k, c) ==
    /\ run[k] = "scanning" /\ c \notin written[k] /\ WrittenAfter(c) <= fetched[k]
    /\ IF Owns(k)
       THEN /\ checks' = [checks EXCEPT ![c] = k]
            /\ basis' = [basis EXCEPT ![c] = fetched[k]]
            /\ written' = [written EXCEPT ![k] = @ \cup {c}]
            /\ UNCHANGED <<run, queue>>
       ELSE /\ Resolves(k) /\ UNCHANGED <<report, written>>
    /\ UNCHANGED <<fetched, status, attempt, score, forgotten, completed, clocks>>

\* commitTerminal: the score, the terminal status and the event, in one
\* transaction.  The session a deletion put the scan under has no consent, which
\* the event needs: the transaction fails.
Commit(k) ==
    /\ run[k] = "scanning" /\ fetched[k] = Everything /\ written[k] = Checks
    /\ \/ /\ Owns(k) /\ status' = "failed" /\ quiet' = 0 /\ UNCHANGED <<score, completed>>
          /\ Resolves(k)
       \/ /\ Owns(k) /\ ~forgotten /\ status' \in {"completed", "partial"} /\ quiet' = 0
          /\ score' = k /\ completed' = completed + 1
          /\ Resolves(k)
       \/ /\ Owns(k) /\ forgotten /\ Moves(k, "failing")
          /\ UNCHANGED <<status, score, completed, quiet, queue>>
       \/ /\ ~Owns(k) /\ Resolves(k) /\ UNCHANGED <<status, score, completed, quiet>>
    /\ UNCHANGED <<attempt, report, forgotten, memory, age>>

\* Something on the way throws: a read or a write fails.
Fails(k) ==
    /\ run[k] = "scanning"
    /\ Moves(k, "failing")
    /\ UNCHANGED <<row, memory, queue, clocks>>

\* markSystemFailure: only the first attempt is retried, and not past the deadline.
FailureStatus(k) == IF k < 2 /\ run[k] # "expired" THEN "queued" ELSE "failed"

\* The catch clause: the failure is recorded, where the run still owns the scan,
\* and thrown to the queue, which also hears of a failure to record it.
MarkFailure(k) ==
    /\ run[k] \in {"failing", "expired"}
    /\ \/ Owns(k) /\ status' = FailureStatus(k) /\ quiet' = 0
       \/ UNCHANGED <<status, quiet>>
    /\ Throws(k)
    /\ UNCHANGED <<attempt, report, score, forgotten, completed, memory, age>>

\* The claim's transaction fails.
ClaimFails(k) ==
    /\ run[k] = "fetched" /\ Throws(k)
    /\ UNCHANGED <<row, memory, clocks>>

\* heartbeat, every ten seconds, until the run ends.
Heartbeat(k) ==
    /\ run[k] \in {"scanning", "failing", "expired"} /\ Owns(k)
    /\ quiet' = 0 /\ UNCHANGED <<row, queue, run, memory, age>>

\* The worker's process dies.
Dies(k) ==
    /\ run[k] \notin {"idle", "over"}
    /\ Moves(k, "over") /\ UNCHANGED <<row, queue, memory, clocks>>

-----------------------------------------------------------------------------

\* Mutant: the sweep closes only what some worker had started.
LostWhileRunning == status = "running" /\ quiet > LostAfterMs

\* finishLostScans' condition.
Lost == status \notin Terminal /\ quiet > LostAfterMs

\* The sweeper closes the scan.
Sweep ==
    /\ Lost
    /\ status' = "failed" /\ quiet' = 0
    /\ UNCHANGED <<attempt, report, score, forgotten, completed, queue, run, memory, age>>

\* anonymizeLeadData: the scan's address is deleted with its owner's data.
Forget ==
    /\ ~forgotten /\ forgotten' = TRUE
    /\ UNCHANGED <<status, attempt, report, score, completed, queue, run, memory, clocks>>

Older(time, bound) == IF time <= bound THEN time + 1 ELSE time

Tick ==
    /\ quiet' = Older(quiet, LostAfterMs) /\ age' = Older(age, DeadlineMs)
    /\ held' = Older(held, ExpireMs)
    /\ UNCHANGED <<row, job, retries, run, memory>>

Works(k) ==
    \/ Fetch(k) \/ Claim(k) \/ ClosesDeleted(k) \/ FetchMore(k) \/ Commit(k)
    \/ MarkFailure(k) \/ \E c \in Checks : WriteCheck(k, c)

ScanNext ==
    \/ \E k \in Attempts : Works(k) \/ ClaimFails(k) \/ Fails(k) \/ Heartbeat(k) \/ Dies(k)
    \/ JobExpires \/ Sweep \/ Forget \/ Tick

ScanSpec == ScanInit /\ [][ScanNext]_scanVars

\* A run goes on while its process lives: every request of it has a deadline.  The
\* sweeper runs every minute.  The queue need not retry the job.
ScanLiveSpec ==
    /\ ScanSpec
    /\ WF_scanVars(Tick) /\ WF_scanVars(Sweep)
    /\ \A k \in Attempts : WF_scanVars(Works(k) /\ run[k] # "idle")

-----------------------------------------------------------------------------

(* Every variable has its type.                                            *)
ScanTypeOK ==
    /\ status \in Status /\ attempt \in Attempts /\ score \in Attempts \cup {0}
    /\ checks \in [Checks -> Attempts \cup {0}] /\ basis \in [Checks -> 0..Everything]
    /\ forgotten \in BOOLEAN /\ completed \in Nat
    /\ job \in {"waiting", "active", "done", "failed"} /\ retries \in {0, 1}
    /\ run \in [Attempts -> Step] /\ written \in [Attempts -> SUBSET Checks]
    /\ fetched \in [Attempts -> 0..Everything]
    /\ quiet \in 0..LostAfterMs + 1 /\ age \in 0..DeadlineMs + 1 /\ held \in 0..ExpireMs + 1

(* A published score is the score of exactly the checks stored beside it:  *)
(* the checks of a scan are of one attempt, the one its row names, while a *)
(* first worker the queue has given up on still writes beside the second   *)
(* (claim's deletion and upsertCheck's fence); and a completed or partial  *)
(* scan has every check, all of the attempt that reached the score, with   *)
(* scan_completed emitted for it once (commitTerminal).  A check written   *)
(* before the last request is the one that was scored: all its result is   *)
(* made of had been fetched (emitChecks' lists against evaluateChecks).    *)
ScoreIsOfItsChecks ==
    /\ ScanTypeOK
    /\ \A c \in Checks : checks[c] \in {0, attempt} /\ (checks[c] # 0 => basis[c] >= MadeOf(c))
    /\ status \in {"completed", "partial"} => \A c \in Checks : checks[c] = score
    /\ completed = IF status \in {"completed", "partial"} THEN 1 ELSE 0
    /\ (score # 0) = (status \in {"completed", "partial"})

(* A scan that is over stays as it is: a late worker, a late failure and   *)
(* the sweeper change neither its status, its score nor its checks.  Nor   *)
(* does an attempt go back: once a second has begun, no step gives the     *)
(* scan back to the first or to the queue (claim, markSystemFailure).      *)
ResultStands ==
    [][/\ status \in Terminal => UNCHANGED <<status, attempt, score, report, completed>>
       /\ attempt' >= attempt
       /\ attempt = 2 => status' # "queued"]_scanVars

(* Every scan ends: the page that polls it gets an answer although both    *)
(* workers may die, the queue may lose the job and no write need succeed,  *)
(* because the sweeper closes what shows no sign of life.                  *)
ScanEnds == <>(status \in Terminal)
=============================================================================
