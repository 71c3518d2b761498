------------------------ MODULE BrowserObservations ------------------------
(***************************************************************************)
(* The browser observations that follow a scan: rows under a lease, the    *)
(* worker runs that take them, the paid runs those start at the provider,  *)
(* the day's budget they reserve from, and the janitor that cleans up and  *)
(* settles what the workers left.                                          *)
(*                                                                         *)
(* A worker processes one job at a time, so the token of a lease is the    *)
(* worker that took it.  The reconciler offers a queued row, and one whose *)
(* lease ran out, again and again: such a row may be claimed at any time.  *)
(* A lease runs out when its worker has died; that it runs out under a     *)
(* worker at work, whose heartbeats do not arrive, is one of the faults.   *)
(* The provider's runs are kept as what they have cost so far, whether     *)
(* they go on and whether anything of them is stored.  A run is asked to   *)
(* cost MaxRunUsd at most; that the provider keeps to it is not taken for  *)
(* granted, here or by the code.                                           *)
(***************************************************************************)
EXTENDS Naturals, Sequences, FiniteSetsExt

CONSTANTS Observations,    \* the observations
          Workers,         \* the workers of every process
          MaxRunUsd,       \* config.maxRunUsd
          DailyBudgetUsd,  \* config.dailyBudgetUsd
          MaxBillUsd,      \* bound: the most a run is billed
          LastDay,         \* bound: the last day
          MaxFaults        \* bound: deaths, errors and leases lost at work

ASSUME ObservationsAssumption ==
    /\ IsFiniteSet(Observations) /\ Observations # {} /\ "none" \notin Workers
    /\ MaxRunUsd \in Nat \ {0} /\ DailyBudgetUsd \in Nat /\ MaxBillUsd \in Nat
    /\ LastDay \in Nat \ {0} /\ MaxFaults \in Nat

VARIABLES
    entry,    \* browser_observations
    today,    \* the day of the budget
    day,      \* browser_observation_budget_days
    phase,    \* phase[w]: what a worker does next
    on,       \* on[w]: the observation it is at
    run,      \* run[w]: its runId, 0 for null
    reported, \* reported[w]: the usage it was told, as a set of at most one
    runs,     \* runs[o]: the provider's runs for the observation, in order
    overdue,  \* the observations started six hours ago or earlier
    faults    \* faults so far

observationVars ==
    <<entry, today, day, phase, on, run, reported, runs, overdue, faults>>

Ends == {"completed", "failed", "budget_skipped"}
None == "none"

\* What the transaction of the scan's end inserted.
Queued == [status |-> "queued", leased |-> FALSE, token |-> None, run |-> 0, reserved |-> 0,
           day |-> 0, usage |-> 0, settled |-> FALSE, cleaned |-> FALSE]

ObservationInit ==
    /\ entry = [o \in Observations |-> Queued]
    /\ today = 1 /\ day = [d \in 1..LastDay |-> [reserved |-> 0, usage |-> 0]]
    /\ phase = [w \in Workers |-> "idle"]
    /\ on = [w \in Workers |-> CHOOSE o \in Observations : TRUE]
    /\ run = [w \in Workers |-> 0] /\ reported = [w \in Workers |-> {}]
    /\ runs = [o \in Observations |-> <<>>] /\ overdue = {} /\ faults = 0

-----------------------------------------------------------------------------
(* The repository.                                                         *)

Active == {"starting", "running"}

\* The condition the worker's statements share: the row is active under its token.
Holds(w) == entry[on[w]].token = w /\ entry[on[w]].status \in Active

\* actualUsageUsd: what a run is taken to have cost.
ActualUsage(told, reservedUsd) == IF told = {} THEN reservedUsd ELSE Max(told)

Least(a, b) == IF a <= b THEN a ELSE b
Beyond(a, b) == IF a >= b THEN a - b ELSE 0

\* Mutant: what the run did not report as used is free again at once.
RemainingFreed(reservedUsd, usageUsd) == 0

\* The part of the reservation kept until the provider's bill is final.
Remaining(reservedUsd, usageUsd) == Beyond(reservedUsd, Least(reservedUsd, usageUsd))

\* The day a reservation is settled with: the one it was made on.
SettlesWith(o) == entry[o].day

\* complete and markTerminal: the row ends, its lease is given up and its
\* reservation is settled with what the run is taken to have cost.
EndRow(o, end, told) ==
    LET held == entry[o].reserved
        used == ActualUsage(told, held)
        kept == Remaining(held, used)
        d == SettlesWith(o)
    IN  /\ entry' = [entry EXCEPT ![o].status = end, ![o].usage = used, ![o].reserved = kept,
                              ![o].settled = (kept = 0), ![o].token = None, ![o].leased = FALSE]
        /\ day' = IF entry[o].day # 0 /\ held > 0
                  THEN [day EXCEPT ![d].reserved = Beyond(@, held - kept), ![d].usage = @ + used]
                  ELSE day

-----------------------------------------------------------------------------
(* processBrowserObservationJob.                                           *)

Turns(w, s) == phase' = [phase EXCEPT ![w] = s]
Skips(w) == /\ phase' = [phase EXCEPT ![w] = "idle"] /\ run' = [run EXCEPT ![w] = 0]
            /\ reported' = [reported EXCEPT ![w] = {}] /\ UNCHANGED on
mine == <<on, run, reported>>
books == <<entry, day>>
world == <<today, overdue>>

\* Mutant: a row whose worker was lost begins anew.
BeginsAnew(o) == IF entry[o].run = 0 THEN "reserving" ELSE "attaching"

\* Where a claimed job begins.  Only the claim of a queued row may start a run.
Begins(o) ==
    IF entry[o].run # 0 THEN "attaching"
    ELSE IF entry[o].status # "queued" THEN "searching" ELSE "reserving"

\* claim
ClaimEntry(w, o) ==
    /\ phase[w] = "idle" /\ entry[o].status \notin Ends
    /\ entry[o].status \in Active => ~entry[o].leased
    /\ entry' = [entry EXCEPT ![o].status = "starting", ![o].token = w, ![o].leased = TRUE]
    /\ on' = [on EXCEPT ![w] = o] /\ run' = [run EXCEPT ![w] = entry[o].run]
    /\ Turns(w, Begins(o))
    /\ UNCHANGED <<day, reported, runs, world, faults>>

\* findRecentRun: the latest run of the observation whose input is still stored.
Found(o) == {n \in DOMAIN runs[o] : runs[o][n].stored}

ReconciliationExpired(o) == o \in overdue

\* The search for a run an earlier worker may have started.
Search(w) ==
    /\ phase[w] = "searching"
    /\ \/ /\ Found(on[w]) # {}
          /\ run' = [run EXCEPT ![w] = Max(Found(on[w]))] /\ Turns(w, "attaching")
          /\ UNCHANGED <<on, reported, faults>>
       \/ /\ \/ Found(on[w]) = {} /\ UNCHANGED faults
             \/ faults < MaxFaults /\ faults' = faults + 1
          /\ IF ReconciliationExpired(on[w]) THEN Turns(w, "giving_up") /\ UNCHANGED mine ELSE Skips(w)
    /\ UNCHANGED <<books, runs, world>>

\* markTerminal: six hours on, nobody knows whether a run was started.
GiveUp(w) ==
    /\ phase[w] = "giving_up"
    /\ IF Holds(w) THEN EndRow(on[w], "failed", {}) ELSE UNCHANGED books
    /\ Skips(w) /\ UNCHANGED <<runs, world, faults>>

\* Mutant: what the day's runs have cost already is left out.
FitsWithoutUsage(d) == day[d].reserved + MaxRunUsd <= DailyBudgetUsd

Fits(d) == day[d].reserved + day[d].usage + MaxRunUsd <= DailyBudgetUsd

\* reserveDailyBudget
Reserve(w) ==
    /\ phase[w] = "reserving"
    /\ \/ /\ ~Holds(w) /\ Skips(w) /\ UNCHANGED books
       \/ /\ Holds(w) /\ entry[on[w]].reserved > 0
          /\ Turns(w, "starting") /\ UNCHANGED <<books, mine>>
       \/ /\ Holds(w) /\ entry[on[w]].reserved = 0 /\ ~Fits(today)
          /\ Turns(w, "exhausted") /\ UNCHANGED <<books, mine>>
       \/ /\ Holds(w) /\ entry[on[w]].reserved = 0 /\ Fits(today)
          /\ day' = [day EXCEPT ![today].reserved = @ + MaxRunUsd]
          /\ entry' = [entry EXCEPT ![on[w]].reserved = MaxRunUsd, ![on[w]].day = today]
          /\ Turns(w, "starting") /\ UNCHANGED mine
    /\ UNCHANGED <<runs, world, faults>>

\* markTerminal: the day's budget is used up.
Exhausted(w) ==
    /\ phase[w] = "exhausted"
    /\ IF Holds(w) THEN EndRow(on[w], "budget_skipped", {0}) ELSE UNCHANGED books
    /\ Skips(w) /\ UNCHANGED <<runs, world, faults>>

Started == [live |-> TRUE, stored |-> TRUE, cost |-> 0]

\* provider.start: the paid run is started, or is not, and the answer may be lost
\* either way, which leaves the row under its lease.
Start(w) ==
    /\ phase[w] = "starting"
    /\ \/ /\ runs' = [runs EXCEPT ![on[w]] = Append(@, Started)]
          /\ run' = [run EXCEPT ![w] = Len(runs[on[w]]) + 1] /\ Turns(w, "attaching")
          /\ UNCHANGED <<on, reported, faults>>
       \/ /\ faults < MaxFaults /\ faults' = faults + 1 /\ Skips(w)
          /\ runs' \in {runs, [runs EXCEPT ![on[w]] = Append(@, Started)]}
    /\ UNCHANGED <<books, world>>

\* attachRun: its update.
Attach(w) ==
    /\ phase[w] = "attaching"
    /\ LET o == on[w] IN
       IF Holds(w) /\ entry[o].status = "starting"
       THEN /\ entry' = [entry EXCEPT ![o].status = "running", ![o].run = run[w], ![o].leased = TRUE]
            /\ Turns(w, "waiting")
       ELSE Turns(w, "unattached") /\ UNCHANGED entry
    /\ UNCHANGED <<day, mine, runs, world, faults>>

\* attachRun: what it answers when the row was not its own.
Unattached(w) ==
    /\ phase[w] = "unattached"
    /\ IF entry[on[w]].run = run[w] \/ entry[on[w]].status \in Active
       THEN Skips(w) ELSE Turns(w, "disowned") /\ UNCHANGED mine
    /\ UNCHANGED <<books, runs, world, faults>>

\* provider.abort of one run, whose errors are passed over, and with `deleted` also
\* provider.cleanup.
Abort(o, n, deleted) ==
    \E works \in IF faults < MaxFaults THEN BOOLEAN ELSE {TRUE} :
      LET this == runs[o][n] IN
      /\ runs' = [runs EXCEPT ![o][n] =
                    [live |-> this.live /\ ~works, stored |-> this.stored /\ ~deleted,
                     cost |-> this.cost]]
      /\ faults' = faults + (IF works THEN 0 ELSE 1)

\* A run nobody owns is aborted and cleaned up, as far as that works.
Disown(w) ==
    /\ phase[w] = "disowned"
    /\ \E deleted \in BOOLEAN : Abort(on[w], run[w], deleted)
    /\ Skips(w) /\ UNCHANGED <<books, world>>

\* waitForFinish: the run is over, with a usage that is not final yet or is not
\* told, or it is still going on when the wait is.
Wait(w) ==
    /\ phase[w] = "waiting"
    /\ LET this == runs[on[w]][run[w]] IN
       /\ reported' \in {[reported EXCEPT ![w] = told] :
                           told \in {{}} \cup {{u} : u \in 0..this.cost}}
       /\ Turns(w, IF this.live THEN "late" ELSE "ended")
    /\ UNCHANGED <<books, on, run, runs, world, faults>>

\* heartbeat, once the wait is over: the worker goes on only if it still owns the
\* row.  A run that is over succeeded with an answer that can be read, or did not.
StillOwned(w) ==
    /\ phase[w] \in {"late", "ended"}
    /\ IF Holds(w)
       THEN /\ entry' = [entry EXCEPT ![on[w]].leased = TRUE]
            /\ \/ phase[w] = "late" /\ Turns(w, "stopping")
               \/ phase[w] = "ended" /\ (Turns(w, "refusing") \/ Turns(w, "completing"))
            /\ UNCHANGED mine
       ELSE Skips(w) /\ UNCHANGED entry
    /\ UNCHANGED <<day, runs, world, faults>>

\* heartbeat, on its own timer.
Heartbeat(w) ==
    /\ phase[w] # "idle" /\ Holds(w) /\ ~entry[on[w]].leased
    /\ entry' = [entry EXCEPT ![on[w]].leased = TRUE]
    /\ UNCHANGED <<day, phase, mine, runs, world, faults>>

\* A run that outlasted its wait is aborted before it is marked.
Stop(w) ==
    /\ phase[w] = "stopping" /\ Turns(w, "timed_out")
    /\ Abort(on[w], run[w], FALSE) /\ UNCHANGED <<books, mine, world>>

\* The usage each end is marked with.
ToldAtTheEnd(w) ==
    IF phase[w] = "timed_out" THEN {Max(reported[w] \cup {MaxRunUsd})} ELSE reported[w]

\* complete and markTerminal, and whether the row was the worker's to end.
End(w) ==
    /\ phase[w] \in {"timed_out", "refusing", "completing", "marking"}
    /\ IF Holds(w)
       THEN /\ EndRow(on[w], IF phase[w] = "completing" THEN "completed" ELSE "failed",
                      ToldAtTheEnd(w))
            /\ IF run[w] = 0 THEN Skips(w) ELSE Turns(w, "cleaning") /\ UNCHANGED mine
       ELSE Skips(w) /\ UNCHANGED books
    /\ UNCHANGED <<runs, world, faults>>

\* A statement or a call of the provider throws: the run is aborted before the row
\* is marked.  When the marking throws too, only the cleaning is left.
Throws(w) ==
    /\ phase[w] \notin {"idle", "starting", "searching", "disowned", "cleaning", "recording"}
    /\ faults < MaxFaults
    /\ Turns(w, IF phase[w] # "marking" THEN "failing" ELSE "cleaning")
    /\ faults' = faults + 1 /\ UNCHANGED <<books, mine, runs, world>>

\* The catch clause's abort.
Fail(w) ==
    /\ phase[w] = "failing" /\ Turns(w, "marking")
    /\ IF run[w] = 0 THEN UNCHANGED <<runs, faults>> ELSE Abort(on[w], run[w], FALSE)
    /\ UNCHANGED <<books, mine, world>>

\* The finally clause: the run's storage is deleted, as far as that works.
Clean(w) ==
    /\ phase[w] = "cleaning"
    /\ \/ run[w] = 0 /\ Skips(w) /\ UNCHANGED <<runs, faults>>
       \/ /\ run[w] # 0 /\ runs' = [runs EXCEPT ![on[w]][run[w]].stored = FALSE]
          /\ Turns(w, "recording") /\ UNCHANGED <<mine, faults>>
       \/ /\ run[w] # 0 /\ faults < MaxFaults /\ faults' = faults + 1
          /\ Skips(w) /\ UNCHANGED runs
    /\ UNCHANGED <<books, world>>

\* markStorageCleaned
StorageCleaned(o, n) ==
    IF ~entry[o].cleaned /\ entry[o].run \in {0, n}
    THEN [entry EXCEPT ![o].cleaned = TRUE, ![o].run = n] ELSE entry

Record(w) ==
    /\ phase[w] = "recording"
    /\ entry' = StorageCleaned(on[w], run[w])
    /\ Skips(w) /\ UNCHANGED <<day, runs, world, faults>>

\* The worker's process dies.
Dies(w) ==
    /\ phase[w] # "idle" /\ faults < MaxFaults /\ faults' = faults + 1
    /\ Skips(w) /\ UNCHANGED <<books, runs, world>>

-----------------------------------------------------------------------------
(* The janitor.                                                            *)

\* The run a candidate names, or the one the provider still knows of.
Match(o) == IF entry[o].run # 0 THEN {entry[o].run} ELSE Found(o)

\* cleanupBrowserObservationOrphans: a run is stopped and its storage deleted.
JanitorCleans(o) ==
    /\ entry[o].status \in Ends /\ ~entry[o].cleaned /\ Match(o) # {}
    /\ Abort(o, Max(Match(o)), TRUE) /\ entry' = StorageCleaned(o, Max(Match(o)))
    /\ UNCHANGED <<day, phase, mine, world>>

\* reconcileUsage with the provider's bill of the row's run, final half an hour
\* after the end, or settleUsageConservatively when it cannot be had.  The provider
\* gives a run two minutes at most, so by then it is over.
JanitorSettles(o) ==
    /\ entry[o].status \in Ends /\ ~entry[o].settled
    /\ \A n \in DOMAIN runs[o] : ~runs[o][n].live
    /\ LET this == entry[o] IN
       \E used \in {Max({this.usage, runs[o][n].cost}) : n \in {this.run} \ {0}}
                     \cup {this.usage + this.reserved} :
         /\ entry' = [entry EXCEPT ![o].usage = used, ![o].reserved = 0, ![o].settled = TRUE]
         /\ day' = IF this.day = 0 THEN day
                   ELSE [day EXCEPT ![this.day].reserved = Beyond(@, this.reserved),
                                    ![this.day].usage = @ + (used - this.usage)]
    /\ UNCHANGED <<phase, mine, runs, world, faults>>

-----------------------------------------------------------------------------
(* The provider and time.                                                  *)

\* A run goes on for as long as it was given, and meanwhile may store something and
\* costs more and more.
ActorWrites(o, n) ==
    /\ runs[o][n].live /\ ~runs[o][n].stored
    /\ runs' = [runs EXCEPT ![o][n].stored = TRUE]
    /\ UNCHANGED <<books, phase, mine, world, faults>>

ActorSpends(o, n) ==
    /\ runs[o][n].live /\ runs[o][n].cost < MaxBillUsd
    /\ runs' = [runs EXCEPT ![o][n].cost = @ + 1]
    /\ UNCHANGED <<books, phase, mine, world, faults>>

ActorEnds(o, n) ==
    /\ runs[o][n].live
    /\ runs' = [runs EXCEPT ![o][n].live = FALSE]
    /\ UNCHANGED <<books, phase, mine, world, faults>>

\* Nobody is at work for the lease of the row.
Deserted(o) == ~\E w \in Workers : entry[o].token = w /\ on[w] = o /\ phase[w] # "idle"

LeaseExpires(o) ==
    /\ entry[o].status \in Active /\ entry[o].leased
    /\ \/ Deserted(o) /\ UNCHANGED faults
       \/ ~Deserted(o) /\ faults < MaxFaults /\ faults' = faults + 1
    /\ entry' = [entry EXCEPT ![o].leased = FALSE]
    /\ UNCHANGED <<day, phase, mine, runs, world>>

SixHoursPass(o) ==
    /\ o \notin overdue /\ entry[o].status # "queued" /\ overdue' = overdue \cup {o}
    /\ UNCHANGED <<books, today, phase, mine, runs, faults>>

DayPasses ==
    /\ today < LastDay /\ today' = today + 1
    /\ UNCHANGED <<books, phase, mine, runs, overdue, faults>>

Works(w) ==
    \/ Search(w) \/ GiveUp(w) \/ Reserve(w) \/ Exhausted(w) \/ Start(w) \/ Attach(w)
    \/ Unattached(w) \/ Disown(w) \/ Wait(w) \/ StillOwned(w) \/ Stop(w) \/ End(w)
    \/ Fail(w) \/ Clean(w) \/ Record(w)

ObservationNext ==
    \/ \E w \in Workers : Works(w) \/ Heartbeat(w) \/ Throws(w) \/ Dies(w)
    \/ \E w \in Workers, o \in Observations : ClaimEntry(w, o)
    \/ \E o \in Observations :
         JanitorCleans(o) \/ JanitorSettles(o) \/ LeaseExpires(o) \/ SixHoursPass(o)
    \/ \E o \in Observations : \E n \in DOMAIN runs[o] :
         ActorWrites(o, n) \/ ActorSpends(o, n) \/ ActorEnds(o, n)
    \/ DayPasses

ObservationSpec == ObservationInit /\ [][ObservationNext]_observationVars

-----------------------------------------------------------------------------

(* Every variable has its type, and a row has a token while it is active.  *)
ObservationTypeOK ==
    /\ \A o \in Observations :
         /\ entry[o].status \in Ends \cup Active \cup {"queued"}
         /\ entry[o].token \in Workers \cup {None} /\ entry[o].run \in 0..Len(runs[o])
         /\ entry[o].reserved \in 0..MaxRunUsd /\ entry[o].usage \in Nat
         /\ entry[o].day \in 0..LastDay
         /\ (entry[o].token # None) = (entry[o].status \in Active)
    /\ today \in 1..LastDay /\ overdue \subseteq Observations
    /\ on \in [Workers -> Observations] /\ \A w \in Workers : run[w] \in 0..Len(runs[on[w]])

(* An observation is paid for once: no death, lost answer or second worker *)
(* starts a second run for it, because only the claim of a row never       *)
(* claimed before may start one.                                           *)
OnePaidRun == \A o \in Observations : Len(runs[o]) <= 1

Of(d) == {o \in Observations : entry[o].day = d}

\* What the rows of the observations reserve and have used, what was used beyond the
\* reservation, what the runs cost, and how much of that was reserved for.
Reserved == [o \in Observations |-> entry[o].reserved]
Usage == [o \in Observations |-> entry[o].usage]
Excess == [o \in Observations |-> Beyond(entry[o].usage, MaxRunUsd)]
Bill == [o \in Observations |-> SumFunction([n \in DOMAIN runs[o] |-> runs[o][n].cost])]
Foreseen == [o \in Observations |-> Least(Bill[o], MaxRunUsd)]

(* The breaker covers the bill: a day's totals are the sums of its         *)
(* observations' rows, so settling one on a later day, or twice, moves no  *)
(* money between days; and what the runs of those observations have cost,  *)
(* each up to what was reserved for it, is within what the day counts as   *)
(* used or holds reserved, although a run's usage is reported late or not  *)
(* at all.                                                                 *)
BreakerCoversTheBill ==
    /\ ObservationTypeOK
    /\ \A d \in 1..LastDay :
         /\ day[d].reserved = SumFunctionOnSet(Reserved, Of(d))
         /\ day[d].usage = SumFunctionOnSet(Usage, Of(d))
         /\ day[d].reserved + day[d].usage >= SumFunctionOnSet(Foreseen, Of(d))

(* A day goes past its budget by no more than its own runs were found to   *)
(* have cost beyond what was reserved for them, whatever is reserved and   *)
(* settled on it and in which order: what the janitor's alarm              *)
(* (onBudgetExceeded) tells is the provider's overcharge, and no           *)
(* reservation that should not have been made.                             *)
OverBudgetOnlyByTheBills ==
    \A d \in 1..LastDay :
        day[d].reserved + day[d].usage <= DailyBudgetUsd + SumFunctionOnSet(Excess, Of(d))

=============================================================================
