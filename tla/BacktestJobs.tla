---------------------------- MODULE BacktestJobs ----------------------------
(***************************************************************************)
(* Backtests: rows of backtest_jobs claimed under a limit, and their runs. *)
(* A run is one claim and the object its process keeps for it, which the   *)
(* pipeline, the timeout, the heartbeat and a cancellation all write.      *)
(* Requests reach any instance: one that does not run the job works on its *)
(* row.                                                                    *)
(*                                                                         *)
(* A database call is one step that may fail before or after it took       *)
(* effect; what it writes is fixed when it is sent.  A lease is live or    *)
(* not, and may run out while its run goes on: nothing in the code keeps a *)
(* process from being slower than its heartbeat.  Matches, odds, analysis  *)
(* and statistics of a day are one step.  What of a day cannot be loaded   *)
(* or analysed is passed over, and the day is counted all the same: the    *)
(* model knows which days a pipeline went through, not what it found.      *)
(***************************************************************************)
EXTENDS Integers, FiniteSets

CONSTANTS
  Jobs,
  Runs,           \* claims, each with a lock owner of its own
  NoRun,
  Processes,      \* application instances
  NoProcess,
  Callers,        \* requests to poll or cancel, one each
  Resumers,       \* requests to resume, one after the other
  Dates,          \* days of a backtest
  MaxConcurrent,  \* limits.maxConcurrentJobs
  MaxFaults       \* bound: failed calls, crashed instances, slow heartbeats

ASSUME BacktestConstants ==
  /\ IsFiniteSet(Jobs) /\ Jobs # {}
  /\ NoRun \notin Runs /\ NoProcess \notin Processes
  /\ Dates \in Nat
  /\ MaxConcurrent \in Nat \ {0}
  /\ MaxFaults \in Nat

VARIABLES
  row,      \* backtest_jobs
  run,      \* the job object of a run and the position of its pipeline
  entry,    \* jobs and jobControllers: the run an instance knows for a job id
  lost,     \* leaseLostJobs of an instance
  caller,   \* requests to poll or cancel
  resumer,  \* requests to resume: the job as it was read
  visited,  \* days gone through so far, by any run of the job, with what could be loaded
  faults

vars == <<row, run, entry, lost, caller, resumer, visited, faults>>

----------------------------------------------------------------------------
Active == {"running", "cancelling"}
Terminal == {"cancelled", "done", "error", "timed_out"}
JobStatus == Active \cup Terminal

Row == [status : JobStatus \cup {"absent"},
        owner : Runs \cup {NoRun},
        live : BOOLEAN,             \* lock_expires_at >= NOW()
        processed : 0..Dates]

\* What persistJob sends.
Snapshot == [status : JobStatus, processed : 0..Dates]

NoSnapshot == [status |-> "running", processed |-> 0]

RunState == [pc : {"idle", "launch", "failClaim", "load", "check",
                   "working", "saving", "ending", "over"},
             job : Jobs,
             process : Processes \cup {NoProcess},
             status : JobStatus,
             processed : 0..Dates,
             aborted : {"no", "cancelled", "timeout", "lease"},
             saving : Snapshot,      \* the pipeline's call
             timeout : {"set", "sent", "over"},
             overdue : Snapshot,     \* the timeout's call
             beat : {"none", "failed"},   \* a negative heartbeat answer on its way
             told : BOOLEAN]         \* aborted, and the caller told "cancelling"

CallerState == [pc : {"idle", "cancel", "mark", "over"},
                process : Processes \cup {NoProcess},
                job : Jobs,
                run : Runs \cup {NoRun},
                saving : Snapshot]

ResumerState == [reading : BOOLEAN, job : Jobs, processed : 0..Dates]

AnyJob == CHOOSE j \in Jobs : TRUE

IdleRun == [pc |-> "idle", job |-> AnyJob, process |-> NoProcess, status |-> "running",
            processed |-> 0, aborted |-> "no", saving |-> NoSnapshot,
            timeout |-> "over", overdue |-> NoSnapshot, beat |-> "none", told |-> FALSE]

IdleResumer == [reading |-> FALSE, job |-> AnyJob, processed |-> 0]

IdleCaller == [pc |-> "idle", process |-> NoProcess, job |-> AnyJob, run |-> NoRun,
               saving |-> NoSnapshot]

Init ==
  /\ row = [j \in Jobs |-> [status |-> "absent", owner |-> NoRun, live |-> FALSE, processed |-> 0]]
  /\ run = [r \in Runs |-> IdleRun]
  /\ entry = [p \in Processes |-> [j \in Jobs |-> NoRun]]
  /\ lost = [p \in Processes |-> {}]
  /\ caller = [c \in Callers |-> IdleCaller]
  /\ resumer = [x \in Resumers |-> IdleResumer]
  /\ visited = [j \in Jobs |-> {}]
  /\ faults = 0

----------------------------------------------------------------------------
(* Database calls.                                                         *)

Fault == faults < MaxFaults /\ faults' = faults + 1

\* Mutant: without the owner in the WHERE clause.
FencedByStatus(j, owner) == row[j].status \in Active /\ row[j].live

\* Mutant: the row is found by its id alone.
FencedById(j, owner) == TRUE

\* The WHERE clause of persist_claimed_backtest_job.
Fenced(j, owner) == row[j].owner = owner /\ row[j].live /\ row[j].status \in Active

Saved(j, s) ==
  [row EXCEPT ![j] =
    [status |-> s.status,
     owner |-> IF s.status \in Active THEN @.owner ELSE NoRun,
     live |-> s.status \in Active,
     processed |-> s.processed]]

\* One call of persist_claimed_backtest_job: applied and reported, refused, or
\* failed, applied or not.
Persist(j, owner, s, Ok, Error) ==
  \/ Fenced(j, owner) /\ row' = Saved(j, s) /\ Ok /\ UNCHANGED faults
  \/ ~Fenced(j, owner) /\ UNCHANGED <<row, faults>> /\ Error
  \/ /\ Fault
     /\ (Fenced(j, owner) /\ row' = Saved(j, s)) \/ UNCHANGED row
     /\ Error

\* Mutant: a job that is being cancelled does not count.
ActiveCountRunning(j) == Cardinality({i \in Jobs \ {j} : row[i].status = "running"})

ActiveOthers(j) == Cardinality({i \in Jobs \ {j} : row[i].status \in Active})

----------------------------------------------------------------------------
(* Starting and resuming: POST.                                            *)

Set(r, state) == run' = [run EXCEPT ![r] = state]

\* The end of a run: its instance forgets the job id, whichever run is
\* registered under it by now.
Forget(r) ==
  LET p == run[r].process
      j == run[r].job
  IN /\ entry' = [entry EXCEPT ![p][j] = NoRun]
     /\ lost' = [lost EXCEPT ![p] = @ \ {j}]

\* Job ids and lock owners are random: which unused one is taken is immaterial.
NewRun == CHOOSE r \in Runs : run[r].pc = "idle"
NewJob == CHOOSE j \in Jobs : row[j].status = "absent"

\* claim_backtest_job runs under an advisory lock; launchBacktestJob registers
\* the run and sends its first write.
ClaimSlot(r, j, p, processed) ==
  /\ row[j].status \notin Active
  /\ ActiveOthers(j) < MaxConcurrent
  /\ row' = [row EXCEPT ![j] = [status |-> "running", owner |-> r, live |-> TRUE,
                                processed |-> processed]]
  /\ \/ /\ Set(r, [run[r] EXCEPT !.pc = "launch", !.job = j, !.process = p,
                                 !.status = "running", !.processed = processed,
                                 !.saving = [status |-> "running", processed |-> processed]])
        /\ entry' = [entry EXCEPT ![p][j] = r]
        /\ lost' = [lost EXCEPT ![p] = @ \ {j}]
        /\ UNCHANGED faults
     \/ /\ Fault                                    \* the claim was made, the answer lost
        /\ Set(r, [run[r] EXCEPT !.pc = "over", !.job = j, !.process = p, !.processed = processed])
        /\ UNCHANGED <<entry, lost>>
  /\ UNCHANGED <<caller, visited>>

\* Bound: Cardinality(Runs) claims in all.
ClaimsLeft == \E r \in Runs : run[r].pc = "idle"

Start ==
  /\ ClaimsLeft
  /\ \E j \in Jobs : row[j].status = "absent"
  /\ \E p \in Processes : ClaimSlot(NewRun, NewJob, p, 0)
  /\ UNCHANGED resumer

\* A resume reads the row first ..
ReadForResume(x) ==
  /\ ~resumer[x].reading
  /\ ClaimsLeft
  /\ \E j \in Jobs :
       /\ row[j].status \in Terminal \ {"done"}
       /\ resumer' = [resumer EXCEPT ![x] = [reading |-> TRUE, job |-> j,
                                             processed |-> row[j].processed]]
  /\ UNCHANGED <<row, run, entry, lost, caller, visited, faults>>

\* .. and claims a slot with what it read (the instance it reached is only named
\* here: one that crashed in between takes no further step),
Resume(x) ==
  /\ resumer[x].reading
  /\ ClaimsLeft
  /\ \E p \in Processes : ClaimSlot(NewRun, resumer[x].job, p, resumer[x].processed)
  /\ resumer' = [resumer EXCEPT ![x] = IdleResumer]

\* .. or is answered 409 or 429.
ResumeRefused(x) ==
  /\ resumer[x].reading
  /\ row[resumer[x].job].status \in Active \/ ActiveOthers(resumer[x].job) >= MaxConcurrent
  /\ resumer' = [resumer EXCEPT ![x] = IdleResumer]
  /\ UNCHANGED <<row, run, entry, lost, caller, visited, faults>>

\* After the first write the timers are set and the pipeline starts.
Launch(r) ==
  /\ run[r].pc = "launch"
  /\ Persist(run[r].job, r, run[r].saving,
       Set(r, [run[r] EXCEPT !.pc = "load", !.timeout = "set", !.saving = NoSnapshot]),
       Set(r, [run[r] EXCEPT !.pc = "failClaim", !.saving = NoSnapshot]))
  /\ UNCHANGED <<entry, lost, caller, visited>>

\* failClaimedBacktest: fail_claimed_backtest_job does not ask for a live lease.
FailClaim(r) ==
  LET j == run[r].job
  IN /\ run[r].pc = "failClaim"
     /\ \/ /\ row' = IF row[j].status = "running" /\ row[j].owner = r
                     THEN [row EXCEPT ![j].status = "error", ![j].owner = NoRun, ![j].live = FALSE]
                     ELSE row
           /\ UNCHANGED faults
        \/ Fault /\ UNCHANGED row
     /\ entry' = [entry EXCEPT ![run[r].process][j] = NoRun]
     /\ Set(r, [run[r] EXCEPT !.pc = "over", !.aborted = "no"])
     /\ UNCHANGED <<lost, caller, visited>>

----------------------------------------------------------------------------
(* The pipeline: runBacktest and what launchBacktestJob does when it ends. *)

\* finally
Over(r, state) ==
  /\ Set(r, [state EXCEPT !.pc = "over", !.aborted = "no", !.saving = NoSnapshot,
                          !.timeout = IF @ = "set" THEN "over" ELSE @])
  /\ Forget(r)

LeaseLost(r) == run[r].job \in lost[run[r].process]

\* The catch block: the status the error stands for, saved unless the lease
\* is known to be lost.
Throw(r, cause) ==
  LET status == IF run[r].status = "cancelling" \/ cause = "cancelled" THEN "cancelled"
                ELSE IF cause = "timeout" THEN "timed_out" ELSE "error"
      failed == [run[r] EXCEPT !.status = status]
  IN IF LeaseLost(r)
     THEN Over(r, failed)
     ELSE /\ Set(r, [failed EXCEPT !.pc = "ending",
                       !.saving = [status |-> status, processed |-> run[r].processed]])
          /\ UNCHANGED <<entry, lost>>

\* await persistJob(job) in the pipeline
Save(r, state) ==
  IF LeaseLost(r)
  THEN Throw(r, "lease")
  ELSE /\ Set(r, [state EXCEPT !.pc = "saving",
                    !.saving = [status |-> state.status, processed |-> state.processed]])
       /\ UNCHANGED <<entry, lost>>

\* The whitelist of leagues, and the number of days.  An abort that comes while
\* the whitelist is read is noticed at the first day.
Load(r) ==
  /\ run[r].pc = "load"
  /\ Save(r, run[r])
  /\ UNCHANGED <<row, caller, visited, faults>>

\* Mutant: one day too many.
DaysLeftInclusive(r) == run[r].processed <= Dates

DaysLeft(r) == run[r].processed < Dates

\* throwIfAborted, at the start of a day
Check(r) ==
  /\ run[r].pc = "check"
  /\ run[r].aborted = "no"
  /\ DaysLeft(r)
  /\ Set(r, [run[r] EXCEPT !.pc = "working"])
  /\ UNCHANGED <<row, entry, lost, caller, visited, faults>>

\* throwIfAborted, before the whitelist is read, there, after a failed load of a
\* schedule, at each match, and around the final steps
NoticeAbort(r) ==
  /\ run[r].pc \in {"load", "check", "working"}
  /\ run[r].aborted # "no"
  /\ Throw(r, run[r].aborted)
  /\ UNCHANGED <<row, caller, visited, faults>>

\* The whitelist could not be read, or the results of a day not be stored.  No
\* other error ends a run: a schedule or odds that cannot be loaded are taken for
\* empty ones (Day), and a failed analysis, verification or learning is logged.
Fail(r) ==
  /\ run[r].pc \in {"load", "working"}
  /\ Fault
  /\ Throw(r, "failure")
  /\ UNCHANGED <<row, caller, visited>>

\* Mutant: the day is counted when it starts.
FinishDayEarly(r) ==
  /\ visited' = visited
  /\ Save(r, [run[r] EXCEPT !.processed = @ + 1])

FinishDay(r) ==
  /\ visited' = [visited EXCEPT ![run[r].job] = @ \cup {run[r].processed + 1}]
  /\ Save(r, [run[r] EXCEPT !.processed = @ + 1])

\* A day is over and counted: its matches were analysed, or there were none, or
\* none were found because its schedule or odds could not be loaded.
Day(r) ==
  /\ run[r].pc = "working"
  /\ FinishDay(r)
  /\ UNCHANGED <<row, caller, faults>>

\* Mutant: without the last throwIfAborted.
MayFinishAborted(r) == TRUE

MayFinish(r) == run[r].aborted = "no"

\* All days are processed, or the maximum of matches ended the loop within a
\* day.  After verification and learning: throwIfAborted, then done, in one go.
Finish(r) ==
  /\ \/ run[r].pc = "check" /\ run[r].processed = Dates
     \/ run[r].pc = "working"
  /\ MayFinish(r)
  /\ Save(r, [run[r] EXCEPT !.status = "done"])
  /\ UNCHANGED <<row, caller, visited, faults>>

\* The answer to the pipeline's write.
SaveAnswered(r) ==
  /\ run[r].pc = "saving"
  /\ Persist(run[r].job, r, run[r].saving,
       IF run[r].saving.status = "done"
       THEN Over(r, run[r])
       ELSE Set(r, [run[r] EXCEPT !.pc = "check", !.saving = NoSnapshot]) /\ UNCHANGED <<entry, lost>>,
       Throw(r, "lease"))
  /\ UNCHANGED <<caller, visited>>

End(r) ==
  /\ run[r].pc = "ending"
  /\ Persist(run[r].job, r, run[r].saving, Over(r, run[r]), Over(r, run[r]))
  /\ UNCHANGED <<caller, visited>>

----------------------------------------------------------------------------
(* Timers of a run.                                                        *)

TimersSet(r) == run[r].pc \in {"load", "check", "working", "saving", "ending"}

\* Only the first reason counts.
AbortedBy(reason, state) ==
  IF state.aborted = "no" THEN [state EXCEPT !.aborted = reason] ELSE state

Timeout(r) ==
  /\ TimersSet(r)
  /\ run[r].timeout = "set"
  /\ Set(r, [AbortedBy("timeout", run[r]) EXCEPT
               !.status = "timed_out",
               !.timeout = IF LeaseLost(r) THEN "over" ELSE "sent",
               !.overdue = [status |-> "timed_out", processed |-> run[r].processed]])
  /\ UNCHANGED <<row, entry, lost, caller, visited, faults>>

\* The timeout's own write, whose answer nobody reads.
TimeoutSaved(r) ==
  /\ run[r].timeout = "sent"
  /\ Persist(run[r].job, r, run[r].overdue, TRUE, TRUE)
  /\ Set(r, [run[r] EXCEPT !.timeout = "over", !.overdue = NoSnapshot])
  /\ UNCHANGED <<entry, lost, caller, visited>>

\* heartbeat_backtest_job renews by owner and status, a lease that ran out too.
Heartbeat(r) ==
  LET j == run[r].job
      mine == row[j].status \in Active /\ row[j].owner = r
      renewed == [row EXCEPT ![j].live = TRUE]
  IN /\ TimersSet(r)
     /\ run[r].aborted = "no" /\ run[r].beat = "none"
     /\ \/ mine /\ row' = renewed /\ UNCHANGED <<run, faults>>
        \/ ~mine /\ Set(r, [run[r] EXCEPT !.beat = "failed"]) /\ UNCHANGED <<row, faults>>
        \/ /\ Fault
           /\ row' \in {row} \cup {s \in {renewed} : mine}
           /\ Set(r, [run[r] EXCEPT !.beat = "failed"])
     /\ UNCHANGED <<entry, lost, caller, visited>>

\* The negative answer arrives, perhaps after the run it belongs to is over.
HeartbeatFailed(r) ==
  /\ run[r].beat = "failed"
  /\ Set(r, AbortedBy("lease", [run[r] EXCEPT !.beat = "none"]))
  /\ lost' = [lost EXCEPT ![run[r].process] = @ \cup {run[r].job}]
  /\ UNCHANGED <<row, entry, caller, visited, faults>>

----------------------------------------------------------------------------
(* Requests: GET and DELETE.                                               *)

Ask(c, state) == caller' = [caller EXCEPT ![c] = state]

\* DELETE where the job runs: the shared object first, then its row.
Cancel(c) ==
  /\ caller[c].pc = "idle"
  /\ \E p \in Processes, j \in Jobs :
       LET r == entry[p][j]
       IN /\ r # NoRun
          /\ run[r].status \in Active
          /\ Set(r, [run[r] EXCEPT !.status = "cancelling"])
          /\ IF j \in lost[p]
             THEN Ask(c, [IdleCaller EXCEPT !.pc = "over"])
             ELSE Ask(c, [pc |-> "cancel", process |-> p, job |-> j, run |-> r,
                          saving |-> [status |-> "cancelling", processed |-> run[r].processed]])
  /\ UNCHANGED <<row, entry, lost, visited, faults>>

\* abort() goes to the controller registered under the job id, and the answer
\* contains the shared object as it is by then.
CancelSaved(c) ==
  LET r == caller[c].run
      registered == entry[caller[c].process][caller[c].job]
  IN /\ caller[c].pc = "cancel"
     /\ Persist(caller[c].job, r, caller[c].saving,
          IF registered = NoRun
          THEN UNCHANGED run
          ELSE Set(registered, [AbortedBy("cancelled", run[registered]) EXCEPT
                 !.told = @ \/ (registered = r /\ run[r].status = "cancelling")]),
          UNCHANGED run)
     /\ Ask(c, [IdleCaller EXCEPT !.pc = "over"])
     /\ UNCHANGED <<entry, lost, visited>>

\* GET of a job whose lease is over, or DELETE, on an instance that does not
\* know the job (there may always be another one): it is going to be marked as
\* interrupted.
FindInterrupted(c) ==
  /\ caller[c].pc = "idle"
  /\ \E j \in Jobs :
       /\ row[j].status \in Active
       /\ Ask(c, [IdleCaller EXCEPT !.pc = "mark", !.job = j, !.run = row[j].owner,
                  !.saving = [status |-> "error", processed |-> row[j].processed]])
  /\ UNCHANGED <<row, run, entry, lost, visited, faults>>

MarkInterrupted(c) ==
  /\ caller[c].pc = "mark"
  /\ Persist(caller[c].job, caller[c].run, caller[c].saving, TRUE, TRUE)
  /\ Ask(c, [IdleCaller EXCEPT !.pc = "over"])
  /\ UNCHANGED <<run, entry, lost, visited>>

----------------------------------------------------------------------------
(* The reconciler, time and crashes.                                       *)

\* Mutant: a job that is being cancelled is not looked at.
ExpiredRunning(j) == row[j].status = "running" /\ ~row[j].live

Expired(j) == row[j].status \in Active /\ ~row[j].live

\* reconcile_expired_backtest_jobs
Reconcile(j) ==
  /\ Expired(j)
  /\ row' = [row EXCEPT ![j].status = "error", ![j].owner = NoRun]
  /\ UNCHANGED <<run, entry, lost, caller, visited, faults>>

\* Nobody renews the lease any more.
Orphaned(j) == row[j].status \in Active /\ run[row[j].owner].pc = "over"

\* It runs out, or does so although its run goes on.
LeaseRunsOut(j) ==
  /\ row[j].live
  /\ IF Orphaned(j) THEN UNCHANGED faults ELSE Fault
  /\ row' = [row EXCEPT ![j].live = FALSE]
  /\ UNCHANGED <<run, entry, lost, caller, visited>>

Crash(p) ==
  /\ Fault
  /\ run' = [r \in Runs |->
       IF run[r].process = p /\ run[r].pc # "idle"
       THEN [run[r] EXCEPT !.pc = "over", !.aborted = "no", !.saving = NoSnapshot,
                           !.timeout = "over", !.overdue = NoSnapshot, !.beat = "none"]
       ELSE run[r]]
  /\ entry' = [entry EXCEPT ![p] = [j \in Jobs |-> NoRun]]
  /\ lost' = [lost EXCEPT ![p] = {}]
  /\ caller' = [c \in Callers |-> IF caller[c].pc = "cancel" /\ caller[c].process = p
       THEN [IdleCaller EXCEPT !.pc = "over"]
       ELSE caller[c]]
  /\ UNCHANGED <<row, visited>>

----------------------------------------------------------------------------
Pipeline(r) ==
  \/ Launch(r) \/ FailClaim(r) \/ Load(r) \/ Check(r) \/ NoticeAbort(r) \/ Fail(r)
  \/ Day(r) \/ Finish(r) \/ SaveAnswered(r) \/ End(r)

Timers(r) == Timeout(r) \/ TimeoutSaved(r) \/ Heartbeat(r) \/ HeartbeatFailed(r)

Next ==
  \/ Start
  \/ \E x \in Resumers : ReadForResume(x) \/ Resume(x) \/ ResumeRefused(x)
  \/ /\ \/ \E r \in Runs : Pipeline(r) \/ Timers(r)
        \/ \E c \in Callers :
             Cancel(c) \/ CancelSaved(c) \/ FindInterrupted(c) \/ MarkInterrupted(c)
        \/ \E j \in Jobs : Reconcile(j) \/ LeaseRunsOut(j)
        \/ \E p \in Processes : Crash(p)
     /\ UNCHANGED resumer

Spec == Init /\ [][Next]_vars

\* A pipeline goes on, the lease of a run that is over runs out, and a timer
\* runs the reconciler, which takes every expired row.  Nothing obliges
\* clients to poll.
FairSpec ==
  /\ Spec
  /\ WF_vars((\E r \in Runs : Pipeline(r)) /\ UNCHANGED resumer)
  /\ WF_vars((\E j \in Jobs : Reconcile(j) \/ (Orphaned(j) /\ LeaseRunsOut(j))) /\ UNCHANGED resumer)

----------------------------------------------------------------------------
(* Properties.                                                             *)

TypeOK ==
  /\ row \in [Jobs -> Row]
  /\ run \in [Runs -> RunState]
  /\ entry \in [Processes -> [Jobs -> Runs \cup {NoRun}]]
  /\ lost \in [Processes -> SUBSET Jobs]
  /\ caller \in [Callers -> CallerState]
  /\ resumer \in [Resumers -> ResumerState]
  /\ visited \in [Jobs -> SUBSET (1..Dates)]
  /\ faults \in Nat

\* At most MaxConcurrent backtests occupy a slot, whoever started or resumed
\* them, on whichever instance, and also while they are being cancelled.
SlotsBounded == Cardinality({j \in Jobs : row[j].status \in Active}) <= MaxConcurrent

\* A slot belongs to the run that claimed it, and what the row says of its
\* progress is no more than that run has done: a run that lost its slot does
\* not write into the row of the next one.
RowFollowsHolder ==
  \A j \in Jobs :
    row[j].status \in Active =>
      /\ row[j].owner \in Runs
      /\ run[row[j].owner].job = j
      /\ row[j].processed <= run[row[j].owner].processed

\* A backtest that ended stays as it ended until a new claim: late answers of
\* the pipeline, the timeout, a cancellation or a poll do not change it.
EndedStays ==
  [][\A j \in Jobs :
       row[j].status \in Terminal /\ row'[j] # row[j] =>
         /\ row'[j].status = "running"
         /\ row'[j].owner \in Runs
         /\ run[row'[j].owner].pc = "idle"]_vars

\* No day is skipped by stopping and resuming: the days a row counts as processed,
\* and the days before the one where a run is, started or resumed from whatever
\* was read, were gone through by some run of the job.  That their matches were
\* analysed is not said, and not so: a day that could not be loaded counts too.
NoDaySkipped ==
  /\ \A j \in Jobs : 1..row[j].processed \subseteq visited[j]
  /\ \A r \in Runs : 1..run[r].processed \subseteq visited[run[r].job]

\* A run whose caller was told "cancelling" does not end as done, although its
\* pipeline may have been writing anything meanwhile.  (The run must still be
\* registered: an older run of the job that ends on the same instance takes the
\* registration of the newer one with it, and its cancellation is then lost.)
CancellationHonoured == \A r \in Runs : run[r].told => run[r].status # "done"

\* A slot is freed: every claimed backtest ends, although instances crash,
\* answers are lost and leases run out while the run goes on.
EveryBacktestEnds ==
  \A j \in Jobs : row[j].status \in Active ~> row[j].status \in Terminal
=============================================================================
