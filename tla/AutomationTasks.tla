-------------------------- MODULE AutomationTasks --------------------------
(***************************************************************************)
(* The background task engine: the rows of automation_tasks and            *)
(* automation_task_steps, the dispatch requests that claim a task and run  *)
(* its steps (AutomationEngine.runAvailable over                           *)
(* SupabaseAutomationRepository), and the requests that create, re-arm and *)
(* reschedule tasks.  Every awaited database call is one atomic step; a    *)
(* request may stop between any two of them.                               *)
(*                                                                         *)
(* Bookkeeping no guard reads (current_step, started_at, completed_at,     *)
(* result, last_error, payload) is left out.                               *)
(***************************************************************************)
EXTENDS Integers, FiniteSets

CONSTANTS
  Tasks,            \* idempotency keys of tasks
  Analysis,         \* the tasks of type analysis or match-t30-analysis
  Dynamic,          \* the tasks of type match-t30-analysis
  Workers,          \* dispatch or compensate requests that run tasks
  Producers,        \* requests that create, re-arm or reschedule tasks
  None,             \* lock_owner IS NULL
  NumSteps,         \* steps of a task definition
  MaxTaskAttempts,  \* max_attempts of a task
  MaxStepAttempts,  \* max_attempts of a step
  Lease,            \* leaseMs
  RetryDelay,       \* retryDelayMs
  ScanLimit,        \* rows a claim scan reads
  MaxTime,          \* bound: the clock
  MaxCrashes,       \* bound: workers that stop in the middle
  Schedules,        \* bound: the times a T-30 task is scheduled for
  MaxRequests       \* bound: create, re-arm or reschedule requests

ASSUME ConstantsAssumption ==
  /\ Dynamic \subseteq Analysis
  /\ Analysis \subseteq Tasks
  /\ None \notin Workers
  /\ NumSteps \in Nat
  /\ MaxTaskAttempts \in Nat
  /\ MaxStepAttempts \in Nat \ {0}    \* maxAttempts || 3
  /\ Lease \in Nat
  /\ RetryDelay \in Nat
  /\ Schedules \subseteq Nat
  /\ Tasks # {}

VARIABLES
  now,        \* the clock every process and the database share
  task,       \* automation_tasks
  step,       \* automation_task_steps
  worker,     \* local state of each runAvailable call
  producer,   \* local state of each createIdempotent or createOrReschedule call
  crashes,    \* workers stopped so far
  requests,   \* producer requests started so far
  rearms      \* failed tasks re-armed so far

vars == <<now, task, step, worker, producer, crashes, requests, rearms>>

----------------------------------------------------------------------------
Steps == 1..NumSteps

NoTime == -1   \* lock_expires_at IS NULL

TaskStatus == {"absent", "pending", "running", "retrying", "completed", "failed"}

TaskRow == [status : TaskStatus, attempts : Nat, owner : Workers \cup {None},
            lockExpires : Nat \cup {NoTime}, scheduled : Nat]

StepRow == [status : TaskStatus, attempts : Nat]

\* A row as a scan returned it.
Candidate == [id : Tasks, row : TaskRow]

\* "load" .. "failTask": the worker executes the task it claimed.
ExecutingPc == {"load", "begin", "mark", "handle", "finish", "failStep", "failTask"}

WorkerState == [pc : {"idle", "claimReady", "claimExpired"} \cup ExecutingPc,
                at : Nat,                   \* the `now` passed to the call
                cands : SUBSET Candidate,   \* rows still to try
                cur : Tasks,                \* the claimed task
                until : Nat \cup {NoTime},  \* the lease its claim wrote
                attempts : Nat,             \* task.attemptCount as loaded
                todo : SUBSET Steps,        \* loaded steps still to run
                base : [Steps -> Nat],      \* step.attemptCount as loaded
                seen : Nat]                 \* attempts read by markStepRunning

ProducerState == [pc : {"idle", "rearm", "reset", "upsert", "reread", "reschedule"},
                  cur : Tasks,
                  want : Nat]               \* input.scheduledAt

AnyTask == CHOOSE t \in Tasks : TRUE

AbsentTask == [status |-> "absent", attempts |-> 0, owner |-> None,
               lockExpires |-> NoTime, scheduled |-> 0]

AbsentStep == [status |-> "absent", attempts |-> 0]

IdleWorker == [pc |-> "idle", at |-> 0, cands |-> {}, cur |-> AnyTask,
               until |-> NoTime, attempts |-> 0, todo |-> {},
               base |-> [s \in Steps |-> 0], seen |-> 0]

IdleProducer == [pc |-> "idle", cur |-> AnyTask, want |-> 0]

Init ==
  /\ now = 0
  /\ task = [t \in Tasks |-> AbsentTask]
  /\ step = [t \in Tasks |-> [s \in Steps |-> AbsentStep]]
  /\ worker = [w \in Workers |-> IdleWorker]
  /\ producer = [p \in Producers |-> IdleProducer]
  /\ crashes = 0
  /\ requests = 0
  /\ rearms = 0

----------------------------------------------------------------------------
(* Claiming: claimNext and claimCandidate.                                 *)

Executing(w) == worker[w].pc \in ExecutingPc

\* The ORDER BY column of the scan that returned the row.
DueAt(c) == IF c.row.status = "running" THEN c.row.lockExpires ELSE c.row.scheduled

\* The results ORDER BY .. LIMIT may return from `rows`; ties are arbitrary.
Pages(rows) ==
  {page \in SUBSET rows :
     /\ Cardinality(page) <= ScanLimit
     /\ page # rows => Cardinality(page) = ScanLimit
     /\ \A c \in page, d \in rows \ page : DueAt(c) <= DueAt(d)}

Snapshots(ts) == {[id |-> t, row |-> task[t]] : t \in ts}

ReadyTasks(at) == {t \in Tasks : /\ task[t].status \in {"pending", "retrying"}
                                 /\ task[t].scheduled <= at}

\* Mutants: an expired scan that looks at the wrong status ..
ExpiredTasksNotRunning(at) == {t \in Tasks : /\ task[t].status = "retrying"
                                             /\ task[t].lockExpires # NoTime
                                             /\ task[t].lockExpires < at}

\* .. and one that takes a lease that runs out right now for an expired one.
ExpiredTasksEarly(at) == {t \in Tasks : /\ task[t].status = "running"
                                        /\ task[t].lockExpires # NoTime
                                        /\ task[t].lockExpires <= at}

ExpiredTasks(at) == {t \in Tasks : /\ task[t].status = "running"
                                   /\ task[t].lockExpires # NoTime
                                   /\ task[t].lockExpires < at}

ScanReady(w) ==
  /\ worker[w].pc = "idle"
  /\ \E page \in Pages(Snapshots(ReadyTasks(now))) :
       worker' = [worker EXCEPT ![w] = [@ EXCEPT
                       !.pc = "claimReady",
                       !.at = now,
                       !.cands = page]]
  /\ UNCHANGED <<now, task, step, producer, crashes, requests, rearms>>

ScanExpired(w) ==
  /\ worker[w].pc = "claimReady"
  /\ worker[w].cands = {}
  /\ \E page \in Pages(Snapshots(ExpiredTasks(worker[w].at))) :
       worker' = [worker EXCEPT ![w] = [@ EXCEPT !.pc = "claimExpired", !.cands = page]]
  /\ UNCHANGED <<now, task, step, producer, crashes, requests, rearms>>

NothingToClaim(w) ==
  /\ worker[w].pc = "claimExpired"
  /\ worker[w].cands = {}
  /\ worker' = [worker EXCEPT ![w] = IdleWorker]
  /\ UNCHANGED <<now, task, step, producer, crashes, requests, rearms>>

\* The candidate whose turn it is in the scan's order.
IsNext(c, w) == \A d \in worker[w].cands : DueAt(c) <= DueAt(d)

\* Mutants: an update that forgets the lease, or the status, it read.
CasMatchesStatusOnly(c) == task[c.id].status = c.row.status

CasMatchesIdOnly(c) == c.row.status = "running" => task[c.id].lockExpires = c.row.lockExpires

\* WHERE id = .. AND status = .. [AND lock_expires_at = ..]
CasMatches(c) ==
  /\ task[c.id].status = c.row.status
  /\ c.row.status = "running" => task[c.id].lockExpires = c.row.lockExpires

\* Mutant: an index per task type instead of one for the family.
IndexAllowsOnePerType(t) ==
  t \in Dynamic => \A u \in Dynamic \ {t} : task[u].status # "running"

\* automation_tasks_single_running_analysis does not reject the row.
IndexAllows(t) ==
  t \in Analysis => \A u \in Analysis \ {t} : task[u].status # "running"

ClaimedRow(c, w) == [task[c.id] EXCEPT !.status = "running",
                                       !.attempts = c.row.attempts + 1,
                                       !.owner = w,
                                       !.lockExpires = worker[w].at + Lease]

Claim(w) ==
  /\ worker[w].pc \in {"claimReady", "claimExpired"}
  /\ \E c \in worker[w].cands :
       /\ IsNext(c, w)
       /\ CasMatches(c)
       /\ IndexAllows(c.id)
       /\ task' = [task EXCEPT ![c.id] = ClaimedRow(c, w)]
       /\ worker' = [worker EXCEPT ![w] =
            [@ EXCEPT !.pc = "load", !.cur = c.id, !.cands = {}, !.at = 0,
                      !.until = worker[w].at + Lease]]
  /\ UNCHANGED <<now, step, producer, crashes, requests, rearms>>

ClaimMissed(w) ==
  /\ worker[w].pc \in {"claimReady", "claimExpired"}
  /\ \E c \in worker[w].cands :
       /\ IsNext(c, w)
       /\ ~(CasMatches(c) /\ IndexAllows(c.id))
       /\ worker' = [worker EXCEPT ![w] = [@ EXCEPT !.cands = worker[w].cands \ {c}]]
  /\ UNCHANGED <<now, task, step, producer, crashes, requests, rearms>>

----------------------------------------------------------------------------
(* Executing: execute, fail and the mark methods of the repository.  None  *)
(* of these writes looks at lock_owner or lock_expires_at.                 *)

\* The step the loop of execute is at: the first one it still has to run.
AtStep(s, w) == s \in worker[w].todo /\ \A r \in worker[w].todo : s <= r

AfterStep(todo) == IF todo = {} THEN "finish" ELSE "begin"

\* Mutant: a takeover that leaves out the step its predecessor was running.
StepsNotStarted(t) == {s \in Steps : step[t][s].status \notin {"absent", "completed", "running"}}

\* task.steps.filter(step => step.status !== "completed")
StepsToRun(t) == {s \in Steps : step[t][s].status \notin {"absent", "completed"}}

Load(w) ==
  LET t == worker[w].cur
      todo == StepsToRun(t)
  IN /\ worker[w].pc = "load"
     /\ worker' = [worker EXCEPT ![w] =
          [@ EXCEPT !.pc = AfterStep(todo), !.attempts = task[t].attempts,
                    !.todo = todo, !.base = [s \in Steps |-> step[t][s].attempts]]]
     /\ UNCHANGED <<now, task, step, producer, crashes, requests, rearms>>

ReadStep(w) ==
  /\ worker[w].pc = "begin"
  /\ \E s \in Steps :
       /\ AtStep(s, w)
       /\ worker' = [worker EXCEPT ![w] =
            [@ EXCEPT !.pc = "mark", !.seen = step[worker[w].cur][s].attempts]]
  /\ UNCHANGED <<now, task, step, producer, crashes, requests, rearms>>

MarkStepRunning(w) ==
  /\ worker[w].pc = "mark"
  /\ \E s \in Steps :
       /\ AtStep(s, w)
       /\ step' = [step EXCEPT ![worker[w].cur][s] =
                     [status |-> "running", attempts |-> worker[w].seen + 1]]
  /\ worker' = [worker EXCEPT ![w] = [@ EXCEPT !.pc = "handle", !.seen = 0]]
  /\ UNCHANGED <<now, task, producer, crashes, requests, rearms>>

SetStepStatus(t, s, status) == [step EXCEPT ![t][s].status = status]

\* The handler returned.
MarkStepCompleted(w) ==
  /\ worker[w].pc = "handle"
  /\ \E s \in Steps :
       /\ AtStep(s, w)
       /\ step' = SetStepStatus(worker[w].cur, s, "completed")
       /\ worker' = [worker EXCEPT ![w] =
            [@ EXCEPT !.todo = worker[w].todo \ {s},
                      !.pc = AfterStep(worker[w].todo \ {s})]]
  /\ UNCHANGED <<now, task, producer, crashes, requests, rearms>>

\* The handler returned and the write was applied, but its response was lost:
\* the call sits inside the try block and ends in the catch block.
CompletionResponseLost(w) ==
  /\ worker[w].pc = "handle"
  /\ \E s \in Steps :
       /\ AtStep(s, w)
       /\ step' = SetStepStatus(worker[w].cur, s, "completed")
  /\ worker' = [worker EXCEPT ![w] = [@ EXCEPT !.pc = "failStep"]]
  /\ UNCHANGED <<now, task, producer, crashes, requests, rearms>>

\* Mutant: both limits off by one.
RetryableOnceMore(s, w) ==
  /\ worker[w].base[s] < MaxStepAttempts
  /\ worker[w].attempts <= MaxTaskAttempts

Retryable(s, w) ==
  /\ worker[w].base[s] + 1 < MaxStepAttempts
  /\ worker[w].attempts < MaxTaskAttempts

FailedStatus(s, w) == IF Retryable(s, w) THEN "retrying" ELSE "failed"

\* The handler threw, or markStepCompleted reported an error.
MarkStepFailed(w) ==
  /\ worker[w].pc \in {"handle", "failStep"}
  /\ \E s \in Steps :
       /\ AtStep(s, w)
       /\ step' = SetStepStatus(worker[w].cur, s, FailedStatus(s, w))
  /\ worker' = [worker EXCEPT ![w] = [@ EXCEPT !.pc = "failTask", !.at = now]]
  /\ UNCHANGED <<now, task, producer, crashes, requests, rearms>>

\* Mutant: the end of an attempt clears the owner and keeps the lease.
UnlockedKeepsLease(row, status) == [row EXCEPT !.status = status, !.owner = None]

Unlocked(row, status) == [row EXCEPT !.status = status, !.owner = None,
                                     !.lockExpires = NoTime]

\* Mutant: the delay with the wrong sign.
RetryAtEarlier(w) == worker[w].at - RetryDelay

RetryAt(w) == worker[w].at + RetryDelay

FailedRow(row, s, w) ==
  IF Retryable(s, w)
  THEN [Unlocked(row, "retrying") EXCEPT !.scheduled = RetryAt(w)]
  ELSE Unlocked(row, "failed")

MarkTaskFailed(w) ==
  /\ worker[w].pc = "failTask"
  /\ \E s \in Steps :
       /\ AtStep(s, w)
       /\ task' = [task EXCEPT ![worker[w].cur] = FailedRow(@, s, w)]
  /\ worker' = [worker EXCEPT ![w] = IdleWorker]
  /\ UNCHANGED <<now, step, producer, crashes, requests, rearms>>

MarkTaskCompleted(w) ==
  /\ worker[w].pc = "finish"
  /\ task' = [task EXCEPT ![worker[w].cur] = Unlocked(@, "completed")]
  /\ worker' = [worker EXCEPT ![w] = IdleWorker]
  /\ UNCHANGED <<now, step, producer, crashes, requests, rearms>>

\* The process dies, or a database error leaves runAvailable.
Crash(w) ==
  /\ worker[w].pc # "idle"
  /\ crashes < MaxCrashes
  /\ crashes' = crashes + 1
  /\ worker' = [worker EXCEPT ![w] = IdleWorker]
  /\ UNCHANGED <<now, task, step, producer, requests, rearms>>

----------------------------------------------------------------------------
(* Creating: createIdempotent (ensureDueTasks, compensate) and             *)
(* createOrReschedule (reconcileMatchT30Tasks).                            *)

PendingTask(want) == [AbsentTask EXCEPT !.status = "pending", !.scheduled = want]

NewRequest(p, state) ==
  /\ producer[p].pc = "idle"
  /\ requests < MaxRequests
  /\ requests' = requests + 1
  /\ producer' = [producer EXCEPT ![p] = state]

\* The ensure_automation_task RPC: insert, or read the row already there.
Ensured(t, scheduled) ==
  IF task[t].status = "absent" THEN [task EXCEPT ![t] = PendingTask(scheduled)] ELSE task

EnsureDue(p) ==
  /\ \E t \in Tasks \ Dynamic :
       /\ NewRequest(p, [pc |-> "upsert", cur |-> t, want |-> 0])
       /\ task' = Ensured(t, now)
  /\ UNCHANGED <<now, step, worker, crashes, rearms>>

EnsureDynamic(p) ==
  /\ \E t \in Dynamic, want \in Schedules :
       /\ NewRequest(p, [pc |-> "upsert", cur |-> t, want |-> want])
       /\ task' = Ensured(t, want)
  /\ UNCHANGED <<now, step, worker, crashes, rearms>>

\* A manual compensation whose RPC reads a failed row.
EnsureFailed(p) ==
  /\ \E t \in Tasks \ Dynamic :
       /\ task[t].status = "failed"
       /\ NewRequest(p, [pc |-> "rearm", cur |-> t, want |-> now])
  /\ UNCHANGED <<now, task, step, worker, crashes, rearms>>

Rearm(p) ==
  LET t == producer[p].cur
  IN /\ producer[p].pc = "rearm"
     /\ task[t].status = "failed"
     /\ rearms' = rearms + 1
     /\ task' = [task EXCEPT ![t] = [@ EXCEPT !.status = "pending", !.attempts = 0,
                                              !.scheduled = producer[p].want]]
     /\ producer' = [producer EXCEPT ![p].pc = "reset"]
     /\ UNCHANGED <<now, step, worker, crashes, requests>>

RearmMissed(p) ==
  /\ producer[p].pc = "rearm"
  /\ task[producer[p].cur].status # "failed"
  /\ producer' = [producer EXCEPT ![p].pc = "upsert"]
  /\ UNCHANGED <<now, task, step, worker, crashes, requests, rearms>>

\* Mutant: a compensation that starts the task over.
ResetEveryStep(row) ==
  IF row.status # "absent" THEN [status |-> "pending", attempts |-> 0] ELSE row

ResetStep(row) ==
  IF row.status \in {"failed", "retrying", "running"}
  THEN [status |-> "pending", attempts |-> 0]
  ELSE row

ResetSteps(p) ==
  LET t == producer[p].cur
  IN /\ producer[p].pc = "reset"
     /\ step' = [step EXCEPT ![t] = [s \in Steps |-> ResetStep(step[t][s])]]
     /\ producer' = [producer EXCEPT ![p].pc = "upsert"]
     /\ UNCHANGED <<now, task, worker, crashes, requests, rearms>>

\* ON CONFLICT (task_id, step_key) DO NOTHING
EnsureStep(row) ==
  IF row.status = "absent" THEN [status |-> "pending", attempts |-> 0] ELSE row

UpsertSteps(p) ==
  LET t == producer[p].cur
  IN /\ producer[p].pc = "upsert"
     /\ step' = [step EXCEPT ![t] = [s \in Steps |-> EnsureStep(step[t][s])]]
     /\ producer' = IF t \in Dynamic
                    THEN [producer EXCEPT ![p].pc = "reread"]
                    ELSE [producer EXCEPT ![p] = IdleProducer]
     /\ UNCHANGED <<now, task, worker, crashes, requests, rearms>>

\* createOrReschedule compares the row createIdempotent returned with its
\* input as text.  The database writes a timestamp in another format, and a
\* payload with its keys in another order, than the input has them, so any
\* pending row counts as changed.
Reread(p) ==
  /\ producer[p].pc = "reread"
  /\ producer' = IF task[producer[p].cur].status = "pending"
                 THEN [producer EXCEPT ![p].pc = "reschedule"]
                 ELSE [producer EXCEPT ![p] = IdleProducer]
  /\ UNCHANGED <<now, task, step, worker, crashes, requests, rearms>>

Reschedule(p) ==
  LET t == producer[p].cur
  IN /\ producer[p].pc = "reschedule"
     /\ task' = IF task[t].status = "pending"
                THEN [task EXCEPT ![t].scheduled = producer[p].want]
                ELSE task
     /\ producer' = [producer EXCEPT ![p] = IdleProducer]
     /\ UNCHANGED <<now, step, worker, crashes, requests, rearms>>

\* The request dies, or a database error leaves createIdempotent.
ProducerStops(p) ==
  /\ producer[p].pc # "idle"
  /\ producer' = [producer EXCEPT ![p] = IdleProducer]
  /\ UNCHANGED <<now, task, step, worker, crashes, requests, rearms>>

----------------------------------------------------------------------------
\* Time is compared only with the schedule of a waiting row and with the
\* lease of a running one, so the clock moves only while such a row exists.
Waiting(t) ==
  \/ task[t].status \in {"pending", "retrying"} /\ task[t].scheduled > now
  \/ task[t].status = "running" /\ task[t].lockExpires >= now

Tick ==
  /\ now < MaxTime
  /\ \E t \in Tasks : Waiting(t)
  /\ now' = now + 1
  /\ UNCHANGED <<task, step, worker, producer, crashes, requests, rearms>>

ClaimStep(w) == ScanReady(w) \/ ScanExpired(w) \/ NothingToClaim(w) \/ Claim(w) \/ ClaimMissed(w)

ExecuteStep(w) ==
  \/ Load(w)
  \/ ReadStep(w)
  \/ MarkStepRunning(w)
  \/ MarkStepCompleted(w)
  \/ MarkStepFailed(w)
  \/ MarkTaskFailed(w)
  \/ MarkTaskCompleted(w)

WorkerStep(w) == ClaimStep(w) \/ ExecuteStep(w) \/ CompletionResponseLost(w)

ProducerStep(p) ==
  \/ EnsureDue(p)
  \/ EnsureDynamic(p)
  \/ EnsureFailed(p)
  \/ Rearm(p)
  \/ RearmMissed(p)
  \/ ResetSteps(p)
  \/ UpsertSteps(p)
  \/ Reread(p)
  \/ Reschedule(p)
  \/ ProducerStops(p)

Next ==
  \/ \E w \in Workers : WorkerStep(w) \/ Crash(w)
  \/ \E p \in Producers : ProducerStep(p)
  \/ Tick

Spec == Init /\ [][Next]_vars

\* The timer starts a dispatch request every minute and a started request
\* goes on to its next database call; nothing obliges anyone to create,
\* re-arm or reschedule a task.
FairSpec == Spec /\ (\A w \in Workers : WF_vars(WorkerStep(w))) /\ WF_vars(Tick)

\* The engine under the two conditions its leases count on: an executing
\* worker is done before the lease its claim wrote runs out (a dispatch
\* request is given 300 s, a lease is 15 minutes), and an update whose
\* response is an error was not applied.
Timely == \A w \in Workers : Executing(w) => now <= worker[w].until

OrderlyNext ==
  /\ Next
  /\ Timely'
  /\ ~\E w \in Workers : CompletionResponseLost(w)

OrderlySpec == Init /\ [][OrderlyNext]_vars

----------------------------------------------------------------------------
(* Properties of every behaviour (Spec).                                   *)

TypeOK ==
  /\ now \in Nat
  /\ task \in [Tasks -> TaskRow]
  /\ step \in [Tasks -> [Steps -> StepRow]]
  /\ worker \in [Workers -> WorkerState]
  /\ producer \in [Producers -> ProducerState]
  /\ crashes \in Nat
  /\ requests \in Nat
  /\ rearms \in Nat

\* A row is running exactly while it carries an owner and a lease, whichever
\* workers, stale ones included, wrote to it.  A running row without a lease
\* would be seen by neither scan of claimNext and never run again.
RunningIffLeased ==
  \A t \in Tasks :
    /\ task[t].status = "running" <=> task[t].lockExpires # NoTime
    /\ task[t].status = "running" <=> task[t].owner # None

\* The analysis family runs one task at a time: re-claiming the expired task
\* of a dead worker is the only way past a running analysis row.
SingleRunningAnalysis ==
  \A t, u \in Analysis :
    task[t].status = "running" /\ task[u].status = "running" => t = u

\* A claim takes a running row over only when the lease in the row has run
\* out, however long the claimer waited between its scan and its update.
LiveLeaseNotStolen ==
  [][\A t \in Tasks :
       /\ task[t].status = "running"
       /\ task'[t].status = "running"
       /\ task'[t] # task[t]
       => task[t].lockExpires < now]_vars

\* Every created task is eventually completed or failed for good, although
\* workers stop in the middle, leases run out under slow workers and retries
\* are delayed.
Settled(t) == task[t].status \in {"completed", "failed"}
EveryTaskSettles == \A t \in Tasks : task[t].status # "absent" ~> Settled(t)

----------------------------------------------------------------------------
(* Properties of the orderly behaviours (OrderlySpec).                     *)

\* A worker that executes a task owns its row under the lease its claim
\* wrote, so no two workers execute one task.
ExecutorHoldsLease ==
  \A w \in Workers : Executing(w) =>
    LET row == task[worker[w].cur]
    IN row.status = "running" /\ row.owner = w /\ row.lockExpires = worker[w].until

\* A completed step stays completed: retries, takeovers after a crash and
\* manual compensation never run it again.
CompletedStepIsFinal ==
  [][\A t \in Tasks, s \in Steps :
       step[t][s].status = "completed" => step'[t][s].status = "completed"]_vars

\* A completed task is never reopened.
CompletedTaskIsFinal ==
  [][\A t \in Tasks :
       task[t].status = "completed" => task'[t].status = "completed"]_vars

\* A completed task leaves no step failed, retrying or running: takeover and
\* compensation pick up every step an earlier execution left half way.
CompletedTaskHasNoBrokenStep ==
  \A t \in Tasks, s \in Steps :
    task[t].status = "completed" =>
      step[t][s].status \in {"absent", "pending", "completed"}

\* A step is attempted at most max_attempts times, plus once for every
\* worker that stopped and every manual compensation.
AttemptsBounded ==
  \A t \in Tasks, s \in Steps :
    step[t][s].attempts <= MaxStepAttempts + crashes + rearms

\* The engine implements ExclusiveTasks: the worker that executes a task is
\* its holder.
Holder(t) ==
  IF \E w \in Workers : Executing(w) /\ worker[w].cur = t
  THEN CHOOSE w \in Workers : Executing(w) /\ worker[w].cur = t
  ELSE None

PhaseOf(status) == CASE status = "running" -> "taken"
                     [] status \in {"pending", "retrying"} -> "open"
                     [] OTHER -> status

phases == [t \in Tasks |-> PhaseOf(task[t].status)]

holders == [t \in Tasks |-> Holder(t)]

Exclusive == INSTANCE ExclusiveTasks WITH phase <- phases, holder <- holders

ImplementsExclusiveTasks == Exclusive!Spec

----------------------------------------------------------------------------
(* What tests and documents say and the code does not do.                  *)

\* "allows only one owner to claim a task until its lease expires"
\* (tests/automation-engine.test.ts:186)
OneOwnerUntilLeaseExpires ==
  \A v, w \in Workers :
    /\ Executing(v) /\ now <= worker[v].until
    /\ Executing(w) /\ now <= worker[w].until
    /\ worker[v].cur = worker[w].cur
    => v = w

\* A completed task has completed every step of its definition
\* (tests/automation-engine.test.ts:206-218).
CompletedTaskRanEveryStep ==
  \A t \in Tasks, s \in Steps :
    task[t].status = "completed" => step[t][s].status = "completed"

\* "at most 3 attempts" of a step (PROJECT.md:131)
AtMostMaxAttempts ==
  \A t \in Tasks, s \in Steps : step[t][s].attempts <= MaxStepAttempts
============================================================================
