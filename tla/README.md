# Peilv: a TLA+ verification project

Peilv is a football-odds analysis service: a Next.js application on a Postgres
database reached through Supabase, driven by systemd timers.  Several requests
(timers, administrators, browsers) and possibly several instances of the
application work on the same rows at the same time, and most of the state that
has to survive is a status column changed by small conditional updates without a
surrounding transaction.  This project models that part.  Paths below are
relative to the repository; `lib/` and `features/` stand for `src/lib/` and
`src/features/`.

| module | content |
|---|---|
| `AutomationTasks` | the background task engine: rows, workers, producers, the clock |
| `ExclusiveTasks` | what the engine promises, as a specification of its own |
| `CommandReceipts` | management commands: receipts, replays, audit rows, the reconciler |
| `BacktestJobs` | backtests: slots, leases, the run and its timers, cancellation, resume, the reconciler |
| `AdminAccounts` | administrator accounts, their optimistic edits, logins, reservations and sessions |
| `StrategyGovernance` | strategy versions and learned patterns: drafts, publication, compensation, rollback, the learner, what an analysis reads |
| `Predictions` | the prediction of a match: analyses, verifications, corrections by hand, and the settlement of Asian lines |
| `...Proofs` | theorems about each of the six components, checked by TLAPS |
| `MC...` | small instances for TLC, one for each component |

## 1. Inventory

### Modelled

**Automation engine and repository** (`lib/automation/engine.ts`, `repository.ts`,
`types.ts`; migrations 0001, 0005, 0024; `app/api/automation/dispatch` and
`compensate`).  State: the rows of `automation_tasks` (status, attempt count, lock
owner, lease, schedule) and `automation_task_steps` (status, attempt count), and
the local variables of each `runAvailable` call and of each call that creates,
re-arms or reschedules a task.  Operations: create idempotently, scan, claim,
execute step by step, fail and retry, complete, take over an expired lease,
re-arm a failed task by hand, reschedule a T-30 task.  A dispatch request comes
every minute and is independent of those before it; two may overlap, and a
compensation request runs tasks too.  Hard: stale claims, workers slower than
their lease, crashes between any two database calls, creation in two writes.
Correct when: a row is never lost or stuck, a lease protects who holds it,
finished work is not done again, attempts are bounded, one analysis runs at a time.

**Management commands** (`features/management/commands.ts`,
`command-repository.ts`, `command-reconciler.ts`; migrations 0008, 0017, 0018;
`app/api/automation/reconcile`).  State: `management_command_receipts`, the
`.requested` and `.succeeded` rows of `audit_logs`, and the effects themselves.
Operations: begin, announce, start, execute, record, audit, complete; replay of a
command already received; the reconciler that finishes what a request left.  Hard:
each call may fail before or after it took effect, the process may stop between
them, and request, replay and reconciler may work on one receipt.  Correct when:
no effect is repeated, the audit trail is complete and in order, a failed receipt
means nothing happened, a recorded effect is eventually completed.
**Deployment dispatch** (`lib/release-control/dispatch-command.ts`) is a second
copy of the protocol over the same receipts, and **audit log**
(`lib/audit-log.ts`) its other partner; `CommandReceipts` covers both in that role.

**Backtest jobs** (`features/backtest/runtime.ts`; migrations 0016, 0018, 0019).  State:
`backtest_jobs` with owner and lease, and per process the job objects, abort
controllers and the set of lost leases.  Hard: timeout, cancellation, heartbeat and
the end of the run write one shared job object across awaits; polls and cancels on
another instance; slots held by dead jobs.  Correct when: the limit on running jobs
holds, a job has one writer, a terminal status is final and names what happened, a
lost job is freed.

**Administrator accounts, sessions and login reservations** (`app/api/auth/session`,
`app/api/auth/bootstrap`, `app/api/admin/users`, `lib/auth/*`, `lib/admin-auth.ts`;
migrations 0010 to 0015).  State: `admin_users`, `admin_sessions`, the reservations and
buckets of login attempts.  Hard: two administrators edit each other from lists they
read earlier, logins touch the timestamp edits compare, answers are lost and edits
sent again, a login is slower than its reservation.  Correct when: an active super
administrator always remains, an edit changes what its author saw and happens once, the
pool of logins is bounded and refills, failures are counted once.

**Strategy governance** (`features/management/strategy-service.ts`,
`lib/analysis/strategy.ts`, the learner of `app/api/analysis/learn`).  State:
`strategy_versions`, `learned_patterns`, the queue of publications of the process.
Five updates without a transaction, compensated from a snapshot when one fails.
Correct when: one strategy is published, with its patterns; a failed publication leaves
what was there before; a backtest as of some time reads what was in effect then.

**Verification and settlement** (`features/analysis/repository.ts`,
`app/api/analysis/verify`, `lib/verification/*`).  State: `prediction_results` and
`match_results`.  Hard: analyses, verifications and corrections write columns of one
row, each computed from a copy read earlier, without lock or version; errors of reads
count as nothing found.  Correct when: an outcome is the settlement of what stands
beside it, quarter lines are split alike on both signs, sides and markets, and a
verdict given by hand is not lost.

### Not modelled

| part | reason |
|---|---|
| in-memory automation repository | a synchronous test double without the database's failure modes |
| step handlers (`lib/automation/handlers.ts`) | to the engine, a call that returns or throws |
| odds persistence (migration 0002) | one guarded statement per row; its ordering hazard is listed, a model would restate the guard |
| strategy lab (`features/strategy-lab`) | append-only facts in single transactions; pure strategy functions |
| release control, deployment scripts | read-only validation; shell over files and units |
| browser odds workflow and pages, serial queue, UI components | sequential loops and rendering in one browser; a promise chain of twelve lines |
| probability, indicator rules, profits and summaries, reports | floating-point arithmetic and statistics without concurrency |
| analysis service, LLM client, safe fetch, GitHub, Feishu, Titan parsers | I/O and text |
| settings, sources, overview services | single statements; settings are effects of commands |

Most of the repository's lines are pages, components, prompts, parsers and schema
declarations: the modelled parts are those whose state outlives a request and is
shared.  The hazards of each part, at their lines, are in `PROJECT.json`.

## 2. Plan

| | models and runs | proved | next |
|---|---|---|---|
| `AutomationTasks`, `ExclusiveTasks` | done | every safety property, the refinement | |
| `CommandReceipts` | done | every safety property | an abstract specification of a command (accepted, done once, audited, completed) and the refinement |
| `BacktestJobs` | done | every safety property | the same for a job: one holder, no day skipped, one end |
| `AdminAccounts` | done | every safety property | |
| `StrategyGovernance` | done | every safety property | the same for a publication: all or nothing |
| `Predictions` | done | every property | |

The liveness properties stay with TLC.

Runs stay small enough for TLC to finish in about three minutes.

## 3. AutomationTasks

`task[t]` is the row with idempotency key `t` (`absent` before it is inserted),
`step[t][s]` the row of its `s`-th step.  `worker[w]` is a `runAvailable` call,
`producer[p]` a call of `createIdempotent` or `createOrReschedule`.  Between two
awaited database calls a local state stands at a `pc`, and everything it carries
across the await (scanned rows, the claimed task, the attempt counts as loaded) is
in its record.  So a claim uses the row its scan returned, however old it is.

| actions | code |
|---|---|
| `ScanReady`, `ScanExpired`, `NothingToClaim` | the two bounded scans of `claimNext` |
| `Claim`, `ClaimMissed` | `claimCandidate`: a conditional update, which matches or not; a rejection by the index `automation_tasks_single_running_analysis` counts as not matched |
| `Load` | `getWithSteps` after the claim |
| `ReadStep`, `MarkStepRunning` | the read and the write of `markStepRunning` |
| `MarkStepCompleted` | the handler returned and the step was marked |
| `CompletionResponseLost` | it was marked and the response lost: the `catch` block follows |
| `MarkStepFailed`, `MarkTaskFailed` | `fail` |
| `MarkTaskCompleted` | the end of `execute` |
| `Crash` | the process stops, or a database error leaves `runAvailable`, before or after a write |
| `EnsureDue`, `EnsureDynamic`, `EnsureFailed` | the RPC `ensure_automation_task`, for a due task, for a T-30 task, and for a compensation that finds its task failed |
| `Rearm`, `RearmMissed`, `ResetSteps` | the two updates of a compensation |
| `UpsertSteps` | the insertion of step rows |
| `Reread`, `Reschedule` | `createOrReschedule`.  It compares texts, and the database formats timestamps and orders JSON keys its own way, so a pending row always counts as changed |
| `ProducerStops` | the request stops, or a database error leaves it |
| `Tick` | the clock, while a schedule or a lease waits for it |

The worker id is reused by later calls; nothing compares it but the properties, and a
stale worker in the code is here a worker whose `until` has passed.  A fixed-schedule
task is created when it is due, so its schedule is `now`.  The branch for a step without
a handler is left out: every step of `AUTOMATION_DEFINITIONS` has one.  Columns no guard
reads (results, errors, current step, timestamps of start and end) are left out.

**Three specifications.**  `Spec` is everything the code can do.  `FairSpec` adds weak
fairness of each worker's steps and of the clock: `infra/systemd/peilv-dispatch.timer`
starts a dispatch request every minute, and a running request goes on to its next
call; a crash is always possible and bounded in number, and nothing obliges a
producer to act.  `OrderlySpec` restricts `Spec` by two conditions: an executing worker
is done before its lease runs out (`Timely`; a dispatch request is given 300 s, a
lease is 15 minutes) and no completed write loses its response.  The code does not
enforce them; the properties checked under `OrderlySpec` hold only with them, and
`tasks_one_owner` shows one that fails without the first.

**Runs.**

| run | instance | shows |
|---|---|---|
| `tasks_safety` | `Spec`, two analysis tasks (one T-30), 2 workers, 1 producer, 1 crash, 2 requests, time to 2, lease 1 | `TypeOK`, `RunningIffLeased`, `SingleRunningAnalysis`, `LiveLeaseNotStolen` |
| `tasks_orderly` | `OrderlySpec`, one task of two steps, 2 workers, 2 crashes, 2 requests, time to 3 | `ExecutorHoldsLease`, `CompletedStepIsFinal`, `CompletedTaskIsFinal`, `CompletedTaskHasNoBrokenStep`, `AttemptsBounded`, and that `ExclusiveTasks` is implemented |
| `tasks_liveness` | `FairSpec`, one task, 2 workers, 1 crash, lease 0 | `EveryTaskSettles` |
| `tasks_one_owner`, `tasks_all_steps`, `tasks_attempts` | violations | findings, below |

Two workers and a lease of one tick are enough for a worker to scan, be overtaken, and
come back late; two attempts for a retry and its exhaustion; two requests for a
creation and a compensation.  `MaxTime` 12 in the liveness instance is never
reached: attempts, crashes and requests bound the number of leases and delays that
time is needed for.  Worker symmetry is used in safety runs only.

**Abstract specification.**  `ExclusiveTasks` knows a phase and a holder for each
task: taken when open or given up, finished by its holder alone, completed for good.
The refinement maps `running` to taken, `pending` and `retrying` to open, and the
worker that executes a task to its holder.

## 4. CommandReceipts

`receipt[k]` is the row with action and key `k`; `recorded` is the flag
`audit_context.effectSucceeded`.  `older` is the order of `updated_at`.  `announced` and
`audited` are the keys with a `.requested` and a `.succeeded` audit row, `effects`
counts what was done for which payload, `unreported` the effects whose `execute`
threw after acting.  An actor is a request or a reconciler.

A request either inserts the receipt (`Begin`) and goes `Announce`, `StartEffect`,
`Execute`, `RecordSuccess`, `Pend`, `WriteAudit`, `Complete`, with `Fail` and
`RecordEffectResult` on the way out; or finds one (`Replay`) and answers or resumes at
`Recover`, `Pend` or `WriteAudit`.  A reconciler scans the `ScanLimit` oldest unfinished
receipts (`Scan`), passes over those without a recorded result and resumes the others
from the status it read (`NextRow`).  `Update` is one conditional update: applied,
not matched, or failed with or without having been applied.  `Stop` ends a process
anywhere.  `MaxFaults` bounds failed calls and stops.  Rows of one scan are taken in any
order; results are never null (every `execute` callback returns an object); the
statuses migration 0017 removed are left out; rejected commands have no receipt and
are left out.

Run `commands`: two keys, two payloads, two requests, one reconciler, two faults,
under `FairSpec`: weak fairness of the reconciler alone, because
`infra/systemd/peilv-reconcile.timer` runs it every 15 minutes and a client need not come
back.  Two requests give an original and its replay, a reused key, or two commands
the reconciler orders; two faults a lost response and a failed repair.  `ScanLimit` 2
covers both keys.  With fewer `RecordedEffectCompletes` fails: receipts that started
and never recorded a result are passed over without a change of `updated_at`, stay
first in the reconciler's page for good, and as many as the limit (25 in production)
keep all others out.

## 5. BacktestJobs

`row[j]` is a row of `backtest_jobs`; `live` says whether its lease is still good.
`run[r]` is one claim: the job object its process keeps and the position of its
pipeline, with the calls that are under way (`saving` of the pipeline, `overdue` of the
timeout) as the values they were sent with.  `entry` and `lost` are the maps of a
process, keyed by the job id as in the code, so an older run that ends forgets a newer
one.  `caller[c]` polls or cancels, `resumer[x]` resumes from a row it read before.
`visited` remembers which days some run of the job went through, with whatever could be
loaded of them.

| actions | code |
|---|---|
| `Start`; `ReadForResume`, `Resume`, `ResumeRefused` | POST: a new job, or one that ended, through `claim_backtest_job` |
| `Launch`, `FailClaim`, `Load`, `Check`, `NoticeAbort`, `Fail`, `Day`, `Finish`, `SaveAnswered`, `End` | `launchBacktestJob` and `runBacktest` between two awaits |
| `Timeout`, `TimeoutSaved`, `Heartbeat`, `HeartbeatFailed` | the timer callbacks |
| `Cancel`, `CancelSaved`, `FindInterrupted`, `MarkInterrupted` | DELETE and GET, on the instance of the run or on another |
| `Reconcile` | `reconcile_expired_backtest_jobs` |
| `LeaseRunsOut`, `Crash` | the clock of the database; a restart |

Run `backtests`: two jobs, two claims, two instances, one caller, one resumer, one day,
one slot, one fault.  Two claims are a run and its successor on the same job, or two
jobs that compete for the slot; one fault is a lost answer, a crash, a refused
heartbeat or a lease that runs out under its run.  Instances are interchangeable.
`RowFollowsHolder`, `NoDaySkipped`, `EndedStays` and `CancellationHonoured` hold also
for runs that lost their slot and write late.  Run `backtests_end`: the same on one
instance without resumes, under `FairSpec`: a pipeline goes on, the lease of a run that is over runs out,
and the reconciler keeps running (`peilv-reconcile.timer`; its route catches the errors
of the reconcilers before it).  Nothing obliges a client to poll, a timer to fire or a
heartbeat to arrive.

`NoDaySkipped` is about stopping and resuming: a resume reads the row, and the run it
starts sets out from what was read, while the pipeline, the timeout and the cancellation
of the old run still write the progress they were sent with.  Whatever the order, the
days counted and the days behind a run were gone through.  It does not say that their
matches were analysed.  `Fail` ends a run only where the code throws: the whitelist cannot
be read, or results cannot be stored.  `fetchScheduleForDate` takes a failed request for
an empty schedule, `loadOddsFromDb` a failed query for no odds, and an analysis that
throws is logged; `Day` counts such a day like any other, as the code does.

Seen on the way, and not claimed by a property: a day whose schedule or odds could not be
loaded when its turn came is counted as processed and no resume comes back to it, so its
matches are missing from the backtest without a trace in its status; a cancellation of a
newer run is lost when an older run of the same job ends on the same instance, because the maps have one
entry for a job; a poll of a row whose lease is over answers with an error and leaves
the row to the reconciler.

## 6. AdminAccounts

`user[u]` holds an account and a version for its `updated_at`, which is only compared
for equality.  `login[l]` is a POST of `/api/auth/session`: `Reserve`, `Authenticate`,
`Touch`, `Settle`, `CreateSession`, each a call that may fail or lose its answer, with
`ReservationExpires` and `WindowPasses` for the clock and `LoginStops` for a dying process.
`request[q]` is an edit: `Prepare` reads the list, `Submit` checks the session and
the capability of its author, `Apply` is the RPC, whose answer may be lost, after which
the same edit comes again.  `Bootstrap` creates the first account.

Run `admin_accounts`: two accounts, two logins, two edits, one source, limits of one,
one fault.  Two accounts let super administrators disable each other; two logins compete
for the one reservation; an edit meets a login that only touches the row, another edit
and its own repetition.

An account that is disabled or gets a new password after authentication and before the
creation of the session gets a session that the revocation did not see; `authorizeAdminRequest`
reads the account again at every request, so a disabled account cannot use it.

## 7. StrategyGovernance

`strategy[v]` and `pattern[p]` are the rows, with the times that decide visibility.
`job[a]` is a request: `CreateDraft`, `Publish`, `Rollback`; a publication waits its
turn in `queue` (the chain of promises of the process), takes its snapshots and goes
through `RetireStrategies`, `Activate`, `RetirePatterns`, `ActivatePatterns`, `Verify`, or
after a failure through `UndoTarget`, `UndoStrategy`, `UndoPattern`, `CheckStrategies`,
`CheckPatterns`.  Every update may fail before or after it took effect.  The learner
(`Learn`, `SavePattern`) is not in the queue.  `InEffect(t)` and `Learned(t)` are what
an analysis or a backtest as of `t` reads.  `sound` says that no publication was cut
short by a crash or undone incompletely since the last success.

Run `strategies`: four versions (one published, two drafts, one for a rollback or the
learner), one pattern, two administrators, one learner, two moments, two faults.  Two faults
let a publication fail and its compensation fail too, or a crash follow a failure.

What the properties except, on purpose, and what was seen on the way:

* The learner upserts by market, key and league: it turns a published pattern into a
  draft of its own version before any publication, so the strategy in effect loses it
  at once.  The properties speak of the other patterns.
* A draft whose learner is still saving can be published; the patterns saved afterwards
  stay drafts of a published strategy.
* `retired_at` is the new strategy's effective time, which may be in the past: between
  it and `published_at` no strategy is visible, so `HistoryKept` starts before
  `effectiveFrom`.  A version that is scheduled, and retired before its time, can hide
  one published at once.
* A crash between two updates is not repaired by anything but the next publication; that
  is what `sound` excludes.
* The queue is per process; production runs one.

## 8. Predictions

`row` is the row of one match in `prediction_results`, `result` its row in
`match_results`.  An analysis (`ReadRevision`, `Save`, `ReadResult`, `SettleAtOnce`), a
verification (`ReadRows`, `ReadResults`, `SettleRow`) and a correction
(`ReadPrediction`, `WriteCorrection`) each carry a copy read earlier; `SettledFrom` and
`Corrected` are the sets of columns they write into the row as it is then.
`WriteResult` is the schedule import: a match ends, its score is corrected, or it counts as
open again.  Lines are integers, in quarters of a goal; `Legs`, `Leg`,
`Combined` and `Settled` are the functions of `lib/verification`.  Handicaps and
totals go through different code (`calculateAsianSettlement`, `combineSettlementLegs`)
with the same meaning, and share these definitions.

Run `predictions`: two analyses that disagree, one verification, one correction, two
writes of the result, one handicap line below zero and one total line above, both
quarter lines, so that rounding of negative lines matters; `PredictionsProofs` has the
same for every number of requests, line and score.

Seen on the way, and not claimed: a settlement computed before a correction writes the
*effective* verdict of its old copy over the corrected one (the manual verdict itself
stays, which is `ManualKept`, and the next verification restores the effective one), although
PROJECT.md:145 gives the correction precedence.  An analysis may settle another
analysis's row with its own selection, which then stays (the row explains itself, but is
a mixture of two analyses).  The columns without a market in their name are not
modelled: they repeat those of the handicap, except that a correction computed before a
settlement also puts the `auto_is_correct` it read back beside the new
`handicap_auto_is_correct` (market-service.ts:102).  Two analyses may write the same revision.  A failed query of
results takes settled outcomes back until the next verification.

## 9. What the code does not do

* `tasks_one_owner`: the writes of a worker are not fenced by its lease, so a late
  failure frees the row of the worker that took over.
* `tasks_all_steps`: a task is claimable before it has steps, and is then completed
  without running any.
* `tasks_attempts`: takeovers of expired leases are not counted against
  `max_attempts`.

Each is quoted against the document, comment or test it contradicts in
`PROJECT.json`.  Outside the models: `proxy.ts` and the routes answer 403 to
requests with the internal secret outside a short list, while
`lib/automation/handlers.ts` and the backtest adapter call other routes with that secret;
to `AutomationTasks` these are steps that throw.

## 10. Proofs

Every invariant and action property of the passing runs, and the refinement, is a
theorem for all values of the constants.  The assumptions are those of the modules
(`ConstantsAssumption`, `ReceiptConstants`, `BacktestConstants`, `AdminConstants`,
`StrategyConstants`, `PredictionConstants`), which TLC evaluates in every run.  They say
what kind of value a constant is; beyond that:

* `MaxStepAttempts` is at least 1: `repository.ts` reads `maxAttempts || 3`, and
  migration 0024 keeps it between 1 and 100.
* `Jobs`, `Logins` and `Requests` are finite where rows are counted (slots,
  reservations, failures); a service has had finitely many at any time.
* Counters of faults, crashes and requests have a bound, which may be any number.

Each proof module has the same layout: lemmas about the operators, one lemma for each
action or group of actions, an invariant with its `Init` and `Next` lemmas, and at the
end the theorems.  All invariants were checked by TLC before they were proved, except for
one conjunct named below.

**AutomationTasks.**  Under `Spec`: `Typing`, `Leasing` (`RunningIffLeased`), `OneAnalysis`
(`SingleRunningAnalysis`), `LeasesRespected` (`LiveLeaseNotStolen`).  Under `OrderlySpec`:
`Ownership` (`ExecutorHoldsLease`), `CompletedTasksStay`, `CompletedStepsStay`,
`NothingLeftBroken` (`CompletedTaskHasNoBrokenStep`), `AttemptsAreBounded`
(`AttemptsBounded`), `Implementation` (`ImplementsExclusiveTasks`).

`RunningIffLeased` is inductive together with the types: a claim writes owner and lease,
the other writes of a task clear or keep both (`TaskWrites`).  `SingleRunningAnalysis`
rests on the guard of the claim.  `LiveLeaseNotStolen` is not inductive: a claim knows
the row its scan read.  `CandidatesSound` says what such a row proves: a scanned running
row had a lease that was over when it was read, a scanned waiting row was not running,
and the clock has only moved since.

`ExecutorHoldsLease` adds the two conditions of `OrderlySpec`; `Alone` follows, no two
workers execute one task.  The rest builds on it:

* `CompletedStepIsFinal` needs `TodoOpen`: the steps a worker still has to run are not
  completed.
* `CompletedTaskHasNoBrokenStep` needs `InHand`: once a worker has loaded its task, every
  step that is failed, retrying or running is on its list, and the list is empty when
  it finishes.
* `AttemptsBounded` needs `AttemptsInv`.  `Spare` says that a step that may be run
  again, of a task that may be claimed again, has an attempt left below the limit, or is
  being attempted; `Paced` ties the count in the row to the count the worker loaded.  A
  crash or a re-arming raises the limit, a report of failure leaves the task open only
  below it.
* the refinement maps a claim to `Take`, the end of an attempt to `Finish`, a crash of an
  executor to `GiveUp`, the creation and re-arming of a task to `Create` and `Reopen`, and
  every other step to a stutter.  Its guard "nobody holds the task" is `ExecutorHoldsLease`
  once more.

**CommandReceipts** (`IInv`): `Typing`, `AtMostOnce`, `Audited`, `FailedWithoutEffect`,
`Confirmed`, `MovesForward`.  `CommandInv` ties the tables of a command to the status of
its receipt; `OwnersAlone` says that between insert and record one request alone has the
command; `OwnerInv` ties its position to the status; `FinisherInv` does so for replays
and reconcilers, which may hold rows read long ago (`NotAhead`: what was read is not
ahead of the table).  Every step is shown to be an `OwnerStep` or a `FinisherStep`, or to
start one, and both keep the invariant.

**BacktestJobs** (`IInv`): `Typing`, `SlotsAreBounded`, `RowIsTheHolders`, `NothingIsSkipped`
(`NoDaySkipped`), `CancelledIsNotDone`, `EndedIsFinal`.  `Good` says of a run by itself that nothing it has
sent or will send counts more days than it processed, and that a run whose caller was
told of the cancellation can only end; `RunInv`, `JobInv` and `ResumerInv` that the days
behind a run, counted by a row, and read by a resume, were gone through; `JobInv` also that only an active row is live, and
belongs to a claim of its job.  The bound on slots is inductive because a claim counts
the other active rows in the same call.

**AdminAccounts** (`IInv`): `Typing`, `SuperAdminStays`, `EditedOnce`, `Admitted`, `Counted`,
`EditsWhatWasSeen`.  `RequestInv` carries the optimistic edit: as long as the row has the
version the author saw, it has the content he saw; once the edit was applied, the
version is another.  `CountInv` puts the counter of failures between the failures that
were answered and those that ended.

**StrategyGovernance** (`IInv`): `Typing`, `ExactlyOne` (`OnePublished`), `Whole`
(`PublishedIsWhole`), `Restored` (`RestoredAsFound`), `History` (`HistoryKept`).  `QueueInv`
makes the publications take turns.  `StrategiesFit` and `PatternsFit` say, for each point a
publication may have reached, what the rows look like compared with the snapshot it took;
`EffectFits` that what a backtest would have read can still be computed from the snapshot
and the rows it does not touch.  An update that failed with or without having been
applied is then one of two known tables, and the compensation leads back to the first.
The conjunct `job \in [Admins -> Request]` is in the proof only: its set is too large
for TLC to build.

**Predictions**, for lines within 20 goals and scores below 100:

* `DecidedByDistance`: for every integer line and every margin or total, both sides of a
  bet come to what is paid for their distance.  By parity: an even distance is one
  whole bet (`WholeBet`), an odd one two halves beside it (`HalfBets`).
* `Typing` (`TypeOK`), `Explanation` (`RowExplainsItself`), `ByDistance`
  (`SettlementByDistance`), `VerdictsStay` (`ManualKept`).

`RowExplainsItself` is not inductive: `Save` puts the copy of an analysis into the row.
`IInv` adds that these copies explain themselves, which they do because nothing is
settled in a new row.  `Settlement` carries the rest: whatever the copy, the score and
the evidence, the columns `settleMarket` writes explain themselves, and leave the
verdict by hand alone; `Correction` says that a correction touches the verdicts of its
market only.  `ByDistance` is `Explanation` and `DecidedByDistance` together.

**What the proofs changed in the models.**  `AdminAccounts` once had one version too few for
every login and edit to find a fresh one; `TypeOK` would not go through.  `AttemptsBounded`
is false for a limit of zero, which the code turns into three.  `Release` in
`StrategyGovernance` takes the head of the queue, whoever asks; `InEffect` chooses among
the versions by a function of their times.  The refinement mapping of `AutomationTasks`
has names (`phases`, `holders`).

**Only model-checked**: `EveryTaskSettles`, `EveryBacktestEnds` and
`RecordedEffectCompletes`, which are liveness under fairness and out of the prover's reach.

## 11. Running

    tlc -workers 2 -config AutomationSafety.cfg MCAutomationTasks.tla
    tlapm AutomationTasksProofs.tla

`PROJECT.json` lists every run with its module, configuration and properties; for each
property a mutant of the model, a plausible mistake in the code, that breaks it; and
for each definition the lines it models.
