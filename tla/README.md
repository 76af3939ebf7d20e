# Cronwave in TLA+

Cronwave (`src/`) is a job scheduler on PostgreSQL: an API that enqueues jobs into
queues, worker processes that claim and execute them, and a scheduler that fires
cron jobs and requeues retries. All of it is Python and asyncio, and the processes
share nothing but the database. This directory holds a TLA+ model of the parts in
which they meet — the life of a job from `POST /jobs` or from a cron row to a terminal
status, and the life of a worker in the registry — with the TLC runs that check it, and
theorems that TLAPS proves about it.

Contents: [the system](#the-system), [modules](#modules), [how the model corresponds to
the code](#how-the-model-corresponds-to-the-code), [what is checked](#what-is-checked),
[fairness](#fairness), [what is proved](#what-is-proved), [disagreements between code
and documentation](#disagreements-between-code-and-documentation), [what is not
modelled](#what-is-not-modelled), [plan](#plan), [running](#running).

## The system

### Components

| component | code | state it keeps | operations |
|---|---|---|---|
| job table | `packages/db/repositories/job_repo.py`, `models/job.py` | `jobs`, `job_executions`, `dead_letter_queue` | `create`, `claim_next_jobs`, `mark_running`, `mark_completed`, `mark_failed`, `requeue_retryable_jobs`, `recover_stale_claims`, `cancel`, `record_execution` |
| worker process | `apps/worker/process.py`, `run.py` | `_active_jobs`, `_shutdown`, the poll in progress, one coroutine per job | `start`, `_poll_loop`/`_poll_once`, `_execute_job`, `_heartbeat_loop`, `_recover_stale_claims`, `_deregister`, signal handlers |
| queues | `repositories/queue_repo.py`, `routes/queues.py` | `queues` (`is_paused`, `concurrency_limit`, `priority`), `retry_policies` | `get_active_queues`, `running_job_count`, pause, resume |
| scheduler | `apps/scheduler/tick.py` | `scheduled_jobs`, `queue_metrics` | per tick, in this order: cron jobs, retry requeue, metrics |
| jobs API | `routes/jobs.py` | – | enqueue, cancel, retry, listing |
| dead letter queue | `routes/dlq.py` | `is_resolved` of the entries | replay, resolve, listing |
| worker registry | `repositories/worker_repo.py`, `models/worker.py` | `workers`, `worker_events` | `register`, `heartbeat`, `mark_stopped`, `detect_lost_workers` |
| retry delays | `packages/shared/retry.py` | – | `calculate_retry_delay` |
| the rest | auth, tenants, metrics, dashboard, configuration, migrations, scripts | – | request-local or read-only |

### How they interact

Everything goes through rows. The API inserts a row (`queued`). A worker's poll
selects queued rows of each active queue `FOR UPDATE SKIP LOCKED`, marks them
`claimed`, commits, and starts one asyncio task per row; the poll does not wait for
the tasks. A task has a session of its own and runs two transactions: `mark_running`,
then — after the work — the outcome: `mark_completed`, or `mark_failed`, which
schedules a retry or moves the job to the dead letter queue. The scheduler puts
`retry_scheduled` rows whose time has come back to `queued`. A starting worker puts
rows whose claim is older than `worker_heartbeat_timeout_sec` back to `queued`. An
operator cancels, retries, replays, pauses. No UPDATE after the claim compares status,
owner or version: the last writer wins.

### What is hard about it, and what makes each part correct

* **Claiming.** Two transactions of two workers and any number of other writers run
  between the SELECT and the UPDATE. Correct when a selected row stays queued, and in
  the hands of one poll only, until it is claimed (`LockedRowsStayQueued`,
  `ClaimsComeFromQueue`), and when the batch bound holds although `_active_jobs` is read
  long before it is raised (`CapacityRespected`).
* **Execution.** A task writes its row with no look at who owns it. Correct when a
  job in flight always has a task responsible for it, every attempt and every death
  leaves its record (`InFlightHasTask`, `AttemptsAccounted`, `DeathsAccounted`), and —
  which the code guarantees only under conditions — one task per job at a time
  (`SingleExecution`, `TasksOwnTheirRows`).
* **Failure.** Workers crash, sessions break in the middle of a task, polls are rolled
  back, a claim outlives its timeout while its worker is alive. Correct when every job
  that was lost is found again, and only those.
* **Retries.** A job's fate is decided from an `attempt_count` that was read earlier.
  Correct when attempts stay within the allowance (`AttemptsBounded`) and a queued job
  reaches a terminal status in the end (`QueuedJobsSettle`).
* **Queues.** The set of active queues is a snapshot per poll; the running count is a
  read nobody protects. Correct when a pause takes effect (`PauseTakesEffect`,
  `PausedQueueStaysQuiet`) and a limit is a limit (`ConcurrencyLimitHolds`: it is not), or is
  at least exceeded by a bounded amount (`LimitOverrunBounded`).
* **Cron jobs.** The due rows are selected with one reading of the clock, written with
  that reading later, all in one transaction and before the requeue of the same tick; the
  scheduler may stop, crash or fail at any point. Correct when no slot of a cron row is
  lost or run twice (`SlotsFireOnce`, `SlotsAreAnswered`), and a row that is due gets a job
  that is settled in the end (`DueCronsFire`, `EnqueuedJobsSettle`).
* **Worker registry.** A starting worker selects the silent workers and marks them later,
  by id, while they beat, stop or are marked by another. Correct when a worker that beats
  in time is not reported (`PromptWorkersAreNotLost`), one that dies is
  (`SilentWorkersAreReported`), and the event log accounts for the status (`EventsAccountForStatus`).
* **Shutdown.** A stop signal can fall anywhere in a poll. Correct when the worker
  leaves (`ShutdownCompletes`) and its jobs finish (`GracefulStopFinishesJobs`: they
  do not).

`PROJECT.json` lists these hazards one by one, each at its line.

## Modules

| module | what it is |
|---|---|
| `JobRows` | one row of `jobs`; each UPDATE statement as an operator from the row it finds to the row it leaves |
| `JobProcessing` | the state machine: worker processes, polls, tasks, requeue, API, faults, clock; its properties; `Spec` and `FairSpec` |
| `JobLifecycle` | abstract specification: what is promised per job, with no workers, tasks, tables or clocks in it |
| `TimelyProcessing` | the conditions under which `JobProcessing` implements `JobLifecycle`, and the refinement mapping |
| `WorkerRegistry` | the `workers` table and its events: registration, heartbeats, detection of lost workers, deregistration |
| `CronScheduler` | the scheduler process, tick by tick, composed with `JobProcessing` over one jobs table |
| `DocumentedClaims` | four statements of docs and comments that the code does not keep |
| `RetryDelay` | the delay computation against the schedule it is meant to produce |
| `JobProcessingProofs`, `CapacityProofs`, `AccountingProofs` | theorems about `JobProcessing`, checked by TLAPS |
| `TimelyProofs`, `LifecycleProofs` | theorems about `TimelyProcessing`, the second the refinement of `JobLifecycle` |
| `WorkerRegistryProofs`, `CronSchedulerProofs`, `RetryDelayProofs` | theorems about the modules of these names |
| `MCJobProcessing`, `MCTimelyProcessing`, `MCDocumentedClaims`, `MCWorkerRegistry`, `MCCronScheduler` | constants for TLC |

`JobProcessing` EXTENDS `JobRows`; `TimelyProcessing`, `DocumentedClaims` and
`CronScheduler` EXTEND `JobProcessing`; `TimelyProcessing` instantiates `JobLifecycle`.
`WorkerRegistry` stands by itself: job processing neither reads nor writes the tables it
is about, so a composition of the two would be the product of their states and no more.
`CapacityProofs` EXTENDS `JobProcessingProofs`, `AccountingProofs` EXTENDS
`CapacityProofs`, and `TimelyProofs` and `CronSchedulerProofs` EXTEND it in turn.
Operators whose name has
a suffix, such as `IsStale_AnyAge`, and whose comment starts with *Mutant*, are
plausible mistakes in the definition that follows them. Put in its place, each makes one
property fail, which shows that the property depends on that piece of code. Nothing
else uses them.

## How the model corresponds to the code

### State

| variable | code |
|---|---|
| `jobs` | `jobs` rows: `status`, `claimed_by`, `claimed_at`, `attempt_count`, `next_retry_at`, `version`. A job that has not been enqueued has the status `"absent"` |
| `execs`, `dlq` | `job_executions` per job and `dead_letter_queue`, in insertion order |
| `paused` | the queues with `is_paused` |
| `proc` | process: `new`, `running`, `stopping` (`_shutdown` is set), `stopped`, `crashed` |
| `active` | `_active_jobs` |
| `poll` | where `_poll_once` stands: queues left of its snapshot, the queue whose running count it has read, the rows it has locked, and the age of the `now` it will write |
| `tasks` | `_execute_job` coroutines: `spawned` (before `mark_running`), `working`, `failing` (the except branch has read the row) |
| `lost` | history only: coroutines that ended without recording an outcome |
| `ops`, `faults` | counters behind the bounds `MaxOps` and `MaxFaults` |

### Actions

| action | code |
|---|---|
| `StartWorker` | `start` up to the loops, with `recover_stale_claims` |
| `PollBegin` | head of `_poll_once`, `get_active_queues` |
| `CountRunning` | `running_job_count` of a queue with a limit; passes over a full queue |
| `PollReturns` | the two early returns: shutdown, no capacity |
| `ClaimSelect`, `ClaimCommit` | `claim_next_jobs`: the locking SELECT; the UPDATE, the commit and the `create_task` loop |
| `PollAborts` | an exception in the poll: rollback, `poll_error` |
| `MarkRunning`, `MarkCompleted` | the two transactions of a successful `_execute_job`, with the execution record and the finally clause |
| `WorkRaises`, `MarkFailed` | the except branch: its read, then its writes |
| `TaskBreaks` | a database error in `_execute_job` |
| `Shutdown`, `Exit`, `Crash` | signal handler; end of `start` and of `asyncio.run`; death of the process |
| `RequeueRetryable` | `requeue_retryable_jobs` |
| `Enqueue`, `Cancel`, `Retry` | `routes/jobs.py` |
| `Replay`, `Resolve` | `routes/dlq.py` |
| `SetPaused` | pause and resume of `routes/queues.py` |
| `Tick` | the clock |

`WorkerRegistry`:

| variable, action | code |
|---|---|
| `workers` | `status` of the `workers` rows and the time since `last_heartbeat_at`; `"absent"` without a row |
| `events` | the types of the `worker_events` of each worker, without their order |
| `proc` | process: `registered`, `detecting` (between the statements of `detect_lost_workers`), `beating` (in a round of `_heartbeat_loop`), `waiting` (between two), ended |
| `stop` | `_shutdown` |
| `found` | what `detect_lost_workers` has selected |
| `spent` | how long the process has been where it is |
| `missed` | history: heartbeats in a row that failed |
| `late` | history: workers that took longer than `Lag` or `Interval` allows, or missed more beats than the timeout has room for |
| `Register` | `register` and its commit, with the time it has written to `last_heartbeat_at` |
| `DetectSelect`, `DetectCommit` | the SELECT; the UPDATE by id, the events, the commit of `_recover_stale_claims`, the start of the loops (`StartLoops`) |
| `BeatBegin` | the interval is over and the next round of `_heartbeat_loop` begins |
| `Beat`, `BeatFails` | it ends: `heartbeat` and its commit, with a time that lies within the round, or `heartbeat_error` |
| `Shutdown` | signal handler |
| `Deregister`, `DeregisterFails` | `_deregister` with `mark_stopped`, or `deregister_error` |
| `Crash` | death of the process, also of an error in `_recover_stale_claims`, which nothing catches |
| `Tick` | the clock |

`CronScheduler`, beside the variables and actions of `JobProcessing`:

| variable, action | code |
|---|---|
| `crons` | `scheduled_jobs` rows: `next_run_at`, `last_run_at` |
| `posting` | the `next_run_at` that the handler of a POST has computed and not committed yet |
| `sched` | the scheduler: down, between two ticks, or in a part of one; the rows its cron part has selected and the time it has read |
| `now` | the clock |
| `fired` | history: the jobs each row got, with the slot and the time |
| `overdue` | history: rows committed at or after their first time and not fired yet |
| `PostCron` | `create_scheduled_job`, with its reading of the clock |
| `CommitCron`, `PostFails` | `get_session` after it: the commit, or the rollback |
| `SchedulerStart`, `SchedulerDown` | `start`; a crash anywhere, or a stop signal between two ticks |
| `ReadDueCrons` | `_enqueue_scheduled_jobs` up to the SELECT |
| `FireCrons`, `FireFails` | its loop and its commit, or its failure when a row of it cannot be enqueued |
| `RequeueRetries` | `_requeue_retryable_jobs`, in its place in the tick |
| `TickFails` | a database error: `scheduler_tick_error`, the rest of the tick is skipped |
| `TimePasses` | the clock of both |

### Decisions worth knowing

* **Grain.** The database runs at READ COMMITTED and asyncio switches only at awaits. A
  transaction whose first statement is an UPDATE of one row holds that row's lock until
  the commit, so it is one step, taken at the commit. Where the code reads in one step
  and writes in a later one without a lock in between (the running count, the capacity,
  `attempt_count` in the except branch) there are two actions and everything else may
  come between them. The statements of a writer that would wait for a row lock of a
  poll are disabled while the lock is held (`Unlocked`).
* **Locks.** `poll[w].ids` are the rows locked FOR UPDATE; SKIP LOCKED is the `\ Locked`
  in `Claimable`. Only queued rows are ever locked by a poll, which is why recovery and
  requeue, whose WHERE clause names other statuses, never wait.
* **Time.** `claimed_at` and `next_retry_at` are kept as distances from now, in clock
  ticks. Ages stop at `ClaimTimeout + 1`, the first stale one, as no statement
  distinguishes more. A poll reads `now` before its query, so `Tick` also ages the claim
  time a poll is about to write. `retry_in` runs down to 0, from where the row is due.
* **Workers.** A process that is started again registers a new row with a new id, so a
  restart is the `StartWorker` of another member of `Worker`. Registration and recovery
  are two transactions; they are one step here since nothing in job processing reads
  the `workers` row in between.
* **`claim` of a task** is the version its claim left in the row. It identifies the
  claim, and only properties use it: the code keeps nothing of the kind, which is the
  root of several hazards.
* **Faults.** A stop signal, a crash, a database error in a poll and a database error in
  a task each count against `MaxFaults`. A commit whose acknowledgement is lost is the
  commit followed by `TaskBreaks`; a claim that is committed although the poll sees an
  error is `ClaimCommit` followed by `TaskBreaks` of each coroutine it spawned.
* **`_do_work`** may take any time, and returns or raises.
* **Queues** are a fixed set. Jobs are enqueued in the order of their ids, so that the
  id order is the order of `created_at`; priorities are as drawn in the `.cfg`.
* **Timing of the registry.** The heartbeat loop waits its interval after each round, so its
  period is the interval plus what the round takes, and it drifts. The model has it so: a
  round begins no sooner than `Interval` after the last one ended, and `Tick` asks nobody to
  hurry. What hurries is a *prompt* worker, one that is not in `late`: its rounds take at most
  `Lag`, and its waits, its start-up and its way to the deregistration at most `Interval`.
  A round counts from when its timer is due, so that a delay of the event loop is part of the
  lag. `PromptWorkersAreNotLost` is about these workers. The silence of one that has missed `m` beats in a
  row is at most `LongestSilence(m)`, that is `Lag + (m + 1) * (Interval + Lag)`. With the
  defaults of 30 s and 90 s and a lag of seconds, the timeout has room for one missed beat and
  not for two, although 90 is three times 30.
* **Event order.** `events` has no order, since the table has none that means anything:
  `occurred_at` is the time at which the transaction began (`models/worker.py:79`), so a
  report that was begun before a stop and commits after it is sorted before it.
* **Cron rows.** A cron expression is a set of times, `Slots`, and croniter the least of them
  after a given time. The handler of a POST computes the first time, and its session is
  committed later; the row may appear after that time, and after a tick that has fired the
  others due then. It is fired by the next tick. `is_active` is TRUE from the start and no
  statement changes it. `Poison` rows have a name of more than 188 characters: with the suffix `" (scheduled)"` it exceeds
  the 200 of the column of the jobs table, whereas the cron row itself was accepted.
* **One scheduler**, as the head of `tick.py` demands. Nothing else writes due rows, which
  is why selecting them without locks is harmless.
* **Composition with the scheduler.** In `CronScheduler` all jobs come from cron rows, so
  that `POST /jobs` is left out; what it would add is in the runs of `JobProcessing`. The
  metrics part of a tick only inserts snapshots and belongs to the idle scheduler.
* **Data** the properties do not tell apart is left out: names, payloads, error texts,
  results of work, start and finish times.

## What is checked

All runs of job processing have `CHECK_DEADLOCK FALSE`: the system may stop for good, since
every worker may have left and nobody has to start another. Safety runs use symmetry over the
workers; no run of a liveness property does.

| run | instance | shows |
|---|---|---|
| `lifecycle` | 1 job with 2 attempts, 2 workers, 1 command, 1 fault, timeout 0 | `TypeOK`, `RowsAgree`, `InFlightHasTask`, `AttemptsAccounted`, `DeathsAccounted` |
| `contention` | 2 jobs, 2 workers with batches of 2, 1 fault, timeout 0 | `LockedRowsStayQueued`, `CapacityRespected`, `ClaimsComeFromQueue` |
| `settle` | 1 job with 2 attempts, 2 workers, timeout 1, 1 command, no faults | `QueuedJobsSettle`, `PauseTakesEffect` (liveness), `PausedQueueStaysQuiet` |
| `queues` | 2 ranked queues, 3 jobs in the one with limit 1, 1 worker with batches of 1, 2 faults | `LimitOverrunBounded`; `ShutdownCompletes`, `LimitedQueueMovesOn` (liveness) |
| `timely` | 2 jobs, of 2 and of 1 attempt, 2 workers with batches of 2, 1 command, 1 fault, timeout 1 | `SingleExecution`, `TasksOwnTheirRows`, `AttemptsBounded`, and refinement of `JobLifecycle` |
| `retry_delay` | every policy with delays of 0 to 12 s, 6 attempts | `DelayFollowsSchedule`, `DelayNeverShrinks` |
| `registry` | 2 workers, interval 1, lag 1, timeout 5, 2 faults | `TypeOK`, `PromptWorkersAreNotLost`, `EventsAccountForStatus`, `LostWorkersStayLost`; `SilentWorkersAreReported`, `StoppedWorkersGoOffline` (liveness) |
| `scheduler` | 3 cron rows, one of them poison, 3 jobs, 1 worker, times 0 to 2, 1 fault of the scheduler | `CronTypeOK`, `SlotsFireOnce`, `SlotsAreAnswered`, `DueRowsFireTogether`; `DueCronsFire`, `EnqueuedJobsSettle` (liveness) |
| `claim_*` | the smallest instance for each | the four violations below |

**`lifecycle`.** With timeout 0 a claim is stale after one tick, so the start of the
second worker can take back a claim at any stage of the first one's coroutine, and a
command (retry or replay in any status) and a fault can come anywhere. This is the
instance in which coroutines step on each other: two of them for one job, each writing
over what the other left. The properties are what survives that. One job is enough,
since every statement they speak of is about one row.

**`contention`.** Two jobs and batches of two are the least for which two polls can
overlap in part: one holds the lock on the first row when the other takes the second.
Cancellation, recovery and a rolled-back poll run against the locks. One attempt per
job, since what comes after the claim does not matter here.

**`settle`.** Without faults, but with claims being taken back from a live worker when the
second one starts, with a retry delay, and with an operator who at any moment retries the
job, replays it, or pauses its queue: a queued job ends in a terminal status, unless the
queue is paused. Two attempts are the least for which a retry occurs. The cancelled job
that a stale coroutine completes, below, occurs here too; it still settles. A pause must
wait for the polls of two workers, each of which may have taken its snapshot before it.

**`queues`.** Two queues of different rank, so that a poll goes on to the next one when the
first is full; three jobs in the queue with limit 1 and two faults, so that a stop signal
can be followed by a broken session or a crash, and so that rows left `running` by two
broken sessions leave one more job to start: three running jobs are the least that exceed
`LimitOverrunBounded`, and two of them, with one fault, meet it exactly. `LimitedQueueMovesOn` says
exactly how the limit may hold a job up: while another job of its queue runs, and for
ever only when rows left `running` by a broken session or a crash fill the limit
(`IsClogged`). The code does block the queue then, until somebody starts a worker after
the timeout.

**`timely`.** `TimelyProcessing` restricts `JobProcessing` by two conditions the code does
not enforce: no claim of a live coroutine outlives the timeout, and the operator
retries or replays dead jobs only. Under these, and with crashes, stop signals, broken
sessions and failing handlers still there, the code implements `JobLifecycle`: a job in
flight has one holder, only the holder settles it, it goes back to the queue without an
outcome only after its holder is gone, and it is dead only when its attempts are used
up. The refinement maps `holder` to `"live"` when some coroutine has the job and to
`"gone"` when none has. Two jobs with batches of two let one step of the code move both
(a requeue, a recovery, an exit), which is a step on a set in `JobLifecycle`. The
`lifecycle` run shows that without the two conditions `SingleExecution` and the rest have
no chance; ADR-003 concedes as much ("Long-running jobs may be incorrectly recovered").

**`registry`.** A detector and a worker that it may report, each of which may be both. With
an interval and a lag of one tick, a timeout of five is exactly `LongestSilence(1)`: it has
room for one missed beat, and a worker that misses one meets it without exceeding it. Two
faults allow the second missed beat, a stop signal before or after the first, or a crash
with one of these. The run shows what the update by id amounts to: a prompt worker is safe from
it, also after its deregistration; one that is late can be reported while it lives, works and
beats on, which nothing undoes until it deregisters; and one that is late and deregistered
between the two steps of a detector ends up LOST, which nothing undoes at all. `StoppedWorkersGoOffline`
says both: a worker told to stop becomes OFFLINE, and stays so unless it was late. That two detectors select
the same third worker is beyond two workers; the theorems about the safety properties cover it.
Deadlock is checked, time never stops.

**`scheduler`.** `c1` is due at 1 and 2, `c2` and the poison row at 2, so that rows are
due together and apart, and the poison row is due with or without another. The POST of `c1` may
take any time (`Slow`), so that its row appears before its first time, at it or after it, between
the two steps of a tick and after the tick that has fired `c2`; the other two are posted and
committed within one tick of the clock, before or after any step of the scheduler. A single
fault puts a restart, a crash or an error at every point of a tick; the clock may pass a
slot while the scheduler is down, while it is between its two steps, and between ticks.
Job 1 has two attempts and needs the requeue of a tick, the others have one: these are
bounds, the code gives each job of a cron row the three of the column's default. The liveness properties except
the times when the scheduler is down for good or meets a poison row, which stops cron
jobs and retries alike at every tick from then on. Processing is without faults of its
own here; they are in the other runs.

**`retry_delay`.** The closed forms in `retry.py` against the recursive schedule of the
comments in `RetryPolicy`. The exponential delay at attempt 0, which the code can compute
(a job replayed while it runs), is half of the base delay, so the model counts half
seconds. With 12 seconds and six attempts every strategy both stays below its cap and
runs into it.

## Fairness

`Fairness` in `JobProcessing` is weak fairness of

* `PollStep(w)`: the poll loop polls again after each interval, and a query returns;
* `Exit(w)`: a loop whose flag is set ends;
* the next step of the coroutine of worker `w` for job `j`, for each `w` and `j`: the event
  loop runs every ready task. A coroutine whose row is locked waits; the lock is released
  by the poll's next step;
* `RequeueRetryable`: the scheduler ticks, and its requeue succeeds in the end;
* `Tick`: time passes.

Nothing is assumed of `StartWorker`, of the API or of the outcome of the work, and faults
are never fair. That the scheduler's requeue is reached at all in each tick assumes that
the cron part before it does not fail for ever, which a bad cron row can make it do;
`CronScheduler` drops the assumption: `CronFairness` has weak fairness of the
scheduler's next step, whichever it is, in the place of `RequeueRetryable`, and of
`TimePasses` in the place of `Tick`. A scheduler that is down need not be started.

`Fairness` in `WorkerRegistry` is weak fairness of a starting worker's next step, of the
beginning of a heartbeat round when the interval is over, of its successful end, of the
deregistration of a worker whose loops have ended, and of `Tick`: the event loop runs what
is ready, and a query returns. How soon is not part of it. Nobody has to start a worker, and
no failure is fair.

## What is proved

TLAPS proves the following for every set of workers, jobs, queues and cron rows, every
setting and every bound. The assumptions are those the modules name: jobs are a finite
set of naturals, columns and settings have their types, NULL is not a worker, a queue or
a number, a cron expression has a time after every time of the clock. Two theorems have
a hypothesis of their own, stated with them.

| module | theorem | statement |
|---|---|---|
| `JobProcessingProofs` | `TypeCorrect` | `Spec => []TypeOK` |
| | `LockedRowsAreSafe` | `Spec => []LockedRowsStayQueued` |
| | `ClaimsAreExclusive` | `Spec => ClaimsComeFromQueue` |
| | `RowsAlwaysAgree` | `Spec => []RowsAgree` |
| | `InFlightAlwaysHasTask` | `Spec => []InFlightHasTask` |
| | `PauseIsKept` | `Spec => PausedQueueStaysQuiet` |
| `CapacityProofs` | `CapacityIsRespected` | `Spec => []CapacityRespected` |
| | `OverrunIsBounded` | `Spec => []LimitOverrunBounded` |
| `AccountingProofs` | `AttemptsAreAccounted` | `Spec => []AttemptsAccounted` |
| | `DeathsAreAccounted` | `Spec => []DeathsAccounted` |
| `TimelyProofs` | `TasksAlwaysOwnTheirRows` | `TimelySpec => []TasksOwnTheirRows` |
| | `ExecutionIsSingle` | `TimelySpec => []SingleExecution` |
| | `AttemptsAreBounded` | `TimelySpec => []AttemptsBounded`, if every `max_attempts` is at least 1 |
| `LifecycleProofs` | `LifecycleIsImplemented` | `TimelySpec => ImplementsLifecycle` |
| `WorkerRegistryProofs` | `RegistryTypeCorrect` | `Spec => []TypeOK` |
| | `EventsAlwaysAccountForStatus` | `Spec => []EventsAccountForStatus` |
| | `LostStayLost` | `Spec => LostWorkersStayLost` |
| | `PromptAreNeverLost` | `Spec => []PromptWorkersAreNotLost`, if `LongestSilence(0) <= Timeout` |
| `CronSchedulerProofs` | `CronTypeCorrect` | `CronSpec => [](TypeOK /\ CronTypeOK)` |
| | `SlotsAlwaysFireOnce` | `CronSpec => []SlotsFireOnce` |
| | `SlotsAreAlwaysAnswered` | `CronSpec => []SlotsAreAnswered` |
| | `DueRowsAlwaysFireTogether` | `CronSpec => []DueRowsFireTogether` |
| | `ProcessingStaysSafe` | `CronSpec => []` of `RowsAgree`, `LockedRowsStayQueued`, `InFlightHasTask`, `CapacityRespected`, `LimitOverrunBounded`, `AttemptsAccounted` and `DeathsAccounted` |
| | `ClaimsStayExclusive` | `CronSpec => ClaimsComeFromQueue` |
| `RetryDelayProofs` | `DelaysAreScheduled` | `Spec => []DelayFollowsSchedule` |
| | `DelaysNeverShrink` | `Spec => DelayNeverShrinks` |

### Rows, locks and coroutines

`TypeOK` is inductive: `StatementsKeepRows` has it for the row operators, and one
lemma per group of actions for the rest. `StepOfRow` then sums up the whole next-state
relation from the point of view of one row: it is left alone or aged; or recovered,
requeued or enqueued, each from the status its WHERE clause names; or claimed by a poll
that holds its lock; or written by a statement that waits for locks, which is the start of
a coroutine, its outcome, a command or a cancellation. `StepOfLocks` does
the same for locks: no step takes any but `ClaimSelect`, which takes them on claimable
rows. `LockedRowsStayQueued` is inductive with `TypeOK`: of the alternatives of `StepOfRow`,
those open to a locked, queued row leave its status alone. `ClaimsComeFromQueue` follows,
as only the claim leads to `claimed` with a new version. `RowsAgree` is inductive row by row.
`InFlightHasTask` is inductive with `TypeOK`: `StepOfTask` says that a coroutine stays, is lost
or takes its next step, and the steps of the witness of a row either keep a witness or
take the row out of the status that needs one.

`PausedQueueStaysQuiet` is an action property. A poll visits only what is left of its snapshot
(`VisitsComeFromSnapshot`), and a row gets an owner only from a poll that has selected it
(`OwnersComeFromPolls`). So a poll that has a paused queue neither in its hands nor before it
never comes to it.

### Counting

`CapacityRespected` needs more: its induction counts coroutines, and a count is only kept
if a new coroutine is new and one that moves on does not turn into another. `CapacityInv`
adds that coroutines are finitely many, that no two have the same claim, and that no
claim is ahead of the version of its row. The last holds because versions never fall
(`VersionsGrow`, which takes `RowsAgree`: an enqueued row starts at version 1, and before
that it is `NoRow`).

`AttemptsAccounted` also counts the lost, so `HistoryInv` says of `lost` what `CapacityInv` says
of `tasks`, and that a lost coroutine shares its claim with no live one; otherwise a loss
could merge two vouchers into one. Then each step is followed from both sides. Only
`MarkRunning` raises `attempt_count`, and it adds a voucher, the coroutine itself
(`StartAddsVoucher`); every other step leaves the number of vouchers or raises it, since
a coroutine that ends with an outcome leaves a record in its place, and one that is lost
is a voucher still. `DeathsAccounted` is inductive with `TypeOK`: a row becomes dead together
with its entry, entries are never deleted, and one transaction makes the entry and
the failed record.

### How far a limit is exceeded

`LimitOverrunBounded` says what is left of the concurrency limit. Its hardest case is not the
one poll of `claim_concurrency_limit` but a process that counts, then loses or hands on what
it has in hand, and claims again on the strength of the old count; and rows left `running`
by lost coroutines stay in the sum for as long as nobody recovers them. The inductive
invariant is `ExposureBounded`: not only the running rows of the queue are below the bound,
but the sum of these, the coroutines about to start, the rows a poll has locked, and a batch for
each poll that has counted and not yet selected. No step but a successful count adds to
the sum. `MarkRunning` moves one from the second to the first, `ClaimCommit` from the third
to the second, `ClaimSelect` at most a batch from the fourth to the third; a crash, an error, a
recovery or a command takes something off. A successful count adds a batch, but it starts from
a sum it knows: fewer running rows than the limit, at most a batch in the hands of each
process (`HandsAreBounded`, from `CapacityRespected`) and at most one pending claim of each.
`HandsAreBounded` is a sum over the processes; `BoundedUnion` counts their union instead, by an
injection into the pairs of a process and a number up to the batch size. With the default
batch of 5 (`config/settings.py:39`), a queue with limit 1 and one worker process may have 10
jobs running, and no more.

### The delays

`DelaysAreScheduled` equates a closed form and a recursive function, for every policy and attempt.
That the function exists at all is part of it: `ScheduleIsSchedule` gives the closed form as
the witness of its definition, and `SchedulesAreEqual` shows by the least attempt at which two
could differ that there is only one, as the library's induction theorems cannot be used. For the
exponential strategy it takes that 2^(n+1) is twice 2^n, which no backend knows:
`PowerDoubles` counts the subsets of a set with one more element. `DelaysNeverShrink` follows
from the same facts.

### Under timely claims

`TasksOwnTheirRows` is what no statement of the code checks, and the two conditions of
`TimelyProcessing` are what makes it inductive, with `ClaimsAreFresh`: no claim that a
coroutine holds is stale, nor one that a poll is about to write. Recovery then passes over
every row with a coroutine; a command finds the row dead, hence without one; a
cancellation finds it queued or waiting, also without one. The claim that a coroutine carries
tells it from all others (`CapacityInv`), so a row has one owner at most, which is
`SingleExecution`.

`AttemptsBounded` is not inductive: an attempt is added by the start, but whether there may be
one is decided by the failure before it. `BudgetKept` adds the attempt that a row in the
queue, or claimed, or waiting for a retry is due, against the same allowance: the outcome
decides with the count it has read, which is the row's own because the coroutine owns its row;
a recovery, which gives an attempt without asking, is paid by the coroutine that was lost,
a retry by the operator's command. The hypothesis is needed. The API accepts any integer
as `max_attempts` (`routes/jobs.py:24`), and a job with 0 is attempted once all the same.

`LifecycleIsImplemented` is the refinement, step by step: `OwnInv` and the invariants of `Spec`
give the status and the holder before and after each action, and one lemma per group
of actions names the step of `JobLifecycle` it is, on a set of jobs, or shows that it is none.

### The registry

`EventsAccountForStatus` is inductive with two facts: a log is empty until its worker registers,
and a detector finds registered workers only. `LostWorkersStayLost` follows from what a step can
do to one status. `PromptWorkersAreNotLost` needs the accounts of time in `PromptInv`:
`SilenceIsAccounted` bounds the silence of a live prompt worker by where its process is, how long
it has been there, and a period of `Interval + Lag` for each beat it has missed. The bound never exceeds
`LongestSilence` of the beats missed, which is within the timeout (`MissedIsTolerated`), so no
detector ever finds such a worker while it lives. The two steps of a detector do not matter then:
what was found silent has crashed, ended without deregistering, or was late (`FoundHaveDied`),
and what has ended never beats or deregisters again. The hypothesis, which is `Interval + 2 * Lag <= Timeout`, is one the
settings do not enforce (`config/settings.py:36`, `:38`; the defaults are 30 and 90 seconds).
Without it a worker can be reported lost that misses no beat.

### The scheduler

`CronInv` adds three facts to the three properties. What a tick has selected stays due at the
time it has read, until it writes, and every row due then has been selected, or is one that was committed
too late (`DueIsAsRead`). A row whose POST is under way is not in the table yet
(`PostedAreNew`), so that its commit overwrites nothing. And runs lie in the past, before the next time of
their row, also when a row is committed between the two steps of a tick; they are of
rows that exist, with jobs that exist (`FiredArePast`), so a new run gets a job that no earlier one
has. `NextSlotIsFirst` is the only fact about slots the proof uses; it takes the least
element of a set of naturals.

`DueRowsFireTogether` has an exception, and must have it: the row of a POST that computed its first
time before the clock passed it, and was committed after a tick had fired the others, is left with a
time at or before that tick's. The exception ends with the row's first run. `SlotsFireOnce` and
`SlotsAreAnswered` need none.

A step of the composition is a step of `JobProcessing`, a firing, or neither's business
(`StepOfProcessing`). A firing turns rows that are absent into queued ones and changes nothing
else, whence the safety of job processing carries over to `CronSpec` (`ProcessingStaysSafe`,
`ClaimsStayExclusive`): its invariants are kept by the old lemmas on the one kind of step, and by
`FiresKeepsProcessing` on the other.

The inductive invariants were checked by TLC on the instances of the runs before they were
proved.

### Only model-checked

Liveness, which needs reasoning about ENABLED that the prover does not have:
`QueuedJobsSettle`, `ShutdownCompletes`, `PauseTakesEffect`, `LimitedQueueMovesOn`,
`SilentWorkersAreReported`, `StoppedWorkersGoOffline`, `DueCronsFire`, `EnqueuedJobsSettle`. Every
invariant and every action property of the passing runs, and the refinement, is a theorem.

## Disagreements between code and documentation

Checked by a run each:

* `claim_concurrency_limit` — "Max concurrent running jobs for this queue"
  (`models/queue.py:62`). The running count is read before the claim, leaves out `claimed`
  rows, and does not bound the batch: one poll takes two jobs of a queue with limit 1.
* `claim_cancelled_completed` — "a job transition is invalid (e.g., completing a cancelled
  job)" (`shared/errors.py:54`). `JobStateError` is raised nowhere; a coroutine whose stale
  claim was taken back completes a job that was cancelled since.
* `claim_graceful_stop` — "In-flight jobs finish (with a deadline)" (`worker/process.py:12`).
  `start` returns when the two loops have, and `asyncio.run` cancels the coroutines.
* `claim_crash_recovery` — ADR-003: each scheduler tick detects lost workers and
  re-queues stale claims. `_tick` does neither; only a starting worker recovers, so a
  crashed worker's job stays in flight beside any number of running workers.

Met while modelling, without a run of their own:

* Version numbers are incremented and never compared; README.md:104 has them detect
  conflicts.
* `retry_job` does not look at the status, against "re-queue a failed or dead job"
  (`routes/jobs.py:138`).
* A job of a queue without a retry policy is buried at its first failure, against "Jobs
  that exhausted all retry attempts end up here" (`models/job.py:161`).
* Failed executions are all numbered 1, with the comment "will be updated properly"
  (`worker/process.py:188`).
* A row that was retried or recovered and is then marked running by its old coroutine
  is running without `claimed_at`; `claimed_at < cutoff` never selects it, so if that
  coroutine is lost too, nothing recovers it.
* `queue_filter` is registered and never read, `RetryPolicy.max_attempts` is never read.
* "We track last_run_at to avoid double-enqueuing if the scheduler restarts"
  (`models/job.py:127`): `last_run_at` is written and never read. There is no double
  enqueuing all the same, since job and `next_run_at` are committed together
  (`SlotsFireOnce`).
* "its claimed jobs are released" when a worker is marked lost (`models/worker.py:5`): jobs
  are released by the age of their claim, whatever became of the worker.
* "We keep a bounded window (last N) per worker" of heartbeats (`models/worker.py:44`):
  nothing deletes any. The event type "recovered" (`models/worker.py:63`) is never emitted.
* "Single scheduler with advisory lock" (`README.md:181`): no code takes an advisory lock. The
  head of `tick.py` asks for a single scheduler, and nothing keeps a second one from running.
* `GET /workers/{id}` sorts the events by `occurred_at` (`routes/workers.py:60`), the time at which
  the transaction began. A detector that began before a worker stopped and commits after it
  leaves the status "lost" with the last event "stopped".

## What is not modelled

* Creation of queues, policies and projects; reading routes; metrics; authentication;
  dashboard; configuration; migrations; scripts. None writes what the modelled parts
  read, except the creation of queues, which are a fixed set here.
* The heartbeat log and `stopped_at`, which no statement of the system reads.
* A second scheduler, see above, and the filter of a worker on queues, which the code ignores.
* Projects. A worker polls the queues of one project, by default the latest there is
  when it starts (`worker/run.py`), and `Queue` stands for those. Queues of other projects are
  polled by other workers or by nobody.
* Deletion: no route deletes jobs, queues or entries.
* A coroutine whose first statement fails because no connection could be had. Its session is not
  broken then, and its except branch may still record the failure, which `TaskBreaks` excludes:
  a job still `claimed` would go through `mark_failed` without an attempt.
* The response a client sees. The session of a route commits after its handler returned
  (`session.py`), so a client may have a success whose commit failed.

## Plan

Written, in this order: `JobRows`, `JobProcessing`, `JobProcessingProofs`,
`CapacityProofs`, `JobLifecycle`, `TimelyProcessing`, `DocumentedClaims`, `RetryDelay`,
`WorkerRegistry`, `CronScheduler`; then the proofs: `WorkerRegistryProofs`,
`CronSchedulerProofs`, `AccountingProofs`, `TimelyProofs`, `LifecycleProofs`,
`RetryDelayProofs`, and `LimitOverrunBounded` with its theorem. Every invariant and every
action property of the passing runs is now a theorem. Left: `TimelyProcessing` under the
scheduler, that is, the refinement of `JobLifecycle` by `CronSpec` with the two conditions.

## Running

    tlc -workers 2 -config MCLifecycle.cfg MCJobProcessing.tla
    tlapm JobProcessingProofs.tla

and so on for the other `*Proofs` modules.

`PROJECT.json` names the module and the configuration of every run. The longest takes
two to three minutes.
