---------------------------- MODULE JobProcessing ----------------------------
(***************************************************************************)
(* Job processing in Cronwave: worker processes that poll queues, claim    *)
(* rows of the jobs table and execute them; the scheduler that requeues    *)
(* retries; the operator's API calls; crashes, broken database sessions    *)
(* and the passing of time.  All of them meet in the jobs table.           *)
(*                                                                         *)
(* Postgres runs at READ COMMITTED.  A transaction that is one statement,  *)
(* or that starts with the UPDATE of a row and so holds its lock until the *)
(* commit, is one step, taken when it commits.  Two places read in one     *)
(* step and write in a later one, and are two actions here: claiming       *)
(* (ClaimSelect locks the rows, ClaimCommit updates them) and failing      *)
(* (WorkRaises reads attempt_count, MarkFailed uses it).                   *)
(***************************************************************************)
EXTENDS JobRows, Integers, Sequences, FiniteSets

CONSTANTS
    Job,            \* ids of jobs; their order is the order of created_at
    Queue,          \* the queues of the workers' project
    QueueOf,        \* Job.queue_id
    Priority,       \* Job.priority
    MaxAttempts,    \* Job.max_attempts
    QueuePriority,  \* Queue.priority
    Limit,          \* Queue.concurrency_limit, 0 = unlimited
    HasPolicy,      \* queues with a retry_policy_id
    Backoff,        \* per such queue: attempt -> calculate_retry_delay, in ticks
    BatchSize,      \* worker_claim_batch_size
    MaxOps,         \* bound: operator commands on rows, entries and queues
    MaxFaults       \* bound: crashes, stop signals and database errors

Attempt == UNION {0 .. MaxAttempts[j] : j \in Job}

ASSUME JobAssumption == Job \subseteq Nat /\ IsFiniteSet(Job)
ASSUME JobColumnsAssumption == /\ QueueOf \in [Job -> Queue]
                               /\ Priority \in [Job -> Int]
                               /\ MaxAttempts \in [Job -> Nat]
ASSUME QueueAssumption == /\ NULL \notin Queue
                          /\ QueuePriority \in [Queue -> Int]
                          /\ Limit \in [Queue -> Nat]
ASSUME PolicyAssumption == /\ HasPolicy \subseteq Queue
                           /\ Backoff \in [HasPolicy -> [Attempt -> Nat]]
ASSUME SettingsAssumption == /\ BatchSize \in Nat
                             /\ MaxOps \in Nat
                             /\ MaxFaults \in Nat

VARIABLES
    jobs,       \* the jobs table
    dlq,        \* the dead_letter_queue table, in insertion order
    execs,      \* the job_executions table: per job, in insertion order
    paused,     \* queues with is_paused
    proc,       \* the state of each worker process
    active,     \* WorkerProcess._active_jobs
    poll,       \* where each worker's _poll_once is
    tasks,      \* the _execute_job coroutines that are running
    lost,       \* history: coroutines that ended without recording an outcome
    ops,        \* operator commands so far
    faults      \* faults so far

vars == <<jobs, dlq, execs, paused, proc, active, poll, tasks, lost, ops, faults>>

-----------------------------------------------------------------------------
(* Types *)

Entry == [job : Job, attempt_count : Nat, is_resolved : BOOLEAN]
Execution == [attempt_number : Nat, status : {"completed", "failed"}]

ProcState == {"new", "running", "stopping", "stopped", "crashed"}

\* "check" is the head of the loop over the queues, "select" has counted the
\* running jobs of a queue with a limit and is about to query it, "commit" holds
\* the locks of the selected rows.
Poll == [at : {"idle", "check", "select", "commit"},
         left : SUBSET Queue,            \* queues of the snapshot still to visit
         queue : Queue \cup {NULL},      \* the queue being claimed from
         ids : SUBSET Job,               \* rows locked FOR UPDATE
         age : Age]                      \* of `now`, read before the query

NoPoll == [at |-> "idle", left |-> {}, queue |-> NULL, ids |-> {}, age |-> 0]

\* claim is the version the row had when this coroutine's claim was committed,
\* and names the claim: no two claims of a job leave the same version.  The
\* code does not keep it.  seen is the attempt_count read by the except branch.
Task == [worker : Worker, job : Job, claim : Nat,
         stage : {"spawned", "working", "failing"}, seen : Nat]

TypeOK ==
    /\ jobs \in [Job -> Row]
    /\ dlq \in Seq(Entry)
    /\ execs \in [Job -> Seq(Execution)]
    /\ paused \subseteq Queue
    /\ proc \in [Worker -> ProcState]
    /\ active \in [Worker -> Int]
    /\ poll \in [Worker -> Poll]
    /\ tasks \subseteq Task
    /\ lost \subseteq Task
    /\ ops \in 0 .. MaxOps
    /\ faults \in 0 .. MaxFaults

-----------------------------------------------------------------------------
Init ==
    /\ jobs = [j \in Job |-> NoRow]
    /\ dlq = << >>
    /\ execs = [j \in Job |-> << >>]
    /\ paused = {}
    /\ proc = [w \in Worker |-> "new"]
    /\ active = [w \in Worker |-> 0]
    /\ poll = [w \in Worker |-> NoPoll]
    /\ tasks = {}
    /\ lost = {}
    /\ ops = 0
    /\ faults = 0

\* Rows whose locks a poll holds; any other writer of such a row waits.
Locked == UNION {poll[w].ids : w \in Worker}

TasksOf(w) == {t \in tasks : t.worker = w}

\* The order of the claim query.
ClaimedBefore(a, b) ==
    \/ Priority[a] > Priority[b]
    \/ Priority[a] = Priority[b] /\ a < b

\* Mutant: claimed jobs count as running.
RunningCount_InFlight(q) ==
    Cardinality({j \in Job : QueueOf[j] = q /\ jobs[j].status \in InFlight})

RunningCount(q) == Cardinality({j \in Job : QueueOf[j] = q /\ jobs[j].status = "running"})

-----------------------------------------------------------------------------
(* The life of a worker process *)

\* The age of a claim is all the recovery looks at.
RecoverStaleClaims ==
    jobs' = [j \in Job |-> IF IsStale(jobs[j]) THEN Recovered(jobs[j]) ELSE jobs[j]]

\* start: registration (see the README), recovery, then the loops.  A process
\* that has died is not this one when it starts again: it registers under a new
\* identity.
StartWorker(w) ==
    /\ proc[w] = "new"
    /\ RecoverStaleClaims
    /\ proc' = [proc EXCEPT ![w] = "running"]
    /\ UNCHANGED <<dlq, execs, paused, active, poll, tasks, lost, ops, faults>>

\* SIGTERM or SIGINT
Shutdown(w) ==
    /\ proc[w] = "running"
    /\ faults < MaxFaults
    /\ proc' = [proc EXCEPT ![w] = "stopping"]
    /\ faults' = faults + 1
    /\ UNCHANGED <<jobs, dlq, execs, paused, active, poll, tasks, lost, ops>>

\* The process ends in state s and every coroutine of it with it.
Leave(w, s) ==
    /\ proc' = [proc EXCEPT ![w] = s]
    /\ poll' = [poll EXCEPT ![w] = NoPoll]
    /\ active' = [active EXCEPT ![w] = 0]
    /\ tasks' = tasks \ TasksOf(w)
    /\ lost' = lost \cup TasksOf(w)

\* Both loops have returned and _deregister has run; asyncio.run then cancels
\* the coroutines that are left.  Nothing waits for them.
Exit(w) ==
    /\ proc[w] = "stopping"
    /\ poll[w].at = "idle"
    /\ Leave(w, "stopped")
    /\ UNCHANGED <<jobs, dlq, execs, paused, ops, faults>>

Crash(w) ==
    /\ proc[w] \in {"running", "stopping"}
    /\ faults < MaxFaults
    /\ Leave(w, "crashed")
    /\ faults' = faults + 1
    /\ UNCHANGED <<jobs, dlq, execs, paused, ops>>

-----------------------------------------------------------------------------
(* _poll_once.  A step is a query of the poll and what follows up to the next *)
(* await: the tests at the head of the loop belong to the query they precede. *)

\* Mutant: the loop does not move on to the next queue.
Onward_Stuck(w, left) ==
    poll' = [poll EXCEPT ![w] = [NoPoll EXCEPT !.at = "check",
                                 !.left = left \cup poll[w].left]]

\* The poll goes on with the queues left, or returns when there are none.
Onward(w, left) ==
    poll' = [poll EXCEPT ![w] = IF left = {} THEN NoPoll
                                ELSE [NoPoll EXCEPT !.at = "check", !.left = left]]

\* Mutant: paused queues are polled.
ActiveQueues_All == Queue

ActiveQueues == Queue \ paused

\* Mutant: the loop is not left on shutdown.
PollBegin_Forever(w) ==
    /\ proc[w] \in {"running", "stopping"}
    /\ poll[w].at = "idle"
    /\ ActiveQueues # {}
    /\ Onward(w, ActiveQueues)
    /\ UNCHANGED <<jobs, dlq, execs, paused, proc, active, tasks, lost, ops, faults>>

\* The snapshot of the active queues: pausing one of them comes too late for
\* this poll.
PollBegin(w) ==
    /\ proc[w] = "running"
    /\ poll[w].at = "idle"
    /\ ActiveQueues # {}
    /\ Onward(w, ActiveQueues)
    /\ UNCHANGED <<jobs, dlq, execs, paused, proc, active, tasks, lost, ops, faults>>

\* The next queue in get_active_queues order.
IsNextQueue(w, q) ==
    /\ q \in poll[w].left
    /\ \A r \in poll[w].left : QueuePriority[q] >= QueuePriority[r]

\* Mutant: the queue is full only beyond its limit.
CountRunning_OverLimit(w) ==
    /\ poll[w].at = "check"
    /\ proc[w] = "running"
    /\ \E q \in Queue :
        /\ IsNextQueue(w, q)
        /\ Limit[q] > 0
        /\ IF RunningCount(q) > Limit[q]
           THEN Onward(w, poll[w].left \ {q})
           ELSE poll' = [poll EXCEPT ![w].at = "select", ![w].queue = q,
                                     ![w].left = @ \ {q}]
    /\ UNCHANGED <<jobs, dlq, execs, paused, proc, active, tasks, lost, ops, faults>>

\* running_job_count of a queue with a limit: a full queue is passed over, and
\* what was read is trusted in the steps that follow.
CountRunning(w) ==
    /\ poll[w].at = "check"
    /\ proc[w] = "running"
    /\ \E q \in Queue :
        /\ IsNextQueue(w, q)
        /\ Limit[q] > 0
        /\ IF RunningCount(q) >= Limit[q]
           THEN Onward(w, poll[w].left \ {q})
           ELSE poll' = [poll EXCEPT ![w].at = "select", ![w].queue = q,
                                     ![w].left = @ \ {q}]
    /\ UNCHANGED <<jobs, dlq, execs, paused, proc, active, tasks, lost, ops, faults>>

\* The poll may query queue q for jobs: its count was read and is below the
\* limit, or it has no limit.  The shutdown flag is read before the count.
MayClaimFrom(w, q) ==
    \/ poll[w].at = "select" /\ q = poll[w].queue
    \/ /\ poll[w].at = "check"
       /\ proc[w] = "running"
       /\ IsNextQueue(w, q)
       /\ Limit[q] = 0

\* Mutant: jobs in progress are not taken off.
Remaining_Full(w) == BatchSize

Remaining(w) == BatchSize - active[w]

\* The poll returns early: on the shutdown flag, or for want of capacity.
PollReturns(w) ==
    /\ \/ poll[w].at = "check" /\ proc[w] = "stopping"
       \/ Remaining(w) <= 0 /\ \E q \in Queue : MayClaimFrom(w, q)
    /\ poll' = [poll EXCEPT ![w] = NoPoll]
    /\ UNCHANGED <<jobs, dlq, execs, paused, proc, active, tasks, lost, ops, faults>>

\* Mutant: SKIP LOCKED without FOR UPDATE.
Claimable_Locked(q) == {j \in Job : QueueOf[j] = q /\ jobs[j].status = "queued"}

Claimable(q) == {j \in Job : QueueOf[j] = q /\ jobs[j].status = "queued"} \ Locked

\* The first `limit` claimable jobs of queue q.
IsHead(ids, q, limit) ==
    /\ ids \subseteq Claimable(q)
    /\ Cardinality(ids) <= limit
    /\ Cardinality(ids) = limit \/ ids = Claimable(q)
    /\ \A a \in ids, b \in Claimable(q) \ ids : ClaimedBefore(a, b)

\* SELECT ... FOR UPDATE SKIP LOCKED.  With no row the loop goes on.
ClaimSelect(w) ==
    /\ Remaining(w) > 0
    /\ \E q \in Queue, ids \in SUBSET Job :
        /\ MayClaimFrom(w, q)
        /\ IsHead(ids, q, Remaining(w))
        /\ IF ids = {}
           THEN Onward(w, poll[w].left \ {q})
           ELSE poll' = [poll EXCEPT ![w] = [at |-> "commit", left |-> @.left \ {q},
                                             queue |-> NULL, ids |-> ids, age |-> 0]]
    /\ UNCHANGED <<jobs, dlq, execs, paused, proc, active, tasks, lost, ops, faults>>

\* The coroutine created for a job the worker has just claimed.
Spawn(w, j) == [worker |-> w, job |-> j, claim |-> jobs[j].version + 1,
                stage |-> "spawned", seen |-> 0]

\* Mutant: the shutdown flag is looked at once more.
Spawned_UnlessStopping(w) ==
    {Spawn(w, j) : j \in {i \in poll[w].ids : proc[w] # "stopping"}}

Spawned(w) == {Spawn(w, j) : j \in poll[w].ids}

\* UPDATE and COMMIT, then one coroutine per claimed row.  A stop signal since
\* the check does not prevent it.
ClaimCommit(w) ==
    /\ poll[w].at = "commit"
    /\ jobs' = [j \in Job |-> IF j \in poll[w].ids
                              THEN Claimed(jobs[j], w, poll[w].age) ELSE jobs[j]]
    /\ tasks' = tasks \cup Spawned(w)
    /\ active' = [active EXCEPT ![w] = @ + Cardinality(poll[w].ids)]
    /\ Onward(w, poll[w].left)
    /\ UNCHANGED <<dlq, execs, paused, proc, lost, ops, faults>>

\* A database error: the transaction is rolled back and poll_error logged.
PollAborts(w) ==
    /\ poll[w].at # "idle"
    /\ faults < MaxFaults
    /\ poll' = [poll EXCEPT ![w] = NoPoll]
    /\ faults' = faults + 1
    /\ UNCHANGED <<jobs, dlq, execs, paused, proc, active, tasks, lost, ops>>
-----------------------------------------------------------------------------
(* _execute_job, one coroutine per claimed row.  No statement below looks at *)
(* the row's status, owner or version.                                       *)

\* Mutant: the claim query does not lock.
Unlocked_Always(j) == TRUE

\* No poll holds the row's lock.
Unlocked(j) == j \notin Locked

MovesTo(t, stage, seen) ==
    tasks' = (tasks \ {t}) \cup {[t EXCEPT !.stage = stage, !.seen = seen]}

\* The finally clause, and the end of the coroutine.
Ends(t) ==
    /\ tasks' = tasks \ {t}
    /\ active' = [active EXCEPT ![t.worker] = @ - 1]

\* Mutant: only successes are recorded.
Record_Successes(j, n, status) ==
    execs' = IF status = "failed" THEN execs ELSE
             [execs EXCEPT ![j] = Append(@, [attempt_number |-> n, status |-> status])]

Record(j, n, status) ==
    execs' = [execs EXCEPT ![j] = Append(@, [attempt_number |-> n, status |-> status])]

MarkRunning(t) ==
    /\ t.stage = "spawned"
    /\ Unlocked(t.job)
    /\ jobs' = [jobs EXCEPT ![t.job] = Started(@)]
    /\ MovesTo(t, "working", 0)
    /\ UNCHANGED <<dlq, execs, paused, proc, active, poll, lost, ops, faults>>

\* The work is done.  attempt_count is read back after the UPDATE.
MarkCompleted(t) ==
    /\ t.stage = "working"
    /\ Unlocked(t.job)
    /\ jobs' = [jobs EXCEPT ![t.job] = Completed(@)]
    /\ Record(t.job, jobs[t.job].attempt_count, "completed")
    /\ Ends(t)
    /\ UNCHANGED <<dlq, paused, proc, poll, lost, ops, faults>>

\* The handler raised; the except branch reads the row, without a lock.
WorkRaises(t) ==
    /\ t.stage = "working"
    /\ MovesTo(t, "failing", jobs[t.job].attempt_count)
    /\ UNCHANGED <<jobs, dlq, execs, paused, proc, active, poll, lost, ops, faults>>

\* Mutant: one attempt too many.
HasRetryLeft_OneMore(t) ==
    /\ QueueOf[t.job] \in HasPolicy
    /\ t.seen <= MaxAttempts[t.job]

HasRetryLeft(t) ==
    /\ QueueOf[t.job] \in HasPolicy
    /\ t.seen < MaxAttempts[t.job]

NewEntry(t) == [job |-> t.job, attempt_count |-> t.seen, is_resolved |-> FALSE]

\* Mutant: off by one.
SendToDlq_OffByOne(t) ==
    dlq' = IF t.seen > MaxAttempts[t.job] THEN Append(dlq, NewEntry(t)) ELSE dlq

SendToDlq(t) == dlq' = Append(dlq, NewEntry(t))

\* Every failed execution is numbered 1.
MarkFailed(t) ==
    /\ t.stage = "failing"
    /\ Unlocked(t.job)
    /\ \/ /\ HasRetryLeft(t)
          /\ jobs' = [jobs EXCEPT ![t.job] =
                         RetryScheduled(@, Backoff[QueueOf[t.job]][t.seen])]
          /\ UNCHANGED dlq
       \/ /\ ~HasRetryLeft(t)
          /\ jobs' = [jobs EXCEPT ![t.job] = Buried(@)]
          /\ SendToDlq(t)
    /\ Record(t.job, 1, "failed")
    /\ Ends(t)
    /\ UNCHANGED <<paused, proc, poll, lost, ops, faults>>

\* A database error leaves the coroutine's only session unusable: the except
\* branch fails on it as well and nothing is written.
TaskBreaks(t) ==
    /\ faults < MaxFaults
    /\ Ends(t)
    /\ lost' = lost \cup {t}
    /\ faults' = faults + 1
    /\ UNCHANGED <<jobs, dlq, execs, paused, proc, poll, ops>>

-----------------------------------------------------------------------------
(* The scheduler's share of the jobs table, and time *)

\* One statement.  A row due is never locked by a poll.
RequeueRetryable ==
    /\ \E j \in Job : IsDue(jobs[j])
    /\ jobs' = [j \in Job |-> IF IsDue(jobs[j]) THEN Requeued(jobs[j]) ELSE jobs[j]]
    /\ UNCHANGED <<dlq, execs, paused, proc, active, poll, tasks, lost, ops, faults>>

AgedPoll(p) == IF p.at = "commit" THEN [p EXCEPT !.age = Older(@)] ELSE p

Tick ==
    /\ jobs' = [j \in Job |-> Aged(jobs[j])]
    /\ poll' = [w \in Worker |-> AgedPoll(poll[w])]
    /\ UNCHANGED <<dlq, execs, paused, proc, active, tasks, lost, ops, faults>>

-----------------------------------------------------------------------------
(* The API *)

\* POST /jobs
Enqueue(j) ==
    /\ jobs[j].status = "absent"
    /\ \A i \in Job : i < j => jobs[i].status # "absent"
    /\ jobs' = [jobs EXCEPT ![j] = Enqueued(@)]
    /\ UNCHANGED <<dlq, execs, paused, proc, active, poll, tasks, lost, ops, faults>>

\* POST /jobs/{id}/cancel
Cancel(j) ==
    /\ IsCancellable(jobs[j])
    /\ Unlocked(j)
    /\ jobs' = [jobs EXCEPT ![j] = Cancelled(@)]
    /\ UNCHANGED <<dlq, execs, paused, proc, active, poll, tasks, lost, ops, faults>>

\* An operator command; MaxOps bounds how many a behaviour has.
Command == ops < MaxOps /\ ops' = ops + 1

\* POST /jobs/{id}/retry, whatever the status of the job
Retry(j) ==
    /\ Command
    /\ jobs[j].status # "absent"
    /\ Unlocked(j)
    /\ jobs' = [jobs EXCEPT ![j] = Retried(@)]
    /\ UNCHANGED <<dlq, execs, paused, proc, active, poll, tasks, lost, faults>>

Resolved(e) == dlq' = [dlq EXCEPT ![e].is_resolved = TRUE]

\* POST /dlq/{id}/replay, whether or not the entry is resolved and whatever has
\* become of the job since
Replay(e) ==
    /\ Command
    /\ Unlocked(dlq[e].job)
    /\ jobs' = [jobs EXCEPT ![dlq[e].job] = Replayed(@)]
    /\ Resolved(e)
    /\ UNCHANGED <<execs, paused, proc, active, poll, tasks, lost, faults>>

\* POST /dlq/{id}/resolve
Resolve(e) ==
    /\ Command
    /\ Resolved(e)
    /\ UNCHANGED <<jobs, execs, paused, proc, active, poll, tasks, lost, faults>>

\* POST /queues/{id}/pause and /resume
SetPaused(q, on) ==
    /\ Command
    /\ paused' = IF on THEN paused \cup {q} ELSE paused \ {q}
    /\ UNCHANGED <<jobs, dlq, execs, proc, active, poll, tasks, lost, faults>>
-----------------------------------------------------------------------------
PollStep(w) ==
    \/ PollBegin(w)
    \/ CountRunning(w)
    \/ PollReturns(w)
    \/ ClaimSelect(w)
    \/ ClaimCommit(w)

WorkerStep(w) ==
    \/ StartWorker(w)
    \/ PollStep(w)
    \/ PollAborts(w)
    \/ Shutdown(w)
    \/ Exit(w)
    \/ Crash(w)

TaskStep(t) ==
    \/ MarkRunning(t)
    \/ MarkCompleted(t)
    \/ WorkRaises(t)
    \/ MarkFailed(t)

SetAnyPaused == \E q \in Queue, on \in BOOLEAN : SetPaused(q, on)

Operator ==
    \/ \E j \in Job : Retry(j)
    \/ \E e \in DOMAIN dlq : Replay(e) \/ Resolve(e)
    \/ SetAnyPaused

\* Everything but the clock and the operator.
SystemStep ==
    \/ \E w \in Worker : WorkerStep(w)
    \/ \E t \in tasks : TaskStep(t) \/ TaskBreaks(t)
    \/ RequeueRetryable
    \/ \E j \in Job : Enqueue(j) \/ Cancel(j)

Next == SystemStep \/ Tick \/ Operator

Spec == Init /\ [][Next]_vars

\* A coroutine makes progress as long as its process lives (_do_work is assumed
\* to return or to raise), each poll loop polls on, and the scheduler ticks.
\* Nothing obliges anybody to start a worker, to enqueue or to give a command.
Fairness ==
    /\ \A w \in Worker : WF_vars(PollStep(w)) /\ WF_vars(Exit(w))
    /\ \A w \in Worker, j \in Job :
          WF_vars(\E t \in tasks : t.worker = w /\ t.job = j /\ TaskStep(t))
    /\ WF_vars(RequeueRetryable)
    /\ WF_vars(Tick)

FairSpec == Spec /\ Fairness

-----------------------------------------------------------------------------
(* Safety *)

\* What the columns of a row say agrees: a claimed job has an owner and a claim
\* time, an owner appears only while the job is in flight, and a job waiting
\* for a retry has a time at which the scheduler will find it.
RowsAgree ==
    \A j \in Job :
        /\ jobs[j].status = "claimed" => NULL \notin {jobs[j].claimed_by, jobs[j].claim_age}
        /\ jobs[j].claimed_by # NULL => jobs[j].status \in InFlight
        /\ jobs[j].status = "retry_scheduled" => jobs[j].retry_in # NULL
        /\ jobs[j].status = "absent" => jobs[j] = NoRow

\* FOR UPDATE SKIP LOCKED does its job: a row stays queued from the query that
\* selects it to the commit that claims it, and no two polls select the same.
LockedRowsStayQueued ==
    /\ \A j \in Locked : jobs[j].status = "queued"
    /\ \A v, w \in Worker : v # w => poll[v].ids \cap poll[w].ids = {}

\* "Multiple workers running concurrently must not claim the same job" (ADR-001):
\* between two claims of a job it has been back in the queue, and a job that was
\* cancelled after a poll selected it is not claimed.
ClaimsComeFromQueue ==
    [][\A j \in Job :
        jobs'[j].status = "claimed" /\ jobs'[j].version # jobs[j].version
            => jobs[j].status = "queued"]_vars

\* A job is never shown in flight without a coroutine that took it there: the
\* one its owner spawned for this very claim while it is claimed, one that has
\* yet to settle it (or was lost) while it is running.
InFlightHasTask ==
    \A j \in Job :
        /\ jobs[j].status = "claimed" =>
              \E t \in tasks \cup lost :
                  /\ t.job = j /\ t.stage = "spawned"
                  /\ t.claim = jobs[j].version /\ t.worker = jobs[j].claimed_by
        /\ jobs[j].status = "running" =>
              \E t \in tasks \cup lost : t.job = j /\ t.stage # "spawned"

\* _active_jobs counts the coroutines of the process, and the claim batch size
\* bounds it although it is read before the claim and raised after it.
CapacityRespected ==
    \A w \in Worker :
        /\ active[w] = Cardinality(TasksOf(w))
        /\ active[w] + Cardinality(poll[w].ids) <= BatchSize

Processes == {w \in Worker : proc[w] # "new"}

\* The concurrency limit of a queue is exceeded (see DocumentedClaims), but not
\* by any amount: whatever crashes, breaks, is cancelled or commanded, each process
\* adds at most two batches to the jobs running when a count last found the queue
\* below its limit, the jobs it had claimed by then and those it claims on that count.
LimitOverrunBounded ==
    \A q \in Queue : Limit[q] > 0 =>
        RunningCount(q) <= Limit[q] - 1 + 2 * BatchSize * Cardinality(Processes)

RowsOf(j, entries) == {e \in DOMAIN entries : entries[e].job = j}

Begun(j) == {t \in tasks \cup lost : t.job = j /\ t.stage # "spawned"}

\* No attempt vanishes: each one counted in attempt_count has left an execution
\* record, or its coroutine is still at work, or was lost.
AttemptsAccounted ==
    \A j \in Job : jobs[j].attempt_count <= Len(execs[j]) + Cardinality(Begun(j))

\* A dead job can be found in the dead letter queue, and each entry there goes
\* back to a failed execution of its own.
DeathsAccounted ==
    \A j \in Job :
        /\ jobs[j].status = "dead" => RowsOf(j, dlq) # {}
        /\ Cardinality(RowsOf(j, dlq)) <=
              Cardinality({n \in DOMAIN execs[j] : execs[j][n].status = "failed"})

(* Liveness; a run that checks QueuedJobsSettle has no faults *)

IsSettled(j) == jobs[j].status \in Terminal

\* A queued job reaches a terminal status once there is a worker to run it,
\* through all its retries, however often a starting worker takes claims back
\* from a live one and whenever an operator gives a command, unless its queue is
\* paused.
QueuedJobsSettle ==
    \A j \in Job :
        jobs[j].status = "queued" /\ (\E w \in Worker : proc[w] = "running")
            ~> IsSettled(j) \/ QueueOf[j] \in paused

\* A worker that is told to stop does leave, whatever its poll was doing.
ShutdownCompletes ==
    \A w \in Worker : proc[w] = "stopping" ~> proc[w] \in {"stopped", "crashed"}

\* A poll that took its snapshot before the pause may still claim from q.
IsVisiting(w, q) ==
    \/ q \in poll[w].left
    \/ q = poll[w].queue
    \/ \E j \in poll[w].ids : QueueOf[j] = q

\* A pause takes effect: once the polls that had seen the queue active are over,
\* no job of it is claimed until it is resumed.
PausedQueueStaysQuiet ==
    [][\A q \in Queue :
        q \in paused /\ (\A w \in Worker : ~IsVisiting(w, q)) =>
            \/ q \notin paused'
            \/ /\ \A w \in Worker : ~IsVisiting(w, q)'
               /\ \A j \in Job : QueueOf[j] = q =>
                     jobs'[j].claimed_by \in {NULL, jobs[j].claimed_by}]_vars

\* ... and those polls do end.
PauseTakesEffect ==
    \A q \in Queue :
        q \in paused ~> q \notin paused \/ \A w \in Worker : ~IsVisiting(w, q)

\* Running rows that no coroutine will ever settle fill the limit of queue q.
IsClogged(q) ==
    /\ Limit[q] > 0
    /\ Cardinality({j \in Job : /\ QueueOf[j] = q /\ jobs[j].status = "running"
                                /\ \A t \in tasks : t.job # j}) >= Limit[q]

\* A job of a queue with a limit gets its turn with every worker that goes on
\* polling: other jobs of the queue hold it up while they run, and lost ones only
\* once they are running and as many as the limit.
LimitedQueueMovesOn ==
    \A j \in Job, w \in Worker :
        jobs[j].status = "queued" /\ proc[w] = "running"
            ~> \/ jobs[j].status # "queued"
               \/ proc[w] # "running"
               \/ QueueOf[j] \in paused
               \/ IsClogged(QueueOf[j])
=============================================================================
