---------------------------- MODULE CronScheduler ----------------------------
(***************************************************************************)
(* The scheduler process beside job processing, over one jobs table: it    *)
(* enqueues a job for each cron row that is due, requeues retries, and     *)
(* crashes, fails and is restarted between and inside these parts.  The    *)
(* jobs of this composition are those the scheduler enqueues; the workers, *)
(* their coroutines and the operator are those of JobProcessing.           *)
(*                                                                         *)
(* A cron row has its first time when the handler of its POST reads the    *)
(* clock, and appears when the session is committed, which may be later.   *)
(*                                                                         *)
(* The cron part of a tick reads the clock and the due rows in one step    *)
(* (a row that appears in between could as well have appeared before) and  *)
(* writes in a later one, with the time it had read.  There is one         *)
(* scheduler, as the comment at the head of its module demands; nothing    *)
(* else writes the rows it selects, so it needs no locks.                  *)
(***************************************************************************)
EXTENDS JobProcessing, FiniteSetsExt, Functions

CONSTANTS
    Cron,           \* ids of scheduled_jobs rows
    CronQueue,      \* ScheduledJob.queue_id
    Slots,          \* the times of ScheduledJob.cron_expression
    Poison,         \* rows whose name has no room left for " (scheduled)"
    Slow,           \* bound: rows whose POST may outlast a tick of the clock
    MaxTime,        \* bound: the last time of the clock
    MaxStops        \* bound: crashes, stops and database errors of the scheduler

Time == 0 .. MaxTime

ASSUME CronAssumption == /\ CronQueue \in [Cron -> Queue]
                         /\ Poison \subseteq Cron
                         /\ NULL \notin Nat
ASSUME SlotsAssumption == /\ Slots \in [Cron -> SUBSET Nat]
                          /\ \A c \in Cron, t \in Time : \E s \in Slots[c] : s > t
ASSUME SchedulerBoundsAssumption == MaxTime \in Nat /\ MaxStops \in Nat

VARIABLES
    crons,      \* the scheduled_jobs table
    posting,    \* next_run_at of the rows whose POST has not been committed yet
    sched,      \* where the scheduler is, and what its tick has read
    now,        \* the clock
    overdue,    \* history: rows committed after their first time and not fired yet
    fired,      \* history: per cron row, the jobs it got, in order
    stops       \* faults of the scheduler so far

schedVars == <<crons, posting, sched, now, overdue, fired, stops>>
allVars == <<vars, schedVars>>

-----------------------------------------------------------------------------
\* is_active is left out: it is TRUE from the start and no statement changes it.
CronRow == [next_run_at : Nat \cup {NULL}, last_run_at : Time \cup {NULL}]

NoCron == [next_run_at |-> NULL, last_run_at |-> NULL]

\* "idle" waits for the next tick; "cron" has selected the due rows; "requeue" is
\* between the parts of a tick.  The metrics part writes nothing others read, so
\* it belongs to "idle".
Sched == [at : {"down", "idle", "cron", "requeue"}, due : SUBSET Cron, read : Time]

\* A firing: the job enqueued, the slot it was due for and the time written.
Firing == [job : Job, slot : Nat, at : Time]

CronTypeOK ==
    /\ crons \in [Cron -> CronRow]
    /\ posting \in [Cron -> Nat \cup {NULL}]
    /\ sched \in Sched
    /\ now \in Time
    /\ overdue \subseteq Cron
    /\ fired \in [Cron -> Seq(Firing)]
    /\ stops \in 0 .. MaxStops

SchedAt(pc) == [at |-> pc, due |-> {}, read |-> 0]

CronInit ==
    /\ Init
    /\ crons = [c \in Cron |-> NoCron]
    /\ posting = [c \in Cron |-> NULL]
    /\ sched = SchedAt("down")
    /\ now = 0
    /\ overdue = {}
    /\ fired = [c \in Cron |-> << >>]
    /\ stops = 0

-----------------------------------------------------------------------------
(* The API *)

\* croniter(cron_expression, t).get_next
NextSlot(c, t) == Min({s \in Slots[c] : s > t})

\* The handler of POST /scheduled-jobs, with its reading of the clock
PostCron(c) ==
    /\ crons[c] = NoCron
    /\ posting[c] = NULL
    /\ posting' = [posting EXCEPT ![c] = NextSlot(c, now)]
    /\ UNCHANGED <<vars, crons, sched, now, overdue, fired, stops>>

\* Its session is committed after it has returned, however much later that is.
CommitCron(c) ==
    /\ posting[c] # NULL
    /\ crons' = [crons EXCEPT ![c].next_run_at = posting[c]]
    /\ posting' = [posting EXCEPT ![c] = NULL]
    /\ overdue' = IF posting[c] <= now THEN overdue \cup {c} ELSE overdue
    /\ UNCHANGED <<vars, sched, now, fired, stops>>

\* ... or rolled back, and there is no row.
PostFails(c) ==
    /\ posting[c] # NULL
    /\ posting' = [posting EXCEPT ![c] = NULL]
    /\ UNCHANGED <<vars, crons, sched, now, overdue, fired, stops>>

-----------------------------------------------------------------------------
(* The scheduler *)

SchedulerFault == stops < MaxStops /\ stops' = stops + 1

\* start: the first tick follows at once.
SchedulerStart ==
    /\ sched.at = "down"
    /\ sched' = SchedAt("idle")
    /\ UNCHANGED <<vars, crons, posting, now, overdue, fired, stops>>

\* A crash anywhere, or a stop signal, which is obeyed between two ticks.
SchedulerDown ==
    /\ sched.at # "down"
    /\ SchedulerFault
    /\ sched' = SchedAt("down")
    /\ UNCHANGED <<vars, crons, posting, now, overdue, fired>>

\* A database error in any part: rolled back, scheduler_tick_error logged, and the
\* rest of the tick is skipped.
TickFails ==
    /\ sched.at \in {"cron", "requeue"}
    /\ SchedulerFault
    /\ sched' = SchedAt("idle")
    /\ UNCHANGED <<vars, crons, posting, now, overdue, fired>>

IsDueCron(c) ==
    /\ crons[c].next_run_at # NULL
    /\ crons[c].next_run_at <= now

\* Mutant: last_run_at is taken to say that the row has been dealt with.
ReadDueCrons_Once ==
    /\ sched.at = "idle"
    /\ sched' = [at |-> "cron", read |-> now,
                  due |-> {c \in Cron : IsDueCron(c) /\ crons[c].last_run_at = NULL}]
    /\ UNCHANGED <<vars, crons, posting, now, overdue, fired, stops>>

ReadDueCrons ==
    /\ sched.at = "idle"
    /\ sched' = [at |-> "cron", due |-> {c \in Cron : IsDueCron(c)}, read |-> now]
    /\ UNCHANGED <<vars, crons, posting, now, overdue, fired, stops>>

Absent == {j \in Job : jobs[j].status = "absent"}

\* The ids the new rows get, one per row of D, are the next ones in order.
NewJobs(D) ==
    {f \in Injection(D, Absent) :
        /\ \A c \in D : QueueOf[f[c]] = CronQueue[c]
        /\ \A i \in Absent, c \in D : i < f[c] => i \in Range(f)}

\* Mutant: the next time follows the one that was due, as in a catch-up.
Advanced_FromDue(c) == [next_run_at |-> NextSlot(c, crons[c].next_run_at),
                        last_run_at |-> sched.read]

\* Mutant: the clock is read again for the next time.
Advanced_FromNow(c) == [next_run_at |-> NextSlot(c, now), last_run_at |-> sched.read]

\* Mutant: the two times are swapped.
Advanced_Swapped(c) == [next_run_at |-> sched.read,
                        last_run_at |-> NextSlot(c, sched.read)]

\* The next time follows the time the tick has read: the times missed meanwhile
\* are covered by this one run.
Advanced(c) == [next_run_at |-> NextSlot(c, sched.read), last_run_at |-> sched.read]

\* Mutant: the tick ends here when nothing was due.
AfterFiring_IfFired == SchedAt(IF sched.due = {} THEN "idle" ELSE "requeue")

\* The next part of the tick follows, whether or not anything was due.
AfterFiring == SchedAt("requeue")

\* One job for each row of D, in one transaction.
Fire(D) ==
    /\ \E f \in NewJobs(D) :
        /\ jobs' = [j \in Job |-> IF j \in Range(f) THEN Enqueued(jobs[j]) ELSE jobs[j]]
        /\ crons' = [c \in Cron |-> IF c \in D THEN Advanced(c) ELSE crons[c]]
        /\ fired' = [c \in Cron |-> IF c \notin D THEN fired[c]
                        ELSE Append(fired[c], [job |-> f[c], at |-> sched.read,
                                               slot |-> crons[c].next_run_at])]
    /\ overdue' = overdue \ D
    /\ sched' = AfterFiring
    /\ UNCHANGED <<dlq, execs, paused, proc, active, poll, tasks, lost, ops, faults,
                   posting, now, stops>>

\* Mutant: a row that cannot be enqueued is passed over.
FireCrons_Each == sched.at = "cron" /\ Fire(sched.due \ Poison)

FireCrons ==
    /\ sched.at = "cron"
    /\ sched.due \cap Poison = {}
    /\ Fire(sched.due)

\* A name that does not fit the jobs table fails the transaction of all of them,
\* and with it the tick; so will the next tick.
FireFails ==
    /\ sched.at = "cron"
    /\ sched.due \cap Poison # {}
    /\ sched' = SchedAt("idle")
    /\ UNCHANGED <<vars, crons, posting, now, overdue, fired, stops>>

RequeueRetries ==
    /\ sched.at = "requeue"
    /\ IF \E j \in Job : IsDue(jobs[j]) THEN RequeueRetryable ELSE UNCHANGED vars
    /\ sched' = SchedAt("idle")
    /\ UNCHANGED <<crons, posting, now, overdue, fired, stops>>

-----------------------------------------------------------------------------
ProcessingStep ==
    \/ \E w \in Worker : WorkerStep(w)
    \/ \E t \in tasks : TaskStep(t) \/ TaskBreaks(t)
    \/ \E j \in Job : Cancel(j)
    \/ Operator

SchedulerStep == ReadDueCrons \/ FireCrons \/ FireFails \/ RequeueRetries

TimePasses ==
    /\ now < MaxTime
    /\ \A c \in Cron \ Slow : posting[c] = NULL
    /\ now' = now + 1
    /\ Tick
    /\ UNCHANGED <<crons, posting, sched, overdue, fired, stops>>

CronNext ==
    \/ ProcessingStep /\ UNCHANGED schedVars
    \/ SchedulerStep
    \/ SchedulerStart \/ SchedulerDown \/ TickFails
    \/ \E c \in Cron : PostCron(c) \/ CommitCron(c) \/ PostFails(c)
    \/ TimePasses

\* As in JobProcessing, with the scheduler itself in the place of its requeue: it
\* goes on as long as it is up.  Nobody is obliged to start it.
CronFairness ==
    /\ \A w \in Worker : WF_vars(PollStep(w)) /\ WF_vars(Exit(w))
    /\ \A w \in Worker, j \in Job :
          WF_vars(\E t \in tasks : t.worker = w /\ t.job = j /\ TaskStep(t))
    /\ WF_allVars(SchedulerStep)
    /\ WF_allVars(TimePasses)

CronSpec == CronInit /\ [][CronNext]_allVars /\ CronFairness

-----------------------------------------------------------------------------
(* Safety *)

\* A slot leads to one job at most, through crashes between the enqueueing and
\* everything else and through restarts: a run is never early, runs come in the
\* order of their slots, and the slots that passed before a run lead to no further
\* one.  Each run has a job of its own.
SlotsFireOnce ==
    \A c \in Cron : \A i \in DOMAIN fired[c] :
        /\ fired[c][i].slot <= fired[c][i].at
        /\ \A n \in DOMAIN fired[c] : n > i => fired[c][i].at < fired[c][n].slot
        /\ \A d \in Cron : \A n \in DOMAIN fired[d] :
              fired[d][n].job = fired[c][i].job => <<d, n>> = <<c, i>>

\* No slot is lost, whatever happened in between: once a row's first run is due,
\* each of its slots that has passed is still pending, or a run that was due at
\* or before it was made at or after it.
SlotsAreAnswered ==
    \A c \in Cron : fired[c] # << >> =>
        \A s \in Slots[c] :
            fired[c][1].slot <= s /\ s < crons[c].next_run_at =>
                \E i \in DOMAIN fired[c] : fired[c][i].slot <= s /\ s <= fired[c][i].at

\* All rows that are due at a tick are fired by it, or none is: when a row was
\* fired at time t, no row has been left with a time due at t.  The exception is a
\* row whose POST was committed after the first time it had computed: it may have
\* come too late for that tick, and is no exception any more once it was fired.
DueRowsFireTogether ==
    \A c, d \in Cron : \A i \in DOMAIN fired[c] :
        crons[d].next_run_at # NULL /\ d \notin overdue
            => fired[c][i].at < crons[d].next_run_at

(* Liveness.  A scheduler that is down helps nobody, and one that has met a row it *)
(* cannot enqueue is as good as down: it neither fires nor requeues from then on.  *)

IsStuck ==
    \/ sched.at = "down"
    \/ \E c \in Poison : IsDueCron(c)

\* A row that is due gets its job.
DueCronsFire ==
    \A c \in Cron \ Poison : IsDueCron(c) ~> ~IsDueCron(c) \/ IsStuck

\* From the cron row to the terminal status: a job in the queue is claimed, run,
\* requeued by the scheduler's tick when it is to be retried, and settled.
EnqueuedJobsSettle ==
    \A j \in Job :
        jobs[j].status = "queued" /\ (\E w \in Worker : proc[w] = "running")
            ~> IsSettled(j) \/ IsStuck
=============================================================================
