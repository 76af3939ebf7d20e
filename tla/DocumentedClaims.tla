-------------------------- MODULE DocumentedClaims --------------------------
(***************************************************************************)
(* What the docs, comments and docstrings of the repository say of job     *)
(* processing and the code does not do.  Each formula is the statement it  *)
(* quotes; each is checked on its own by a run that finds it violated.     *)
(***************************************************************************)
EXTENDS JobProcessing

\* "Max concurrent running jobs for this queue" (models/queue.py:62).  The count
\* is read before the claim, leaves out the claimed jobs, and does not bound the
\* size of the claim.
ConcurrencyLimitHolds ==
    \A q \in Queue : Limit[q] > 0 => RunningCount(q) <= Limit[q]

\* "a job transition is invalid (e.g., completing a cancelled job)"
\* (shared/errors.py:54).  JobStateError is never raised: a coroutine whose claim
\* was taken back completes the job although it was cancelled since.
CancelledIsNotCompleted ==
    [][\A j \in Job : jobs[j].status = "cancelled" => jobs'[j].status # "completed"]_vars

\* "In-flight jobs finish (with a deadline)" on a graceful shutdown
\* (worker/process.py:12).  The process leaves without waiting for any.
GracefulStopFinishesJobs ==
    \A t \in lost : proc[t.worker] # "stopped"

\* "On each scheduler tick, detect_lost_workers() ...; recover_stale_claims()
\* re-queues any jobs with claimed_at older than the timeout" (ADR-003).  The
\* tick does neither: a crashed worker's job waits for a worker to be started,
\* whoever else is running.
CrashedWorkersJobsAreRecovered ==
    \A j \in Job, v, w \in Worker :
        jobs[j].claimed_by = w /\ proc[w] = "crashed" /\ proc[v] = "running"
            ~> jobs[j].claimed_by # w
=============================================================================
