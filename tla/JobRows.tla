------------------------------- MODULE JobRows -------------------------------
(***************************************************************************)
(* One row of the jobs table and what each UPDATE statement of the code    *)
(* does to it.  A statement is an operator from the row it finds to the    *)
(* row it leaves; which rows it selects is the business of the actions     *)
(* that use it (module JobProcessing).                                     *)
(*                                                                         *)
(* Columns kept: status, claimed_by, claimed_at, attempt_count,            *)
(* next_retry_at and version.  The two timestamps are kept relative to the *)
(* present: claim_age is now - claimed_at and retry_in is what is left     *)
(* until next_retry_at, so that the passing of time (Aged) is the only     *)
(* thing that moves them.                                                  *)
(***************************************************************************)
EXTENDS Naturals

CONSTANTS
    NULL,           \* SQL NULL
    Worker,         \* identities of worker processes; one per process start
    ClaimTimeout    \* worker_heartbeat_timeout_sec, in clock ticks

ASSUME NullAssumption == NULL \notin Worker /\ NULL \notin Nat
ASSUME ClaimTimeoutAssumption == ClaimTimeout \in Nat

\* The values of JobStatus a row can reach.  SCHEDULED and FAILED are declared
\* but no statement of the code ever stores them.
InFlight == {"claimed", "running"}
Terminal == {"completed", "cancelled", "dead"}
Status == {"queued", "retry_scheduled"} \cup InFlight \cup Terminal

\* A claim is stale when it is older than the timeout.  Nothing distinguishes
\* ages beyond that one, so ages stop there.
StaleAge == ClaimTimeout + 1
Age == 0 .. StaleAge

Older(age) == IF age < StaleAge THEN age + 1 ELSE StaleAge

\* A job that has not been enqueued yet has no row: its status is "absent".
Row == [status : Status \cup {"absent"},
        claimed_by : Worker \cup {NULL},
        claim_age : Age \cup {NULL},
        attempt_count : Nat,
        retry_in : Nat \cup {NULL},
        version : Nat]

NoRow == [status |-> "absent", claimed_by |-> NULL, claim_age |-> NULL,
          attempt_count |-> 0, retry_in |-> NULL, version |-> 0]

-----------------------------------------------------------------------------
\* The statements.

Enqueued(row) == [row EXCEPT !.status = "queued", !.version = 1]

Claimed(row, w, age) ==
    [row EXCEPT !.status = "claimed", !.claimed_by = w, !.claim_age = age,
                !.version = @ + 1]

\* Mutant: the attempt is not counted.
Started_Uncounted(row) ==
    [row EXCEPT !.status = "running", !.version = @ + 1]

\* No WHERE on the status, and claimed_by stays as it was found.
Started(row) ==
    [row EXCEPT !.status = "running", !.attempt_count = @ + 1, !.version = @ + 1]

Completed(row) ==
    [row EXCEPT !.status = "completed", !.claimed_by = NULL, !.version = @ + 1]

\* Mutant: next_retry_at is not set.
RetryScheduled_Undated(row, delay) ==
    [row EXCEPT !.status = "retry_scheduled", !.claimed_by = NULL, !.version = @ + 1]

RetryScheduled(row, delay) ==
    [row EXCEPT !.status = "retry_scheduled", !.retry_in = delay,
                !.claimed_by = NULL, !.version = @ + 1]

\* Mutant: a status that is declared but is no state of the life cycle.
Buried_AsFailed(row) ==
    [row EXCEPT !.status = "failed", !.claimed_by = NULL, !.version = @ + 1]

Buried(row) ==
    [row EXCEPT !.status = "dead", !.claimed_by = NULL, !.version = @ + 1]

IsDue(row) == row.status = "retry_scheduled" /\ row.retry_in = 0

Requeued(row) ==
    [row EXCEPT !.status = "queued", !.retry_in = NULL, !.version = @ + 1]

\* Mutant: the cutoff is forgotten.
IsStale_AnyAge(row) == row.status \in InFlight

\* A NULL claimed_at is never < cutoff: such a row is not selected.
IsStale(row) == row.status \in InFlight /\ row.claim_age = StaleAge

Recovered(row) ==
    [row EXCEPT !.status = "queued", !.claimed_by = NULL, !.claim_age = NULL,
                !.version = @ + 1]

\* Mutant: a claimed job is cancellable too.
IsCancellable_Claimed(row) == row.status \in {"queued", "retry_scheduled", "claimed"}

\* JobStatus.SCHEDULED is cancellable too, but no row has it.
IsCancellable(row) == row.status \in {"queued", "retry_scheduled"}

Cancelled(row) == [row EXCEPT !.status = "cancelled", !.version = @ + 1]

\* Mutant: the owner stays.
Retried_Owned(row) ==
    [row EXCEPT !.status = "queued", !.claim_age = NULL, !.retry_in = NULL,
                !.version = @ + 1]

\* POST /jobs/{id}/retry: attempt_count is kept.
Retried(row) ==
    [row EXCEPT !.status = "queued", !.claimed_by = NULL, !.claim_age = NULL,
                !.retry_in = NULL, !.version = @ + 1]

\* POST /dlq/{id}/replay: claimed_at and next_retry_at are kept.
Replayed(row) ==
    [row EXCEPT !.status = "queued", !.claimed_by = NULL, !.attempt_count = 0,
                !.version = @ + 1]

\* One tick of the clock.
Aged(row) ==
    [row EXCEPT !.claim_age = IF @ = NULL THEN NULL ELSE Older(@),
                !.retry_in = IF @ \in {NULL, 0} THEN @ ELSE @ - 1]
=============================================================================
