-------------------------- MODULE TimelyProcessing --------------------------
(***************************************************************************)
(* The conditions under which job processing keeps the promise of          *)
(* JobLifecycle:                                                           *)
(*   - every coroutine settles its row, and every claim commits, before    *)
(*     the claim is older than worker_heartbeat_timeout_sec;               *)
(*   - the operator retries or replays dead jobs only.                     *)
(* The code enforces neither: no statement of a coroutine looks at whose   *)
(* row it writes, recovery looks at the age of a claim only, and the retry *)
(* and replay routes at nothing.  Crashes, stop signals, broken sessions   *)
(* and failing handlers are all still there.                               *)
(***************************************************************************)
EXTENDS JobProcessing

\* No claim held by a live coroutine, or about to be committed, is about to
\* become stale.
OnTime ==
    /\ \A t \in tasks : jobs[t.job].claim_age # ClaimTimeout
    /\ \A w \in Worker : poll[w].at = "commit" => poll[w].age # ClaimTimeout

CarefulOperator ==
    \/ \E j \in Job : jobs[j].status = "dead" /\ Retry(j)
    \/ \E e \in DOMAIN dlq : jobs[dlq[e].job].status = "dead" /\ Replay(e)
    \/ \E e \in DOMAIN dlq : Resolve(e)
    \/ SetAnyPaused

TimelyNext == SystemStep \/ (OnTime /\ Tick) \/ CarefulOperator

TimelySpec == Init /\ [][TimelyNext]_vars

-----------------------------------------------------------------------------
\* A job is executed by one coroutine at a time, through crashes and retries.
SingleExecution ==
    \A s, t \in tasks : s.job = t.job => s = t

\* A live coroutine owns its row: the row is in the status the coroutine left
\* it in, under the worker and the version of its claim, and the attempt count
\* it read without a lock is still the one in the row.
TasksOwnTheirRows ==
    \A t \in tasks :
        LET row == jobs[t.job] IN
        /\ row.claimed_by = t.worker
        /\ IF t.stage = "spawned"
           THEN row.status = "claimed" /\ row.version = t.claim
           ELSE row.status = "running" /\ row.version = t.claim + 1
        /\ t.stage = "failing" => row.attempt_count = t.seen

\* A job is attempted at most max_attempts times, not counting the attempts
\* whose coroutine was lost and the retries the operator asked for.
AttemptsBounded ==
    \A j \in Job :
        jobs[j].attempt_count <=
            MaxAttempts[j] + Cardinality({t \in lost : t.job = j}) + ops

Holder(j) ==
    CASE jobs[j].status \notin InFlight -> "none"
      [] jobs[j].status \in InFlight /\ (\E t \in tasks : t.job = j) -> "live"
      [] OTHER -> "gone"

Lifecycle == INSTANCE JobLifecycle WITH
    Retryable <- {j \in Job : QueueOf[j] \in HasPolicy},
    status <- [j \in Job |-> jobs[j].status],
    holder <- [j \in Job |-> Holder(j)],
    attempts <- [j \in Job |-> jobs[j].attempt_count]

\* Under those conditions the code implements the promise.
ImplementsLifecycle == Lifecycle!Spec
=============================================================================
