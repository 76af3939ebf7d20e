----------------------------- MODULE RetryDelay -----------------------------
(***************************************************************************)
(* The delay before a retry (packages/shared/retry.py), and how it grows   *)
(* with the attempts of a job.  Delays are counted in half seconds: at     *)
(* attempt 0 the exponential strategy gives half of base_delay_sec.  A     *)
(* coroutine sees attempt 0 when its job is replayed while it runs.        *)
(***************************************************************************)
EXTENDS Integers

CONSTANTS
    MaxAttempt,     \* bound: attempts tried
    MaxDelay        \* bound: largest delay of a policy, in seconds

ASSUME BoundsAssumption == MaxAttempt \in Nat /\ MaxDelay \in Nat

Strategy == {"fixed", "linear", "exponential"}

FixedDelay(attempt, base) == 2 * base

LinearDelay(attempt, base) == 2 * base * attempt

\* Mutant: 2^attempt.
ExponentialDelay_Late(attempt, base) == 2 * base * 2^attempt

\* base * 2^(attempt - 1) seconds
ExponentialDelay(attempt, base) == base * 2^attempt

RawDelay(strategy, attempt, base) ==
    CASE strategy = "fixed" -> FixedDelay(attempt, base)
      [] strategy = "linear" -> LinearDelay(attempt, base)
      [] strategy = "exponential" -> ExponentialDelay(attempt, base)

\* Mutant: the longer of the two.
Capped_Floor(delay, cap) == IF delay >= 2 * cap THEN delay ELSE 2 * cap

Capped(delay, cap) == IF delay <= 2 * cap THEN delay ELSE 2 * cap

CalculateRetryDelay(strategy, attempt, base, cap) ==
    Capped(RawDelay(strategy, attempt, base), cap)

-----------------------------------------------------------------------------
(* A policy and a job that keeps failing under it *)

VARIABLES
    policy,         \* the retry_policies row: strategy, base_delay_sec, max_delay_sec
    attempt         \* Job.attempt_count as the except branch reads it

vars == <<policy, attempt>>

\* ck_retry_nonneg_delay and ck_retry_max_gte_base
Policy == {p \in [strategy : Strategy, base : 0 .. MaxDelay, cap : 0 .. MaxDelay] :
              p.cap >= p.base}

Init == policy \in Policy /\ attempt = 0

FailAgain ==
    /\ attempt < MaxAttempt
    /\ attempt' = attempt + 1
    /\ UNCHANGED policy

Spec == Init /\ [][FailAgain]_vars

Delay(n) == CalculateRetryDelay(policy.strategy, n, policy.base, policy.cap)

-----------------------------------------------------------------------------
\* The schedule by its definition in the comments of RetryPolicy: the first retry
\* after base, then the same again, base more, or twice as much, up to the cap.
Schedule[n \in Nat] ==
    IF n <= 1 THEN 2 * policy.base
    ELSE LET next == CASE policy.strategy = "fixed" -> Schedule[n - 1]
                       [] policy.strategy = "linear" -> Schedule[n - 1] + 2 * policy.base
                       [] policy.strategy = "exponential" -> 2 * Schedule[n - 1]
         IN IF next <= 2 * policy.cap THEN next ELSE 2 * policy.cap

\* The closed form of each strategy gives the schedule it is meant to, also past
\* the attempt at which the cap is reached.
DelayFollowsSchedule == attempt >= 1 => Delay(attempt) = Schedule[attempt]

\* A job that keeps failing is never retried sooner than the time before, nor
\* later than the cap.
DelayNeverShrinks == [][Delay(attempt) <= Delay(attempt') /\ Delay(attempt') <= 2 * policy.cap]_vars
=============================================================================
