---------------------------- MODULE JobLifecycle ----------------------------
(***************************************************************************)
(* What job processing promises about each job, with no workers, polls,    *)
(* coroutines, clocks or tables in it: the life cycle drawn in the job     *)
(* state machine of the README, plus who holds a job in flight.            *)
(*                                                                         *)
(* A job in flight has one holder.  Only that holder starts, completes or  *)
(* fails it; it goes back to the queue without an outcome only after its   *)
(* holder is gone; it is retried until its attempts are used up, and is    *)
(* dead afterwards.  Module TimelyProcessing shows under which conditions  *)
(* the code keeps this promise.                                            *)
(***************************************************************************)
EXTENDS Naturals

CONSTANTS
    Job,
    MaxAttempts,    \* a number for each job
    Retryable       \* jobs of a queue that has a retry policy

VARIABLES
    status,         \* of each job
    holder,         \* of each job in flight: "live", or "gone" without an outcome
    attempts        \* attempts started since the job was submitted or replayed

vars == <<status, holder, attempts>>

TypeOK ==
    /\ status \in [Job -> {"absent", "queued", "claimed", "running",
                           "retry_scheduled", "completed", "dead", "cancelled"}]
    /\ holder \in [Job -> {"none", "live", "gone"}]
    /\ attempts \in [Job -> Nat]

Init ==
    /\ status = [j \in Job |-> "absent"]
    /\ holder = [j \in Job |-> "none"]
    /\ attempts = [j \in Job |-> 0]

\* The jobs of S, one or several in one step, move to a status and a holder.
Move(S, st, h) ==
    /\ S # {}
    /\ status' = [j \in Job |-> IF j \in S THEN st ELSE status[j]]
    /\ holder' = [j \in Job |-> IF j \in S THEN h ELSE holder[j]]

IsHeld(j) == status[j] \in {"claimed", "running"} /\ holder[j] = "live"

HasAttemptLeft(j) == j \in Retryable /\ attempts[j] < MaxAttempts[j]

Submit(j) ==
    /\ status[j] = "absent"
    /\ Move({j}, "queued", "none")
    /\ UNCHANGED attempts

Claim(S) ==
    /\ \A j \in S : status[j] = "queued"
    /\ Move(S, "claimed", "live")
    /\ UNCHANGED attempts

Begin(j) ==
    /\ status[j] = "claimed" /\ IsHeld(j)
    /\ Move({j}, "running", "live")
    /\ attempts' = [attempts EXCEPT ![j] = @ + 1]

Complete(j) ==
    /\ status[j] = "running" /\ IsHeld(j)
    /\ Move({j}, "completed", "none")
    /\ UNCHANGED attempts

Fail(j) ==
    /\ status[j] = "running" /\ IsHeld(j)
    /\ Move({j}, IF HasAttemptLeft(j) THEN "retry_scheduled" ELSE "dead", "none")
    /\ UNCHANGED attempts

Requeue(S) ==
    /\ \A j \in S : status[j] = "retry_scheduled"
    /\ Move(S, "queued", "none")
    /\ UNCHANGED attempts

\* The holder of S ends without settling what it held.
Lose(S) ==
    /\ S # {}
    /\ \A j \in S : IsHeld(j)
    /\ holder' = [j \in Job |-> IF j \in S THEN "gone" ELSE holder[j]]
    /\ UNCHANGED <<status, attempts>>

Release(S) ==
    /\ \A j \in S : holder[j] = "gone"
    /\ Move(S, "queued", "none")
    /\ UNCHANGED attempts

Cancel(j) ==
    /\ status[j] \in {"queued", "retry_scheduled"}
    /\ Move({j}, "cancelled", "none")
    /\ UNCHANGED attempts

\* An operator brings a dead job back, with (replay) or without (retry) a new
\* allowance of attempts.
Revive(j) ==
    /\ status[j] = "dead"
    /\ Move({j}, "queued", "none")
    /\ attempts' \in {attempts, [attempts EXCEPT ![j] = 0]}

Next ==
    \/ \E j \in Job : \/ Submit(j) \/ Begin(j) \/ Complete(j) \/ Fail(j)
                      \/ Cancel(j) \/ Revive(j)
    \/ \E S \in SUBSET Job : Claim(S) \/ Requeue(S) \/ Lose(S) \/ Release(S)

Spec == Init /\ [][Next]_vars
=============================================================================
