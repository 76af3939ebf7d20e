-------------------------- MODULE MCCronScheduler --------------------------
(* Instances of CronScheduler for TLC. *)
EXTENDS CronScheduler

CONSTANTS w1, q1, c1, c2, p

MCQueueOf == [j \in Job |-> q1]
MCPriority == [j \in Job |-> 0]
\* A bound: the jobs of cron rows have the 3 attempts of the column's default.
MCMaxAttempts == [j \in Job |-> IF j = 1 THEN 2 ELSE 1]
MCQueuePriority == [q \in Queue |-> 0]
MCLimit == [q \in Queue |-> 0]
MCBackoff == [q \in HasPolicy |-> [n \in Attempt |-> 0]]

\* c1 runs at 1 and 2, c2 at 2 only, and p, which has too long a name, at 2.  The
\* last slot of each is beyond the end of the clock.
MCCronQueue == [c \in Cron |-> q1]
MCSlots == [c \in Cron |-> CASE c = c1 -> {1, 2, MaxTime + 1}
                             [] c = c2 -> {2, MaxTime + 1}
                             [] c = p -> {2, MaxTime + 1}]
=============================================================================
