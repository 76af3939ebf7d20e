--------------------------- MODULE MCJobProcessing ---------------------------
(* Instances of JobProcessing for TLC. *)
EXTENDS JobProcessing, TLC

CONSTANTS w1, w2, q1, q2

\* One queue
MCOneQueue == [j \in Job |-> q1]
MCSameRank == [q \in Queue |-> 0]
MCUnlimited == [q \in Queue |-> 0]

\* With a second, empty queue: q1 is drained first and runs one job at a time.
MCRanks == [q \in Queue |-> IF q = q1 THEN 1 ELSE 0]
MCLimits == [q \in Queue |-> IF q = q1 THEN 1 ELSE 0]

MCPriority == [j \in Job |-> j]     \* the later job first
MCOneAttempt == [j \in Job |-> 1]
MCTwoAttempts == [j \in Job |-> 2]

MCNoDelay == [q \in HasPolicy |-> [n \in Attempt |-> 0]]
MCOneTick == [q \in HasPolicy |-> [n \in Attempt |-> 1]]

\* Workers are interchangeable; used by runs that check no liveness.
Symmetry == Permutations(Worker)
=============================================================================
