------------------------- MODULE MCTimelyProcessing -------------------------
(* Instances of TimelyProcessing for TLC. *)
EXTENDS TimelyProcessing, TLC

CONSTANTS w1, w2, q1

MCQueueOf == [j \in Job |-> q1]
MCPriority == [j \in Job |-> 0]
MCMaxAttempts == [j \in Job |-> IF j = 1 THEN 2 ELSE 1]
MCQueuePriority == [q \in Queue |-> 0]
MCLimit == [q \in Queue |-> 0]
MCBackoff == [q \in HasPolicy |-> [n \in Attempt |-> 0]]

Symmetry == Permutations(Worker)
=============================================================================
