------------------------- MODULE MCDocumentedClaims -------------------------
(* Instances of DocumentedClaims for TLC. *)
EXTENDS DocumentedClaims

CONSTANTS w1, w2, q1

MCQueueOf == [j \in Job |-> q1]
MCPriority == [j \in Job |-> 0]
MCOneAttempt == [j \in Job |-> 1]
MCTwoAttempts == [j \in Job |-> 2]
MCQueuePriority == [q \in Queue |-> 0]
MCUnlimited == [q \in Queue |-> 0]
MCLimitOne == [q \in Queue |-> 1]
MCBackoff == [q \in HasPolicy |-> [n \in Attempt |-> 1]]
=============================================================================
