SPECIFICATION FairSpec
CONSTANTS
    NULL = NULL
    w1 = w1
    w2 = w2
    q1 = q1
    q2 = q2
    Worker = {w1}
    Job = {1, 2, 3}
    Queue = {q1, q2}
    QueueOf <- MCOneQueue
    Priority <- MCPriority
    MaxAttempts <- MCOneAttempt
    QueuePriority <- MCRanks
    Limit <- MCLimits
    HasPolicy = {q1}
    Backoff <- MCNoDelay
    BatchSize = 1
    ClaimTimeout = 0
    MaxOps = 0
    MaxFaults = 2
INVARIANTS
    LimitOverrunBounded
PROPERTIES
    ShutdownCompletes
    LimitedQueueMovesOn
CHECK_DEADLOCK FALSE
