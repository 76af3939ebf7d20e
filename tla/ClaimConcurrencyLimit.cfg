SPECIFICATION Spec
CONSTANTS
    NULL = NULL
    w1 = w1
    w2 = w2
    q1 = q1
    Worker = {w1, w2}
    Job = {1, 2}
    Queue = {q1}
    QueueOf <- MCQueueOf
    Priority <- MCPriority
    MaxAttempts <- MCTwoAttempts
    QueuePriority <- MCQueuePriority
    Limit <- MCLimitOne
    HasPolicy = {q1}
    Backoff <- MCBackoff
    BatchSize = 2
    ClaimTimeout = 1
    MaxOps = 0
    MaxFaults = 0
INVARIANT ConcurrencyLimitHolds
CHECK_DEADLOCK FALSE
