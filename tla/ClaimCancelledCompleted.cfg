SPECIFICATION Spec
CONSTANTS
    NULL = NULL
    w1 = w1
    w2 = w2
    q1 = q1
    Worker = {w1, w2}
    Job = {1}
    Queue = {q1}
    QueueOf <- MCQueueOf
    Priority <- MCPriority
    MaxAttempts <- MCTwoAttempts
    QueuePriority <- MCQueuePriority
    Limit <- MCUnlimited
    HasPolicy = {q1}
    Backoff <- MCBackoff
    BatchSize = 1
    ClaimTimeout = 1
    MaxOps = 0
    MaxFaults = 0
PROPERTY CancelledIsNotCompleted
CHECK_DEADLOCK FALSE
