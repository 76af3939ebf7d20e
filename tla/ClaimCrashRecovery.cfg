SPECIFICATION FairSpec
CONSTANTS
    NULL = NULL
    w1 = w1
    w2 = w2
    q1 = q1
    Worker = {w1, w2}
    Job = {1}
    Queue = {q1}
    QueueOf <- MCQueueOf
    Priority <- MCPriority
    MaxAttempts <- MCOneAttempt
    QueuePriority <- MCQueuePriority
    Limit <- MCUnlimited
    HasPolicy = {q1}
    Backoff <- MCBackoff
    BatchSize = 1
    ClaimTimeout = 1
    MaxOps = 0
    MaxFaults = 1
PROPERTY CrashedWorkersJobsAreRecovered
CHECK_DEADLOCK FALSE
