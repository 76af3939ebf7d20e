SPECIFICATION FairSpec
CONSTANTS
    NULL = NULL
    w1 = w1
    w2 = w2
    q1 = q1
    q2 = q2
    Worker = {w1, w2}
    Job = {1}
    Queue = {q1}
    QueueOf <- MCOneQueue
    Priority <- MCPriority
    MaxAttempts <- MCTwoAttempts
    QueuePriority <- MCSameRank
    Limit <- MCUnlimited
    HasPolicy = {q1}
    Backoff <- MCOneTick
    BatchSize = 1
    ClaimTimeout = 1
    MaxOps = 1
    MaxFaults = 0
PROPERTIES
    QueuedJobsSettle
    PausedQueueStaysQuiet
    PauseTakesEffect
CHECK_DEADLOCK FALSE
