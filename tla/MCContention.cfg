SPECIFICATION Spec
CONSTANTS
    NULL = NULL
    w1 = w1
    w2 = w2
    q1 = q1
    q2 = q2
    Worker = {w1, w2}
    Job = {1, 2}
    Queue = {q1}
    QueueOf <- MCOneQueue
    Priority <- MCPriority
    MaxAttempts <- MCOneAttempt
    QueuePriority <- MCSameRank
    Limit <- MCUnlimited
    HasPolicy = {q1}
    Backoff <- MCNoDelay
    BatchSize = 2
    ClaimTimeout = 0
    MaxOps = 0
    MaxFaults = 1
INVARIANTS
    LockedRowsStayQueued
    CapacityRespected
PROPERTIES
    ClaimsComeFromQueue
SYMMETRY Symmetry
CHECK_DEADLOCK FALSE
