SPECIFICATION Spec
CONSTANTS
    NULL = NULL
    w1 = w1
    w2 = w2
    q1 = q1
    q2 = q2
    Worker = {w1, w2}
    Job = {1}
    Queue = {q1}
    QueueOf <- MCOneQueue
    Priority <- MCPriority
    MaxAttempts <- MCTwoAttempts
    QueuePriority <- MCSameRank
    Limit <- MCUnlimited
    HasPolicy = {q1}
    Backoff <- MCNoDelay
    BatchSize = 1
    ClaimTimeout = 0
    MaxOps = 1
    MaxFaults = 1
INVARIANTS
    TypeOK
    RowsAgree
    InFlightHasTask
    AttemptsAccounted
    DeathsAccounted
SYMMETRY Symmetry
CHECK_DEADLOCK FALSE
