SPECIFICATION TimelySpec
CONSTANTS
    NULL = NULL
    w1 = w1
    w2 = w2
    q1 = q1
    Worker = {w1, w2}
    Job = {1, 2}
    Queue = {q1}
    QueueOf <- MCQueueOf
    Priority <- MCPriority
    MaxAttempts <- MCMaxAttempts
    QueuePriority <- MCQueuePriority
    Limit <- MCLimit
    HasPolicy = {q1}
    Backoff <- MCBackoff
    BatchSize = 2
    ClaimTimeout = 1
    MaxOps = 1
    MaxFaults = 1
INVARIANTS
    SingleExecution
    TasksOwnTheirRows
    AttemptsBounded
PROPERTIES
    ImplementsLifecycle
SYMMETRY Symmetry
CHECK_DEADLOCK FALSE
