SPECIFICATION CronSpec
CONSTANTS
    NULL = NULL
    w1 = w1
    q1 = q1
    c1 = c1
    c2 = c2
    p = p
    Worker = {w1}
    Job = {1, 2, 3}
    Queue = {q1}
    QueueOf <- MCQueueOf
    Priority <- MCPriority
    MaxAttempts <- MCMaxAttempts
    QueuePriority <- MCQueuePriority
    Limit <- MCLimit
    HasPolicy = {q1}
    Backoff <- MCBackoff
    BatchSize = 1
    ClaimTimeout = 0
    MaxOps = 0
    MaxFaults = 0
    Cron = {c1, c2, p}
    CronQueue <- MCCronQueue
    Slots <- MCSlots
    Poison = {p}
    Slow = {c1}
    MaxTime = 2
    MaxStops = 1
INVARIANTS
    CronTypeOK
    SlotsFireOnce
    SlotsAreAnswered
    DueRowsFireTogether
PROPERTIES
    DueCronsFire
    EnqueuedJobsSettle
CHECK_DEADLOCK FALSE
