SPECIFICATION Spec
CONSTANTS
    MaxAttempt = 6
    MaxDelay = 12
INVARIANT DelayFollowsSchedule
PROPERTY DelayNeverShrinks
CHECK_DEADLOCK FALSE
