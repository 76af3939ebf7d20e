SPECIFICATION Spec
CONSTANTS
    w1 = w1
    w2 = w2
    Worker = {w1, w2}
    Interval = 1
    Timeout = 5
    Lag = 1
    MaxFaults = 2
INVARIANTS
    TypeOK
    PromptWorkersAreNotLost
    EventsAccountForStatus
PROPERTIES
    LostWorkersStayLost
    SilentWorkersAreReported
    StoppedWorkersGoOffline
