SPECIFICATION FairSpec
CONSTANTS
    Strategies = {s1, s2}
    None = None
    Files <- MCFiles
    Unreadable = Unreadable
    RejectNonPositive = TRUE
    MaxSessions = 2
    MaxEmits = 2
    MaxFailures = 1
INVARIANTS
    CallbacksInOrder
    SeenOnceByAll
    SignalsFromCallbacks
    LossIsVisible
PROPERTIES
    StopReturns
CHECK_DEADLOCK FALSE
