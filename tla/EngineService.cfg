SPECIFICATION FairSpec
CONSTANTS
    None = None
    Shortened <- MCShortened
    OutOfRange <- MCOutOfRange
    Runs <- All3
    CommandIds <- MCCommandIds
    Bars <- MCBars
    ValidConfig <- Full
    MaxQueued = 2
    Instants = 2
    Scenarios <- MCScenarios
INVARIANTS
    StartedInOrder
    QueueBounded
    KillSwitchObeyed
    LastStopAnswered
    AskedIsReported
    RefusalNamesFault
PROPERTIES
    RunsAndShutdownEnd
CHECK_DEADLOCK FALSE
