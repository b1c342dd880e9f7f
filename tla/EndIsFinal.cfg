SPECIFICATION Spec
CONSTANTS
    None = None
    Shortened <- MCShortened
    OutOfRange <- MCOutOfRange
    Runs <- All3
    CommandIds <- MCCommandIds
    Bars <- MCBars
    ValidConfig <- Full
    MaxQueued = 2
    Instants = 2
    Scenarios <- OneStop
PROPERTY EndIsFinal
CHECK_DEADLOCK FALSE
