SPECIFICATION FairSpec
CONSTANTS
    Clients = {c1, c2}
    Origin = "us"
    Values <- MCValues
    Events <- MCEvents
    ForeignTexts <- MCForeign
    MaxSent = 2
    MaxForeign = 1
    MaxFailures = 1
    MaxTimeouts = 1
INVARIANTS
    ReadBackWhole
    ReadInOrder
PROPERTIES
    DrainMeansHandled
    DrainEnds
CHECK_DEADLOCK FALSE
