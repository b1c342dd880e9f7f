SPECIFICATION Spec
CONSTANTS
    Symbols = {"A", "B"}
    MaxProblems = 2
    Number <- MCNumber
    List <- MCList
    MaxCombinations = 4
    Sessions <- MCSessions
    Assignment <- MCAssignment
    Response <- MCResponse
    MaxArguments = 24
    MaxStrategies = 2
    DefaultMaxRows = 3
    HardMaxRows = 24
INVARIANTS
    EveryRowExplained
    HoldoutKeptApart
    VerdictIsTrue
CHECK_DEADLOCK FALSE
