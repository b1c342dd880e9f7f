SPECIFICATION Spec
CONSTANTS
    a = a
    b = b
    None = None
    PerShareFee = 0
    PerTradeFee = 7
    FeePercent = 5
    SlipPercent = 10
    BuyBuffer = 5
    SessionLength = 2
    StartingCash = 2000
    Symbols <- TwoSymbols
    RiskPolicies = TRUE
    MaxOrderQuantity = 2
    MaxPositionNotional = 900
    MaxGrossExposure = 900
    MaxOpenOrders = 2
    MaxDailyLoss = 200
    WholeFills = TRUE
    DataSets <- MCDataSets
    Ideas <- MCIdeas
    MaxTime = 4
    MaxSignals = 3
    MaxEmitted = 2
INVARIANTS
    StepsAreSeparate
    ReportTellsAccount
PROPERTIES
    SnapshotsAtNewest
CHECK_DEADLOCK FALSE
