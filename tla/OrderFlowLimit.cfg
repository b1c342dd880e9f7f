SPECIFICATION FairSpec
CONSTANTS
    a = a
    b = b
    None = None
    PerShareFee = 0
    PerTradeFee = 2
    FeePercent = 5
    SlipPercent = 10
    BuyBuffer = 5
    SessionLength = 2
    StartingCash = 100
    Symbols <- OneSymbol
    Prices <- BufferedPrices
    Ideas <- LimitIdeas
    RiskPolicies = TRUE
    MaxOrderQuantity = 3
    MaxPositionNotional = 100
    MaxGrossExposure = 100
    MaxOpenOrders = 2
    MaxDailyLoss = 3
    WholeFills = FALSE
    Buses <- Either
    MaxTime = 4
    MaxSignals = 2
    MaxEmitted = 2
    MaxFaults = 1
INVARIANTS
    BooksAgree
    ReservationsShrink
    SurvivesReordering
PROPERTIES
    Settles
CHECK_DEADLOCK FALSE
