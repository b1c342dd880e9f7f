SPECIFICATION Spec
CONSTANTS
    a = a
    b = b
    None = None
    PerShareFee = 0
    PerTradeFee = 1
    FeePercent = 5
    SlipPercent = 0
    BuyBuffer = 5
    SessionLength = 2
    StartingCash = 100
    Symbols <- OneSymbol
    Prices <- BufferedPrices
    Ideas <- MarketIdeas
    RiskPolicies = TRUE
    MaxOrderQuantity = 2
    MaxPositionNotional = 100
    MaxGrossExposure = 100
    MaxOpenOrders = 1
    MaxDailyLoss = 3
    WholeFills = TRUE
    Buses <- InProcess
    MaxTime = 4
    MaxSignals = 4
    MaxEmitted = 2
    MaxFaults = 0
INVARIANTS
    OpenOrderLimit
CHECK_DEADLOCK FALSE
