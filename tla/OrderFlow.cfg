SPECIFICATION Spec
CONSTANTS
    a = a
    b = b
    None = None
    PerShareFee = 0
    PerTradeFee = 1
    FeePercent = 5
    SlipPercent = 0
    BuyBuffer = 5
    SessionLength = 2
    StartingCash = 66
    Symbols <- TwoSymbols
    Prices <- BufferedPrices
    Ideas <- PairIdeas
    RiskPolicies = TRUE
    MaxOrderQuantity = 1
    MaxPositionNotional = 100
    MaxGrossExposure = 100
    MaxOpenOrders = 2
    MaxDailyLoss = 3
    WholeFills = TRUE
    Buses <- InProcess
    MaxTime = 3
    MaxSignals = 3
    MaxEmitted = 1
    MaxFaults = 0
INVARIANTS
    NeverShort
    CashCoversReservations
    NoLookAhead
    MarksAreNewest
CHECK_DEADLOCK FALSE
