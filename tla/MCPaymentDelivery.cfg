CONSTANTS
    NoOrder = NoOrder
    Skus = {OneSku}
    Orders = {o1}
    Lines <- OneUnit
    InitialStock <- OneOnShelf
    RestockQuantities = {}
    AdjustDeltas = {}
    StockCap = 1
    Retriers = {r1}
    MaxRetries = 1
    MaxAttempts = 2
    MaxPays = 1
    Workers = {w1}
    MaxFaults = 1
    RowLocks = FALSE
SPECIFICATION FairFlowSpec
PROPERTIES CapturesGetRecorded UnpaidOrdersClose
CHECK_DEADLOCK FALSE
