CONSTANTS
    NoOrder = NoOrder
    Skus = {OneSku}
    Orders = {o1}
    Lines <- OneUnit
    InitialStock <- OneOnShelf
    RestockQuantities = {}
    AdjustDeltas = {}
    StockCap = 1
    Retriers = {r1}
    MaxRetries = 0
    MaxAttempts = 1
    MaxPays = 1
    Workers = {w1}
    MaxFaults = 0
    RowLocks = TRUE
SPECIFICATION FairFlowSpec
PROPERTIES CapturesGetRecorded
CHECK_DEADLOCK FALSE
