CONSTANTS
    NoOrder = NoOrder
    Skus = {OneSku}
    Orders = {o1}
    Lines <- OneUnit
    InitialStock <- OneOnShelf
    RestockQuantities = {}
    AdjustDeltas = {}
    StockCap = 1
    Retriers = {r1}
    MaxRetries = 0
    MaxAttempts = 1
    MaxPays = 2
    Workers = {w1}
    MaxFaults = 0
    RowLocks = FALSE
SPECIFICATION FairFlowSpec
PROPERTIES CapturedPaymentsStayCaptured
CHECK_DEADLOCK FALSE
