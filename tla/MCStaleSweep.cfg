CONSTANTS
    NoOrder = NoOrder
    Skus = {OneSku}
    Orders = {o1}
    Lines <- OneUnitEach
    InitialStock <- OneOnShelf
    RestockQuantities = {}
    AdjustDeltas = {}
    StockCap = 1
    Retriers = {}
    MaxRetries = 0
SPECIFICATION FairSpec
PROPERTIES SweepSparesPaidOrders
CHECK_DEADLOCK FALSE
