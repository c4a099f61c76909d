CONSTANTS
    NoOrder = NoOrder
    Skus = {OneSku}
    Orders = {o1, o2}
    Lines <- OneUnitEach
    InitialStock <- TwoOnShelf
    RestockQuantities = {}
    AdjustDeltas = {}
    StockCap = 2
    Retriers = {}
    MaxRetries = 0
SPECIFICATION Spec
INVARIANTS CheckoutsHoldTheirStock
CHECK_DEADLOCK FALSE
