CONSTANTS
    NoOrder = NoOrder
    Skus = {OneSku}
    Orders = {o1}
    Lines <- OneUnitEach
    InitialStock <- TwoOnShelf
    RestockQuantities = {}
    AdjustDeltas = {}
    StockCap = 2
    Retriers = {r1, r2}
    MaxRetries = 2
SPECIFICATION Spec
INVARIANTS SoldAtMostOnce
CHECK_DEADLOCK FALSE
