CONSTANTS
    NoOrder = NoOrder
    Skus = {OneSku}
    Orders = {o1, o2}
    Lines <- OneUnitEach
    InitialStock <- OneOnShelf
    RestockQuantities = {1}
    AdjustDeltas <- OneLost
    StockCap = 1
    Retriers = {r1}
    MaxRetries = 1
SPECIFICATION Spec
SYMMETRY Sym
INVARIANTS TypeOK LedgerSumsToCounters ShippedOnlyIfPaid RestoredOnlySold SoldAtMostOnce
PROPERTIES OverReservedOnlyByAdjustment PaidOrdersStayPaid
CHECK_DEADLOCK FALSE
