CONSTANTS
    NoOrder = NoOrder
    Skus = {OneSku}
    Orders = {o1}
    Lines <- OneUnit
    InitialStock <- OneOnShelf
    RestockQuantities = {}
    AdjustDeltas = {}
    StockCap = 1
    Retriers = {r1}
    MaxRetries = 1
    MaxAttempts = 1
    MaxPays = 1
    Workers = {w1, w2}
    MaxFaults = 1
    RowLocks = FALSE
SPECIFICATION FlowSpec
SYMMETRY Sym
INVARIANTS FlowTypeOK ConfirmedOnlyByTheGateway AnsweredMeansRecorded LeftWaitingOnlyByAFault
PROPERTIES ImplementsOrderLifecycle
CHECK_DEADLOCK FALSE
