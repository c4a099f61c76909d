SPECIFICATION Spec
CONSTANTS
    Shoppers = {s1}
    s1 = s1
    Requests = {r1, r2}
    r1 = r1
    r2 = r2
    Goods = {g1}
    g1 = g1
    PriceLists <- MCPriceLists
    FirstPrices <- Cheap
    Voucher <- MCVoucher
    MaxQuantity = 2
    MaxAdded = 1
    MaxTouches = 2
    MaxOrders = 2
    MaxRepricings = 1
    Tabs = {t1, t2}
    t1 = t1
    t2 = t2
    MaxAddresses = 3
    MaxForms = 4
    Visitors = {v1, v2}
    v1 = v1
    v2 = v2
    Stockers = {w1, w2}
    w1 = w1
    w2 = w2
    MaxSaves = 3
    MaxStockersLost = 1
    Receivers = {c1, c2}
    c1 = c1
    c2 = c2
    Supplied = {p1, p2}
    p1 = p1
    p2 = p2
    Thresholds = {0, 1}
    MaxOnShelf = 1
    MaxTyped = 2
    MaxReceipts = 2
    MaxReceiversLost = 1
    Writers = {n1, n2}
    n1 = n1
    n2 = n2
    PaidOrders = {o1, o2}
    o1 = o1
    o2 = o2
    Suppliers = {q1, q2}
    q1 = q1
    q2 = q2
    Years = 2
    MaxWritersLost = 1
    Dispatchers = {d1}
    d1 = d1
    Trackers = {k1}
    k1 = k1
    Words <- MCWords
    Route <- MCRoute
    Typed <- MCTyped
    MaxPresses = 2
    MaxShipperLost = 1
    Articles = {a1, a2}
    a1 = a1
    a2 = a2
    Baskets <- MCBaskets
    CostPrices = {20}
    PAYMENT_GATEWAY_FEE_PERCENT <- MCGatewayFee
    DEFAULT_SHIPPING_COST_PER_ORDER = 7
    DEFAULT_PACKAGING_COST_PER_UNIT = 1
    MaxSales = 2
    TrendDays = 1
    LastDay = 1
    Officers = {f1, f2}
    f1 = f1
    f2 = f2
    MaxMoves = 3
    MaxOfficersLost = 1
    Letters = {l1, l2}
    l1 = l1
    l2 = l2
    Mailers = {m1, m2}
    m1 = m1
    m2 = m2
    STAFF_NOTIFICATION_EMAIL = {}
    max_retries = 3
    MaxMailersLost = 1
    Customers = {b1}
    b1 = b1
    Browsers = {e1, e2}
    e1 = e1
    e2 = e2
    Catalogue <- MCCatalogue
    Similar = {}
    MaxClicks = 4
    mug = mug
    lamp = lamp
    NoTx = NoTx
    Skus = {mug, lamp}
    Orders = {o1, o2}
    Lines <- TwoLines
    OrderItems <- OppositeItems
    InitialStock <- Shelf
    RestockQuantities = {1}
    AdjustDeltas <- OneLost
    StockCap = 3
    Tx = {x1, x2}
    x1 = x1
    x2 = x2
    MaxCalls = 3
INVARIANTS BackOfficeTypeOK OrdersChargeTheirItems CouponLimitsHold EveryUnitOrderedOnce InvoiceAddsUp OneDefaultAddress AlertsAnsweredOnce LinesClaimNoMoreThanArrived StatusTellsWhatArrived ReportsAgree NumbersAddUp OrderFollowsShipment TrailsAreChains BuyerToldOnce OneReviewOneWish
PROPERTIES CarrierNewsArrives LettersEnd ImplementsStockLedger EveryCallEnds
CHECK_DEADLOCK FALSE
