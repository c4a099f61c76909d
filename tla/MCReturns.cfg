CONSTANTS
    lamp = lamp
    Refunds = {r1}
    NoRefund = NoRefund
    Requests = {q1, q2}
    NoRequest = NoRequest
    Workers = {w1}
    Clerks = {c1, c2}
    Reconcilers = {}
    Paid = 2
    Amounts = {2}
    MaxLost = 0
    Items = {lamp}
    Ordered <- One
    ReturnLines <- OneOrTwo
    ShipmentEdits = {"lost"}
    MaxDropped = 1
SPECIFICATION Spec
INVARIANTS ReturnTypeOK NothingReturnedTwice
PROPERTIES RefundedReturnsStay
SYMMETRY Interchangeable
CHECK_DEADLOCK FALSE
