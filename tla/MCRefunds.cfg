CONSTANTS
    Refunds = {r1, r2}
    NoRefund = NoRefund
    Requests = {}
    NoRequest = NoRequest
    Workers = {w1, w2}
    Reconcilers = {w1, w2}
    Paid = 2
    Amounts = {1, 2}
    MaxLost = 1
SPECIFICATION RefundSpec
INVARIANTS RefundedAmountIsExact PaysBackAtMostWhatWasPaid
PROPERTIES KeepsRefundLedger RefundResultsArrive
CHECK_DEADLOCK FALSE
