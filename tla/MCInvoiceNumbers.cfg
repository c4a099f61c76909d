CONSTANTS
    Writers = {n1, n2}
    PaidOrders = {o1, o2}
    Suppliers = {q1}
    Years = 2
    MaxWritersLost = 1
SPECIFICATION NumbersSpec
INVARIANTS InvoiceNumbersAreGapless
CHECK_DEADLOCK FALSE
