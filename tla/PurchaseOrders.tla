--------------------------- MODULE PurchaseOrders ---------------------------
(***************************************************************************)
(* One purchase order, from the draft made of a supplier's low stock to    *)
(* its receipt (inventory/services.py, models.py and admin.py).  A request *)
(* that receives goods loads the lines and then books each one in a        *)
(* transaction of its own, on the copy it has loaded; what it locks is the *)
(* product, whose row is free again when the transaction ends.             *)
(***************************************************************************)
EXTENDS Naturals, FiniteSets

CONSTANTS
    Receivers,      \* the processes that serve staff's purchase order pages
    Supplied,       \* the supplier's active products
    Thresholds,     \* the low-stock thresholds there are
    MaxOnShelf,     \* bound: available-to-sell of a product when the order is drafted
    MaxTyped,       \* bound: the units one page receives of a product
    MaxReceipts,    \* bound: pages submitted
    MaxReceiversLost \* bound: receivers that may die

ASSUME PurchaseOrdersAssumption ==
    Thresholds \subseteq Nat /\ {MaxOnShelf, MaxTyped, MaxReceipts, MaxReceiversLost} \subseteq Nat

VARIABLES
    supply,     \* PurchaseOrder.status, "none" before it is created
    shelf,      \* Product.LeftToSell of each product
    threshold,  \* Product.low_stock_threshold
    ordered,    \* the line of each product: quantity_ordered, 0 for no line
    received,   \* PurchaseOrderLine.quantity_received
    arrived,    \* history: the units of the RESTOCKED movements that name the order
    receiver,   \* what each process is doing
    receipts,   \* how many pages were submitted
    jostled,    \* history: a request was started while another one was running
    receiversLost

supplyVars == <<supply, shelf, threshold, ordered, received, arrived, receiver, receipts, jostled,
                receiversLost>>

PoLines == {p \in Supplied : ordered[p] > 0}

Away == [step |-> "idle", todo |-> [p \in Supplied |-> 0], line |-> [p \in Supplied |-> 0],
         at |-> {}, status |-> "none"]

Busy(r) == receiver[r].step # "idle"
At(r, step) == receiver[r].step = step
Leaves(r) == receiver' = [receiver EXCEPT ![r] = Away]

PurchaseOrdersInit ==
    /\ supply = "none"
    /\ shelf \in [Supplied -> 0..MaxOnShelf]
    /\ threshold \in [Supplied -> Thresholds]
    /\ ordered = [p \in Supplied |-> 0]
    /\ received = [p \in Supplied |-> 0]
    /\ arrived = [p \in Supplied |-> 0]
    /\ receiver = [r \in Receivers |-> Away]
    /\ receipts = 0
    /\ jostled = FALSE
    /\ receiversLost = 0

\* A page of the order was submitted.
Submit(r, work) ==
    /\ ~Busy(r) /\ supply # "none"
    /\ receipts < MaxReceipts
    /\ receipts' = receipts + 1
    /\ receiver' = [receiver EXCEPT ![r] = work]
    /\ jostled' = (jostled \/ \E q \in Receivers : Busy(q))
    /\ UNCHANGED <<supply, shelf, threshold, ordered, received, arrived, receiversLost>>

-----------------------------------------------------------------------------

\* back up to twice the threshold, and one unit at least
Suggested(limit, available) == IF 2 * limit > available THEN 2 * limit - available ELSE 1

Low(p) == shelf[p] <= threshold[p]

\* (no low product: an error and no order)
create_purchase_order_from_low_stock ==
    /\ supply = "none"
    /\ \E p \in Supplied : Low(p)
    /\ ordered' = [p \in Supplied |-> IF Low(p) THEN Suggested(threshold[p], shelf[p]) ELSE 0]
    /\ supply' = "draft"
    /\ UNCHANGED <<shelf, threshold, received, arrived, receiver, receipts, jostled, receiversLost>>

\* The list's action: the order is loaded, and saved if that copy is a draft.
mark_ordered_action(r) ==
    /\ supply = "draft"
    /\ Submit(r, [Away EXCEPT !.step = "save", !.status = "ordered"])

\* The change form: the order's row is loaded and written back with the status it had.
EditPurchaseOrder(r) == Submit(r, [Away EXCEPT !.step = "save", !.status = supply])

mark_purchase_order_ordered(r) ==
    /\ At(r, "save")
    /\ supply' = receiver[r].status
    /\ Leaves(r)
    /\ UNCHANGED <<shelf, threshold, ordered, received, arrived, receipts, jostled, receiversLost>>

-----------------------------------------------------------------------------
(* receive_view: the page is open in any status, whatever its link says    *)

receive_view(r) ==
    \E typed \in [PoLines -> 0..MaxTyped] :
        Submit(r, [Away EXCEPT !.step = "lines", !.line = received,
                               !.todo = [p \in Supplied |-> IF p \in PoLines THEN typed[p] ELSE 0]])

\* the lines of the page with a quantity still to book
Left(r) == {p \in Supplied : receiver[r].todo[p] > 0}

\* Mutant of Fits: nobody looks at what remains.
FitsAnyway(r, p) == receiver[r].todo[p] > 0

\* the check of one line, against the copy that was loaded (lines are taken in any order)
Fits(r, p) == receiver[r].line[p] + receiver[r].todo[p] <= ordered[p]

RefuseLine(r) ==
    \E p \in Left(r) :
        /\ At(r, "lines") /\ ~Fits(r, p)
        /\ receiver' = [receiver EXCEPT ![r].todo[p] = 0]
        /\ UNCHANGED <<supply, shelf, threshold, ordered, received, arrived, receipts, jostled, receiversLost>>

\* the product's row is locked from here to the commit
receive_purchase_order_line(r) ==
    \E p \in Left(r) :
        /\ At(r, "lines") /\ Fits(r, p)
        /\ \A q \in Receivers : p \notin receiver[q].at
        /\ receiver' = [receiver EXCEPT ![r].step = "status", ![r].at = {p}]
        /\ UNCHANGED <<supply, shelf, threshold, ordered, received, arrived, receipts, jostled, receiversLost>>

\* quantity_received as the transaction of r sees it: what is committed, and its own line
Seen(r) == [p \in Supplied |-> IF p \in receiver[r].at THEN receiver[r].line[p] + receiver[r].todo[p] ELSE received[p]]

\* Mutant of StatusOf: one full line will do.
StatusOfAny(quantities) ==
    IF \E p \in PoLines : quantities[p] >= ordered[p] THEN "received" ELSE "partially_received"

\* is_fully_received and is_partially_received, after a line has been booked
StatusOf(quantities) ==
    IF \A p \in PoLines : quantities[p] >= ordered[p] THEN "received" ELSE "partially_received"

EvaluateOrder(r) ==
    /\ At(r, "status")
    /\ receiver' = [receiver EXCEPT ![r].step = "commit", ![r].status = StatusOf(Seen(r))]
    /\ UNCHANGED <<supply, shelf, threshold, ordered, received, arrived, receipts, jostled, receiversLost>>

\* movement, stock, line and status, together
CommitReceipt(r) ==
    \E p \in receiver[r].at :
        /\ At(r, "commit")
        /\ received' = Seen(r)
        /\ shelf' = [shelf EXCEPT ![p] = @ + receiver[r].todo[p]]
        /\ arrived' = [arrived EXCEPT ![p] = @ + receiver[r].todo[p]]
        /\ supply' = receiver[r].status
        /\ receiver' = [receiver EXCEPT ![r].step = "lines", ![r].at = {}, ![r].todo[p] = 0, ![r].status = "none"]
        /\ UNCHANGED <<threshold, ordered, receipts, jostled, receiversLost>>

PageDone(r) ==
    /\ At(r, "lines") /\ Left(r) = {}
    /\ Leaves(r)
    /\ UNCHANGED <<supply, shelf, threshold, ordered, received, arrived, receipts, jostled, receiversLost>>

ReceiverDies(r) ==
    /\ Busy(r)
    /\ receiversLost < MaxReceiversLost
    /\ receiversLost' = receiversLost + 1
    /\ Leaves(r)
    /\ UNCHANGED <<supply, shelf, threshold, ordered, received, arrived, receipts, jostled>>

PurchaseOrdersNext ==
    \/ create_purchase_order_from_low_stock
    \/ \E r \in Receivers :
        \/ mark_ordered_action(r) \/ EditPurchaseOrder(r) \/ mark_purchase_order_ordered(r)
        \/ receive_view(r) \/ RefuseLine(r) \/ receive_purchase_order_line(r)
        \/ EvaluateOrder(r) \/ CommitReceipt(r) \/ PageDone(r)
        \/ ReceiverDies(r)

PurchaseOrdersSpec == PurchaseOrdersInit /\ [][PurchaseOrdersNext]_supplyVars

-----------------------------------------------------------------------------
(* What the catalogue and staff's lists say of a product's stock           *)

LeftToSell(onHand, reservations) == IF onHand > reservations THEN onHand - reservations ELSE 0

\* the badge of a product
stock_status(available, limit) ==
    IF available = 0 THEN "out_of_stock" ELSE IF available <= limit THEN "low_stock" ELSE "in_stock"

is_low_stock(available, limit) == available > 0 /\ available <= limit

\* whether one of the three filters of the product list (and the dashboard's count of low and of
\* missing products) takes a product with these counters
LowStockFilter(value, onHand, reservations, limit) ==
    CASE value = "low"     -> onHand > reservations /\ onHand <= reservations + limit
      [] value = "out"     -> onHand <= reservations
      [] value = "healthy" -> onHand > reservations + limit

-----------------------------------------------------------------------------
(* Properties                                                              *)

SupplyStatus == {"draft", "ordered", "partially_received", "received"}

\* The type invariant.
PurchaseOrdersTypeOK ==
    LET Counts == [Supplied -> Nat]
    IN  /\ supply \in {"none"} \union SupplyStatus
        /\ shelf \in Counts /\ threshold \in Counts /\ ordered \in Counts /\ received \in Counts
        /\ arrived \in Counts
        /\ receiver \in [Receivers -> [step : {"idle", "save", "lines", "status", "commit"},
                                       todo : Counts, line : Counts, at : SUBSET Supplied,
                                       status : {"none"} \union SupplyStatus]]
        /\ receipts \in 0..MaxReceipts /\ jostled \in BOOLEAN /\ receiversLost \in 0..MaxReceiversLost

\* A line never claims more units than were ordered, nor more than reached the stock: pages that
\* overlap lose receipts, they never invent them, and without an overlap line and stock agree,
\* whatever page breaks off between two lines.
LinesClaimNoMoreThanArrived ==
    \A p \in Supplied :
        /\ received[p] <= ordered[p]
        /\ received[p] <= arrived[p]
        /\ ~jostled => received[p] = arrived[p]

\* Between two pages the order's status says what its lines say: received exactly when every line
\* is, partially received exactly when some unit is there, unless two pages overlapped (of two
\* transactions that finish the last two lines each can see the other line open).
StatusTellsWhatArrived ==
    (~jostled /\ \A r \in Receivers : ~Busy(r)) =>
        /\ supply = "received" <=> (supply # "none" /\ \A p \in PoLines : received[p] = ordered[p])
        /\ supply = "partially_received" <=>
                (\E p \in PoLines : received[p] > 0) /\ (\E p \in PoLines : received[p] < ordered[p])

\* The four places that judge a product's stock, each with a comparison of its own, agree whatever
\* the reservations (even when they exceed the stock): badge, filters, flag and the lines of
\* a draft.  And what the draft suggests is enough: when all of it is there, its products are
\* healthy (nothing is sold here meanwhile).
StockReportsAgree ==
    \A p \in Supplied : \A onHand, reservations \in 0..(shelf[p] + 1) :
        LeftToSell(onHand, reservations) = shelf[p] =>
            LET Shows(value) == LowStockFilter(value, onHand, reservations, threshold[p])
            IN  /\ Shows("low") <=> stock_status(shelf[p], threshold[p]) = "low_stock"
                /\ Shows("low") <=> is_low_stock(shelf[p], threshold[p])
                /\ Shows("out") <=> stock_status(shelf[p], threshold[p]) = "out_of_stock"
                /\ Shows("healthy") <=> stock_status(shelf[p], threshold[p]) = "in_stock"
                /\ (supply # "none" /\ arrived[p] = 0) => (p \in PoLines <=> ~Shows("healthy"))
                /\ (supply = "received" /\ ~jostled /\ p \in PoLines) => Shows("healthy")
=============================================================================
