----------------------------- MODULE StockLedger -----------------------------
(***************************************************************************)
(* The stock counters of inventory/services.py and the StockMovement       *)
(* ledger written beside them.  Every service function is one transaction  *)
(* that locks the product or variant rows it touches, so it is one action  *)
(* here; module StockTransactions takes the same functions apart, row by   *)
(* row and lock by lock, and is checked to implement this one.             *)
(*                                                                         *)
(* A sku stands for a Product without variants or for a ProductVariant:    *)
(* the two branches of every loop in the source differ only in the table.  *)
(* The actions leave to their callers when they may be called: cart,       *)
(* payments and returns call them, and module OrderLifecycle says when.    *)
(***************************************************************************)
EXTENDS Integers

CONSTANTS
    Skus,               \* the sellable rows
    Orders,             \* the orders that may be placed
    Lines,              \* Lines[o][s]: the quantity of sku s in order o, 0 when it has no such line
    InitialStock,       \* stock_count of every row before the first movement
    RestockQuantities,  \* what one delivery or one returned line can bring in
    AdjustDeltas,       \* what one manual correction can ask for
    StockCap            \* bound: no delivery or correction lifts a counter above it

ASSUME LinesAssumption == Lines \in [Orders -> [Skus -> Nat]]
ASSUME InitialStockAssumption == InitialStock \in [Skus -> Nat]
ASSUME QuantitiesAssumption ==
    /\ RestockQuantities \subseteq Nat \ {0}
    /\ AdjustDeltas \subseteq Int \ {0}
    /\ StockCap \in Nat

VARIABLES
    stock,      \* stock_count: units physically on hand
    reserved,   \* reserved_count: units held for unpaid checkouts
    ledger,     \* per sku, the sums of stock_delta and reserved_delta over StockMovement
    sold,       \* per order, how many times a SOLD batch was written for it
    restored    \* per order, how many times a RESTORED batch was written for it

stockVars == <<stock, reserved, ledger, sold, restored>>

Lesser(a, b) == IF a < b THEN a ELSE b
Greater(a, b) == IF a > b THEN a ELSE b

StockInit ==
    /\ stock = InitialStock
    /\ reserved = [s \in Skus |-> 0]
    /\ ledger = [s \in Skus |-> [stock |-> 0, reserved |-> 0]]
    /\ sold = [o \in Orders |-> 0]
    /\ restored = [o \in Orders |-> 0]

-----------------------------------------------------------------------------
(* What the service functions read and write                               *)

available_to_sell(s) == Greater(stock[s] - reserved[s], 0)

\* Mutant of CanReserve: compares with the shelf and forgets what other checkouts hold.
CanReserveFromShelf(o) == \A s \in Skus : stock[s] >= Lines[o][s]

CanReserve(o) == \A s \in Skus : Lines[o][s] > 0 => available_to_sell(s) >= Lines[o][s]

\* The StockMovement rows of one call: a stock_delta and a reserved_delta per sku.
Post(stockDelta, reservedDelta) ==
    ledger' = [s \in Skus |-> [stock |-> ledger[s].stock + stockDelta[s],
                               reserved |-> ledger[s].reserved + reservedDelta[s]]]

Nothing == [s \in Skus |-> 0]
Only(s, d) == [Nothing EXCEPT ![s] = d]

reserve_stock(o) ==
    /\ CanReserve(o)
    /\ reserved' = [s \in Skus |-> reserved[s] + Lines[o][s]]
    /\ Post(Nothing, Lines[o])
    /\ UNCHANGED <<stock, sold, restored>>

\* Mutant of release_reservation: no min() with what is reserved.
ReleaseUnclamped(o) ==
    /\ reserved' = [s \in Skus |-> reserved[s] - Lines[o][s]]
    /\ Post(Nothing, [s \in Skus |-> -Lines[o][s]])
    /\ UNCHANGED <<stock, sold, restored>>

release_reservation(o) ==
    LET released(s) == Lesser(Lines[o][s], reserved[s])
    IN  /\ reserved' = [s \in Skus |-> reserved[s] - released(s)]
        /\ Post(Nothing, [s \in Skus |-> -released(s)])
        /\ UNCHANGED <<stock, sold, restored>>

\* Mutant of convert_reservation_to_sale: the movement of an oversold line gives the quantity
\* ordered and not the quantity there was.
ConvertPostingTheOrder(o) ==
    LET released(s) == Lesser(Lines[o][s], reserved[s])
    IN  /\ stock' = [s \in Skus |-> Greater(stock[s] - Lines[o][s], 0)]
        /\ reserved' = [s \in Skus |-> reserved[s] - released(s)]
        /\ Post([s \in Skus |-> -Lines[o][s]], [s \in Skus |-> -released(s)])
        /\ sold' = [sold EXCEPT ![o] = @ + 1]
        /\ UNCHANGED restored

\* A line the shelf cannot cover empties it instead of failing: the money is already taken.
convert_reservation_to_sale(o) ==
    LET oversold(s)      == stock[s] < Lines[o][s]
        stockDelta(s)    == IF oversold(s) THEN -stock[s] ELSE -Lines[o][s]
        reservedDelta(s) == -Lesser(Lines[o][s], reserved[s])
    IN  /\ stock' = [s \in Skus |-> IF oversold(s) THEN 0 ELSE stock[s] - Lines[o][s]]
        /\ reserved' = [s \in Skus |-> reserved[s] + reservedDelta(s)]
        /\ Post([s \in Skus |-> stockDelta(s)], [s \in Skus |-> reservedDelta(s)])
        /\ sold' = [sold EXCEPT ![o] = @ + 1]
        /\ UNCHANGED restored

restore_stock_for_cancellation(o) ==
    /\ stock' = [s \in Skus |-> stock[s] + Lines[o][s]]
    /\ Post(Lines[o], Nothing)
    /\ restored' = [restored EXCEPT ![o] = @ + 1]
    /\ UNCHANGED <<reserved, sold>>

\* record_restock (a delivery) and restock_from_return (a resellable return) write the same
\* counters and differ only in the type of the movement.
record_restock(s, quantity) ==
    /\ quantity > 0
    /\ stock[s] + quantity <= StockCap
    /\ stock' = [stock EXCEPT ![s] = @ + quantity]
    /\ Post(Only(s, quantity), Nothing)
    /\ UNCHANGED <<reserved, sold, restored>>

record_adjustment(s, delta) ==
    LET new_stock_count == Greater(stock[s] + delta, 0)
        applied_delta   == new_stock_count - stock[s]
    IN  /\ delta # 0
        /\ new_stock_count <= StockCap
        /\ stock' = [stock EXCEPT ![s] = new_stock_count]
        /\ Post(Only(s, applied_delta), Nothing)
        /\ UNCHANGED <<reserved, sold, restored>>

-----------------------------------------------------------------------------
(* The services with no caller discipline at all                           *)

Restock == \E s \in Skus, q \in RestockQuantities : record_restock(s, q)
Adjust == \E s \in Skus, d \in AdjustDeltas : record_adjustment(s, d)

StockNext ==
    \/ \E o \in Orders :
        \/ reserve_stock(o)
        \/ release_reservation(o)
        \/ convert_reservation_to_sale(o)
        \/ restore_stock_for_cancellation(o)
    \/ Restock
    \/ Adjust

StockSpec == StockInit /\ [][StockNext]_stockVars

-----------------------------------------------------------------------------
(* Properties                                                              *)

\* The type invariant.  Both counters are PositiveIntegerFields: a negative value would be
\* refused by the database and turn a legal call into a server error.
StockTypeOK ==
    /\ stock \in [Skus -> Nat]
    /\ reserved \in [Skus -> Nat]
    /\ ledger \in [Skus -> [stock : Int, reserved : Int]]
    /\ sold \in [Orders -> Nat]
    /\ restored \in [Orders -> Nat]

\* The ledger sums to the counters at any point in time (inventory/models.py, the comment on
\* the two delta fields), although every service clamps or floors its counter and works out
\* the delta it records on its own.
LedgerSumsToCounters ==
    \A s \in Skus :
        /\ stock[s] = InitialStock[s] + ledger[s].stock
        /\ reserved[s] = ledger[s].reserved

\* Only a manual correction can leave more units of a sku promised to open checkouts than there
\* are on the shelf: no sequence of checkouts, captures, releases, cancellations and deliveries
\* does, whatever order they come in and however often each is repeated.
OverReservedOnlyByAdjustment ==
    [][\A s \in Skus : reserved[s] <= stock[s] => (reserved'[s] <= stock'[s] \/ Adjust)]_stockVars
=============================================================================
