------------------------------- MODULE Reports -------------------------------
(***************************************************************************)
(* What staff read about sales: the dashboard's figures                    *)
(* (catalog/admin.py, accounts/views.py) go by Order.status, the           *)
(* profitability report (catalog/profitability.py) goes by Payment.status  *)
(* and spreads what an order costs over its items.  Orders move here only  *)
(* as far as the two statuses tell the reports something.                  *)
(*                                                                         *)
(* The quotients that the code keeps to 28 digits are exact here: sums of  *)
(* shares are numerators over one common denominator.                      *)
(***************************************************************************)
EXTENDS Pricing, FiniteSets, Sequences

CONSTANTS
    MaxSales,       \* bound: orders placed
    Articles,       \* the products
    Baskets,        \* what an order may hold: sets of lines [article, unit_price, quantity, gst_rate]
    CostPrices,     \* what staff may type as a cost price
    PAYMENT_GATEWAY_FEE_PERCENT,    \* as a fraction: <<numerator, denominator>>
    DEFAULT_SHIPPING_COST_PER_ORDER,
    DEFAULT_PACKAGING_COST_PER_UNIT,
    TrendDays,      \* REVENUE_TREND_DAYS
    LastDay         \* bound: days that pass

ASSUME ReportsAssumption ==
    /\ PAYMENT_GATEWAY_FEE_PERCENT \in Nat \X (Nat \ {0})
    /\ {MaxSales, TrendDays, LastDay, DEFAULT_SHIPPING_COST_PER_ORDER, DEFAULT_PACKAGING_COST_PER_UNIT} \subseteq Nat
    /\ CostPrices \subseteq Nat
    /\ \A b \in Baskets : Subtotal(b) > 0 /\ IsFiniteSet(b)
    /\ \A b \in Baskets : \A line \in b :
        /\ line.article \in Articles /\ line.quantity \in Nat \ {0}  \* (a line is copied from the cart and
        /\ {line.unit_price, line.gst_rate} \subseteq Nat                  \* a product, which are validated)

VARIABLES
    sales,      \* the orders placed: day, items, discount, Order.status, Payment.status, refunds processed
    cost_price, \* of each product that is still there
    today

reportVars == <<sales, cost_price, today>>

PaidStatuses == {"payment_confirmed", "shipped"}  \* Order.PAID_STATUSES, as far as it has members here
SaleStatus == {"awaiting_payment", "cancelled", "refunded", "partially_refunded"} \union PaidStatuses
RevenueRecognized == {"captured", "partially_refunded", "refunded"}

ReportsInit ==
    /\ sales = <<>>
    /\ cost_price = [g \in Articles |-> 0]
    /\ today = 0

Placed == DOMAIN sales
TotalAmount(o) == Subtotal(sales[o].items) - sales[o].discount

PlaceSale ==
    /\ Len(sales) < MaxSales
    /\ \E b \in Baskets :
        sales' = Append(sales,
            [day |-> today, items |-> b, discount |-> auto_promo_discount(TotalItems(b), Subtotal(b)),
             status |-> "awaiting_payment", payment |-> "created", refunded |-> 0])
    /\ UNCHANGED <<cost_price, today>>

SetSale(o, sale) == sales' = [sales EXCEPT ![o] = sale] /\ UNCHANGED <<cost_price, today>>

CaptureSale(o) ==
    /\ sales[o].status = "awaiting_payment"
    /\ SetSale(o, [sales[o] EXCEPT !.status = "payment_confirmed", !.payment = "captured"])

\* before the payment or after it, which then stands until staff refund it
CancelSale(o) ==
    /\ sales[o].status \in {"awaiting_payment", "payment_confirmed"}
    /\ SetSale(o, [sales[o] EXCEPT !.status = "cancelled"])

\* What the shipment reports is written over whatever the order was.
ShipSale(o) ==
    /\ sales[o].payment \in RevenueRecognized /\ sales[o].status # "shipped"
    /\ SetSale(o, [sales[o] EXCEPT !.status = "shipped"])

\* A refund of a part (one paisa) or of the rest is processed.
RefundSale(o) ==
    /\ sales[o].payment \in {"captured", "partially_refunded"}
    /\ \E amount \in {1, TotalAmount(o) - sales[o].refunded} :
        LET back == sales[o].refunded + amount
            is   == IF back = TotalAmount(o) THEN "refunded" ELSE "partially_refunded"
        IN  /\ amount = 1 => sales[o].refunded = 0
            /\ SetSale(o, [sales[o] EXCEPT !.refunded = back, !.status = is, !.payment = is])

\* Staff type what a product costs, or delete it, with its cost price.
SetCostPrice ==
    /\ \E g \in DOMAIN cost_price : \E c \in CostPrices \ {cost_price[g]} : cost_price' = [cost_price EXCEPT ![g] = c]
    /\ UNCHANGED <<sales, today>>

DeleteProduct ==
    /\ \E g \in DOMAIN cost_price : cost_price' = [h \in DOMAIN cost_price \ {g} |-> cost_price[h]]
    /\ UNCHANGED <<sales, today>>

DayPasses == today < LastDay /\ today' = today + 1 /\ UNCHANGED <<sales, cost_price>>

ReportsNext ==
    \/ PlaceSale
    \/ \E o \in Placed : CaptureSale(o) \/ CancelSale(o) \/ ShipSale(o) \/ RefundSale(o)
    \/ SetCostPrice \/ DeleteProduct \/ DayPasses

-----------------------------------------------------------------------------
(* The dashboard                                                           *)

SubtotalOf(o) == Subtotal(sales[o].items)

\* store_stats: what the orders in a paid status were worth
store_confirmed_revenue == MapThenSumSet(SubtotalOf, {o \in Placed : sales[o].status \in PaidStatuses})

\* the last TrendDays days, those without orders too
_revenue_by_day ==
    [day \in (today - TrendDays + 1)..today |->
        MapThenSumSet(SubtotalOf, {o \in Placed : sales[o].status \in PaidStatuses /\ sales[o].day = day})]

\* one count per status that some order has
_order_status_breakdown ==
    [status \in {sales[o].status : o \in Placed} |-> Cardinality({o \in Placed : sales[o].status = status})]

\* the Orders tab: a filter that is no status filters nothing
store_dashboard_orders(filter) ==
    {o \in Placed : filter \in SaleStatus => sales[o].status = filter}

-----------------------------------------------------------------------------
(* The profitability report                                                *)

\* The orders in the window whose payment was captured, whatever became of the order.  (A date that
\* is not given, or is none, is Unset.)
_paid_orders_queryset(from, to) ==
    {o \in Placed :
        /\ sales[o].payment \in RevenueRecognized
        /\ from # Unset => sales[o].day >= from
        /\ to # Unset => sales[o].day <= to}

_refunded_amount(o) == sales[o].refunded

CommonDenominator(paid) == MapThenFoldSet(LAMBDA x, y : x * y, 1, SubtotalOf, LAMBDA S : CHOOSE o \in S : TRUE, paid)

LinesSold(paid, g) == UNION {{[order |-> o, line |-> l] : l \in {k \in sales[o].items : k.article = g}} : o \in paid}

\* Mutant of ShareOfOrder: the share in what the buyer paid, discount deducted.
ShareOfTotal(sold, common) == (LineTotal(sold.line) * common) \div TotalAmount(sold.order)

\* the share of an item in its order's subtotal, over the common denominator
ShareOfOrder(sold, common) == LineTotal(sold.line) * (common \div SubtotalOf(sold.order))

\* The part of an amount of every order that falls to the items sold, over the common denominator.
Shared(sold, common, Amount(_)) == MapThenSumSet(LAMBDA s : Amount(s.order) * ShareOfOrder(s, common), sold)

\* the row of product g
ReportRow(paid, g) ==
    LET sold   == LinesSold(paid, g)
        common == CommonDenominator(paid)
        fee    == PAYMENT_GATEWAY_FEE_PERCENT
        units  == MapThenSumSet(LAMBDA s : s.line.quantity, sold)
        revenue == MapThenSumSet(LAMBDA s : taxable_value(s.line), sold)
        cost    == IF g \in DOMAIN cost_price THEN cost_price[g] ELSE 0  \* deleted: none
        cogs    == units * cost
        packaging == units * DEFAULT_PACKAGING_COST_PER_UNIT
        gateway  == Shared(sold, common, TotalAmount) * fee[1]  \* over common * fee[2]
        shipping == Shared(sold, common, LAMBDA o : DEFAULT_SHIPPING_COST_PER_ORDER)
        refunds  == Shared(sold, common, _refunded_amount)
    IN  [cost_price_missing |-> cost = 0, units_sold |-> units, revenue |-> revenue, cogs |-> cogs, packaging_cost |-> packaging,
         gateway_cost  |-> Quantized(gateway, common * fee[2]),
         shipping_cost |-> Quantized(shipping, common),
         refund_cost   |-> Quantized(refunds, common),
         net_contribution |->
            revenue - cogs - packaging + Quantized(-(gateway + (shipping + refunds) * fee[2]), common * fee[2])]

product_profitability_report(from, to) ==
    LET paid == _paid_orders_queryset(from, to)
    IN  [g \in {g \in Articles : LinesSold(paid, g) # {}} |-> ReportRow(paid, g)]

\* the page: the rows and their totals
profitability_report(from, to) ==
    LET rows == product_profitability_report(from, to)
    IN  [rows |-> rows,
         total_revenue |-> MapThenSumSet(LAMBDA g : rows[g].revenue, DOMAIN rows),
         total_net_contribution |-> MapThenSumSet(LAMBDA g : rows[g].net_contribution, DOMAIN rows),
         any_cost_price_missing |-> \E g \in DOMAIN rows : rows[g].cost_price_missing]

-----------------------------------------------------------------------------
(* Properties                                                              *)

\* The type invariant.
ReportsTypeOK ==
    /\ Placed = 1..Len(sales) /\ Len(sales) <= MaxSales
    /\ \A o \in Placed :
        /\ sales[o].day \in 0..today /\ sales[o].items \in Baskets /\ sales[o].discount \in Nat
        /\ sales[o].status \in SaleStatus
        /\ sales[o].payment \in {"created"} \union RevenueRecognized /\ sales[o].refunded \in 0..TotalAmount(o)
    /\ cost_price \in UNION {[S -> {0} \union CostPrices] : S \in SUBSET Articles}
    /\ today \in 0..LastDay

\* The first part: the report loses and invents nothing in spreading an order over its products: over
\* any window, open on either side or none at all, the fee, the shipping and the refunds of its rows
\* come to those of its orders, to half a paisa a row, the units to the units sold, a row's
\* contribution to its columns, to two paise, and the page's total contribution to what the orders
\* leave; a cost of goods is missing exactly when the page says so.
ReportAddsUp ==
    \A from \in {Unset} \union 1..today, to \in {Unset} \union 0..(today - 1) :
    \A page \in {profitability_report(from, to)} :
        LET paid == _paid_orders_queryset(from, to)
            rows == page.rows
            Total(Column(_)) == MapThenSumSet(Column, DOMAIN rows)
            Close(rounded, exact) == 2 * (rounded - exact) \in -Cardinality(DOMAIN rows)..Cardinality(DOMAIN rows)
            fee == PAYMENT_GATEWAY_FEE_PERCENT
            Bare(g) == rows[g].revenue - rows[g].cogs - rows[g].packaging_cost
            Costs == MapThenSumSet(TotalAmount, paid) * fee[1]
                     + (MapThenSumSet(_refunded_amount, paid) + Cardinality(paid) * DEFAULT_SHIPPING_COST_PER_ORDER) * fee[2]
        IN  /\ 2 * (Total(LAMBDA g : rows[g].gateway_cost) * fee[2] - MapThenSumSet(TotalAmount, paid) * fee[1])
                    \in -(Cardinality(DOMAIN rows) * fee[2])..(Cardinality(DOMAIN rows) * fee[2])
            /\ Close(Total(LAMBDA g : rows[g].refund_cost), MapThenSumSet(_refunded_amount, paid))
            /\ Close(Total(LAMBDA g : rows[g].shipping_cost), Cardinality(paid) * DEFAULT_SHIPPING_COST_PER_ORDER)
            /\ Total(LAMBDA g : rows[g].units_sold) = MapThenSumSet(LAMBDA o : TotalItems(sales[o].items), paid)
            /\ \A g \in DOMAIN rows :
                rows[g].net_contribution - (Bare(g) - rows[g].gateway_cost - rows[g].shipping_cost - rows[g].refund_cost)
                    \in -2..2
            /\ 2 * ((page.total_net_contribution - Total(Bare)) * fee[2] + Costs)
                    \in -(Cardinality(DOMAIN rows) * fee[2])..(Cardinality(DOMAIN rows) * fee[2])
            /\ page.any_cost_price_missing <=> \E g \in DOMAIN rows : rows[g].cogs = 0

\* The second part: dashboard and report speak of the same sales: what the report takes for sold (net
\* of tax) and the tax are the confirmed revenue of the dashboard and the orders that were paid for
\* and have since left the paid statuses; no order counts as revenue that was not paid for; the chart
\* adds up, and so does the breakdown, whose bars are as long as the lists behind them.  (A discount
\* is deducted in neither: both say more than was received.)
DashboardAgreesWithReport ==
    LET all  == _paid_orders_queryset(Unset, Unset)
        left == {o \in all : sales[o].status \notin PaidStatuses}
        Tax(o) == MapThenSumSet(tax_amount, sales[o].items)
    IN  /\ profitability_report(Unset, Unset).total_revenue + MapThenSumSet(Tax, all)
                = store_confirmed_revenue + MapThenSumSet(SubtotalOf, left)
        /\ MapThenSumSet(LAMBDA day : _revenue_by_day[day], DOMAIN _revenue_by_day)
                + MapThenSumSet(SubtotalOf, {o \in all \ left : sales[o].day <= today - TrendDays})
                = store_confirmed_revenue
        /\ MapThenSumSet(LAMBDA s : _order_status_breakdown[s], DOMAIN _order_status_breakdown)
                = Cardinality(store_dashboard_orders(""))
        /\ \A s \in SaleStatus :
                store_dashboard_orders(s) = {} \/ _order_status_breakdown[s] = Cardinality(store_dashboard_orders(s))

\* Nothing gets lost between the orders and what staff read about them.
SalesReportsAddUp == ReportAddsUp /\ DashboardAgreesWithReport
=============================================================================
