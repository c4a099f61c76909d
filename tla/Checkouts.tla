------------------------------ MODULE Checkouts ------------------------------
(***************************************************************************)
(* Carts and what becomes of them (cart/views.py, forms.py, models.py).    *)
(* Nothing locks a cart.  A checkout reads it again and again:             *)
(*                                                                         *)
(*   promo    the lines have been read, now the automatic discount is      *)
(*   form     the coupon is validated against yet another subtotal         *)
(*   offer    its discount is computed                                     *)
(*   place    the order's subtotal, first thing in the transaction         *)
(*   commit   items, redemption and the empty cart become visible          *)
(*                                                                         *)
(* Buyers use several tabs, staff change prices, and a request may end     *)
(* anywhere: the stock, the address or the pincode can refuse a checkout   *)
(* and a worker can die.                                                   *)
(***************************************************************************)
EXTENDS Pricing, FiniteSets

CONSTANTS
    Shoppers,       \* the buyers
    Requests,       \* the processes that serve them
    Goods,          \* the products, none of which has variants in a cart here
    PriceLists,     \* what a product may cost: listings with their tax rate
    FirstPrices,    \* the one every product starts with
    Voucher,        \* the one Coupon
    MaxQuantity,    \* bound: of a cart line
    MaxAdded,       \* bound: units one click adds
    MaxTouches,     \* bound: requests that change a line of a cart
    MaxOrders,      \* bound: orders placed
    MaxRepricings   \* bound: changes of a price

\* Coupon: a part or an amount off, and its limits (Unset, or 0 per buyer: none).  Its dates and
\* is_active can only refuse a checkout.
Coupon == [percent : BOOLEAN, value : Nat \ {0}, cap : Nat \union {Unset}, minimum_order_amount : Nat,
           usage_limit : Nat \union {Unset}, per_user_limit : Nat]

Within(used, limit, unlimited) == limit = unlimited \/ used < limit

\* (the validators of Product allow no price and no tax rate below zero)
ASSUME CheckoutsAssumption ==
    /\ FirstPrices \in PriceLists
    /\ \A l \in PriceLists : UnitPrice(l) \in Nat /\ l.gst_rate \in Nat
    /\ "nobody" \notin Shoppers
    /\ {MaxQuantity, MaxAdded, MaxTouches, MaxOrders, MaxRepricings} \subseteq Nat /\ MaxAdded <= MaxQuantity
    /\ Voucher \in Coupon

VARIABLES
    cart,       \* the CartItem rows of all carts
    rows,       \* how many of them were ever inserted
    touches,    \* how many requests changed a line
    listing,    \* what each product costs now
    repricings,
    orders,     \* the orders placed, each with its items and, if redeemed, its CouponRedemption;
                \* history: how many redemptions (of its buyer: own) there were before it
    request,    \* what each process is doing; history: what it has read was changed (stirred), a
                \* redemption was written when it was past its form (late)
    asked,      \* history: the units each buyer wants of each product
    tangled     \* history: the buyers who had two requests running at once

checkoutVars == <<cart, rows, touches, listing, repricings, orders, request, asked, tangled>>

NoLine == [row |-> 0, shopper |-> "nobody", good |-> "none", quantity |-> 0]

Quiet == [step |-> "idle", shopper |-> "nobody", line |-> NoLine, items |-> {}, auto |-> 0,
          coupon |-> {}, offer |-> 0, subtotal |-> 0, stirred |-> FALSE, late |-> FALSE]

Serving(r, step) == request[r].step = step
LinesOf(s) == {l \in cart : l.shopper = s}

\* the lines of s at today's prices: what an item of an order would say
Priced(s) ==
    {[row |-> l.row, good |-> l.good, quantity |-> l.quantity, unit_price |-> UnitPrice(listing[l.good]),
      gst_rate |-> listing[l.good].gst_rate] : l \in LinesOf(s)}

CheckoutsInit ==
    /\ cart = {}
    /\ rows = 0
    /\ touches = 0
    /\ listing = [g \in Goods |-> FirstPrices]
    /\ repricings = 0
    /\ orders = {}
    /\ request = [r \in Requests |-> Quiet]
    /\ asked = [s \in Shoppers |-> [g \in Goods |-> 0]]
    /\ tangled = {}

\* A request of s begins.
Begins(r, s, work) ==
    /\ Serving(r, "idle")
    /\ request' = [request EXCEPT ![r] = [work EXCEPT !.shopper = s]]
    /\ tangled' = IF \E q \in Requests : request[q].shopper = s THEN tangled \union {s} ELSE tangled

Touch == touches < MaxTouches /\ touches' = touches + 1

\* Request r ends, having changed what the other requests of s have read.
Ends(r, s) ==
    request' = [q \in Requests |->
        IF q = r THEN Quiet ELSE [request[q] EXCEPT !.stirred = @ \/ request[q].shopper = s]]

-----------------------------------------------------------------------------
(* The cart                                                                *)

\* get_or_create looks for the line; two of them are an error, and nothing happens.
add_to_cart(r) ==
    \E s \in Shoppers, g \in Goods, n \in 1..MaxAdded :
        LET found == {l \in LinesOf(s) : l.good = g}
        IN  /\ Cardinality(found) <= 1
            /\ \A l \in found : l.quantity + n <= MaxQuantity
            /\ asked' = [asked EXCEPT ![s][g] = @ + n]
            /\ Begins(r, s, IF found = {}
                            THEN [Quiet EXCEPT !.step = "insert", !.line = [NoLine EXCEPT !.good = g, !.quantity = n]]
                            ELSE [Quiet EXCEPT !.step = "save",
                                               !.line = [(CHOOSE l \in found : TRUE) EXCEPT !.quantity = @ + n]])
            /\ Touch
            /\ UNCHANGED <<cart, rows, listing, repricings, orders>>

\* unique_together does not bind lines without a variant
InsertLine(r) ==
    LET s == request[r].shopper
    IN  /\ Serving(r, "insert")
        /\ rows' = rows + 1
        /\ cart' = cart \union {[request[r].line EXCEPT !.row = rows', !.shopper = s]}
        /\ Ends(r, s)
        /\ UNCHANGED <<touches, listing, repricings, orders, asked, tangled>>

\* A request that will leave n units of the line l.
SetQuantity(r, l, n) ==
    /\ asked' = [asked EXCEPT ![l.shopper][l.good] = @ - l.quantity + n]
    /\ Begins(r, l.shopper, [Quiet EXCEPT !.step = "save", !.line = [l EXCEPT !.quantity = n]])
    /\ Touch
    /\ UNCHANGED <<cart, rows, listing, repricings, orders>>

\* The quantity is set, or with 0 the line goes.
update_cart_item(r) == \E l \in cart, n \in 0..MaxQuantity : SetQuantity(r, l, n)

remove_cart_item(r) == \E l \in cart : SetQuantity(r, l, 0)

\* save inserts the row again when somebody has deleted it
SaveLine(r) ==
    LET line == request[r].line
    IN  /\ Serving(r, "save")
        /\ cart' = {l \in cart : l.row # line.row} \union (IF line.quantity = 0 THEN {} ELSE {line})
        /\ Ends(r, request[r].shopper)
        /\ UNCHANGED <<rows, touches, listing, repricings, orders, asked, tangled>>

-----------------------------------------------------------------------------
(* The checkout                                                            *)

\* A posted checkout reads the lines; the form carries the coupon or none.
checkout(r) ==
    \E s \in Shoppers, c \in {{}, {Voucher}} :
        /\ LinesOf(s) # {}
        /\ Begins(r, s, [Quiet EXCEPT !.step = "promo", !.items = Priced(s), !.coupon = c])
        /\ UNCHANGED <<cart, rows, touches, listing, repricings, orders, asked>>

Continues(r, change) ==
    /\ request' = [request EXCEPT ![r] = change]
    /\ UNCHANGED <<cart, rows, touches, listing, repricings, orders, asked, tangled>>

ReadPromo(r) ==
    LET now == Priced(request[r].shopper)
    IN  /\ Serving(r, "promo")
        /\ Continues(r, [request[r] EXCEPT !.step = "form",
                                           !.auto = auto_promo_discount(TotalItems(now), Subtotal(now))])

Redemptions == {o \in orders : o.redeemed}
RedeemedBy(s) == {o \in Redemptions : o.shopper = s}

\* Mutant of validate_for: both limits are off by one.
ValidForOneMore(s, subtotal) ==
    /\ subtotal >= Voucher.minimum_order_amount
    /\ Within(Cardinality(Redemptions), Voucher.usage_limit + 1, Unset + 1)
    /\ Within(Cardinality(RedeemedBy(s)), Voucher.per_user_limit + 1, 1)

\* Coupon.validate_for (a coupon that is closed or has expired is refused: see Refused)
validate_for(s, subtotal) ==
    /\ subtotal >= Voucher.minimum_order_amount
    /\ Within(Cardinality(Redemptions), Voucher.usage_limit, Unset)
    /\ Within(Cardinality(RedeemedBy(s)), Voucher.per_user_limit, 0)

\* clean_coupon_code (an invalid coupon ends the request: see Refused)
clean_coupon_code(r) ==
    LET s == request[r].shopper
    IN  /\ Serving(r, "form")
        /\ request[r].coupon # {} => validate_for(s, Subtotal(Priced(s)))
        /\ Continues(r, [request[r] EXCEPT !.step = "offer"])

ReadOffer(r) ==
    LET subtotal == Subtotal(Priced(request[r].shopper))
    IN  /\ Serving(r, "offer")
        /\ Continues(r, [request[r] EXCEPT !.step = "place",
                !.offer = IF request[r].coupon = {} THEN 0 ELSE calculate_discount(Voucher, subtotal)])

ReadSubtotal(r) ==
    /\ Serving(r, "place")
    /\ Continues(r, [request[r] EXCEPT !.step = "commit", !.subtotal = Subtotal(Priced(request[r].shopper))])

PastTheForm == {"offer", "place", "commit"}
Redeems(r) == UseCoupon(request[r].coupon, request[r].offer, request[r].auto)

\* Mutant of Emptied: the cart is kept for the next purchase.
EmptiedOfNothing(r) == cart

\* cart.items.all().delete(): every line the cart has by now
Emptied(r) == {l \in cart : l.shopper # request[r].shopper}

PlaceOrder(r) ==
    LET q == request[r]
    IN  /\ Serving(r, "commit")
        /\ Cardinality(orders) < MaxOrders
        /\ orders' = orders \union
               {[number |-> Cardinality(orders), shopper |-> q.shopper, items |-> q.items, subtotal |-> q.subtotal,
                 discount |-> IF Redeems(r) THEN q.offer ELSE q.auto, redeemed |-> Redeems(r),
                 stirred |-> q.stirred, late |-> q.late, before |-> Cardinality(Redemptions),
                 own |-> Cardinality(RedeemedBy(q.shopper))]}
        /\ cart' = Emptied(r)
        /\ request' = [v \in Requests |->
               IF v = r THEN Quiet
               ELSE [request[v] EXCEPT !.stirred = @ \/ request[v].shopper = q.shopper,
                                       !.late = @ \/ (Redeems(r) /\ request[v].step \in PastTheForm)]]
        /\ UNCHANGED <<rows, touches, listing, repricings, asked, tangled>>

\* The request ends and has changed nothing: the form refuses coupon, address or pincode, the
\* transaction finds too little stock, or the worker dies in it (before the form it has read only).
Refused(r) ==
    /\ request[r].step \in {"form", "commit"}
    /\ Continues(r, Quiet)

-----------------------------------------------------------------------------
(* Staff                                                                   *)

Reprice ==
    /\ repricings < MaxRepricings
    /\ repricings' = repricings + 1
    /\ \E g \in Goods : \E l \in PriceLists \ {listing[g]} : listing' = [listing EXCEPT ![g] = l]
    /\ request' = [r \in Requests |-> IF Serving(r, "idle") THEN Quiet ELSE [request[r] EXCEPT !.stirred = TRUE]]
    /\ UNCHANGED <<cart, rows, touches, orders, asked, tangled>>

CheckoutsNext ==
    \/ \E r \in Requests :
        \/ add_to_cart(r) \/ InsertLine(r) \/ update_cart_item(r) \/ remove_cart_item(r) \/ SaveLine(r)
        \/ checkout(r) \/ ReadPromo(r) \/ clean_coupon_code(r) \/ ReadOffer(r) \/ ReadSubtotal(r)
        \/ PlaceOrder(r) \/ Refused(r)
    \/ Reprice

CheckoutsSpec == CheckoutsInit /\ [][CheckoutsNext]_checkoutVars

-----------------------------------------------------------------------------
(* Properties                                                              *)

CartLines == [row : 0..MaxTouches, shopper : {"nobody"} \union Shoppers, good : {"none"} \union Goods,
          quantity : 0..MaxQuantity]
Items == [row : 1..MaxTouches, good : Goods, quantity : 1..MaxQuantity, unit_price : Nat, gst_rate : Nat]

\* The type invariant.
CheckoutsTypeOK ==
    /\ cart \subseteq CartLines /\ rows \in 0..MaxTouches /\ touches \in rows..MaxTouches
    /\ listing \in [Goods -> PriceLists] /\ repricings \in 0..MaxRepricings
    /\ \A o \in orders :
        /\ o.number \in 0..(MaxOrders - 1) /\ o.shopper \in Shoppers /\ o.items \subseteq Items
        /\ o.subtotal \in Nat /\ o.discount \in Nat /\ {o.redeemed, o.stirred, o.late} \subseteq BOOLEAN
        /\ {o.before, o.own} \subseteq Nat
    /\ \A r \in Requests :
        /\ request[r].step \in {"idle", "insert", "save", "promo", "form", "offer", "place", "commit"}
        /\ request[r].line \in CartLines /\ request[r].items \subseteq Items
        /\ request[r].coupon \subseteq {Voucher}
        /\ {request[r].auto, request[r].offer, request[r].subtotal} \subseteq Nat
    /\ asked \in [Shoppers -> [Goods -> Int]] /\ tangled \subseteq Shoppers

\* An order that was placed while its cart and the prices stood still charges what its items
\* cost, takes no more off than that, and no less than the automatic promo.
OrdersChargeTheirItems ==
    \A o \in orders : ~o.stirred =>
        /\ o.subtotal = Subtotal(o.items)
        /\ o.discount <= o.subtotal
        /\ o.discount >= auto_promo_discount(TotalItems(o.items), o.subtotal)

\* "Total redemptions allowed across all buyers" and "Max redemptions per buyer"
\* (cart/models.py:137-142): a redemption beyond either limit is only ever written by a checkout
\* that was past its form when another redemption was written.
CouponLimitsHold ==
    \A o \in Redemptions : ~o.late =>
        Within(o.before, Voucher.usage_limit, Unset) /\ Within(o.own, Voucher.per_user_limit, 0)

UnitsIn(lines, g) == TotalItems({l \in lines : l.good = g})

OrderedBy(s, g) == TotalItems({[row |-> o.number, quantity |-> UnitsIn(o.items, g)] : o \in {p \in orders : p.shopper = s}})

\* Every unit a buyer asked for is in the cart or in one order, never in both or in two, and a
\* product has one line, unless two requests of the buyer overlapped (two tabs that submit the same
\* cart order it twice, two that add a product for the first time leave two lines).
EveryUnitOrderedOnce ==
    \A s \in Shoppers \ tangled :
        (\A r \in Requests : request[r].shopper # s) =>
            \A g \in Goods :
                /\ UnitsIn(LinesOf(s), g) + OrderedBy(s, g) = asked[s][g]
                /\ Cardinality({l \in LinesOf(s) : l.good = g}) <= 1

\* The invoice: the two halves of the tax miss it by one paisa at most; the tax of every item is its
\* rate on the taxable value, to half a paisa; and when the cart stood still, taxable value and tax
\* make up the subtotal (a discount comes off the total alone).
InvoiceAddsUp ==
    \A o \in orders, interstate \in BOOLEAN :
        LET i == InvoiceAmounts(o.items, o.subtotal - o.discount, interstate)
            Off(l) == 10000 * tax_amount(l) - l.gst_rate * taxable_value(l)
        IN  /\ i.cgst_amount + i.sgst_amount + i.igst_amount - i.total_tax \in -1..1
            /\ \A l \in o.items : 2 * Off(l) \in -(10000 + l.gst_rate)..(10000 + l.gst_rate)
            /\ ~o.stirred => i.taxable_amount + i.total_tax = i.total_amount + o.discount
=============================================================================
