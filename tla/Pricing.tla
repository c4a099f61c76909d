------------------------------- MODULE Pricing -------------------------------
(***************************************************************************)
(* What an order costs (catalog/models.py, cart/models.py) and how its     *)
(* invoice splits the tax (fulfillment/services.py).  Amounts are in       *)
(* paise, percentages and tax rates in hundredths of a percent, both of    *)
(* which the code keeps as decimals with two places.                       *)
(***************************************************************************)
EXTENDS Integers, FiniteSetsExt

\* Decimal.quantize of n / d: to the nearest, a tie to the even neighbour
Quantized(n, d) ==
    LET q == n \div d
        r == n % d
    IN  IF 2 * r > d \/ (2 * r = d /\ q % 2 = 1) THEN q + 1 ELSE q

Least(a, b) == IF a <= b THEN a ELSE b

-----------------------------------------------------------------------------
(* Prices                                                                  *)

Unset == -1  \* None, in a price that may be left blank

\* Product.display_price; a discount price of zero counts as none
ProductPrice(p) == (IF p.discount_price > 0 THEN p.discount_price ELSE p.price) + p.fees

Inherited(own, base) == IF own = Unset THEN base ELSE own

\* ProductVariant.display_price
VariantPrice(v, p) ==
    ProductPrice([price |-> Inherited(v.price, p.price),
                  discount_price |-> Inherited(v.discount_price, p.discount_price), fees |-> p.fees])

\* CartItem.unit_price; a listing is a product and its variants that a buyer may pick
UnitPrice(listing) ==
    IF listing.variant = {} THEN ProductPrice(listing.product)
    ELSE VariantPrice(CHOOSE v \in listing.variant : TRUE, listing.product)

\* a set of lines, each with a unit price and a quantity: Cart.subtotal
LineTotal(line) == line.unit_price * line.quantity
Subtotal(lines) == MapThenSumSet(LineTotal, lines)
TotalItems(lines) == MapThenSumSet(LAMBDA line : line.quantity, lines)

-----------------------------------------------------------------------------
(* Listings                                                                *)

\* Product.discount_percent: what the badge says
discount_percent(p) ==
    IF p.discount_price > 0 /\ p.price > 0 THEN ((p.price - p.discount_price) * 100) \div p.price ELSE 0

\* Product.full_price: what is struck through
full_price(p) == p.price + p.fees

\* the annotation by which listings filter and sort
EffectivePrice(p) == Inherited(p.discount_price, p.price) + p.fees

\* _apply_sort_and_filters, as far as which products remain (Unset: a limit that is not given, or
\* not a number)
Listed(products, least, most, inStockOnly) ==
    {p \in products :
        /\ least # Unset => EffectivePrice(p) >= least
        /\ most # Unset => EffectivePrice(p) <= most
        /\ inStockOnly => p.stock_count > p.reserved_count}

-----------------------------------------------------------------------------
(* Discounts                                                               *)

AUTO_PROMO_MIN_ITEMS == 2
AUTO_PROMO_PERCENT == 1000
AUTO_PROMO_MAX_DISCOUNT == 5000

auto_promo_discount(items, subtotal) ==
    IF items < AUTO_PROMO_MIN_ITEMS THEN 0
    ELSE Least(Quantized(subtotal * AUTO_PROMO_PERCENT, 10000), AUTO_PROMO_MAX_DISCOUNT)

\* Mutant of calculate_discount: the coupon's value as it stands.
CalculateUncapped(c, subtotal) ==
    IF c.percent THEN Quantized(subtotal * c.value, 10000) ELSE c.value

\* (a coupon without a cap has Unset for one)
calculate_discount(c, subtotal) ==
    LET share == Quantized(subtotal * c.value, 10000)
    IN  Least(subtotal, IF ~c.percent THEN c.value
                        ELSE IF c.cap = Unset THEN share ELSE Least(share, c.cap))

\* a coupon is used when it is worth as much as the promo
UseCoupon(coupons, discount, auto) == coupons # {} /\ discount >= auto /\ discount > 0

-----------------------------------------------------------------------------
(* Tax                                                                     *)

\* Mutant of tax_amount: the price without the tax is taken for the price.
TaxOnTop(line) == Quantized(LineTotal(line) * line.gst_rate, 10000)

\* OrderItem.tax_amount: the part of a tax-inclusive amount that is tax
tax_amount(line) == Quantized(LineTotal(line) * line.gst_rate, 10000 + line.gst_rate)

taxable_value(line) == LineTotal(line) - tax_amount(line)

\* CGST, and SGST again
Half(tax) == Quantized(tax, 2)

\* the amounts of generate_invoice
InvoiceAmounts(lines, total, interstate) ==
    LET tax == MapThenSumSet(tax_amount, lines)
    IN  [taxable_amount |-> MapThenSumSet(taxable_value, lines),
         cgst_amount    |-> IF interstate THEN 0 ELSE Half(tax),
         sgst_amount    |-> IF interstate THEN 0 ELSE Half(tax),
         igst_amount    |-> IF interstate THEN tax ELSE 0,
         total_tax      |-> tax,
         total_amount   |-> total]
=============================================================================
