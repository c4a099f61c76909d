---------------------------- MODULE MCBackOffice ----------------------------
(***************************************************************************)
(* BackOffice for TLC: two prices whose discounts and taxes need rounding, *)
(* a flat coupon worth more than one unit of the cheaper one, a carrier    *)
(* that skips stations, and two sessions whose orders can deadlock.        *)
(***************************************************************************)
EXTENDS BackOffice, TLC

CONSTANTS a1, a2, mug, lamp, o1, o2

Cheap ==
    [product  |-> [price |-> 15025, discount_price |-> 0, fees |-> 0],
     variant  |-> {},
     gst_rate |-> 500]

Bundled ==
    [product  |-> [price |-> 60000, discount_price |-> 30000, fees |-> 4999],
     variant  |-> {[price |-> Unset, discount_price |-> Unset]},
     gst_rate |-> 1800]

MCPriceLists == {Cheap, Bundled}

MCVoucher ==
    [percent |-> FALSE, value |-> 20000, cap |-> Unset, minimum_order_amount |-> 15000,
     usage_limit |-> 1, per_user_limit |-> 1]

\* one word that the map does not know, and two that it reads differently from how they sound
MCWords == {"manifested", "picked up", "pending", "lost in hub", "delivered"}
MCRoute == {<<"manifested", "picked up">>, <<"manifested", "pending">>, <<"picked up", "lost in hub">>,
            <<"lost in hub", "delivered">>, <<"pending", "delivered">>}

\* staff type a status and a day of delivery, and leave the carrier's number empty
MCTyped == {[status |-> "in_transit", waybill |-> FALSE, shippedAt |-> FALSE, deliveredAt |-> TRUE]}

\* Prices of a few paise: the sums of the report, over one common denominator, stay below 2^31.
Line(a, u, q, g) == [article |-> a, unit_price |-> u, quantity |-> q, gst_rate |-> g]
MCBaskets == {{Line(a1, 35, 1, 500), Line(a2, 70, 1, 1800)}, {Line(a2, 81, 2, 1800)}}
MCGatewayFee == <<1, 40>>

\* one product: requests for different ones touch different rows
MCCatalogue ==
    {[id |-> "poster", department |-> "art", category |-> "prints", subcategory |-> "posters",
      words |-> {"sunset"}, skus |-> {"P1"}, price |-> 100, discount_price |-> Unset, fees |-> 0,
      stock_count |-> 1, reserved_count |-> 0]}

\* Two orders name two skus in opposite orders.
TwoLines == (o1 :> (mug :> 1 @@ lamp :> 1)) @@ (o2 :> (mug :> 1 @@ lamp :> 2))
OppositeItems == (o1 :> <<mug, lamp>>) @@ (o2 :> <<lamp, mug>>)
Shelf == (mug :> 1) @@ (lamp :> 2)
OneLost == {-1}
=============================================================================
