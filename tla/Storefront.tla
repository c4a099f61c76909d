------------------------------ MODULE Storefront ------------------------------
(***************************************************************************)
(* The pages that list products, and what a buyer does on them: reviews    *)
(* and the wishlist (catalog/views.py, search.py, cart/views.py).  Nothing *)
(* is locked: a request looks for a row and then writes one, and what      *)
(* keeps two requests apart are the unique constraints of the two tables.  *)
(***************************************************************************)
EXTENDS Pricing, FiniteSets

CONSTANTS
    Customers,      \* the buyers
    Browsers,       \* the processes that serve them
    Catalogue,      \* the products: records with an id, their taxonomy, the words of their text, a sku
                    \* and what Pricing reads of a listing
    Similar,        \* pairs of a query and a product's id that are close enough for a typo
    MaxClicks       \* bound: forms posted

ASSUME StorefrontAssumption == MaxClicks \in Nat

VARIABLES
    active,     \* the products that are shown: Product.is_active
    bought,     \* the orders in a paid status: <<buyer, product>>
    everBought, \* history: all there ever were
    reviews,    \* the Review rows: <<buyer, product>>, each with its number
    wishes,     \* the WishlistItem rows, likewise
    browser,    \* what each process is doing
    clicks,     \* history: the clicks on the heart of each product by each buyer that were answered
    rowsMade,   \* how many rows were ever inserted
    posted,     \* how many forms were posted
    jumbled     \* history: the buyers who had two requests running at once

storeVars == <<active, bought, everBought, reviews, wishes, browser, clicks, rowsMade, posted, jumbled>>

Ids == {p.id : p \in Catalogue}
Pairs == Customers \X Ids

Asleep == [step |-> "idle", who |-> {}, row |-> 0]

StorefrontInit ==
    /\ active = Ids
    /\ bought = {} /\ everBought = {}
    /\ reviews = {} /\ wishes = {}
    /\ browser = [r \in Browsers |-> Asleep]
    /\ clicks = [x \in Pairs |-> 0]
    /\ rowsMade = 0
    /\ posted = 0
    /\ jumbled = {}

-----------------------------------------------------------------------------
(* Listings                                                                *)

\* the text, a misspelt title, the sku, or the name of the product's place in the taxonomy
search_products(products, query) ==
    {p \in products :
        \/ query \in p.words
        \/ <<query, p.id>> \in Similar
        \/ query \in p.skus
        \/ query \in {p.subcategory, p.category, p.department}}

Found(products, queries) == {p \in products : \A q \in queries : p \in search_products(products, q)}

\* (queries: the one that was typed, or none; f: the price range and the tick of "in stock only")
Page(products, queries, f) == Listed(Found(products, queries), f.least, f.most, f.inStockOnly)

product_list(queries, f) == Page({p \in Catalogue : p.id \in active}, queries, f)

department_detail(d, queries, f) ==
    Page({p \in Catalogue : p.id \in active /\ p.department = d}, queries, f)

category_detail(d, c, queries, f) ==
    Page({p \in Catalogue : p.id \in active /\ p.department = d /\ p.category = c}, queries, f)

subcategory_detail(d, c, s, queries, f) ==
    Page({p \in Catalogue : p.id \in active /\ p.department = d /\ p.category = c /\ p.subcategory = s}, queries, f)

-----------------------------------------------------------------------------
(* Reviews                                                                 *)

\* A form is posted for a product that is shown.
Posts(r, step) ==
    /\ browser[r] = Asleep
    /\ posted < MaxClicks
    /\ posted' = posted + 1
    /\ \E x \in Pairs :
        /\ x[2] \in active
        /\ browser' = [browser EXCEPT ![r] = [Asleep EXCEPT !.step = step, !.who = {x}]]
        /\ jumbled' = IF \E q \in Browsers : \E y \in browser[q].who : y[1] = x[1] THEN jumbled \union {x[1]} ELSE jumbled
    /\ UNCHANGED <<active, bought, everBought, reviews, wishes, clicks, rowsMade>>

RowsOf(table, x) == {row \in table : row.who = x}

Goes(r, step) == browser' = [browser EXCEPT ![r] = IF step = "idle" THEN Asleep ELSE [@ EXCEPT !.step = step]]

submit_review(r) == Posts(r, "before")

\* "You've already reviewed this product."
ReviewedBefore(r) ==
    \E x \in browser[r].who :
        /\ browser[r].step = "before"
        /\ Goes(r, IF RowsOf(reviews, x) = {} THEN "purchased" ELSE "idle")
        /\ UNCHANGED <<active, bought, everBought, reviews, wishes, clicks, rowsMade, posted, jumbled>>

\* (a form that is not valid ends here as well)
_has_purchased(r) ==
    \E x \in browser[r].who :
        /\ browser[r].step = "purchased"
        /\ x \notin bought => browser' = [browser EXCEPT ![r] = Asleep]
        /\ x \in bought => Goes(r, "save") \/ Goes(r, "idle")
        /\ UNCHANGED <<active, bought, everBought, reviews, wishes, clicks, rowsMade, posted, jumbled>>

\* Mutant of Unique: the constraint is gone.
UniqueNever(table, x) == TRUE

\* unique_together of both tables
Unique(table, x) == RowsOf(table, x) = {}

\* A row that is not unique is an IntegrityError and a page that fails.
SaveReview(r) ==
    \E x \in browser[r].who :
        /\ browser[r].step = "save"
        /\ reviews' = IF Unique(reviews, x) THEN reviews \union {[row |-> rowsMade + 1, who |-> x]} ELSE reviews
        /\ rowsMade' = rowsMade + 1
        /\ Goes(r, "idle")
        /\ UNCHANGED <<active, bought, everBought, wishes, clicks, posted, jumbled>>

-----------------------------------------------------------------------------
(* The wishlist                                                            *)

\* get_or_create looks ...
toggle_wishlist(r) == Posts(r, "get")

GetWish(r) ==
    \E x \in browser[r].who :
        /\ browser[r].step = "get"
        /\ \/ RowsOf(wishes, x) = {} /\ Goes(r, "create")
           \/ \E w \in RowsOf(wishes, x) :
                browser' = [browser EXCEPT ![r].step = "delete", ![r].row = w.row]
        /\ UNCHANGED <<active, bought, everBought, reviews, wishes, clicks, rowsMade, posted, jumbled>>

\* ... and creates, or looks again when somebody else has created the row meanwhile.
CreateWish(r) ==
    \E x \in browser[r].who :
        /\ browser[r].step = "create"
        /\ IF Unique(wishes, x)
           THEN /\ wishes' = wishes \union {[row |-> rowsMade + 1, who |-> x]}
                /\ clicks' = [clicks EXCEPT ![x] = @ + 1]
                /\ Goes(r, "idle")
           ELSE Goes(r, "get") /\ UNCHANGED <<wishes, clicks>>
        /\ rowsMade' = rowsMade + 1
        /\ UNCHANGED <<active, bought, everBought, reviews, posted, jumbled>>

\* The row that was found is deleted, when it is still there.
DeleteWish(r) ==
    \E x \in browser[r].who :
        /\ browser[r].step = "delete"
        /\ wishes' = {w \in wishes : w.row # browser[r].row}
        /\ clicks' = [clicks EXCEPT ![x] = @ + 1]
        /\ Goes(r, "idle")
        /\ UNCHANGED <<active, bought, everBought, reviews, rowsMade, posted, jumbled>>

-----------------------------------------------------------------------------

\* An order of the product is paid for; it is cancelled or refunded.
OrderPaid ==
    /\ \E x \in Pairs : bought' = bought \union {x} /\ everBought' = everBought \union {x}
    /\ UNCHANGED <<active, reviews, wishes, browser, clicks, rowsMade, posted, jumbled>>

OrderReversed ==
    /\ \E x \in bought : bought' = bought \ {x}
    /\ UNCHANGED <<active, everBought, reviews, wishes, browser, clicks, rowsMade, posted, jumbled>>

ShowOrHide ==
    /\ \E p \in Ids : active' = IF p \in active THEN active \ {p} ELSE active \union {p}
    /\ UNCHANGED <<bought, everBought, reviews, wishes, browser, clicks, rowsMade, posted, jumbled>>

StorefrontNext ==
    \/ \E r \in Browsers :
        \/ submit_review(r) \/ ReviewedBefore(r) \/ _has_purchased(r) \/ SaveReview(r)
        \/ toggle_wishlist(r) \/ GetWish(r) \/ CreateWish(r) \/ DeleteWish(r)
    \/ OrderPaid \/ OrderReversed \/ ShowOrHide

StorefrontSpec == StorefrontInit /\ [][StorefrontNext]_storeVars

-----------------------------------------------------------------------------
(* Properties                                                              *)

\* The type invariant.
StorefrontTypeOK ==
    LET Rows == [row : Nat \ {0}, who : Pairs]
    IN  /\ active \subseteq Ids /\ bought \subseteq everBought /\ everBought \subseteq Pairs
        /\ reviews \subseteq Rows /\ wishes \subseteq Rows
        /\ browser \in [Browsers -> [step : {"idle", "before", "purchased", "save", "get", "create", "delete"},
                                     who : SUBSET Pairs, row : Nat]]
        /\ clicks \in [Pairs -> Nat] /\ rowsMade \in Nat /\ posted \in 0..MaxClicks /\ jumbled \subseteq Customers

\* However requests overlap, a buyer has one review of a product at most and has paid for it at some
\* time, and one wish for it at most; and when the buyer's clicks did not overlap, the product is
\* on the wishlist exactly after an odd number of them.
OneReviewOneWish ==
    \A x \in Pairs :
        /\ Cardinality(RowsOf(reviews, x)) <= 1
        /\ RowsOf(reviews, x) # {} => x \in everBought
        /\ Cardinality(RowsOf(wishes, x)) <= 1
        /\ x[1] \notin jumbled => (RowsOf(wishes, x) # {} <=> clicks[x] % 2 = 1)
=============================================================================
