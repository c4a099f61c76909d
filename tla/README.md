# Verification project for shop-orbit

shop-orbit is a Django shop: a buyer fills a cart, checks out (which holds the
stock), pays through Razorpay, and staff pack, ship, take returns and order
supplies. Web workers (Gunicorn), Celery tasks and the gateway's webhooks all write
the same rows, mostly from copies and without locks. This directory models the shop
in TLA+, checks it with TLC and proves its main safety properties with TLAPS. Paths
below are relative to the repository's root.

## 1. Inventory

| component | state | operations | talks to |
|---|---|---|---|
| Stock (`inventory/services.py`, counters in `catalog/models.py`) | `stock_count`, `reserved_count` per product or variant; the append-only `StockMovement` ledger | `reserve_stock`, `release_reservation`, `convert_reservation_to_sale`, `restore_stock_for_cancellation`, `record_restock`, `restock_from_return`, `record_adjustment` | called by checkout, cancellation, sweeps, payment pipeline, returns, purchase orders, admin |
| Order lifecycle (`cart/views.py`, `cart/services.py`, `cart/signals.py`, `cart/tasks.py`, `inventory/tasks.py`) | `Order.status`, `created_at`, items, `OrderStatusHistory` | checkout, `checkout_payment`, `payment_retry`, `cancel_order`, `accept_order`, `mark_order_packed`, the two sweeps | stock, payments; status is also written by the pipeline and the shipment signal |
| Payments (`payments/services.py`, `views.py`, `models.py`, `admin.py`, `gateways/`) | `Payment`, `PaymentEvent`, `Refund`, `WebhookEvent` rows | `create_payment_for_order`, `verify_client_callback`, `process_webhook`, `reconcile_payment`, `initiate_refund` | Razorpay (HTTP, webhooks); the pipeline through `transaction.on_commit` |
| Pipeline (`payments/pipeline.py`) | none of its own | `on_payment_captured`, `on_payment_failed`, `on_refund_processed`, `on_refund_failed` | order, stock, fulfillment, returns, email |
| Fulfillment (`fulfillment/`) | `Invoice`, `InvoiceNumberSequence`, `PackingSlip`, `Shipment` and its trail | the three papers, waybill, tracking sync, the shipment pages, the signal that copies shipment progress into the order | order; Delhivery (HTTP) |
| Returns (`returns/`) | `ReturnRequest`, its lines and shipment | request, approve, reject, receive, refund, cancel, tracking | stock, payments |
| Purchase orders (`inventory/services.py`, `models.py`, `admin.py`) | `PurchaseOrder`, lines, number sequence | create from low stock, order, receive | stock |
| Carts, coupons, prices, taxes (`cart/`, `catalog/models.py`) | `CartItem`, `Coupon`, `CouponRedemption`, frozen prices | the cart's pages, coupon form, checkout, discount and GST arithmetic | stock, invoice |
| Address book (`accounts/services.py`, `views.py`) | `Address.is_default` | create, update, set default, delete | checkout |
| Email (`common/`, the `emails.py` of every app) | the Celery queue | `send_templated_email`, `send_email_task`, alerts, staff letters | everything that changes a status |
| Catalogue (`catalog/views.py`, `search.py`, `signals.py`) | `Review`, `WishlistItem`, `StockAlert` | listings, reviews, wishes, back-in-stock alerts | stock, orders |
| Reports (`catalog/profitability.py`, `catalog/admin.py`, `accounts/views.py`) | none | dashboard, profitability report, stock report | reads orders, payments, products |
| The rest | pages, picture weight tool, accounts, deployment | content and rendering, Django's own machinery | - |

**Hard behaviours.** Three callers (browser, webhook, admin) apply the same
payment without a common lock; webhooks are late, repeated and reordered; the
pipeline runs after the commit and can be lost; sweeps work through stale lists;
`payment_retry`, refunds, returns, receipts and shipment saves load, check and save
whole rows without a lock; a checkout reads its cart six times; row locks are taken in
an order the buyer chooses; counters are clamped while a ledger must follow; letters
are retried and redelivered. `PROJECT.json` lists these hazards at their lines.

**What correct means.** Stock: the ledger sums to the counters, and no sequence of
service calls oversells. Orders: nothing unpaid is shipped, nothing is sold twice
or restored unsold, unpaid orders close, the trail of statuses is complete, the buyer is
told of each status once. Payments: only the gateway's word
confirms an order, a webhook answered with success has been recorded, captured
money gets recorded. Refunds: each result is counted once, no more is promised than was
paid. Returns: no unit is claimed or put back twice. Fulfillment: no number used twice,
the order follows its parcel. Purchase orders: a line claims what arrived. Carts: an
order charges what its items cost, every unit is ordered once, coupon limits hold.
Address book: one default. Reports: totals agree with the rows they are made of.

Most of these cannot hold without a condition, because the code takes no lock. Such a
property carries its condition as a history variable (`stale`, `crossed`, `jostled`,
`tangled`, `mingled`, `met`, `hurried`, `late`, ...) that is set by exactly the overlap
that the missing lock allows. So the property says two things: what
the sequential code guarantees over long histories, and which overlap breaks it. Repeated
events, refusals and late steps do not. A process that dies between two commits does in
some: `OrderFollowsShipment`, `TrailsAreChains`, `AlertsAnsweredOnce` (its exact
count) and `BuyerToldOnce` also assume that nobody died at work, `LeftWaitingOnlyByAFault`
that no call was lost, `NumbersAddUp` counts the numbers a dead writer burned
(`wasted`), and `ReturnTypeOK` the approvals a dead clerk left without a shipment (`dropped`).
The overlaps so excluded are not thereby covered: overlapping retries and lost invoice numbers are
findings (section 3), the others are hazards of `PROJECT.json` that the code does not withstand.

## 2. Modules

```
StockLedger  <--implements--  StockTransactions     (row by row, lock by lock)
    ^ EXTENDS, implements
OrderLifecycle                                      (every writer of Order.status)
    ^ EXTENDS, implements
PaymentFlow                                         (payments/services.py, step by step)

RefundLedger  <--implements--  Refunds              (refunds of one payment)
                                  ^ EXTENDS
                               Returns              (return requests, refunds inside)

Pricing <- Checkouts, Reports, Storefront
BackOffice = Checkouts | AddressBook | StockAlerts | PurchaseOrders | DocumentNumbers |
             Shipments | Reports | Notices | Emails | Storefront | StockTransactions
```

* **StockLedger** - the stock services, each one action: `stock`, `reserved`,
  `ledger` (sums of the two delta columns), and two history counters `sold` and
  `restored` (batches of SOLD and RESTORED movements per order). A sku is a
  product without variants or a variant: the two branches of each loop differ
  only in the table. It is the abstract specification of the stock: any order of
  calls, whatever the callers do.
* **StockTransactions** - the same functions as PostgreSQL runs them: one row
  lock per line in item order, writes visible at the commit, `InsufficientStockError`
  rolling everything back, sessions that break, deadlocks and the detector that
  ends them. It is checked to implement StockLedger, which is what allows the
  other modules to treat a service as one action. The locks are external, taken
  from how `select_for_update` and `transaction.atomic` are used. An order that
  names a sku on two lines behaves as one line with the sum (each clamp is
  applied to what the line before left), so `Lines[o][s]` is that sum. It is checked as one of the
  parts of BackOffice.
* **OrderLifecycle** - everything that writes `Order.status` through a service or
  a signal. A transaction that locks the order is one action; `payment_retry` is
  three steps (`RetryRead`, `RetryReserve`, `RetrySave`), the stale sweep a query
  and a visit per order, the papers separate steps after the confirming commit.
  Payments, refunds and shipment saves come from outside at any time their
  callers could make them: this is the abstract specification of what payments
  and parcels may do to an order.
* **PaymentFlow** - `Payment` rows, the gateway's own records, one webhook event
  per gateway move with its `WebhookEvent` state, and workers that are each at one
  point of a call: copy of the row, fetch, apply, pipeline, papers, answer. A call
  can be lost at every point. It re-uses the checkout, sweep, cancel and retry
  actions of OrderLifecycle and is checked and proved to implement it. The
  gateway and the buyer are external.
* **RefundLedger** - what the refunds of one payment promise: one result per refund, no
  refund counted twice or without having gone through. It does not promise that an amount
  once counted stays counted, which the code does not keep (whole rows are saved from
  unlocked copies).
* **Refunds** - `initiate_refund` and `reconcile_payment` from the staff pages, refund
  webhooks and returns, and what follows the commit, as calls of up to six steps that hold
  a copy of the Payment row. `payment.counted[r]` says how often `refunded_amount`
  contains refund r. The gateway settles a refund at once or later, and reports it by a
  notice that is repeated until it is answered with success. Implements RefundLedger.
* **Returns** - EXTENDS Refunds with the services of `returns/services.py`. `Check` is the
  load and the test of a service, the action of its name the writes: the two overlap with
  those of other clerks, because nothing is locked. `approve_return` is two actions, as it is two commits: the
  status, then the shipment (`CreateReturnShipment`). A clerk can die at any step (`ClerkDies`), which
  leaves an approved return in `dropped` if it was between these two. The refund a return starts is a call of
  Refunds that comes back to write `REFUND_INITIATED`.
* **Pricing** - operators over paise: prices of products and variants, the automatic
  promo, coupons, GST with the rounding of `Decimal.quantize` (ties to even), the invoice's
  amounts.
* **Checkouts** - carts in several tabs and the checkout, read by read, against staff who
  change prices and a coupon with limits.
* **AddressBook** - the five services, each a transaction whose statements lock rows and
  wait for rows, on copies the views loaded before.
* **StockAlerts**, **Emails**, **Notices** - who is told what: back-in-stock alerts; the queue,
  retries and redelivery of a letter; the status trail of an order and the letters of
  every writer of its status.
* **PurchaseOrders** - the order made of a supplier's low stock, ordering, receiving line
  by line under overlapping transactions, a stale form, and what the stock report says.
* **DocumentNumbers** - invoice numbers (committed before the invoice) and purchase order
  numbers (taken inside the transaction), with financial years and lost writers.
* **Shipments** - the shipment of one order: waybill, tracking task, buttons, form,
  and the signals of every save step by step. The form posts the whole row: status, carrier's number, dates. A second manifest of one order is taken for
  the same parcel. `purchase` is Order.status as far as parcels see it.
* **Reports** - dashboard, orders tab and profitability report over orders in every payment status;
  quotients are exact, with one common denominator, and rounded where the code rounds.
* **Storefront** - listings with search, filters and price range; reviews and wishes as a
  look and a write kept apart by unique constraints only.
* **BackOffice** - the eleven parts side by side. They share no variable and none of their
  properties speaks of two, so every behaviour of the whole, seen from one part, is one of that part
  alone, with stuttering. That is why TLC may move one part per behaviour
  (`part`), which adds their state spaces instead of multiplying them. Where parts do share
  state in the program, the module that owns the
  state has the other's writes as actions of its own: Shipments moves `Order.status`, and
  OrderLifecycle has `SyncOrderStatus`; receipts move stock, and StockLedger
  has `record_restock`.
* **MC modules** - finite values for TLC. **...Proofs** - the theorems.

Operators whose comment begins "Mutant of X" are deliberate
bugs; they belong to no specification and only show that a property can fail.

Correspondence of the less obvious variables: `age` is `created_at` compared with
the two cutoffs (`RESERVATION_TIMEOUT_MINUTES`, `ORDER_CANCEL_TIMEOUT_HOURS`) and
only grows, since no code renews `created_at`; `captured` says that some Payment row
of the order was saved as CAPTURED; `pipeline` holds the `on_payment_captured` calls
past their commit; `sweep` is the result of the stale sweep's query; `hook[e]` is
"sent" before the delivery is recorded, "recorded" while `processed_at` is empty,
"answered" once it is set; `payment[a].pay` is the number of the gateway payment in
`gateway_payment_id`.

`RowLocks` is the database. Where it has row locks (PostgreSQL), `_find_payment`'s
`select_for_update` raises in autocommit mode, so a webhook is recorded and then
fails. On SQLite, the default of `config/settings/base.py`, the clause is ignored.
The passing runs of PaymentFlow take `RowLocks = FALSE`, which has the richer behaviour
(webhooks do something); the run `webhook_row_locks` shows what the other value does, and the
theorems hold for both. Refunds has the behaviour without row locks as well.

## 3. Runs

| run | question | bounds | size |
|---|---|---|---|
| `order_lifecycle` | the stock and status invariants under every writer, and that no old list or late failure undoes a payment | 2 orders for 1 unit, 1 retry, a lost and a delivered unit | 501,000 states |
| `payment_flow` | the races of browser, webhook and admin, and the refinement | 1 order, 1 attempt, 1 payment, 2 workers, 1 retry, 1 lost call | 392,000 states |
| `payment_delivery` | liveness of capture recording and order closing | 1 order, 2 attempts, 1 worker, 1 retry, 1 lost call | 351,000 states |
| `refunds` | are refunds counted once, within what was paid, and do results arrive? | payment of 2, 2 refunds of 1 or 2, 2 workers, 1 lost call | 285,000 states |
| `returns` | is nothing returned twice, and do refunded returns stay so? | 1 unit, 2 requests of 1 or 2, 2 clerks, 1 refund, 1 approval broken off | 1,282,000 states |
| `back_office` | the properties of the eleven parts | see below | 261,000 states |
| `cancel_failed_order` | finding: the hold of another checkout is released | 2 orders, 2 units | violated |
| `retried_twice` | finding: an order is sold twice | 1 order, 2 units, 2 overlapping retries | violated |
| `invoice_gap` | finding: an invoice number is lost | 2 orders, 2 writers, 1 of which may die | violated |
| `stale_sweep` | finding: a paid order is swept | 1 order | violated |
| `webhook_row_locks` | finding: a capture is never recorded on PostgreSQL | 1 order, 1 worker, no faults | violated |
| `late_failure` | finding: a captured payment is overwritten | 1 order, 2 payments in one window | violated |

**Bounds.** `StockCap` and every constant named `Max...` only keep the state space
finite. Two orders
and one unit are the smallest race for stock; quantity one is enough because the
clamps compare with zero, and quantity two occurs among the stock sessions of `back_office`. Two workers are the
smallest race of two callers, one attempt suffices for them to meet on a row;
the second attempt (a payment page opened again after a failure) matters to
delivery and is in `payment_delivery`. One retry occurs in `order_lifecycle`,
`payment_flow` and `payment_delivery`; two overlapping retries are the finding `retried_twice`, so
`SoldAtMostOnce` is checked with one retry and proved under the exact condition
that no two overlap (section 4). Two refunds of a payment of two make a full, two partial and
one excessive refund; two requests can claim the one unit of the
order twice, and one of two units is too large.

In `back_office` a part with a race has two processes; the exception is Shipments, where
one page and one task race. Stock: two sessions and two orders that name two skus in opposite orders are the
smallest deadlock; the third call lets a call begin against what two have left. Checkouts: one product, units added one at a time, two prices, one
coupon that may be used once, two orders. Address book: three addresses, four requests.
Alerts: two visitors, three saves. Purchase order: two products, two pages, thresholds 0
and 1. Numbers: two orders, two suppliers, two years. Reports: two sales from two
baskets whose taxes need rounding, two days. Letters: two, with the three retries of
the code. One worker of every part may be lost.

`CHECK_DEADLOCK FALSE` everywhere: with bounded
calls and everything closed, a shop with no more buyers rightly stops.
Symmetry is used only in runs without liveness.

**Fairness.** Weak fairness of the sweeps' queries and visits, and of time:
Celery beat schedules both (`config/settings/base.py` 339-353). Weak fairness of a worker that is inside a
call: it is a running request. Strong fairness of delivering a capture's event or a refund's result: the
gateway redelivers until it gets a success, and a delivery can find all workers
busy. Weak fairness of a refund settling at the gateway. Weak fairness of stock sessions and of the
deadlock detector. Strong fairness of starting the tracking task (the beat runs it again and again)
and of the carrier's API answering one of its questions; weak fairness of the task's own save. Weak fairness of
the mail workers together (not of each), while the mail server may refuse every letter. No fairness for buyers, staff,
retries, the gateway's captures, failures of a payment, parcels, or faults.

### Findings

1. `payments/services.py:195` - `select_for_update` outside a transaction: on
   PostgreSQL every payment webhook fails (`webhook_row_locks`), while
   `docs/payments.md:88-91` makes the webhook the authoritative confirmation.
2. `cart/services.py:40` - cancelling a PAYMENT_FAILED order releases a hold it no
   longer has, out of another checkout's (`cancel_failed_order`), against
   `inventory/services.py:27-28`. The property holds when the release is skipped
   for such orders.
3. `cart/views.py:343-350` - overlapping `payment_retry` requests sell an order twice
   (`retried_twice`), against `docs/payments.md:131-132`. Both requests find the order
   PAYMENT_FAILED and reserve, which takes stock for both (two units in the run, nothing cancelled or
   restocked); the second saves AWAITING_PAYMENT after the first one's payment was confirmed. PaymentFlow
   reaches it too, with two attempts and two payments.
4. `cart/tasks.py:42` - the sweep cancels an order paid after its query
   (`stale_sweep`), against the comment at `cart/tasks.py:48`.
5. `payments/services.py:202` - a late failure event overwrites a captured payment
   (`late_failure`), against the comment at `payments/models.py:48-50`.
6. `fulfillment/services.py:64` - an invoice's number is committed before the invoice
   (`invoice_gap`): a crash in between loses it, against "gapless sequential invoice numbers"
   (`fulfillment/models.py:18-19`). The loser of two calls for one order loses one too, and fails with
   IntegrityError, against the docstring at `fulfillment/services.py:41-44`; this race needs two pipelines of
   one order, which finding 3 can bring about. What does hold is `NumbersAddUp`: no number is used
   twice, and every missing one was burned in one of these two ways.

## 4. Proofs

Every safety property that a passing run checks is also a theorem, for every value of the
constants under the assumptions that the modules state: bounds and amounts are natural numbers, a
delivery and a line have a quantity of one at least, the sets that are summed over (refunds, requests,
baskets) are finite, prices and tax rates are not negative (the validators of the product's fields, and
a cart line copies them), one click adds no more than a line may hold, and what a shipment form can
type is a shipment status.

| module | about |
|---|---|
| `StockLedgerProofs`, `OrderLifecycleProofs` | the stock services and the orders that call them |
| `StockTransactionsProofs` | the services row by row implement StockLedger |
| `PaymentFlowProofs` | the payment code implements the order lifecycle, and what it answers and confirms |
| `RefundsProofs` | refunds of one payment, and the return requests around them |
| `FiniteSums` | what folds over finite sets obey |
| `CustomersProofs` | address book, reviews and wishes, alerts, listings, carts and checkouts, the reports |
| `BackOfficeProofs` | numbers, purchase orders, shipments, letters, notices, and the eleven parts together |

**Stock and orders.**

* `StockLedgerCorrect`: counters natural and equal to the ledger's sums. The
  conjunction is inductive: each clamp's delta is worked out in a lemma of its own.
  `NoOversellByServices`: a step that over-reserves is an adjustment.
* `TransactionsImplementTheLedger`: `TxSpec => ImplementsStockLedger`. What a session is about to
  commit must be what the atomic service would write, although others commit meanwhile. `TxInv` says
  why: the locks a session holds are exactly the skus of the lines it has passed (`LocksFollowTheLines`,
  also the type invariant), its written rows are fresh for exactly those skus, and a reservation that has
  passed its check still finds the units it saw. `CommittedRowsAddUp` follows.
* `LifecycleImplementsStockLedger`: every order step is a stock service or leaves the
  stock alone; `LifecycleLedgerSums` and `LifecycleNeverOversells` follow.
* `TypeCorrect`, and `PaidBeforeShipped` by the invariant `PaidInv`: a paid status, a
  paper or a pipeline entry of an order implies a recorded capture. It is needed because the
  shipment signal looks only at the shipment, which the pipeline made.
* `NothingRestoredUnsold`: `RestoredOnlySold` is inductive with the types, since an
  order gets into a cancellable paid status only from a sale and leaves it by its restore.
* `SoldOnceUnlessRetriesOverlap`: if two retries of an order are never between their
  read and their save together, an order is sold at most once. The invariant
  `SoldInv` ties each status, and each retry in that section, to the number of
  sales so far. `SoldOnceWithOneWorker` is the case of one retrier.
* `PaidStaysPaid`: no expiry sweep with an old list and no late failure takes an order out of a paid stage
  to one that waits, failed or expired; only the unlocked save of a retry can.

**Payments.**

* `PaymentsImplementLifecycle`: `FlowSpec => Spec`, with `FlowInv` (a call, an event and
  a gateway payment belong to an order that exists, and rows never change theirs), so
  the theorems above hold of the payment code. `OnlyTheGatewayConfirms` adds
  `MoneyInv`: a fetched, saved or recorded capture is one the gateway has made, and
  gateway captures are final.
* `AnswersMeanRecords`, `FlowTypesHold`, by `TrueInv`: rows, events and every step of every call are
  true of the gateway and of the captures recorded so far. What makes it inductive is `Kept`, the
  relation of two states that no step breaks (whose a row is, what the gateway holds, what is recorded):
  a fact about one call survives the steps of all others because it is stable under `Kept`.
* `NoPaidOrderLeftBehind` adds `BeingConfirmed`: without a lost call or a retry, an order that waits
  although its capture is recorded has a worker that is about to confirm it.

**Refunds and returns.**

* `ExactUntilOvertaken`, `RefundsKeepTheLedger`, `RefundTypesHold`, by `RefundInv`: rows and
  notices follow the gateway, a row is inserted by one call, and every copy of the Payment
  row, not only the row itself, counts what went through and nothing twice; a copy that is
  about to add a refund does not have it yet. The copies are in the invariant because each
  may become the row.
* `NeverMoreBackThanPaid`, by `BalanceInv`: while a refund is being asked for, nobody else asks,
  none is open, and it fits into what is left after all that went back.
* `ReturnTypesHold`, `NoUnitReturnedTwice`, `RefundedStays`, by `ReturnInv`: beside the refunds' invariant,
  what each desk has loaded still fits (`DeskInv`), a call for a return is for one that was received, and
  the claims of all requests, summed, stay within the order and bound what was put back. The types say that a
  return past its approval has a shipment, is at the desk that is about to make one, or is in `dropped`.
  Units and refunded returns are safe as long as no check was overtaken by another write: the overlap itself, which
  nothing in the code prevents, is excluded by the properties' condition.
  `ReturnsPayBackOnce` carries `BalanceInv` over to returns.

**Customers.**

* `OneDefault`, by `AddressesInv`: until two requests of a buyer met, one request at a time is between
  its statements, and `ReliesOn` says of each statement what the copies it goes by still say rightly.
* `OneReviewEach`, by `StoreInv`: the unique keys hold under any overlap; the count of clicks is tied to
  the wish and to what a request has seen only for buyers whose requests never overlapped.
* `AlertsAreAnswered`, by `AlertsInv`: one mailing at a time; what it has not mailed yet is pending.
* `OrdersCharge`, `LimitsHold`, `UnitsOrderedOnce`, `InvoicesAddUp`, by `CheckoutsInv`: what a checkout has
  read so far is the cart as it stands, and what it has reckoned is right, while nobody disturbed it (`ChargedInv`),
  redemptions plus the checkouts past their form stay within the coupon's limits (`RoomInv`), and units
  asked for are in the cart, in a request's hands, or ordered (`UnitsInv`). The last theorem rests
  on lemmas about `Quantized`, the rounding of `Decimal.quantize`.
* `ListedAtThePriceCharged` is about operators: the price a listing filters by is the price that is charged.
* `StaffReadTheRows` (`ReportsAgree`). `ReportsInv` is small: an order was paid for when its status is a paid one,
  leaves something to pay, and got back no more than that. The work is arithmetic. Every share
  is a numerator over `CommonDenominator`, which is a multiple of every subtotal (`DenominatorIsCommon`); so the
  shares of one order add up to it (`SharesAddUp`), the lines sold can be summed by order or by product
  (`OverOrders`, `OverProducts`), and a column rounded row by row misses its exact sum by half a paisa a row
  (`RoundedColumn`). The dashboard's half splits the same sums by day, by status, and into net value
  and tax. Its stock half needs `DraftSound`: what a draft found low stays recognisable as shelf less
  arrivals.

**The back office.**

* `DocumentNumbersAddUp`, by `NumbersInv`: a number that was given out is with one invoice, with one
  writer, or wasted, and one writer at a time is between a purchase order's number and its commit.
* `ReceiptsAreReal` and `SupplyStatusTells`, by `SupplyInv`: `LinesSound` holds however pages overlap
  (a copy claims no more than has arrived by now), `Alone` until they do. So that a line claims no more than
  arrived is unconditional; that it claims all of it, and that the status tells, ends with the first overlap.
* `DatesAlwaysMatch`, `OrderAndTrailFollow`, `ShipmentTypesHold`, by `ShipmentInv`: every copy that
  may become the row has the date that a delivered or picked up status needs, until staff type something into the
  form; and `OneAtATime` says at each of a save's steps how far row, order and trail have come,
  until two saves cross or a shipper dies in one.
* `TrailsStayChains` and `BuyersToldOnce`, by `NoticesInv` and `LettersInv`: the letters sent for a status and the
  officers who still owe one make up the entries of that status. `LettersMailedOnce`, by `EmailsInv`.
* `PartsStep` says that a step of the back office is a step of each part or leaves it alone, so each part's
  invariant holds beside the others (`PartsInvHolds`); `BackOfficeTypesHold` and the theorems about
  properties of the run `back_office` follow. `LettersMailedOnce`, `DatesAlwaysMatch` and
  `ListedAtThePriceCharged` state what no run checks.

**Induction over data.** The library's induction theorems cannot be applied by the installed provers,
because they take an operator. `FiniteSums` goes around that: `SubsetInduction` and `CountingInduction` take a
SET that contains the empty set (or 0) and is closed under one more element, proved from a
well-founded ordering. `SumOver(f, S)` is the unique function on subsets that adds the values of f one
after the other, and a `MapThenSumSet` of the models is shown equal to it once per operator, because a
fold's own definition is a CHOOSE over such functions. From there sums can be split, scaled, regrouped
by class, compared and counted, and products (the common denominator) have their factors.

**Model-checked only**: liveness (`EveryCallEnds`, `CapturesGetRecorded`, `UnpaidOrdersClose`,
`RefundResultsArrive`, `CarrierNewsArrives`, `LettersEnd`), because the provers know neither fairness nor
ENABLED; and the six findings, which are counterexamples.

## 5. Not modelled

* The forms of the admin that save every field of the row they loaded (`catalog/admin.py` 242,
  `cart/admin.py` 92-177, `returns/admin.py`), and so write counters and statuses around the services: the
  ledger invariant does not survive them. The stale saves of the shipment and the purchase order form
  are modelled, because these rows are protected by nothing else either.
* Lines of deleted products (skipped by every loop, so `Lines` simply loses them); variants
  in cart lines (Pricing has their prices); pincodes and validity dates, which only refuse.
* The return window in days (a delivered order is in it), purchase orders typed in by hand and
  the editing of their lines, retention of webhook events.
* A payment the gateway itself reports as refunded without our having asked, and unknown gateway states.
* PDFs, templates, images, sorting, paging, exports, page content, the picture weight tool,
  authentication and deployment: no protocol and no state that two actors share, or Django's own.

Two things that the reports do by design of the code and that a reader of the models may
wonder about: `catalog/profitability.py` 18 speaks of revenue "actually received", while discounts are
deducted nowhere and refunds are deducted with their GST from revenue without it; and a
discount price of 0.00 is the price a listing filters by, while the buyer is charged the full price
(excepted in `ListedAtThePriceCharged`).

## 6. Plan

1. *Model*: variants in carts, hand-made purchase orders, the whole-row forms of products and
   orders as fault actions of StockLedger and OrderLifecycle.
2. *Proofs*: an abstract specification of the purchase order's receipts and of the coupon's redemptions,
   with the refinements that `SupplyInv` and `RoomInv` suggest; the order's promises without the history
   variables, as action properties of the carts and the address book.
